------------------------------ MODULE NpkStore ------------------------------
(***************************************************************************)
(* The object store of npkFS (kernel/src/storage/npkfs/storage.rs,         *)
(* journal.rs, bitmap.rs, sb_io.rs): `put' with its unlocked device write, *)
(* the four-phase commit, the sweep's removals, TRIM, keyslot updates,     *)
(* power loss with a volatile write cache, and the journal replay of       *)
(* `mount'.                                                                *)
(*                                                                         *)
(* What is abstracted.  The copy-on-write B-tree is the set of its node    *)
(* blocks and, per object, the set of blocks its entry names (data extents *)
(* and indirect chain).  An insert or delete replaces a set of node blocks *)
(* by freshly allocated ones.  The next-fit allocator may return any free  *)
(* block.  The contents of a data or node block are not represented: only  *)
(* whether the bytes written last have reached stable media (`cacheDirty', *)
(* `devDirty') and whether the block was discarded (`trimmed').  Journal   *)
(* blocks and bitmap blocks do have contents: at every address `view' is   *)
(* what the block cache holds, `top' what was last handed to the device,   *)
(* `limbo' everything handed to it since its last FLUSH, `stable' what is  *)
(* on stable media.  A power cut leaves at each address, independently,    *)
(* one of stable, limbo or view (a dirty cache block may have been evicted *)
(* at any moment).  A superblock is written with FUA and its checksum      *)
(* makes a torn write invisible, so it lands whole or not at all; `diskSb' *)
(* is the one `read_best' would find.                                      *)
(***************************************************************************)
EXTENDS Integers, FiniteSets

CONSTANTS
    Blocks,         \* block numbers of the data area
    Pages,          \* bitmap blocks
    PageOf,         \* the bitmap block that holds a block's bit
    Objects,        \* content hashes
    InitTree,       \* the tree setup left behind
    Anchored,       \* objects every live root reaches: the sweep keeps them
    SizeOf,         \* how many blocks an object needs
    Tasks,          \* fibers that call `put'
    JournalBlocks,  \* JOURNAL_BLOCKS, length of the journal ring
    MaxJournalEntries, \* MAX_JOURNAL_ENTRIES, frees one journal block holds
    Chained,        \* objects with more extents than an entry holds inline
    MaxCow,         \* bound: nodes one insert or delete may allocate
    MaxGeneration,  \* bound: superblock generations
    MaxCrashes,     \* bound: power cuts
    MaxFaults       \* bound: failed device commands

ASSUME BlocksAssumption == Blocks \subseteq Nat /\ IsFiniteSet(Blocks)
ASSUME PagesAssumption ==
    /\ PageOf \in [Blocks -> Pages]
    /\ Pages \subseteq Nat
    /\ Pages \cap (0 .. JournalBlocks - 1) = {}
ASSUME SizesAssumption ==
    /\ Objects # {}
    /\ SizeOf \in [Objects -> Nat \ {0}]
    /\ JournalBlocks \in Nat \ {0}
    /\ MaxJournalEntries \in Nat \ {0}

\* A volume that has been set up: its tree is never empty again, since the
\* sweep keeps what a live root reaches.
ASSUME InitTreeAssumption ==
    /\ Anchored \subseteq Objects
    /\ InitTree \in [nodes : SUBSET Blocks \ {{}}, objs : [Objects -> SUBSET Blocks]]
    /\ \A o \in Anchored : InitTree.objs[o] # {}
    /\ \A o \in Objects :
         /\ InitTree.objs[o] \cap InitTree.nodes = {}
         /\ \A p \in Objects \ {o} : InitTree.objs[o] \cap InitTree.objs[p] = {}

VARIABLES
    mounted,      \* FS is Some(State)
    tree,         \* sb.btree_root in memory: what a walk from it finds
    bits,         \* allocated blocks in the in-memory bitmap
    pageDirty,    \* Bitmap::dirty_blocks
    trimPending,  \* Bitmap::trim_pending
    pendingOld,   \* State::pending_old_blocks
    jnl,          \* Journal: head, seq, pending_frees, uncommitted_blocks
    sb,           \* the superblock in memory: generation, journal position
    com,          \* the commit in progress under the store lock
    task,         \* per fiber: the `put' it is in
    cacheDirty,   \* node blocks dirty in the block cache
    devDirty,     \* data and node blocks in the device's volatile cache
    trimmed,      \* blocks discarded and not written since
    view, top, limbo, stable,  \* journal and bitmap blocks, see above
    diskSb,       \* the best superblock on stable media
    crashes, faults,
    leaked        \* history: blocks that operations which ran out of room left allocated,
                  \* until a power cut

memVars  == <<tree, bits, pageDirty, trimPending, pendingOld, jnl, sb>>
metaVars == <<view, top, limbo, stable>>
dataVars == <<cacheDirty, devDirty, trimmed>>
vars == <<mounted, memVars, com, task, dataVars, metaVars, diskSb, crashes, faults, leaked>>

-----------------------------------------------------------------------------
JPos == 0 .. JournalBlocks - 1
Addr == JPos \cup Pages

\* A journal block.  `magic' is FALSE for a block mkfs zeroed.
NoEntry == [magic |-> FALSE, seq |-> 0, committed |-> FALSE, frees |-> {}]

Refs(t) == t.nodes \cup UNION {t.objs[o] : o \in Objects}

Stored(t) == {o \in Objects : t.objs[o] # {}}

Free == Blocks \ bits

\* Blocks of one bitmap page that are set in `b'.
PageBits(b, p) == {x \in b : PageOf[x] = p}

PagesOf(S) == {PageOf[x] : x \in S}

Locked == com.phase # "idle"

Idle == [phase |-> "idle", old |-> {}, freed |-> {}]

NoPut == [step |-> "idle", obj |-> CHOOSE o \in Objects : TRUE, ext |-> {}]

TypeOK ==
    /\ mounted \in BOOLEAN
    /\ tree \in [nodes : SUBSET Blocks, objs : [Objects -> SUBSET Blocks]]
    /\ bits \subseteq Blocks
    /\ pageDirty \subseteq Pages
    /\ trimPending \subseteq Blocks
    /\ pendingOld \subseteq Blocks
    /\ jnl \in [head : JPos, seq : Nat, frees : SUBSET Blocks, uncommitted : SUBSET JPos]
    /\ sb \in [gen : Nat, jhead : JPos, jseq : Nat]
    /\ com \in [phase : 
                 {"idle", "unlink", "prepare", "sync", "barrier", "ksbarrier", "sb", "kssb", "final"},
                old : SUBSET Blocks, freed : SUBSET Blocks]
    /\ task \in [Tasks -> [step : {"idle", "missed", "alloced", "written"},
                           obj : Objects, ext : SUBSET Blocks]]
    /\ cacheDirty \subseteq Blocks
    /\ devDirty \subseteq Blocks
    /\ trimmed \subseteq Blocks
    /\ diskSb \in [gen : Nat, jhead : JPos, jseq : Nat,
                   tree : [nodes : SUBSET Blocks, objs : [Objects -> SUBSET Blocks]]]
    /\ \A m \in {view, top, stable} :
         /\ DOMAIN m = Addr
         /\ \A p \in Pages : m[p] \subseteq Blocks
         /\ \A j \in JPos :
              m[j] \in [magic : BOOLEAN, seq : Nat, committed : BOOLEAN, frees : SUBSET Blocks]
    /\ DOMAIN limbo = Addr
    /\ crashes \in Nat
    /\ faults \in Nat
    /\ leaked \subseteq Blocks

Init ==
    /\ mounted = TRUE
    /\ tree = InitTree
    /\ bits = Refs(InitTree)
    /\ pageDirty = {} /\ trimPending = {} /\ pendingOld = {}
    /\ jnl = [head |-> 0, seq |-> 0, frees |-> {}, uncommitted |-> {}]
    /\ sb = [gen |-> 1, jhead |-> 0, jseq |-> 0]
    /\ com = Idle
    /\ task = [t \in Tasks |-> NoPut]
    /\ cacheDirty = {} /\ devDirty = {} /\ trimmed = {}
    /\ stable = [a \in Addr |-> IF a \in Pages THEN PageBits(bits, a) ELSE NoEntry]
    /\ view = stable /\ top = stable
    /\ limbo = [a \in Addr |-> {}]
    /\ diskSb = [gen |-> 1, jhead |-> 0, jseq |-> 0, tree |-> InitTree]
    /\ crashes = 0 /\ faults = 0 /\ leaked = {}

-----------------------------------------------------------------------------
(* The two kinds of flush.                                                 *)

\* BlockCache::flush with cache contents v: dirty blocks go to the device.
PushView(v) ==
    /\ view' = v /\ top' = v
    /\ limbo' = [a \in Addr |-> limbo[a] \cup ({view[a], v[a]} \ {top[a]})]
    /\ UNCHANGED stable

\* BlockCache::flush of the node blocks.
PushNodes ==
    /\ devDirty' = devDirty \cup cacheDirty
    /\ cacheDirty' = {}

\* Mutant: the FLUSH of phase 2 is left out.
NoDeviceBarrier == UNCHANGED <<metaVars, dataVars>>

\* blkdev::flush: what the device was handed is now on stable media.  That
\* includes blocks the cache evicted since its last flush.
DeviceBarrier ==
    /\ \E evicted \in SUBSET {a \in Addr : view[a] # top[a]} :
         top' = [a \in Addr |-> IF a \in evicted THEN view[a] ELSE top[a]]
    /\ stable' = top'
    /\ limbo' = [a \in Addr |-> {}]
    /\ devDirty' = {}
    /\ UNCHANGED <<view, cacheDirty, trimmed>>

\* Bitmap::free
FreeBits(S) ==
    /\ bits' = bits \ S
    /\ pageDirty' = pageDirty \cup PagesOf(S \cap bits)
    /\ trimPending' = trimPending \cup S

-----------------------------------------------------------------------------
(* put_inner: lookup | allocate | device write | insert, unlocked between. *)

Ready == mounted /\ ~Locked

PutLookup(t, o) ==
    /\ Ready /\ task[t].step = "idle"
    /\ tree.objs[o] = {}
    /\ task' = [task EXCEPT ![t] = [step |-> "missed", obj |-> o, ext |-> {}]]
    /\ UNCHANGED <<mounted, memVars, com, dataVars, metaVars, diskSb, crashes, faults, leaked>>

PutAlloc(t) ==
    /\ Ready /\ task[t].step = "missed"
    /\ \E ext \in SUBSET Free :
         /\ Cardinality(ext) = SizeOf[task[t].obj]
         /\ bits' = bits \cup ext
         /\ pageDirty' = pageDirty \cup PagesOf(ext)
         /\ cacheDirty' = cacheDirty \ ext
         /\ task' = [task EXCEPT ![t].step = "alloced", ![t].ext = ext]
    /\ UNCHANGED <<mounted, tree, trimPending, pendingOld, jnl, sb, com, devDirty, trimmed,
                   metaVars, diskSb, crashes, faults, leaked>>

\* No room: by then every free block was taken; all are given back and the
\* caller sees DiskFull.
PutNoRoom(t) ==
    /\ Ready /\ task[t].step = "missed"
    /\ Cardinality(Free) < SizeOf[task[t].obj]
    /\ pageDirty' = pageDirty \cup PagesOf(Free)
    /\ trimPending' = trimPending \cup Free
    /\ task' = [task EXCEPT ![t] = NoPut]
    /\ UNCHANGED <<mounted, tree, bits, pendingOld, jnl, sb, com, dataVars, metaVars, diskSb, crashes,
                   faults, leaked>>

\* The device write runs without the store lock.
PutWrite(t) ==
    /\ mounted /\ task[t].step = "alloced"
    /\ devDirty' = devDirty \cup task[t].ext
    /\ trimmed' = trimmed \ task[t].ext
    /\ task' = [task EXCEPT ![t].step = "written"]
    /\ UNCHANGED <<mounted, memVars, com, cacheDirty, metaVars, diskSb, crashes, faults, leaked>>

\* The device write fails: rollback_alloc.
PutWriteFail(t) ==
    /\ Ready /\ task[t].step = "alloced"
    /\ faults < MaxFaults /\ faults' = faults + 1
    /\ FreeBits(task[t].ext)
    /\ cacheDirty' = cacheDirty \ task[t].ext
    /\ task' = [task EXCEPT ![t] = NoPut]
    /\ UNCHANGED <<mounted, tree, pendingOld, jnl, sb, com, devDirty, trimmed, metaVars, diskSb,
                   crashes, leaked>>

\* write_indirect_extents: the chain block of an object that needs one
ChainChoices(o) == IF o \in Chained THEN {{b} : b \in Free} ELSE {{}}

\* No block for the chain: the error leaves put_inner without a rollback.
PutChainNoRoom(t) ==
    /\ Ready /\ task[t].step = "written"
    /\ ChainChoices(task[t].obj) = {}
    /\ leaked' = leaked \cup task[t].ext
    /\ task' = [task EXCEPT ![t] = NoPut]
    /\ UNCHANGED <<mounted, memVars, com, dataVars, metaVars, diskSb, crashes, faults>>

\* Mutant: the second copy's blocks are not given back.
PutDuplicateKeeps(t) ==
    /\ Ready /\ task[t].step = "written"
    /\ tree.objs[task[t].obj] # {}
    /\ task' = [task EXCEPT ![t] = NoPut]
    /\ UNCHANGED <<mounted, memVars, com, dataVars, metaVars, diskSb, crashes, faults, leaked>>

\* btree::insert finds the hash: another put of the same content was first.
\* The chain block is allocated, written and given back with the extents.
PutDuplicate(t) ==
    /\ Ready /\ task[t].step = "written"
    /\ tree.objs[task[t].obj] # {}
    /\ \E chain \in ChainChoices(task[t].obj) :
         /\ bits' = bits \ task[t].ext
         /\ pageDirty' = pageDirty \cup PagesOf(task[t].ext \cup chain)
         /\ trimPending' = trimPending \cup task[t].ext \cup chain
         /\ cacheDirty' = cacheDirty \ (task[t].ext \cup chain)
    /\ task' = [task EXCEPT ![t] = NoPut]
    /\ UNCHANGED <<mounted, tree, pendingOld, jnl, sb, com, devDirty, trimmed, metaVars, diskSb,
                   crashes, faults, leaked>>

\* The copy-on-write step of btree::insert and btree::delete: the nodes on
\* the path are written to new blocks; the old ones stay as they are.
\* `chain' is allocated and written along with them.
Cow(oldN, newN, chain) ==
    /\ oldN # {}
    /\ (tree.nodes \ oldN) \cup newN # {}
    /\ bits' = bits \cup newN \cup chain
    /\ pageDirty' = pageDirty \cup PagesOf(newN \cup chain)
    /\ cacheDirty' = cacheDirty \cup newN \cup chain
    /\ trimmed' = trimmed \ (newN \cup chain)

CowChoices == {N \in SUBSET Free : Cardinality(N) \leq MaxCow}

PutInsert(t) ==
    /\ Ready /\ task[t].step = "written"
    /\ tree.objs[task[t].obj] = {}
    /\ \E oldN \in SUBSET tree.nodes, newN \in CowChoices \ {{}},
         chain \in ChainChoices(task[t].obj) :
         /\ chain \cap newN = {}
         /\ Cow(oldN, newN, chain)
         /\ tree' = [nodes |-> (tree.nodes \ oldN) \cup newN,
                     objs |-> [tree.objs EXCEPT ![task[t].obj] = task[t].ext \cup chain]]
         /\ pendingOld' = pendingOld \cup oldN
    /\ task' = [task EXCEPT ![t] = NoPut]
    /\ UNCHANGED <<mounted, trimPending, jnl, sb, com, devDirty, metaVars, diskSb, crashes,
                   faults, leaked>>

\* btree::insert runs out of blocks on the path: the nodes it did allocate
\* stay allocated, the extents and the chain are rolled back.
PutInsertNoRoom(t) ==
    /\ Ready /\ task[t].step = "written"
    /\ tree.objs[task[t].obj] = {}
    /\ \E chain \in ChainChoices(task[t].obj) :
         LET mine == task[t].ext \cup chain
             lost == Free \ chain
         IN  /\ Cardinality(lost) < MaxCow
             /\ bits' = Blocks \ mine
             /\ pageDirty' = pageDirty \cup PagesOf(lost \cup mine)
             /\ trimPending' = trimPending \cup mine
             /\ cacheDirty' = (cacheDirty \cup lost) \ mine
             /\ trimmed' = trimmed \ lost
             /\ leaked' = leaked \cup lost
    /\ task' = [task EXCEPT ![t] = NoPut]
    /\ UNCHANGED <<mounted, tree, pendingOld, jnl, sb, com, devDirty, metaVars, diskSb, crashes,
                   faults>>

-----------------------------------------------------------------------------
(* Starting a commit.                                                      *)

\* commit_root: everything the puts deferred, with or without a root flip.
CommitRoot(flip) ==
    /\ Ready /\ sb.gen < MaxGeneration
    /\ flip \/ pendingOld # {}
    /\ sb' = [sb EXCEPT !.gen = @ + 1]
    /\ jnl' = [jnl EXCEPT !.frees = @ \cup pendingOld]
    /\ com' = [phase |-> "prepare", old |-> pendingOld, freed |-> {}]
    /\ pendingOld' = {}
    /\ UNCHANGED <<mounted, tree, bits, pageDirty, trimPending, task, dataVars, metaVars, diskSb,
                   crashes, faults, leaked>>

\* remove_many takes the store lock for one batch of the sweep.
SweepBegin ==
    /\ Ready /\ sb.gen < MaxGeneration
    /\ com' = [Idle EXCEPT !.phase = "unlink"]
    /\ UNCHANGED <<mounted, memVars, task, dataVars, metaVars, diskSb, crashes, faults, leaked>>

Unlink(o) ==
    /\ com.phase = "unlink"
    /\ tree.objs[o] # {} /\ o \notin Anchored
    /\ \E oldN \in SUBSET tree.nodes, newN \in CowChoices :
         /\ Cow(oldN, newN, {})
         /\ tree' = [nodes |-> (tree.nodes \ oldN) \cup newN,
                     objs |-> [tree.objs EXCEPT ![o] = {}]]
         /\ jnl' = [jnl EXCEPT !.frees = @ \cup oldN \cup tree.objs[o]]
         /\ com' = [com EXCEPT !.old = @ \cup oldN, !.freed = @ \cup tree.objs[o]]
    /\ UNCHANGED <<mounted, trimPending, pendingOld, sb, task, devDirty, metaVars, diskSb,
                   crashes, faults, leaked>>

\* btree::delete runs out of blocks: logged, counted, the sweep goes on.
UnlinkNoRoom ==
    /\ com.phase = "unlink"
    /\ ~(Stored(tree) \subseteq Anchored)
    /\ Cardinality(Free) < MaxCow /\ Free # {}
    /\ bits' = Blocks
    /\ pageDirty' = pageDirty \cup PagesOf(Free)
    /\ cacheDirty' = cacheDirty \cup Free
    /\ trimmed' = trimmed \ Free
    /\ leaked' = leaked \cup Free
    /\ UNCHANGED <<mounted, tree, trimPending, pendingOld, jnl, sb, com, task, devDirty, metaVars,
                   diskSb, crashes, faults>>

\* commit_removals, up to its call of commit
SweepCommit ==
    /\ com.phase = "unlink"
    /\ IF com.old \cup com.freed = {}
         THEN com' = Idle /\ UNCHANGED sb
         ELSE /\ com' = [com EXCEPT !.phase = "prepare"]
              /\ sb' = [sb EXCEPT !.gen = @ + 1]
    /\ UNCHANGED <<mounted, tree, bits, pageDirty, trimPending, pendingOld, jnl, task, dataVars,
                   metaVars, diskSb, crashes, faults, leaked>>

-----------------------------------------------------------------------------
(* The four phases of commit, under the store lock.                        *)

\* Journal::prepare sorts the frees, merges neighbours into ranges and
\* writes MaxJournalEntries ranges to a block; ranges beyond the ring's size
\* go unjournaled.
RangeStarts(S) == {b \in S : b - 1 \notin S}

RangeNo(S, b) == Cardinality({c \in RangeStarts(S) : c < b + 1}) - 1

Chunk(S, i) == {b \in S : RangeNo(S, b) \div MaxJournalEntries = i}

ChunksOf(S) ==
    LET full == (Cardinality(RangeStarts(S)) + MaxJournalEntries - 1) \div MaxJournalEntries
    IN  IF full > JournalBlocks THEN JournalBlocks ELSE full

\* The ring position of the i-th block written from position h.
Slot(h, i) == (h + i) % JournalBlocks

\* The journal after n blocks have been written under the next sequence
\* number, into the block cache.
WriteChunks(n) ==
    LET written == 0 .. n - 1
        slots == {Slot(jnl.head, i) : i \in written}
        entry(i) == [magic |-> TRUE, seq |-> jnl.seq + 1, committed |-> FALSE,
                     frees |-> Chunk(jnl.frees, i)]
    IN  /\ jnl' = [jnl EXCEPT !.head = Slot(@, n), !.seq = @ + 1, !.uncommitted = slots,
                              !.frees = IF n = ChunksOf(@) THEN {} ELSE @]
        /\ view' = [a \in Addr |->
             IF a \in slots THEN entry(CHOOSE i \in written : Slot(jnl.head, i) = a) ELSE view[a]]
        /\ limbo' = [a \in Addr |-> limbo[a] \cup ({view[a]} \ {top[a]})]
        /\ UNCHANGED <<top, stable>>

\* Phase 1
Prepare ==
    /\ com.phase = "prepare"
    /\ IF jnl.frees = {} THEN UNCHANGED <<jnl, metaVars>> ELSE WriteChunks(ChunksOf(jnl.frees))
    /\ sb' = [sb EXCEPT !.jhead = jnl'.head, !.jseq = jnl'.seq]
    /\ com' = [com EXCEPT !.phase = "sync"]
    /\ UNCHANGED <<mounted, tree, bits, pageDirty, trimPending, pendingOld, task, dataVars, diskSb,
                   crashes, faults, leaked>>

\* The cache cannot take a journal block: it had to evict and the write
\* failed.  The frees stay recorded.
PrepareFail ==
    /\ com.phase = "prepare" /\ jnl.frees # {}
    /\ faults < MaxFaults /\ faults' = faults + 1
    /\ \E n \in 0 .. ChunksOf(jnl.frees) - 1 : WriteChunks(n)
    /\ com' = Idle
    /\ UNCHANGED <<mounted, tree, bits, pageDirty, trimPending, pendingOld, sb, task, dataVars,
                   diskSb, crashes, leaked>>

\* Bitmap::sync, into the block cache
Synced == [a \in Addr |-> IF a \in pageDirty THEN PageBits(bits, a) ELSE view[a]]

\* Phase 2: bitmap.sync and cache.flush
Sync ==
    /\ com.phase = "sync"
    /\ PushView(Synced)
    /\ pageDirty' = {}
    /\ PushNodes
    /\ com' = [com EXCEPT !.phase = "barrier"]
    /\ UNCHANGED <<mounted, tree, bits, trimPending, pendingOld, jnl, sb, task, trimmed, diskSb,
                   crashes, faults, leaked>>

\* Phase 2: the barrier
Barrier ==
    /\ com.phase \in {"barrier", "ksbarrier"}
    /\ DeviceBarrier
    /\ com' = [com EXCEPT !.phase = IF @ = "barrier" THEN "sb" ELSE "kssb"]
    /\ UNCHANGED <<mounted, memVars, task, diskSb, crashes, faults, leaked>>

SbImage == [gen |-> sb.gen, jhead |-> sb.jhead, jseq |-> sb.jseq, tree |-> tree]

\* Phase 2: write_next_durable
WriteSb ==
    /\ com.phase \in {"sb", "kssb"}
    /\ diskSb' = SbImage
    /\ com' = IF com.phase = "sb" THEN [com EXCEPT !.phase = "final"] ELSE Idle
    /\ UNCHANGED <<mounted, memVars, task, dataVars, metaVars, crashes, faults, leaked>>

\* Journal::finalize, into the block cache
Finalized == [a \in Addr |->
    IF a \in jnl.uncommitted THEN [view[a] EXCEPT !.committed = TRUE] ELSE view[a]]

\* Phases 3 and 4, and the release of the extents in commit_removals
Finish ==
    /\ com.phase = "final"
    /\ PushView(Finalized)
    /\ PushNodes
    /\ jnl' = [jnl EXCEPT !.uncommitted = {}]
    /\ FreeBits(com.old \cup com.freed)
    /\ com' = Idle
    /\ UNCHANGED <<mounted, tree, pendingOld, sb, task, trimmed, diskSb, crashes, faults, leaked>>

\* A device command of the commit fails and `?' leaves the function.  A
\* superblock write that reports an error may have reached the media.
CommitFail ==
    /\ com.phase \in {"sync", "barrier", "ksbarrier", "sb", "kssb", "final"}
    /\ faults < MaxFaults /\ faults' = faults + 1
    /\ com' = Idle
    /\ diskSb' \in IF com.phase \in {"sb", "kssb"} THEN {diskSb, SbImage} ELSE {diskSb}
    /\ view' = CASE com.phase = "sync" -> Synced
                 [] com.phase = "final" -> Finalized
                 [] OTHER -> view
    /\ pageDirty' = IF com.phase = "sync" THEN {} ELSE pageDirty
    /\ jnl' = IF com.phase = "final" THEN [jnl EXCEPT !.uncommitted = {}] ELSE jnl
    /\ limbo' = [a \in Addr |-> limbo[a] \cup ({view[a]} \ {top[a]})]
    /\ UNCHANGED <<mounted, tree, bits, trimPending, pendingOld, sb, task, dataVars, top, stable,
                   crashes, leaked>>

-----------------------------------------------------------------------------
(* TRIM, keyslots, shutdown, power loss.                                   *)

\* Mutant: discards every range freed since the last trim.
TrimAll ==
    /\ Ready /\ trimPending # {}
    /\ trimmed' = trimmed \cup trimPending
    /\ trimPending' = {}
    /\ UNCHANGED <<mounted, tree, bits, pageDirty, pendingOld, jnl, sb, com, task, cacheDirty,
                   devDirty, metaVars, diskSb, crashes, faults, leaked>>

\* storage::trim at the end of gc: discards what is still free; discards that
\* fail are logged, and not tried again
Trim ==
    /\ Ready /\ trimPending # {}
    /\ \E gone \in SUBSET (trimPending \ bits) : trimmed' = trimmed \cup gone
    /\ trimPending' = {}
    /\ UNCHANGED <<mounted, tree, bits, pageDirty, pendingOld, jnl, sb, com, task, cacheDirty,
                   devDirty, metaVars, diskSb, crashes, faults, leaked>>

\* set_keyslot: no journal entry, no bitmap sync; then Barrier and WriteSb
SetKeyslot ==
    /\ Ready /\ sb.gen < MaxGeneration
    /\ sb' = [sb EXCEPT !.gen = @ + 1]
    /\ PushView(view)
    /\ PushNodes
    /\ com' = [Idle EXCEPT !.phase = "ksbarrier"]
    /\ UNCHANGED <<mounted, tree, bits, pageDirty, trimPending, pendingOld, jnl, task, trimmed,
                   diskSb, crashes, faults, leaked>>

\* A passphrase change while no put is waiting for its commit.
SetKeyslotQuiet == tree = diskSb.tree /\ SetKeyslot

\* npkfs::sync ends with a FLUSH that does not take the store lock.
ShutdownFlush ==
    /\ mounted /\ (devDirty # {} \/ stable # top)
    /\ DeviceBarrier
    /\ UNCHANGED <<mounted, memVars, com, task, diskSb, crashes, faults, leaked>>

\* What a power cut may leave at an address
Leftover(a) == {stable[a], view[a]} \cup limbo[a]

\* All combinations of leftovers at the addresses in S
Outcomes(S) ==
    {m \in [S -> UNION {Leftover(a) : a \in S}] : \A a \in S : m[a] \in Leftover(a)}

Crash ==
    /\ mounted /\ crashes < MaxCrashes
    /\ crashes' = crashes + 1
    /\ mounted' = FALSE
    /\ \E m \in Outcomes(JPos), q \in Outcomes(Pages) :
         stable' = [a \in Addr |-> IF a \in JPos THEN m[a] ELSE q[a]]
    /\ view' = stable' /\ top' = stable'
    /\ limbo' = [a \in Addr |-> {}]
    /\ cacheDirty' = {} /\ devDirty' = {}
    /\ com' = Idle
    /\ task' = [t \in Tasks |-> NoPut]
    /\ tree' = diskSb.tree
    /\ bits' = {} /\ pageDirty' = {} /\ trimPending' = {} /\ pendingOld' = {}
    /\ jnl' = [head |-> 0, seq |-> 0, frees |-> {}, uncommitted |-> {}]
    /\ sb' = [gen |-> diskSb.gen, jhead |-> diskSb.jhead, jseq |-> diskSb.jseq]
    /\ leaked' = {}
    /\ UNCHANGED <<trimmed, diskSb, faults>>

\* The i-th journal block that Journal::replay looks at, going back from head
Back(i) == (diskSb.jhead - 1 - i) % JournalBlocks

\* Mutant: entries of earlier commits are replayed too.
ReplayedOld(i) ==
    /\ \A k \in 0 .. i : stable[Back(k)].magic
    /\ stable[Back(i)].committed

\* Journal::replay stops at a block without magic and at a committed entry
\* older than the superblock's sequence number; it skips uncommitted ones.
Replayed(i) ==
    /\ \A k \in 0 .. i :
         /\ stable[Back(k)].magic
         /\ stable[Back(k)].committed => stable[Back(k)].seq >= diskSb.jseq
    /\ stable[Back(i)].committed

ReplayFrees == UNION {stable[Back(i)].frees : i \in {k \in JPos : Replayed(k)}}

Mount ==
    /\ ~mounted
    /\ mounted' = TRUE
    /\ LET loaded == UNION {stable[p] : p \in Pages}
           hit == PagesOf(ReplayFrees \cap loaded)
       IN  /\ bits' = loaded \ ReplayFrees
           /\ trimPending' = ReplayFrees
           /\ PushView([a \in Addr |-> IF a \in hit THEN PageBits(bits', a) ELSE view[a]])
    /\ jnl' = [head |-> diskSb.jhead, seq |-> diskSb.jseq, frees |-> {}, uncommitted |-> {}]
    /\ UNCHANGED <<tree, pageDirty, pendingOld, sb, com, task, dataVars, diskSb, crashes, faults, leaked>>

-----------------------------------------------------------------------------
Step ==
    \/ \E t \in Tasks, o \in Objects : PutLookup(t, o)
    \/ \E t \in Tasks : \/ PutAlloc(t) \/ PutNoRoom(t) \/ PutWrite(t) \/ PutWriteFail(t)
                        \/ PutDuplicate(t) \/ PutChainNoRoom(t) \/ PutInsert(t)
                        \/ PutInsertNoRoom(t)
    \/ \E flip \in BOOLEAN : CommitRoot(flip)
    \/ SweepBegin \/ (\E o \in Objects : Unlink(o)) \/ UnlinkNoRoom \/ SweepCommit
    \/ Prepare \/ PrepareFail \/ Sync \/ Barrier \/ WriteSb \/ Finish \/ CommitFail
    \/ Trim \/ ShutdownFlush \/ Crash \/ Mount

Next == Step \/ SetKeyslotQuiet

NextKeyslot == Step \/ SetKeyslot

Spec == Init /\ [][Next]_vars

\* As Spec, with passphrase changes at any time.
SpecKeyslot == Init /\ [][NextKeyslot]_vars

-----------------------------------------------------------------------------
(* Properties.                                                             *)

\* Blocks some put has allocated and not yet inserted
InFlight == UNION {task[t].ext : t \in Tasks}

\* self_check's `free_but_referenced' stays zero, for the tree in memory and
\* for the tree the superblock on media names: nothing either of them
\* references is ever handed out again, in particular not after a power cut
\* and the journal replay of mount.
NoFreeButReferenced ==
    mounted => Refs(tree) \cup Refs(diskSb.tree) \subseteq bits

\* self_check's `double_alloc' stays zero: node blocks, the extents of each
\* object, the extents puts hold in flight and the blocks waiting to be
\* freed are pairwise disjoint.
NoDoubleAlloc ==
    mounted =>
      /\ \A o \in Objects :
           /\ tree.objs[o] \cap tree.nodes = {}
           /\ \A p \in Objects \ {o} : tree.objs[o] \cap tree.objs[p] = {}
      /\ Refs(tree) \cap InFlight = {}
      /\ (pendingOld \cup com.old \cup com.freed) \cap (Refs(tree) \cup InFlight) = {}
      /\ pendingOld \cap (com.old \cup com.freed) = {}
      /\ \A t, u \in Tasks : t # u => task[t].ext \cap task[u].ext = {}

\* self_check stays clean: no block is free and referenced, and none belongs to
\* two owners, in memory and on media, whatever puts, sweeps, commits and power
\* cuts interleave.
SelfCheckClean == NoFreeButReferenced /\ NoDoubleAlloc

\* The barrier of phase 2 and copy-on-write together: every block the
\* superblock on media references holds its final bytes on stable media.
\* None has a write outstanding in the block cache or in the device, and
\* none has been discarded.
LiveBlocksIntact ==
    Refs(diskSb.tree) \cap (cacheDirty \cup devDirty \cup trimmed) = {}

\* What the superblock on media references is allocated and holds its bytes,
\* also after commands of put, commit and trim that failed.
MediaSound == NoFreeButReferenced /\ LiveBlocksIntact

\* Without a power cut or a failed device command the store loses no block but
\* those of operations that ran out of room: what the bitmap calls allocated is
\* referenced, in flight, waiting to be freed, or was left behind by a `?' on a
\* full disk, where put gives nothing back when no block is free for the chain
\* (storage.rs:977, although the comment at 958 says that every error path does)
\* and an insert or delete keeps the nodes it had copied.
NoLeakWhileHealthy ==
    (crashes = 0 /\ faults = 0) =>
      bits = Refs(tree) \cup InFlight \cup pendingOld \cup com.old \cup com.freed \cup leaked

\* The objects a mount would be able to read: the superblock on media names
\* them and no block on the way has lost its bytes.
SavedObjects ==
    {o \in Stored(diskSb.tree) :
       (diskSb.tree.nodes \cup diskSb.tree.objs[o]) \cap (cacheDirty \cup devDirty \cup trimmed) = {}}

Atomic == INSTANCE AtomicStore WITH
    now <- IF mounted THEN Stored(tree) ELSE SavedObjects,
    saved <- SavedObjects

\* Puts and removals take effect one object at a time and become durable all
\* together when the superblock is written; after a power cut at any point
\* of put, sweep, commit or trim, mount finds exactly the last such state.
ImplementsAtomicStore == Atomic!Spec
=============================================================================
