--------------------------- MODULE NpkStoreProofs ---------------------------
(***************************************************************************)
(* Proofs about NpkStore: whatever puts, sweeps, commits, failed device    *)
(* commands, power cuts and mounts interleave, self_check stays clean, what *)
(* the superblock on media references is allocated and holds its bytes,    *)
(* and the store implements AtomicStore.                                   *)
(*                                                                         *)
(* None of this is inductive by itself: after a power cut it rests on what *)
(* the bitmap and journal blocks can hold then, and that on the order in   *)
(* which a commit writes them.  StoreInv adds                              *)
(*   Tracked  how far the journal's sequence number, the superblock in     *)
(*            memory and the one on media are apart in each phase;         *)
(*   Marked   which bitmap pages agree with the bitmap in memory, and what *)
(*            the barrier has made of the others;                          *)
(*   Media    every bitmap block a power cut may leave marks what the      *)
(*            superblock on media references, and no journal entry that    *)
(*            replay would apply frees any of it;                          *)
(*   Apart, Owned, Bytes  ownership of blocks, by sets: the trees, the     *)
(*            puts in flight, what waits to be freed, what is journaled.   *)
(* LeakInv adds that while nothing fails the bitmap holds these blocks and *)
(* those left behind on a full disk, and no others.                        *)
(***************************************************************************)
EXTENDS NpkStore, Sequences, TLAPS

-----------------------------------------------------------------------------
Tree == [nodes : SUBSET Blocks, objs : [Objects -> SUBSET Blocks]]

Entry == [magic : BOOLEAN, seq : Nat, committed : BOOLEAN, frees : SUBSET Blocks]

Phases ==
    {"idle", "unlink", "prepare", "sync", "barrier", "ksbarrier", "sb", "kssb", "final"}

Put == [step : {"idle", "missed", "alloced", "written"}, obj : Objects, ext : SUBSET Blocks]

\* Everything the cache or the device may hold of the block at an address
Contents(a) == {view[a], top[a], stable[a]} \cup limbo[a]

\* No block of a tree has two owners in it.
Proper(t) ==
    \A o \in Objects :
      /\ t.objs[o] \cap t.nodes = {}
      /\ \A p \in Objects \ {o} : t.objs[o] \cap t.objs[p] = {}

Waiting == pendingOld \cup com.old \cup com.freed

\* Blocks that the journal says, or is about to say, are free
Doomed == jnl.frees \cup UNION {view[j].frees : j \in jnl.uncommitted}

\* What is in memory and what the superblock on media holds, by type
MemTyped ==
    /\ mounted \in BOOLEAN
    /\ tree \in Tree
    /\ bits \subseteq Blocks
    /\ pageDirty \subseteq Pages
    /\ trimPending \subseteq Blocks
    /\ pendingOld \subseteq Blocks
    /\ jnl \in [head : JPos, seq : Nat, frees : SUBSET Blocks, uncommitted : SUBSET JPos]
    /\ sb \in [gen : Nat, jhead : JPos, jseq : Nat]
    /\ com \in [phase : Phases, old : SUBSET Blocks, freed : SUBSET Blocks]
    /\ task \in [Tasks -> Put]
    /\ diskSb \in [gen : Nat, jhead : JPos, jseq : Nat, tree : Tree]

DevTyped ==
    /\ cacheDirty \subseteq Blocks
    /\ devDirty \subseteq Blocks
    /\ trimmed \subseteq Blocks
    /\ DOMAIN view = Addr /\ DOMAIN top = Addr /\ DOMAIN stable = Addr /\ DOMAIN limbo = Addr
    /\ crashes \in Nat
    /\ faults \in Nat

\* Between a power cut and the mount nothing is in memory.
Asleep ==
    ~mounted =>
      /\ tree = diskSb.tree /\ com = Idle /\ pendingOld = {} /\ pageDirty = {}
      /\ jnl.frees = {} /\ jnl.uncommitted = {}
      /\ sb.jhead = diskSb.jhead /\ sb.jseq = diskSb.jseq
      /\ \A t \in Tasks : task[t].ext = {}
      /\ view = stable /\ top = stable /\ limbo = [a \in Addr |-> {}]

Apart ==
    /\ Proper(tree) /\ Proper(diskSb.tree)
    /\ InFlight \cap (Refs(tree) \cup Refs(diskSb.tree)) = {}
    /\ Waiting \cap (Refs(tree) \cup InFlight) = {}
    /\ Doomed \cap (Refs(tree) \cup InFlight) = {}
    /\ pendingOld \cap (com.old \cup com.freed) = {}
    /\ \A t, u \in Tasks : t # u => task[t].ext \cap task[u].ext = {}

Owned ==
    mounted => Refs(tree) \cup Refs(diskSb.tree) \cup InFlight \cup Waiting \cup Doomed \subseteq bits

\* A commit without frees keeps the journal's sequence number, so the entries of
\* the last commit stay valid for replay: then the tree is still the one on
\* media, or the number has moved on since that superblock was written.
Tracked ==
    /\ diskSb.jseq \leq sb.jseq
    /\ mounted => sb.jseq \leq jnl.seq
    /\ \A j \in jnl.uncommitted : view[j].seq = jnl.seq
    /\ (mounted /\ com.phase \in {"idle", "unlink"}) =>
         tree = diskSb.tree \/ diskSb.jseq < jnl.seq \/ jnl.frees \cup pendingOld # {}
    /\ com.phase = "prepare" => tree = diskSb.tree \/ diskSb.jseq < jnl.seq \/ jnl.frees # {}
    /\ com.phase \in {"sync", "barrier", "sb"} =>
         /\ sb.jseq = jnl.seq /\ jnl.frees = {}
         /\ tree = diskSb.tree \/ diskSb.jseq < jnl.seq
    /\ com.phase \in {"ksbarrier", "kssb"} => tree = diskSb.tree
    /\ com.phase = "final" => tree = diskSb.tree /\ diskSb.jseq = jnl.seq /\ jnl.frees = {}
    /\ com.phase \in {"unlink", "prepare"} => com.old \cup com.freed \subseteq jnl.frees
    /\ com.phase \in {"idle", "ksbarrier", "kssb"} => com.old = {} /\ com.freed = {}

Marked ==
    /\ mounted => \A p \in Pages \ pageDirty : view[p] = PageBits(bits, p)
    /\ com.phase \in {"barrier", "sb"} => pageDirty = {} /\ \A p \in Pages : top[p] = view[p]
    /\ com.phase = "sb" => \A p \in Pages : Contents(p) = {view[p]}

PageSafe(S, p) ==
    /\ S \subseteq Blocks
    /\ \A x \in S : PageOf[x] = p
    /\ PageBits(Refs(diskSb.tree), p) \subseteq S

EntrySafe(e) ==
    /\ e \in Entry
    /\ e.committed => e.seq \leq diskSb.jseq
    /\ e.committed /\ e.seq = diskSb.jseq => e.frees \cap Refs(diskSb.tree) = {}

Media ==
    /\ \A p \in Pages : \A S \in Contents(p) : PageSafe(S, p)
    /\ \A j \in JPos : \A e \in Contents(j) : EntrySafe(e)

Bytes ==
    /\ LiveBlocksIntact
    /\ trimmed \cap Refs(tree) = {}
    /\ \A t \in Tasks : task[t].step = "written" => trimmed \cap task[t].ext = {}
    /\ com.phase \in {"barrier", "sb"} => cacheDirty = {}
    /\ com.phase = "sb" => devDirty \cap Refs(tree) = {}

StoreInv ==
    /\ MemTyped
    /\ DevTyped
    /\ Asleep
    /\ Apart
    /\ Owned
    /\ Tracked
    /\ Marked
    /\ Media
    /\ Bytes

-----------------------------------------------------------------------------
(* Trees, pages and puts.                                                  *)

LEMMA InRefs ==
    ASSUME NEW t, NEW x
    PROVE  x \in Refs(t) <=> (x \in t.nodes \/ \E o \in Objects : x \in t.objs[o])
BY Zenon DEF Refs

LEMMA TreeRefs ==
    ASSUME NEW t \in Tree
    PROVE  Refs(t) \subseteq Blocks
<1>1. t.nodes \subseteq Blocks /\ \A o \in Objects : t.objs[o] \subseteq Blocks
  BY Zenon DEF Tree
<1>2. QED
  BY <1>1, InRefs, Zenon

\* One copy-on-write step: nodes `oldN' give way to `newN', and the entry of one
\* object is written as `blocks'.
IsCow(t, u, o, oldN, newN, blocks) ==
    u = [nodes |-> (t.nodes \ oldN) \cup newN, objs |-> [t.objs EXCEPT ![o] = blocks]]

LEMMA CowTree ==
    ASSUME NEW t \in Tree, Proper(t), NEW oldN \in SUBSET t.nodes,
           NEW newN \in SUBSET Blocks, NEW blocks \in SUBSET Blocks, NEW o \in Objects,
           newN \cap blocks = {}, (newN \cup blocks) \cap Refs(t) = {},
           NEW u, IsCow(t, u, o, oldN, newN, blocks)
    PROVE  /\ u \in Tree /\ Proper(u)
           /\ Refs(u) \subseteq Refs(t) \cup newN \cup blocks
           /\ Refs(u) \cap (oldN \cup t.objs[o]) = {}
<1>1. /\ t.nodes \subseteq Blocks
      /\ t.objs \in [Objects -> SUBSET Blocks]
  BY Zenon DEF Tree
<1>2. /\ u.nodes = (t.nodes \ oldN) \cup newN
      /\ u.objs = [t.objs EXCEPT ![o] = blocks]
  BY Zenon DEF IsCow
<1>3. u.objs[o] = blocks /\ \A p \in Objects \ {o} : u.objs[p] = t.objs[p]
  BY <1>1, <1>2, Zenon
<1>4. u \in Tree
  <2>1. u.nodes \in SUBSET Blocks
    BY <1>1, <1>2, Zenon
  <2>2. [t.objs EXCEPT ![o] = blocks] \in [Objects -> SUBSET Blocks]
    BY <1>1, Zenon
  <2>3. QED
    BY <1>2, <2>1, <2>2, Zenon DEF Tree, IsCow
<1>5. \A x \in newN \cup blocks : x \notin t.nodes /\ \A p \in Objects : x \notin t.objs[p]
  BY InRefs, Zenon
<1>6. Proper(u)
  <2> SUFFICES ASSUME NEW p \in Objects
               PROVE  /\ u.objs[p] \cap u.nodes = {}
                      /\ \A q \in Objects \ {p} : u.objs[p] \cap u.objs[q] = {}
    BY Zenon DEF Proper
  <2>1. u.objs[p] \cap u.nodes = {}
    <3>1. CASE p = o
      BY <1>2, <1>3, <1>5, <3>1, Zenon
    <3>2. CASE p # o
      <4>1. t.objs[p] \cap t.nodes = {} /\ u.objs[p] = t.objs[p]
        BY <1>3, <3>2, Zenon DEF Proper
      <4>2. QED
        BY <1>2, <1>5, <4>1, Zenon
    <3>3. QED
      BY <3>1, <3>2, Zenon
  <2>2. ASSUME NEW q \in Objects \ {p} PROVE u.objs[p] \cap u.objs[q] = {}
    <3>1. CASE p = o
      BY <1>3, <1>5, <3>1, Zenon
    <3>2. CASE q = o
      BY <1>3, <1>5, <3>2, Zenon
    <3>3. CASE p # o /\ q # o
      BY <1>3, <3>3, Zenon DEF Proper
    <3>4. QED
      BY <3>1, <3>2, <3>3, Zenon
  <2>3. QED
    BY <2>1, <2>2, Zenon
<1>7. Refs(u) \subseteq Refs(t) \cup newN \cup blocks
  <2> SUFFICES ASSUME NEW x \in Refs(u) PROVE x \in Refs(t) \cup newN \cup blocks
    BY Zenon
  <2>1. CASE x \in u.nodes
    BY <1>2, <2>1, InRefs, Zenon
  <2>2. CASE \E p \in Objects : x \in u.objs[p]
    <3>1. PICK p \in Objects : x \in u.objs[p]
      BY <2>2, Zenon
    <3>2. CASE p = o
      BY <1>3, <3>1, <3>2, Zenon
    <3>3. CASE p # o
      BY <1>3, <3>1, <3>3, InRefs, Zenon
    <3>4. QED
      BY <3>2, <3>3, Zenon
  <2>3. QED
    BY <2>1, <2>2, InRefs, Zenon
<1>8. Refs(u) \cap (oldN \cup t.objs[o]) = {}
  <2> SUFFICES ASSUME NEW x \in Refs(u), x \in oldN \cup t.objs[o] PROVE FALSE
    BY Zenon
  <2>1. x \notin newN \cup blocks
    BY <1>5, Zenon
  <2>2. x \notin u.nodes
    BY <1>2, <2>1, Zenon DEF Proper
  <2>3. PICK p \in Objects : x \in u.objs[p]
    BY <2>2, InRefs, Zenon
  <2>4. p # o /\ x \in t.objs[p]
    BY <1>3, <2>1, <2>3, Zenon
  <2>5. QED
    BY <2>4, Zenon DEF Proper
<1>9. QED
  BY <1>4, <1>6, <1>7, <1>8, Zenon

\* A page none of whose bits change
LEMMA PageStays ==
    ASSUME NEW b, NEW c, NEW T, \A x : x \notin T => (x \in b <=> x \in c),
           NEW p, p \notin PagesOf(T)
    PROVE  PageBits(c, p) = PageBits(b, p)
<1>1. ASSUME NEW x, PageOf[x] = p PROVE x \in b <=> x \in c
  BY <1>1, Zenon DEF PagesOf
<1>2. QED
  BY <1>1, Zenon DEF PageBits

LEMMA PagesTyped ==
    ASSUME NEW S \in SUBSET Blocks
    PROVE  PagesOf(S) \subseteq Pages
BY PagesAssumption, Zenon DEF PagesOf

LEMMA NoPutTyped ==
    NoPut \in Put /\ NoPut.ext = {} /\ NoPut.step = "idle"
<1>1. (CHOOSE o \in Objects : TRUE) \in Objects
  BY SizesAssumption, Zenon
<1>2. QED
  BY <1>1, Zenon DEF NoPut, Put

\* A put ends or starts anew: its blocks are no longer in flight.
LEMMA FlightEnds ==
    ASSUME MemTyped, Apart, NEW t \in Tasks, NEW n \in Put, n.ext = {},
           task' = [task EXCEPT ![t] = n]
    PROVE  /\ task' \in [Tasks -> Put]
           /\ InFlight' \subseteq InFlight
           /\ InFlight' \cap task[t].ext = {}
           /\ \A r, u \in Tasks : r # u => task'[r].ext \cap task'[u].ext = {}
           /\ \A u \in Tasks : u # t => task'[u] = task[u]
           /\ task'[t] = n
<1>1. task \in [Tasks -> Put]
  BY Zenon DEF MemTyped
<1>2. task' \in [Tasks -> Put]
  BY <1>1, Zenon
<1>3. task'[t] = n /\ \A u \in Tasks : u # t => task'[u] = task[u]
  BY <1>1, Zenon
<1>4. InFlight' \subseteq InFlight
  BY <1>3, Zenon DEF InFlight
<1>5. \A u \in Tasks : task'[u].ext \cap task[t].ext = {}
  BY <1>3, Zenon DEF Apart
<1>6. InFlight' \cap task[t].ext = {}
  BY <1>5, ZenonT(40) DEF InFlight
<1>7. ASSUME NEW r \in Tasks, NEW u \in Tasks, r # u PROVE task'[r].ext \cap task'[u].ext = {}
  <2>1. CASE r = t \/ u = t
    BY <1>3, <2>1, Zenon
  <2>2. CASE r # t /\ u # t
    BY <1>3, <1>7, <2>2, Zenon DEF Apart
  <2>3. QED
    BY <2>1, <2>2, Zenon
<1>8. QED
  BY <1>2, <1>3, <1>4, <1>6, <1>7, Zenon

-----------------------------------------------------------------------------
(* What the steps of puts and removals have in common.                     *)

\* Ownership in a step that takes the free blocks `new', gives up the blocks
\* `drop' of a put and makes the blocks `gone' of the tree wait.
Moves(new, gone, drop) ==
    /\ mounted /\ mounted' /\ diskSb' = diskSb /\ Proper(tree)'
    /\ new \cap bits = {} /\ new \subseteq bits'
    /\ gone \subseteq Refs(tree) /\ gone \cap Refs(tree)' = {}
    /\ drop \subseteq InFlight /\ drop \cap (Refs(tree)' \cup InFlight') = {}
    /\ bits \ drop \subseteq bits'
    /\ Refs(tree)' \subseteq Refs(tree) \cup InFlight \cup new
    /\ InFlight' \subseteq InFlight \cup new
    /\ Refs(tree)' \cap InFlight' = {}
    /\ Waiting' \subseteq Waiting \cup gone
    /\ Doomed' \subseteq Doomed \cup gone
    /\ pendingOld' \cap (com'.old \cup com'.freed) = {}
    /\ \A r, u \in Tasks : r # u => task'[r].ext \cap task'[u].ext = {}

LEMMA Settled ==
    ASSUME StoreInv, NEW new, NEW gone, NEW drop, Moves(new, gone, drop)
    PROVE  Apart' /\ Owned'
<1> USE DEF Moves
<1>1. /\ Proper(diskSb.tree)
      /\ InFlight \cap (Refs(tree) \cup Refs(diskSb.tree)) = {}
      /\ Waiting \cap (Refs(tree) \cup InFlight) = {}
      /\ Doomed \cap (Refs(tree) \cup InFlight) = {}
  BY Zenon DEF StoreInv, Apart
<1>2. /\ Refs(tree) \subseteq bits /\ Refs(diskSb.tree) \subseteq bits /\ InFlight \subseteq bits
      /\ Waiting \subseteq bits /\ Doomed \subseteq bits
  BY Zenon DEF StoreInv, Owned
<1>3. Refs(diskSb.tree)' = Refs(diskSb.tree) /\ Proper(diskSb.tree)'
  BY <1>1, Zenon
<1>4. InFlight' \cap (Refs(tree)' \cup Refs(diskSb.tree)') = {}
  BY <1>1, <1>2, <1>3, Zenon
<1>5. Waiting' \cap (Refs(tree)' \cup InFlight') = {}
  BY <1>1, <1>2, Zenon
<1>6. Doomed' \cap (Refs(tree)' \cup InFlight') = {}
  BY <1>1, <1>2, Zenon
<1>7. Apart'
  BY <1>3, <1>4, <1>5, <1>6, Zenon DEF Apart
<1>8. Refs(tree)' \subseteq bits'
  BY <1>2, Zenon
<1>9. Refs(diskSb.tree)' \subseteq bits'
  BY <1>1, <1>2, <1>3, Zenon
<1>10. InFlight' \subseteq bits'
  BY <1>2, Zenon
<1>11. Waiting' \subseteq bits'
  <2>1. gone \cap drop = {}
    BY <1>1, Zenon
  <2>2. QED
    BY <1>1, <1>2, <2>1, Zenon
<1>12. Doomed' \subseteq bits'
  <2>1. gone \cap drop = {}
    BY <1>1, Zenon
  <2>2. QED
    BY <1>1, <1>2, <2>1, Zenon
<1>13. QED
  BY <1>7, <1>8, <1>9, <1>10, <1>11, <1>12, Zenon DEF Owned

\* Ownership after a step that takes nothing.
LEMMA Shrunk ==
    ASSUME StoreInv, mounted, bits' = bits, tree' = tree,
           diskSb'.tree = diskSb.tree \/ diskSb'.tree = tree,
           InFlight' \subseteq InFlight,
           Waiting' \subseteq Waiting \cup Doomed, Doomed' \subseteq Waiting \cup Doomed,
           pendingOld' \cap (com'.old \cup com'.freed) = {},
           \A r, u \in Tasks : r # u => task'[r].ext \cap task'[u].ext = {}
    PROVE  Apart' /\ Owned'
<1>1. /\ Proper(tree) /\ Proper(diskSb.tree)
      /\ InFlight \cap (Refs(tree) \cup Refs(diskSb.tree)) = {}
      /\ Waiting \cap (Refs(tree) \cup InFlight) = {}
      /\ Doomed \cap (Refs(tree) \cup InFlight) = {}
  BY Zenon DEF StoreInv, Apart
<1>2. /\ Refs(tree) \subseteq bits /\ Refs(diskSb.tree) \subseteq bits /\ InFlight \subseteq bits
      /\ Waiting \subseteq bits /\ Doomed \subseteq bits
  BY Zenon DEF StoreInv, Owned
<1>3. Refs(tree)' = Refs(tree) /\ Proper(tree)'
  BY <1>1, Zenon
<1>4. /\ Refs(diskSb.tree)' = Refs(diskSb.tree) \/ Refs(diskSb.tree)' = Refs(tree)
      /\ Proper(diskSb.tree)'
  BY <1>1, Zenon
<1>5. InFlight' \cap (Refs(tree)' \cup Refs(diskSb.tree)') = {}
  BY <1>1, <1>3, <1>4, Zenon
<1>6. Waiting' \cap (Refs(tree)' \cup InFlight') = {}
  BY <1>1, <1>3, Zenon
<1>7. Doomed' \cap (Refs(tree)' \cup InFlight') = {}
  BY <1>1, <1>3, Zenon
<1>8. Apart'
  BY <1>3, <1>4, <1>5, <1>6, <1>7, Zenon DEF Apart
<1>9. QED
  BY <1>2, <1>3, <1>4, <1>8, Zenon DEF Owned

LEMMA MediaStays ==
    ASSUME Media, UNCHANGED <<metaVars, diskSb>>
    PROVE  Media'
BY ZenonT(40) DEF Media, metaVars, Contents, PageSafe, EntrySafe

\* The bits of `T' may change when no commit is past its bitmap sync; their
\* pages are noted.
LEMMA MarkedStays ==
    ASSUME StoreInv, mounted, UNCHANGED metaVars, com'.phase \notin {"barrier", "sb"},
           NEW T, \A x : x \notin T => (x \in bits <=> x \in bits'),
           UNCHANGED pageDirty \/ pageDirty' = pageDirty \cup PagesOf(T),
           T = {} \/ pageDirty' = pageDirty \cup PagesOf(T)
    PROVE  Marked'
<1>1. ASSUME NEW p \in Pages \ pageDirty' PROVE view'[p] = PageBits(bits, p)'
  <2>1. p \notin pageDirty /\ p \notin PagesOf(T)
    BY <1>1, Zenon DEF PagesOf
  <2>2. PageBits(bits', p) = PageBits(bits, p)
    BY <2>1, PageStays
  <2>3. view'[p] = PageBits(bits, p)
    BY <2>1, Zenon DEF StoreInv, Marked, metaVars
  <2>4. QED
    BY <2>2, <2>3, Zenon DEF PageBits
<1>2. QED
  BY <1>1, Zenon DEF Marked

\* Between commits
LEMMA Quiet ==
    ASSUME StoreInv, Ready, UNCHANGED <<mounted, jnl, sb, com, metaVars, diskSb>>,
           (tree' = tree /\ pendingOld' = pendingOld) \/ pendingOld' # {},
           NEW T, \A x : x \notin T => (x \in bits <=> x \in bits'),
           UNCHANGED pageDirty \/ pageDirty' = pageDirty \cup PagesOf(T),
           T = {} \/ pageDirty' = pageDirty \cup PagesOf(T)
    PROVE  Asleep' /\ Tracked' /\ Marked' /\ Media'
<1>1. mounted /\ com.phase = "idle" /\ com'.phase \notin {"barrier", "sb"}
  BY Zenon DEF Ready, Locked
<1>2. Asleep'
  BY <1>1, Zenon DEF Asleep
<1>3. Media'
  BY MediaStays, Zenon DEF StoreInv
<1>4. Tracked'
  BY <1>1, Zenon DEF StoreInv, Tracked, metaVars
<1>5. Marked'
  BY <1>1, MarkedStays, Zenon
<1>6. QED
  BY <1>2, <1>3, <1>4, <1>5, Zenon

\* Writes between commits go to blocks that were free.
LEMMA BytesKept ==
    ASSUME StoreInv, mounted, com'.phase \notin {"barrier", "sb"}, diskSb' = diskSb,
           NEW new, new \cap bits = {}, cacheDirty' \subseteq cacheDirty \cup new,
           devDirty' = devDirty, trimmed' \subseteq trimmed, trimmed' \cap Refs(tree)' = {},
           \A u \in Tasks : task'[u].step = "written" => task'[u] = task[u]
    PROVE  Bytes'
<1>1. LiveBlocksIntact'
  <2>1. Refs(diskSb.tree) \subseteq bits
    BY Zenon DEF StoreInv, Owned
  <2>2. Refs(diskSb.tree) \cap (cacheDirty \cup devDirty \cup trimmed) = {}
    BY Zenon DEF StoreInv, Bytes, LiveBlocksIntact
  <2>3. Refs(diskSb.tree)' = Refs(diskSb.tree)
    BY Zenon
  <2>4. QED
    BY <2>1, <2>2, <2>3, Zenon DEF LiveBlocksIntact
<1>2. ASSUME NEW u \in Tasks, task'[u].step = "written" PROVE trimmed' \cap task'[u].ext = {}
  <2>1. trimmed \cap task[u].ext = {}
    BY <1>2, Zenon DEF StoreInv, Bytes
  <2>2. QED
    BY <1>2, <2>1, Zenon
<1>3. QED
  BY <1>1, <1>2, Zenon DEF Bytes

\* A step of a put that changes nothing but the put, and leaves it empty
LEMMA PutTurns ==
    ASSUME StoreInv, Ready, NEW t \in Tasks, NEW n \in Put, n.ext = {}, n.step # "written",
           task' = [task EXCEPT ![t] = n],
           UNCHANGED <<mounted, memVars, com, dataVars, metaVars, diskSb, crashes, faults>>
    PROVE  StoreInv'
<1>1. MemTyped /\ Apart /\ mounted /\ mounted'
  BY Zenon DEF StoreInv, Ready
<1>2. /\ task' \in [Tasks -> Put] /\ InFlight' \subseteq InFlight
      /\ \A r, u \in Tasks : r # u => task'[r].ext \cap task'[u].ext = {}
      /\ \A u \in Tasks : u # t => task'[u] = task[u]
      /\ task'[t] = n
  BY <1>1, FlightEnds, Zenon
<1>3. MemTyped'
  BY <1>1, <1>2, Zenon DEF MemTyped, memVars
<1>4. DevTyped'
  BY Zenon DEF StoreInv, DevTyped, dataVars, metaVars
<1>5. Asleep' /\ Tracked' /\ Marked' /\ Media'
  <2>1. UNCHANGED <<mounted, jnl, sb, com, metaVars, diskSb, tree, pendingOld, bits, pageDirty>>
    BY Zenon DEF memVars
  <2>2. QED
    BY <2>1, Quiet, Zenon
<1>6. Apart' /\ Owned'
  <2>1. /\ UNCHANGED <<mounted, tree, bits, pendingOld, jnl, com, view, diskSb>>
    BY Zenon DEF memVars, metaVars
  <2>2. /\ Refs(tree)' = Refs(tree) /\ Waiting' = Waiting /\ Doomed' = Doomed /\ Proper(tree)'
    BY <1>1, <2>1, ZenonT(40) DEF Waiting, Doomed, Apart
  <2>3. /\ Refs(tree) \cap InFlight = {}
        /\ pendingOld' \cap (com'.old \cup com'.freed) = {}
    BY <1>1, <2>1, Zenon DEF Apart
  <2>5. QED
    BY <1>1, <1>2, <2>1, <2>2, <2>3, Shrunk, Zenon
<1>7. Bytes'
  <2>1. \A u \in Tasks : task'[u].step = "written" => task'[u] = task[u]
    BY <1>2, Zenon
  <2>2. trimmed' \cap Refs(tree)' = {}
    BY Zenon DEF StoreInv, Bytes, memVars, dataVars
  <2> DEFINE none == {}
  <2>3. none \cap bits = {} /\ cacheDirty' \subseteq cacheDirty \cup none
        /\ devDirty' = devDirty /\ trimmed' \subseteq trimmed
    BY Zenon DEF dataVars
  <2> HIDE DEF none
  <2>4. mounted /\ com'.phase \notin {"barrier", "sb"} /\ diskSb' = diskSb
    BY Zenon DEF Ready, Locked
  <2>5. QED
    BY <2>1, <2>2, <2>3, <2>4, BytesKept, Zenon
<1>8. QED
  BY <1>3, <1>4, <1>5, <1>6, <1>7, Zenon DEF StoreInv

-----------------------------------------------------------------------------
(* put_inner.                                                              *)

LEMMA PutLookupInv ==
    ASSUME StoreInv, NEW t \in Tasks, NEW o \in Objects, PutLookup(t, o)
    PROVE  StoreInv'
<1> DEFINE n == [step |-> "missed", obj |-> o, ext |-> {}]
<1>1. n \in Put /\ n.ext = {} /\ n.step # "written"
  BY Zenon DEF Put
<1>2. Ready /\ task' = [task EXCEPT ![t] = n]
      /\ UNCHANGED <<mounted, memVars, com, dataVars, metaVars, diskSb, crashes, faults>>
  BY Zenon DEF PutLookup
<1> HIDE DEF n
<1>3. QED
  BY <1>1, <1>2, PutTurns, Zenon

LEMMA PutChainNoRoomInv ==
    ASSUME StoreInv, NEW t \in Tasks, PutChainNoRoom(t)
    PROVE  StoreInv'
<1>1. NoPut \in Put /\ NoPut.ext = {} /\ NoPut.step # "written"
  BY NoPutTyped, Zenon
<1>2. Ready /\ task' = [task EXCEPT ![t] = NoPut]
      /\ UNCHANGED <<mounted, memVars, com, dataVars, metaVars, diskSb, crashes, faults>>
  BY Zenon DEF PutChainNoRoom
<1>3. QED
  BY <1>1, <1>2, PutTurns, Zenon

LEMMA PutAllocInv ==
    ASSUME StoreInv, NEW t \in Tasks, PutAlloc(t)
    PROVE  StoreInv'
<1>1. PICK ext \in SUBSET Free :
         /\ bits' = bits \cup ext
         /\ pageDirty' = pageDirty \cup PagesOf(ext)
         /\ cacheDirty' = cacheDirty \ ext
         /\ task' = [task EXCEPT ![t].step = "alloced", ![t].ext = ext]
  BY Zenon DEF PutAlloc
<1>2. /\ Ready
      /\ UNCHANGED <<mounted, tree, trimPending, pendingOld, jnl, sb, com, devDirty, trimmed,
                     metaVars, diskSb, crashes, faults>>
  BY Zenon DEF PutAlloc
<1>3. MemTyped /\ DevTyped /\ Apart /\ Owned /\ mounted /\ mounted'
  BY <1>2, Zenon DEF StoreInv, Ready
<1>4. ext \subseteq Blocks /\ ext \cap bits = {}
  BY Zenon DEF Free
<1>5. /\ task' \in [Tasks -> Put] /\ task'[t].ext = ext /\ task'[t].step = "alloced"
      /\ \A u \in Tasks : u # t => task'[u] = task[u]
  <2> DEFINE n == [task[t] EXCEPT !.step = "alloced", !.ext = ext]
  <2>1. task \in [Tasks -> Put] /\ task[t] \in Put
    BY <1>3, Zenon DEF MemTyped
  <2>2. n \in Put /\ n.ext = ext /\ n.step = "alloced"
    BY <1>4, <2>1, Zenon DEF Put
  <2>3. task' = [task EXCEPT ![t] = n]
    BY <1>1, Zenon
  <2> HIDE DEF n
  <2>4. QED
    BY <2>1, <2>2, <2>3, Zenon
<1>6. MemTyped'
  BY <1>1, <1>2, <1>3, <1>4, <1>5, PagesTyped, Zenon DEF MemTyped
<1>7. DevTyped'
  BY <1>1, <1>2, <1>3, Zenon DEF DevTyped, metaVars
<1>8. Asleep' /\ Tracked' /\ Marked' /\ Media'
  BY <1>1, <1>2, Quiet, Zenon
<1>9. Apart' /\ Owned'
  <2>1. InFlight' \subseteq InFlight \cup ext
    BY <1>5, Zenon DEF InFlight
  <2>2. ASSUME NEW r \in Tasks, NEW u \in Tasks, r # u PROVE task'[r].ext \cap task'[u].ext = {}
    <3>1. \A v \in Tasks : task[v].ext \cap ext = {}
      BY <1>3, <1>4, Zenon DEF InFlight, Owned
    <3>2. CASE r = t
      BY <1>5, <2>2, <3>1, <3>2, Zenon
    <3>3. CASE u = t
      BY <1>5, <2>2, <3>1, <3>3, Zenon
    <3>4. CASE r # t /\ u # t
      BY <1>3, <1>5, <2>2, <3>4, Zenon DEF Apart
    <3>5. QED
      BY <3>2, <3>3, <3>4, Zenon
  <2>3. /\ Refs(tree)' = Refs(tree) /\ Waiting' = Waiting /\ Doomed' = Doomed /\ Proper(tree)'
    BY <1>2, <1>3, Zenon DEF Waiting, Doomed, Apart, metaVars
  <2>4. /\ Refs(tree) \cap InFlight = {} /\ Refs(tree) \cap ext = {}
        /\ pendingOld' \cap (com'.old \cup com'.freed) = {}
    BY <1>2, <1>3, <1>4, Zenon DEF Apart, Owned
  <2>5. \A r, u \in Tasks : r # u => task'[r].ext \cap task'[u].ext = {}
    BY <2>2, Zenon
  <2>6. /\ mounted /\ mounted' /\ diskSb' = diskSb
        /\ {} \cap Refs(tree)' = {} /\ {} \cap (Refs(tree)' \cup InFlight') = {}
        /\ bits \ {} \subseteq bits' /\ ext \subseteq bits'
        /\ Refs(tree)' \cap InFlight' = {}
    BY <1>1, <1>2, <1>3, <2>1, <2>3, <2>4, Zenon
  <2>7. Moves(ext, {}, {})
    BY <1>4, <2>1, <2>3, <2>4, <2>5, <2>6, Zenon DEF Moves
  <2>8. QED
    BY <2>7, Settled, Zenon
<1>10. Bytes'
  <2>1. \A u \in Tasks : task'[u].step = "written" => task'[u] = task[u]
    BY <1>5, Zenon
  <2>2. trimmed' \cap Refs(tree)' = {}
    BY <1>2, Zenon DEF StoreInv, Bytes
  <2>3. cacheDirty' \subseteq cacheDirty \cup ext /\ devDirty' = devDirty /\ trimmed' \subseteq trimmed
    BY <1>1, <1>2, Zenon
  <2>4. com'.phase \notin {"barrier", "sb"} /\ diskSb' = diskSb
    BY <1>2, Zenon DEF Ready, Locked
  <2>5. QED
    BY <1>3, <1>4, <2>1, <2>2, <2>3, <2>4, BytesKept, Zenon
<1>11. QED
  BY <1>6, <1>7, <1>8, <1>9, <1>10, Zenon DEF StoreInv

LEMMA PutWriteInv ==
    ASSUME StoreInv, NEW t \in Tasks, PutWrite(t)
    PROVE  StoreInv'
<1>1. /\ mounted /\ task[t].step = "alloced"
      /\ devDirty' = devDirty \cup task[t].ext
      /\ trimmed' = trimmed \ task[t].ext
      /\ task' = [task EXCEPT ![t].step = "written"]
      /\ UNCHANGED <<mounted, tree, bits, pageDirty, trimPending, pendingOld, jnl, sb, com, cacheDirty,
                     view, top, limbo, stable, diskSb, crashes, faults>>
  BY Zenon DEF PutWrite, memVars, metaVars
<1>2. MemTyped /\ DevTyped /\ Apart /\ Owned /\ Bytes
  BY Zenon DEF StoreInv
<1>3. /\ task' \in [Tasks -> Put] /\ task'[t].ext = task[t].ext
      /\ \A u \in Tasks : u # t => task'[u] = task[u]
  BY <1>1, <1>2, ZenonT(40) DEF MemTyped, Put
<1>4. \A u \in Tasks : task'[u].ext = task[u].ext
  BY <1>3, Zenon
<1>5. InFlight' = InFlight
  BY <1>4, Zenon DEF InFlight
<1>6. MemTyped'
  BY <1>1, <1>2, <1>3, Zenon DEF MemTyped
<1>7. DevTyped'
  <2>1. task[t].ext \subseteq Blocks
    BY <1>2, Zenon DEF MemTyped, Put
  <2>2. QED
    BY <1>1, <1>2, <2>1, Zenon DEF DevTyped
<1>8. Asleep' /\ Tracked' /\ Marked' /\ Media'
  <2>1. Media'
    BY <1>1, MediaStays, Zenon DEF StoreInv, metaVars
  <2>2. Asleep'
    BY <1>1, Zenon DEF Asleep
  <2>3. Tracked'
    BY <1>1, Zenon DEF StoreInv, Tracked
  <2>4. Marked'
    BY <1>1, Zenon DEF StoreInv, Marked, PageBits, Contents
  <2>5. QED
    BY <2>1, <2>2, <2>3, <2>4, Zenon
<1>9. Apart' /\ Owned'
  <2>1. Waiting' = Waiting /\ Doomed' = Doomed
    BY <1>1, ZenonT(40) DEF Waiting, Doomed
  <2>2. \A r, u \in Tasks : r # u => task'[r].ext \cap task'[u].ext = {}
    BY <1>2, <1>4, Zenon DEF Apart
  <2>3. pendingOld' \cap (com'.old \cup com'.freed) = {}
    BY <1>1, <1>2, Zenon DEF Apart
  <2>4. QED
    BY <1>1, <1>5, <2>1, <2>2, <2>3, Shrunk, Zenon
<1>10. Bytes'
  <2>1. task[t].ext \subseteq InFlight
    BY Zenon DEF InFlight
  <2>2. task[t].ext \cap Refs(tree) = {} /\ task[t].ext \cap Refs(diskSb.tree) = {}
    BY <1>2, <2>1, Zenon DEF Apart
  <2>3. Refs(tree)' = Refs(tree) /\ Refs(diskSb.tree)' = Refs(diskSb.tree)
    BY <1>1, Zenon
  <2>4. LiveBlocksIntact'
    BY <1>1, <1>2, <2>2, <2>3, Zenon DEF Bytes, LiveBlocksIntact
  <2>5. trimmed' \cap Refs(tree)' = {}
    BY <1>1, <1>2, <2>3, Zenon DEF Bytes
  <2>6. ASSUME NEW u \in Tasks, task'[u].step = "written" PROVE trimmed' \cap task'[u].ext = {}
    <3>1. CASE u = t
      BY <1>1, <1>3, <3>1, Zenon
    <3>2. CASE u # t
      <4>1. trimmed \cap task[u].ext = {}
        BY <1>2, <1>3, <2>6, <3>2, Zenon DEF Bytes
      <4>2. QED
        BY <1>1, <1>4, <4>1, Zenon
    <3>3. QED
      BY <3>1, <3>2, Zenon
  <2>7. com'.phase \in {"barrier", "sb"} => cacheDirty' = {}
    BY <1>1, <1>2, Zenon DEF Bytes
  <2>8. com'.phase = "sb" => devDirty' \cap Refs(tree)' = {}
    BY <1>1, <1>2, <2>2, <2>3, Zenon DEF Bytes
  <2>9. QED
    BY <2>4, <2>5, <2>6, <2>7, <2>8, Zenon DEF Bytes
<1>11. QED
  BY <1>6, <1>7, <1>8, <1>9, <1>10, Zenon DEF StoreInv

\* A put gives up and gives its blocks back; `lost' is what the B-tree took.
LEMMA PutGivesUp ==
    ASSUME StoreInv, Ready, NEW t \in Tasks, task' = [task EXCEPT ![t] = NoPut],
           UNCHANGED <<mounted, tree, pendingOld, jnl, sb, com, devDirty, metaVars, diskSb, crashes>>,
           faults' \in Nat, bits' \subseteq Blocks, trimPending' \subseteq Blocks,
           bits \ task[t].ext \subseteq bits',
           NEW T \in SUBSET Blocks, \A x : x \notin T => (x \in bits <=> x \in bits'),
           pageDirty' = pageDirty \cup PagesOf(T),
           NEW lost \in SUBSET Blocks, lost \cap bits = {}, cacheDirty' \subseteq cacheDirty \cup lost,
           trimmed' \subseteq trimmed
    PROVE  StoreInv'
<1>1. MemTyped /\ DevTyped /\ Apart /\ Owned /\ Bytes /\ mounted /\ mounted'
  BY Zenon DEF StoreInv, Ready
<1>2. /\ task' \in [Tasks -> Put]
      /\ InFlight' \subseteq InFlight
      /\ InFlight' \cap task[t].ext = {}
      /\ \A r, u \in Tasks : r # u => task'[r].ext \cap task'[u].ext = {}
      /\ \A u \in Tasks : u # t => task'[u] = task[u]
      /\ task'[t] = NoPut
  BY <1>1, FlightEnds, NoPutTyped, Zenon
<1>3. MemTyped'
  BY <1>1, <1>2, PagesTyped, Zenon DEF MemTyped
<1>4. DevTyped'
  BY <1>1, Zenon DEF DevTyped, metaVars
<1>5. Asleep' /\ Tracked' /\ Marked' /\ Media'
  BY Quiet, Zenon
<1>6. Apart' /\ Owned'
  <2>1. /\ Refs(tree)' = Refs(tree) /\ Waiting' = Waiting /\ Doomed' = Doomed /\ Proper(tree)'
    BY <1>1, ZenonT(40) DEF Waiting, Doomed, Apart, metaVars
  <2>2. /\ Refs(tree) \cap InFlight = {}
        /\ pendingOld' \cap (com'.old \cup com'.freed) = {}
    BY <1>1, Zenon DEF Apart
  <2>3. task[t].ext \subseteq InFlight
    BY Zenon DEF InFlight
  <2>4. /\ task[t].ext \cap (Refs(tree)' \cup InFlight') = {}
        /\ Refs(tree)' \cap InFlight' = {}
    BY <1>2, <2>1, <2>2, <2>3, Zenon
  <2>5. Moves({}, {}, task[t].ext)
    BY <1>1, <1>2, <2>1, <2>2, <2>3, <2>4, Zenon DEF Moves
  <2>6. QED
    BY <2>5, Settled, Zenon
<1>7. Bytes'
  <2>1. \A u \in Tasks : task'[u].step = "written" => task'[u] = task[u]
    BY <1>2, NoPutTyped, Zenon
  <2>2. trimmed' \cap Refs(tree)' = {}
    BY <1>1, Zenon DEF Bytes
  <2>3. com'.phase \notin {"barrier", "sb"}
    BY Zenon DEF Ready, Locked
  <2>4. QED
    BY <1>1, <2>1, <2>2, <2>3, BytesKept, Zenon
<1>8. QED
  BY <1>3, <1>4, <1>5, <1>6, <1>7, Zenon DEF StoreInv

LEMMA PutWriteFailInv ==
    ASSUME StoreInv, NEW t \in Tasks, PutWriteFail(t)
    PROVE  StoreInv'
<1> DEFINE T == task[t].ext \cap bits
<1>1. task[t].ext \subseteq Blocks /\ bits \subseteq Blocks /\ trimPending \subseteq Blocks /\ faults \in Nat
  BY Zenon DEF StoreInv, MemTyped, Put, DevTyped
<1>2. /\ Ready /\ task' = [task EXCEPT ![t] = NoPut]
      /\ UNCHANGED <<mounted, tree, pendingOld, jnl, sb, com, devDirty, metaVars, diskSb, crashes>>
      /\ trimmed' \subseteq trimmed
      /\ bits' = bits \ task[t].ext
      /\ pageDirty' = pageDirty \cup PagesOf(T)
      /\ trimPending' = trimPending \cup task[t].ext
      /\ cacheDirty' = cacheDirty \ task[t].ext
  BY Zenon DEF PutWriteFail, FreeBits
<1>3. faults' \in Nat
  BY <1>1 DEF PutWriteFail
<1>4. /\ T \in SUBSET Blocks
      /\ \A x : x \notin T => (x \in bits <=> x \in bits')
      /\ bits' \subseteq Blocks /\ trimPending' \subseteq Blocks /\ bits \ task[t].ext \subseteq bits'
  BY <1>1, <1>2, Zenon
<1> DEFINE lost == {}
<1>5. lost \in SUBSET Blocks /\ lost \cap bits = {} /\ cacheDirty' \subseteq cacheDirty \cup lost
  BY <1>2, Zenon
<1> HIDE DEF T, lost
<1>6. QED
  BY <1>2, <1>3, <1>4, <1>5, PutGivesUp, Zenon

LEMMA PutNoRoomInv ==
    ASSUME StoreInv, NEW t \in Tasks, PutNoRoom(t)
    PROVE  StoreInv'
<1>1. bits \subseteq Blocks /\ trimPending \subseteq Blocks /\ faults \in Nat
  BY Zenon DEF StoreInv, MemTyped, DevTyped
<1>2. /\ Ready /\ task' = [task EXCEPT ![t] = NoPut]
      /\ UNCHANGED <<mounted, tree, bits, pendingOld, jnl, sb, com, devDirty, metaVars, diskSb, crashes>>
      /\ trimmed' \subseteq trimmed /\ cacheDirty' = cacheDirty /\ faults' = faults
      /\ pageDirty' = pageDirty \cup PagesOf(Free) /\ trimPending' = trimPending \cup Free
  BY Zenon DEF PutNoRoom, dataVars
<1> DEFINE T == Free
<1>3. /\ T \in SUBSET Blocks
      /\ \A x : x \notin T => (x \in bits <=> x \in bits')
      /\ bits' \subseteq Blocks /\ trimPending' \subseteq Blocks /\ bits \ task[t].ext \subseteq bits'
      /\ pageDirty' = pageDirty \cup PagesOf(T) /\ faults' \in Nat
  BY <1>1, <1>2, Zenon DEF Free
<1> DEFINE lost == {}
<1>4. lost \in SUBSET Blocks /\ lost \cap bits = {} /\ cacheDirty' \subseteq cacheDirty \cup lost
  BY <1>2, Zenon
<1> HIDE DEF T, lost
<1>5. QED
  BY <1>2, <1>3, <1>4, PutGivesUp, Zenon

LEMMA ChainFree ==
    ASSUME NEW o, NEW chain \in ChainChoices(o)
    PROVE  chain \subseteq Free
BY Zenon DEF ChainChoices

LEMMA PutDuplicateInv ==
    ASSUME StoreInv, NEW t \in Tasks, PutDuplicate(t)
    PROVE  StoreInv'
<1>1. /\ task[t].ext \subseteq Blocks /\ bits \subseteq Blocks /\ trimPending \subseteq Blocks
      /\ faults \in Nat
  BY Zenon DEF StoreInv, MemTyped, Put, DevTyped
<1>2. /\ Ready /\ task' = [task EXCEPT ![t] = NoPut]
      /\ UNCHANGED <<mounted, tree, pendingOld, jnl, sb, com, devDirty, metaVars, diskSb, crashes>>
      /\ trimmed' \subseteq trimmed /\ faults' \in Nat
  BY <1>1, Zenon DEF PutDuplicate
<1>3. PICK chain \in ChainChoices(task[t].obj) :
         /\ bits' = bits \ task[t].ext
         /\ pageDirty' = pageDirty \cup PagesOf(task[t].ext \cup chain)
         /\ trimPending' = trimPending \cup task[t].ext \cup chain
         /\ cacheDirty' = cacheDirty \ (task[t].ext \cup chain)
  BY Zenon DEF PutDuplicate
<1>4. chain \subseteq Blocks
  BY ChainFree, Zenon DEF Free
<1> DEFINE T == task[t].ext \cup chain
<1>5. /\ T \in SUBSET Blocks
      /\ \A x : x \notin T => (x \in bits <=> x \in bits')
      /\ bits' \subseteq Blocks /\ trimPending' \subseteq Blocks /\ bits \ task[t].ext \subseteq bits'
      /\ pageDirty' = pageDirty \cup PagesOf(T)
  BY <1>1, <1>3, <1>4, Zenon
<1> DEFINE lost == {}
<1>6. lost \in SUBSET Blocks /\ lost \cap bits = {} /\ cacheDirty' \subseteq cacheDirty \cup lost
  BY <1>3, Zenon
<1> HIDE DEF T, lost
<1>7. QED
  BY <1>2, <1>5, <1>6, PutGivesUp, Zenon

LEMMA PutInsertNoRoomInv ==
    ASSUME StoreInv, NEW t \in Tasks, PutInsertNoRoom(t)
    PROVE  StoreInv'
<1>1. /\ task[t].ext \subseteq Blocks /\ bits \subseteq Blocks /\ trimPending \subseteq Blocks
      /\ faults \in Nat
  BY Zenon DEF StoreInv, MemTyped, Put, DevTyped
<1>2. /\ Ready /\ task' = [task EXCEPT ![t] = NoPut]
      /\ UNCHANGED <<mounted, tree, pendingOld, jnl, sb, com, devDirty, metaVars, diskSb, crashes>>
      /\ faults' \in Nat
  BY <1>1, Zenon DEF PutInsertNoRoom
<1>3. PICK chain \in ChainChoices(task[t].obj) :
         /\ bits' = Blocks \ (task[t].ext \cup chain)
         /\ pageDirty' = pageDirty \cup PagesOf((Free \ chain) \cup (task[t].ext \cup chain))
         /\ trimPending' = trimPending \cup (task[t].ext \cup chain)
         /\ cacheDirty' = (cacheDirty \cup (Free \ chain)) \ (task[t].ext \cup chain)
         /\ trimmed' = trimmed \ (Free \ chain)
  BY Zenon DEF PutInsertNoRoom
<1>4. chain \subseteq Blocks /\ chain \cap bits = {}
  BY ChainFree, Zenon DEF Free
<1> DEFINE lost == Free \ chain
<1> DEFINE T == lost \cup (task[t].ext \cup chain)
<1>5. lost \in SUBSET Blocks /\ lost \cap bits = {} /\ cacheDirty' \subseteq cacheDirty \cup lost
      /\ trimmed' \subseteq trimmed
  BY <1>3, Zenon DEF Free
<1>6. T \in SUBSET Blocks /\ pageDirty' = pageDirty \cup PagesOf(T)
  BY <1>1, <1>3, <1>4, <1>5, Zenon
<1>7. ASSUME NEW x, x \notin T PROVE x \in bits <=> x \in bits'
  BY <1>1, <1>3, <1>7, Zenon DEF Free
<1>8. bits' \subseteq Blocks /\ trimPending' \subseteq Blocks /\ bits \ task[t].ext \subseteq bits'
  BY <1>1, <1>3, <1>4, Zenon
<1>9. \A x : x \notin T => (x \in bits <=> x \in bits')
  BY <1>7, Zenon
<1> HIDE DEF T, lost
<1>10. QED
  BY <1>2, <1>5, <1>6, <1>8, <1>9, PutGivesUp, Zenon

\* What an insert or a delete does to the trees and to the bitmap: it takes
\* `newN' and `chain' and makes `oldN' and the object's old blocks wait.
CowDone(o, oldN, newN, chain, ext) ==
    /\ tree' \in Tree /\ Proper(tree)' /\ bits' \subseteq Blocks /\ pageDirty' \subseteq Pages
    /\ DevTyped'
    /\ Refs(tree)' \subseteq Refs(tree) \cup newN \cup ext \cup chain
    /\ Refs(tree)' \cap (oldN \cup tree.objs[o]) = {}
    /\ oldN \cup tree.objs[o] \subseteq Refs(tree)
    /\ (newN \cup chain) \cap bits = {} /\ newN \cup chain \subseteq bits' /\ bits \subseteq bits'
    /\ cacheDirty' \subseteq cacheDirty \cup newN \cup chain
    /\ trimmed' = trimmed \ (newN \cup chain)

LEMMA CowSteps ==
    ASSUME StoreInv, mounted, NEW o \in Objects, NEW oldN \in SUBSET tree.nodes,
           NEW newN \in SUBSET Free, NEW chain \in SUBSET Free, chain \cap newN = {},
           NEW ext \in SUBSET InFlight, Cow(oldN, newN, chain),
           IsCow(tree, tree', o, oldN, newN, ext \cup chain),
           UNCHANGED <<devDirty, metaVars, crashes, faults>>
    PROVE  CowDone(o, oldN, newN, chain, ext)
<1>1. MemTyped /\ DevTyped /\ Apart /\ Owned
  BY Zenon DEF StoreInv
<1>2. /\ bits' = bits \cup newN \cup chain
      /\ pageDirty' = pageDirty \cup PagesOf(newN \cup chain)
      /\ cacheDirty' = cacheDirty \cup newN \cup chain
      /\ trimmed' = trimmed \ (newN \cup chain)
  BY Zenon DEF Cow
<1>3. /\ newN \subseteq Blocks /\ chain \subseteq Blocks
      /\ (newN \cup chain) \cap bits = {}
  BY Zenon DEF Free
<1>4. /\ InFlight \subseteq bits /\ Refs(tree) \subseteq bits /\ InFlight \cap Refs(tree) = {}
      /\ bits \subseteq Blocks /\ tree \in Tree /\ Proper(tree)
  BY <1>1, Zenon DEF Owned, Apart, MemTyped
<1> DEFINE blocks == ext \cup chain
<1>5. /\ blocks \in SUBSET Blocks /\ newN \cap blocks = {} /\ (newN \cup blocks) \cap Refs(tree) = {}
      /\ newN \in SUBSET Blocks
  BY <1>3, <1>4, Zenon
<1>6. IsCow(tree, tree', o, oldN, newN, blocks)
  BY Zenon
<1> HIDE DEF blocks
<1>7. /\ tree' \in Tree /\ Proper(tree')
      /\ Refs(tree') \subseteq Refs(tree) \cup newN \cup blocks
      /\ Refs(tree') \cap (oldN \cup tree.objs[o]) = {}
  BY <1>4, <1>5, <1>6, CowTree
<1>8. Proper(tree)' /\ Refs(tree)' = Refs(tree')
  BY <1>7, Zenon DEF Proper, Refs
<1>9. oldN \cup tree.objs[o] \subseteq Refs(tree)
  BY InRefs, Zenon
<1>10. DevTyped'
  BY <1>1, <1>2, <1>3, Zenon DEF DevTyped, metaVars
<1>11. pageDirty' \subseteq Pages
  <2>1. newN \cup chain \in SUBSET Blocks
    BY <1>3, Zenon
  <2>2. QED
    BY <1>1, <1>2, <2>1, PagesTyped, Zenon DEF MemTyped
<1>12. Refs(tree)' \subseteq Refs(tree) \cup newN \cup ext \cup chain
  BY <1>7, <1>8, Zenon DEF blocks
<1>13. bits' \subseteq Blocks /\ newN \cup chain \subseteq bits' /\ bits \subseteq bits'
  BY <1>2, <1>3, <1>4, Zenon
<1>14. cacheDirty' \subseteq cacheDirty \cup newN \cup chain
  BY <1>2, Zenon
<1>15. QED
  BY <1>2, <1>3, <1>7, <1>8, <1>9, <1>10, <1>11, <1>12, <1>13, <1>14, Zenon DEF CowDone

LEMMA PutInsertInv ==
    ASSUME StoreInv, NEW t \in Tasks, PutInsert(t)
    PROVE  StoreInv'
<1> DEFINE o == task[t].obj
<1> DEFINE ext == task[t].ext
<1>1. PICK oldN \in SUBSET tree.nodes, newN \in CowChoices, chain \in ChainChoices(o) :
         /\ chain \cap newN = {}
         /\ Cow(oldN, newN, chain)
         /\ IsCow(tree, tree', o, oldN, newN, ext \cup chain)
         /\ pendingOld' = pendingOld \cup oldN
  BY Zenon DEF PutInsert, IsCow
<1>2. /\ Ready /\ task[t].step = "written" /\ task' = [task EXCEPT ![t] = NoPut]
      /\ UNCHANGED <<mounted, trimPending, jnl, sb, com, devDirty, metaVars, diskSb, crashes, faults>>
  BY Zenon DEF PutInsert
<1>3. MemTyped /\ Apart /\ Owned /\ Bytes /\ Tracked /\ mounted /\ mounted' /\ com.phase = "idle"
  BY <1>2, Zenon DEF StoreInv, Ready, Locked
<1>4. newN \in SUBSET Free /\ chain \in SUBSET Free /\ ext \in SUBSET InFlight
  BY ChainFree, Zenon DEF CowChoices, InFlight
<1>5. o \in Objects /\ oldN # {}
  BY <1>1, <1>3, Zenon DEF MemTyped, Put, Cow
<1>c. Cow(oldN, newN, chain) /\ IsCow(tree, tree', o, oldN, newN, ext \cup chain) /\ chain \cap newN = {}
  BY <1>1, Zenon
<1>u. UNCHANGED <<devDirty, metaVars, crashes, faults>>
  BY <1>2, Zenon
<1> HIDE DEF o, ext
<1>d. CowDone(o, oldN, newN, chain, ext)
  BY <1>3, <1>4, <1>5, <1>c, <1>u, CowSteps, Zenon
<1>6. /\ tree' \in Tree /\ Proper(tree)' /\ bits' \subseteq Blocks /\ pageDirty' \subseteq Pages
      /\ DevTyped'
      /\ Refs(tree)' \subseteq Refs(tree) \cup newN \cup ext \cup chain
      /\ Refs(tree)' \cap (oldN \cup tree.objs[o]) = {}
      /\ oldN \cup tree.objs[o] \subseteq Refs(tree)
      /\ (newN \cup chain) \cap bits = {} /\ newN \cup chain \subseteq bits' /\ bits \subseteq bits'
      /\ cacheDirty' \subseteq cacheDirty \cup newN \cup chain
      /\ trimmed' = trimmed \ (newN \cup chain)
  BY <1>d, Zenon DEF CowDone
<1>7. /\ task' \in [Tasks -> Put]
      /\ InFlight' \subseteq InFlight
      /\ InFlight' \cap ext = {}
      /\ \A r, u \in Tasks : r # u => task'[r].ext \cap task'[u].ext = {}
      /\ \A u \in Tasks : u # t => task'[u] = task[u]
      /\ task'[t] = NoPut
  BY <1>2, <1>3, FlightEnds, NoPutTyped, Zenon DEF ext
<1>8. MemTyped'
  <2>1. pendingOld' \subseteq Blocks
    BY <1>1, <1>3, Zenon DEF MemTyped, Tree
  <2>2. QED
    BY <1>2, <1>3, <1>6, <1>7, <2>1, Zenon DEF MemTyped
<1>9. Asleep' /\ Tracked' /\ Marked' /\ Media'
  <2> DEFINE T == newN \cup chain
  <2>1. pageDirty' = pageDirty \cup PagesOf(T) /\ \A x : x \notin T => (x \in bits <=> x \in bits')
    BY <1>1, Zenon DEF Cow
  <2>2. pendingOld' # {}
    BY <1>1, <1>5, Zenon
  <2> HIDE DEF T
  <2>3. QED
    BY <1>2, <2>1, <2>2, Quiet, Zenon
<1>10. Apart' /\ Owned'
  <2> DEFINE new == newN \cup chain
  <2>1. Doomed' = Doomed /\ Waiting' = Waiting \cup oldN
    BY <1>1, <1>2, ZenonT(40) DEF Doomed, Waiting, metaVars
  <2>2. pendingOld' \cap (com'.old \cup com'.freed) = {}
    BY <1>2, <1>3, Zenon DEF Tracked
  <2>3. oldN \subseteq Refs(tree) /\ oldN \cap Refs(tree)' = {}
    BY <1>6, Zenon
  <2>4. Refs(tree)' \cap InFlight' = {}
    BY <1>3, <1>4, <1>6, <1>7, Zenon DEF Apart, Owned
  <2>5. /\ Refs(tree)' \subseteq Refs(tree) \cup InFlight \cup new
        /\ InFlight' \subseteq InFlight \cup new
        /\ new \cap bits = {} /\ new \subseteq bits' /\ bits \ {} \subseteq bits'
        /\ {} \cap (Refs(tree)' \cup InFlight') = {}
        /\ Waiting' \subseteq Waiting \cup oldN /\ Doomed' \subseteq Doomed \cup oldN
    BY <1>4, <1>6, <1>7, <2>1, Zenon
  <2> HIDE DEF new
  <2>6. Moves(new, oldN, {})
    BY <1>2, <1>3, <1>6, <1>7, <2>2, <2>3, <2>4, <2>5, Zenon DEF Moves
  <2>7. QED
    BY <2>6, Settled, Zenon
<1>11. Bytes'
  <2> DEFINE new == newN \cup chain
  <2>1. \A u \in Tasks : task'[u].step = "written" => task'[u] = task[u]
    BY <1>7, NoPutTyped, Zenon
  <2>2. trimmed \cap Refs(tree) = {} /\ trimmed \cap ext = {}
    BY <1>2, <1>3, Zenon DEF Bytes, ext
  <2>3. trimmed' \cap Refs(tree)' = {}
    BY <1>6, <2>2, Zenon
  <2>4. new \cap bits = {} /\ cacheDirty' \subseteq cacheDirty \cup new /\ trimmed' \subseteq trimmed
    BY <1>6, Zenon
  <2>5. com'.phase \notin {"barrier", "sb"} /\ devDirty' = devDirty /\ diskSb' = diskSb
    BY <1>2, <1>3, Zenon
  <2> HIDE DEF new
  <2>6. QED
    BY <1>3, <2>1, <2>3, <2>4, <2>5, BytesKept, Zenon
<1>12. QED
  BY <1>6, <1>8, <1>9, <1>10, <1>11, Zenon DEF StoreInv

LEMMA TrimInv ==
    ASSUME StoreInv, Trim
    PROVE  StoreInv'
<1>0. PICK gone \in SUBSET (trimPending \ bits) : trimmed' = trimmed \cup gone
  BY Zenon DEF Trim
<1>1. /\ Ready /\ trimmed' = trimmed \cup gone /\ gone \subseteq trimPending \ bits /\ trimPending' = {}
      /\ UNCHANGED <<mounted, tree, bits, pageDirty, pendingOld, jnl, sb, com, task, cacheDirty,
                     devDirty, metaVars, diskSb, crashes, faults>>
  BY <1>0, Zenon DEF Trim
<1>2. MemTyped /\ DevTyped /\ Apart /\ Owned /\ Bytes /\ mounted /\ com.phase = "idle"
  BY <1>1, Zenon DEF StoreInv, Ready, Locked
<1>3. MemTyped'
  BY <1>1, <1>2, Zenon DEF MemTyped
<1>4. DevTyped'
  BY <1>1, <1>2, Zenon DEF DevTyped, MemTyped, metaVars
<1>5. Asleep' /\ Tracked' /\ Marked' /\ Media'
  BY <1>1, Quiet, Zenon
<1>6. Apart' /\ Owned'
  <2>1. InFlight' = InFlight /\ Waiting' = Waiting /\ Doomed' = Doomed
    BY <1>1, ZenonT(40) DEF InFlight, Waiting, Doomed, metaVars
  <2>2. QED
    BY <1>1, <1>2, <2>1, Zenon DEF Apart, Owned
<1>7. Bytes'
  <2>1. Refs(tree)' = Refs(tree) /\ Refs(diskSb.tree)' = Refs(diskSb.tree)
    BY <1>1, Zenon
  <2>2. Refs(tree) \subseteq bits /\ Refs(diskSb.tree) \subseteq bits /\ InFlight \subseteq bits
    BY <1>2, Zenon DEF Owned
  <2>3. LiveBlocksIntact'
    BY <1>1, <1>2, <2>1, <2>2, Zenon DEF Bytes, LiveBlocksIntact
  <2>4. trimmed' \cap Refs(tree)' = {}
    BY <1>1, <1>2, <2>1, <2>2, Zenon DEF Bytes
  <2>5. ASSUME NEW t \in Tasks, task'[t].step = "written" PROVE trimmed' \cap task'[t].ext = {}
    <3>1. trimmed \cap task[t].ext = {} /\ task[t].ext \subseteq bits
      BY <1>1, <1>2, <2>2, <2>5, Zenon DEF Bytes, InFlight
    <3>2. QED
      BY <1>1, <3>1, Zenon
  <2>6. QED
    BY <1>1, <1>2, <2>3, <2>4, <2>5, Zenon DEF Bytes
<1>8. QED
  BY <1>3, <1>4, <1>5, <1>6, <1>7, Zenon DEF StoreInv

-----------------------------------------------------------------------------
(* Starting a commit; the sweep's removals.                                *)

\* Steps that only record what the commit is to do
LEMMA Recorded ==
    ASSUME StoreInv, mounted, com.phase \in {"idle", "unlink"}, com'.phase \notin {"barrier", "sb"},
           UNCHANGED <<mounted, tree, bits, pageDirty, trimPending, task, dataVars, metaVars, diskSb,
                       crashes, faults>>,
           MemTyped', Tracked',
           Waiting' \subseteq Waiting \cup Doomed, Doomed' \subseteq Waiting \cup Doomed,
           pendingOld' \cap (com'.old \cup com'.freed) = {}
    PROVE  StoreInv'
<1>1. Apart /\ Owned /\ Bytes
  BY Zenon DEF StoreInv
<1>2. DevTyped'
  BY Zenon DEF StoreInv, DevTyped, dataVars, metaVars
<1>3. Asleep' /\ Media'
  BY MediaStays, Zenon DEF StoreInv, Asleep
<1>4. Marked'
  <2> DEFINE T == {}
  <2>1. \A x : x \notin T => (x \in bits <=> x \in bits')
    BY Zenon
  <2>2. UNCHANGED metaVars /\ UNCHANGED pageDirty /\ T = {}
    BY Zenon
  <2> HIDE DEF T
  <2>3. QED
    BY <2>1, <2>2, MarkedStays, Zenon
<1>5. Apart' /\ Owned'
  <2>1. InFlight' = InFlight
    BY Zenon DEF InFlight
  <2>2. \A r, u \in Tasks : r # u => task'[r].ext \cap task'[u].ext = {}
    BY <1>1, Zenon DEF Apart
  <2>3. bits' = bits /\ tree' = tree /\ diskSb'.tree = diskSb.tree /\ InFlight' \subseteq InFlight
    BY <2>1, Zenon
  <2>4. QED
    BY <2>2, <2>3, Shrunk, Zenon
<1>6. Bytes'
  <2>1. UNCHANGED <<cacheDirty, devDirty, trimmed, tree, diskSb, task>>
    BY Zenon DEF dataVars
  <2>2. LiveBlocksIntact'
    BY <1>1, <2>1, Zenon DEF Bytes, LiveBlocksIntact
  <2>3. QED
    BY <1>1, <2>1, <2>2, Zenon DEF Bytes
<1>7. QED
  BY <1>2, <1>3, <1>4, <1>5, <1>6, Zenon DEF StoreInv

LEMMA CommitRootInv ==
    ASSUME StoreInv, NEW flip, CommitRoot(flip)
    PROVE  StoreInv'
<1>1. /\ Ready
      /\ sb' = [sb EXCEPT !.gen = @ + 1]
      /\ jnl' = [jnl EXCEPT !.frees = @ \cup pendingOld]
      /\ com' = [phase |-> "prepare", old |-> pendingOld, freed |-> {}]
      /\ pendingOld' = {}
      /\ UNCHANGED <<mounted, tree, bits, pageDirty, trimPending, task, dataVars, metaVars, diskSb,
                     crashes, faults>>
  BY Zenon DEF CommitRoot
<1>2. MemTyped /\ Tracked /\ mounted /\ com.phase = "idle"
  BY <1>1, Zenon DEF StoreInv, Ready, Locked
<1>3. /\ jnl'.frees = jnl.frees \cup pendingOld /\ jnl'.seq = jnl.seq
      /\ jnl'.uncommitted = jnl.uncommitted /\ jnl'.head = jnl.head
      /\ jnl' \in [head : JPos, seq : Nat, frees : SUBSET Blocks, uncommitted : SUBSET JPos]
  BY <1>1, <1>2, Zenon DEF MemTyped
<1>4. sb' \in [gen : Nat, jhead : JPos, jseq : Nat] /\ sb'.jseq = sb.jseq
  BY <1>1, <1>2 DEF MemTyped
<1>5. com'.phase = "prepare" /\ com'.old = pendingOld /\ com'.freed = {}
  BY <1>1, Zenon
<1>6. com' \in [phase : Phases, old : SUBSET Blocks, freed : SUBSET Blocks]
  BY <1>1, <1>2, Zenon DEF MemTyped, Phases
<1>7. MemTyped'
  BY <1>1, <1>2, <1>3, <1>4, <1>6, Zenon DEF MemTyped
<1>8. Tracked'
  <2>1. view' = view
    BY <1>1, Zenon DEF metaVars
  <2>2. QED
    BY <1>1, <1>2, <1>3, <1>4, <1>5, <2>1, Zenon DEF Tracked
<1>9. Waiting' \subseteq Waiting \cup Doomed /\ Doomed' \subseteq Waiting \cup Doomed
  BY <1>1, <1>3, <1>5 DEF Waiting, Doomed, metaVars
<1>10. pendingOld' \cap (com'.old \cup com'.freed) = {}
  BY <1>1, Zenon
<1>11. com'.phase \notin {"barrier", "sb"} /\ com.phase \in {"idle", "unlink"}
  BY <1>2, <1>5, Zenon
<1>12. QED
  BY <1>1, <1>2, <1>7, <1>8, <1>9, <1>10, <1>11, Recorded, Zenon

LEMMA SweepBeginInv ==
    ASSUME StoreInv, SweepBegin
    PROVE  StoreInv'
<1>1. /\ Ready /\ com' = [Idle EXCEPT !.phase = "unlink"]
      /\ UNCHANGED <<mounted, tree, bits, pageDirty, trimPending, pendingOld, jnl, sb, task, dataVars,
                     metaVars, view, diskSb, crashes, faults>>
  BY Zenon DEF SweepBegin, memVars, metaVars
<1>2. MemTyped /\ Tracked /\ Apart /\ mounted /\ com.phase = "idle"
  BY <1>1, Zenon DEF StoreInv, Ready, Locked
<1>3. /\ com'.phase = "unlink" /\ com'.old = {} /\ com'.freed = {}
      /\ com' \in [phase : Phases, old : SUBSET Blocks, freed : SUBSET Blocks]
  BY <1>1, Zenon DEF Idle, Phases
<1>4. MemTyped'
  BY <1>1, <1>2, <1>3, Zenon DEF MemTyped
<1>5. Tracked'
  BY <1>1, <1>2, <1>3, Zenon DEF Tracked
<1>6. Waiting' \subseteq Waiting \cup Doomed /\ Doomed' \subseteq Waiting \cup Doomed
  BY <1>1, <1>3 DEF Waiting, Doomed
<1>7. pendingOld' \cap (com'.old \cup com'.freed) = {}
  BY <1>3, Zenon
<1>8. com'.phase \notin {"barrier", "sb"} /\ com.phase \in {"idle", "unlink"}
  BY <1>2, <1>3, Zenon
<1>9. QED
  BY <1>1, <1>2, <1>4, <1>5, <1>6, <1>7, <1>8, Recorded, Zenon

LEMMA InCommit ==
    ASSUME StoreInv, com.phase # "idle"
    PROVE  mounted
<1>1. Idle.phase = "idle"
  BY Zenon DEF Idle
<1>2. QED
  BY <1>1, Zenon DEF StoreInv, Asleep

LEMMA SweepCommitInv ==
    ASSUME StoreInv, SweepCommit
    PROVE  StoreInv'
<1>1. /\ com.phase = "unlink"
      /\ UNCHANGED <<mounted, tree, bits, pageDirty, trimPending, pendingOld, jnl, task, dataVars,
                     metaVars, view, diskSb, crashes, faults>>
  BY Zenon DEF SweepCommit, metaVars
<1>2. MemTyped /\ Tracked /\ Apart /\ mounted
  BY <1>1, InCommit, Zenon DEF StoreInv
<1>3. /\ sb' \in [gen : Nat, jhead : JPos, jseq : Nat] /\ sb'.jseq = sb.jseq
      /\ com' \in [phase : Phases, old : SUBSET Blocks, freed : SUBSET Blocks]
      /\ com'.old \subseteq com.old /\ com'.freed \subseteq com.freed
      /\ \/ com'.phase = "idle" /\ com'.old = {} /\ com'.freed = {}
         \/ com'.phase = "prepare" /\ com.old \cup com.freed # {} /\ com'.old = com.old
            /\ com'.freed = com.freed
  <2>1. /\ sb \in [gen : Nat, jhead : JPos, jseq : Nat]
        /\ com \in [phase : Phases, old : SUBSET Blocks, freed : SUBSET Blocks]
    BY <1>2, Zenon DEF MemTyped
  <2>2. CASE com.old \cup com.freed = {}
    <3>1. com' = Idle /\ sb' = sb
      BY <2>2, Zenon DEF SweepCommit
    <3>2. QED
      BY <2>1, <3>1, Zenon DEF Idle, Phases
  <2>3. CASE com.old \cup com.freed # {}
    <3>1. com' = [com EXCEPT !.phase = "prepare"] /\ sb' = [sb EXCEPT !.gen = @ + 1]
      BY <2>3, Zenon DEF SweepCommit
    <3>2. sb' \in [gen : Nat, jhead : JPos, jseq : Nat] /\ sb'.jseq = sb.jseq
      BY <2>1, <3>1
    <3>3. com' \in [phase : Phases, old : SUBSET Blocks, freed : SUBSET Blocks]
          /\ com'.phase = "prepare" /\ com'.old = com.old /\ com'.freed = com.freed
      BY <2>1, <3>1, Zenon DEF Phases
    <3>4. QED
      BY <2>3, <3>2, <3>3, Zenon
  <2>4. QED
    BY <2>2, <2>3, Zenon
<1>4. MemTyped'
  BY <1>1, <1>2, <1>3, Zenon DEF MemTyped
<1>5. Tracked'
  <2>1. CASE com'.phase = "idle"
    BY <1>1, <1>2, <1>3, <2>1, Zenon DEF Tracked
  <2>2. CASE com'.phase = "prepare"
    <3>1. com'.old \cup com'.freed \subseteq jnl.frees /\ jnl.frees # {}
      BY <1>1, <1>2, <1>3, <2>2, Zenon DEF Tracked
    <3>2. QED
      BY <1>1, <1>2, <1>3, <2>2, <3>1, Zenon DEF Tracked
  <2>3. QED
    BY <1>3, <2>1, <2>2, Zenon
<1>6. Waiting' \subseteq Waiting \cup Doomed /\ Doomed' \subseteq Waiting \cup Doomed
  BY <1>1, <1>3 DEF Waiting, Doomed
<1>7. pendingOld' \cap (com'.old \cup com'.freed) = {}
  BY <1>1, <1>2, <1>3, Zenon DEF Apart
<1>8. com'.phase \notin {"barrier", "sb"} /\ com.phase \in {"idle", "unlink"}
  BY <1>1, <1>3, Zenon
<1>9. QED
  BY <1>1, <1>2, <1>4, <1>5, <1>6, <1>7, <1>8, Recorded, Zenon

LEMMA UnlinkInv ==
    ASSUME StoreInv, NEW o \in Objects, Unlink(o)
    PROVE  StoreInv'
<1> DEFINE none == {}
<1>1. PICK oldN \in SUBSET tree.nodes, newN \in CowChoices :
         /\ Cow(oldN, newN, none)
         /\ IsCow(tree, tree', o, oldN, newN, none)
         /\ jnl' = [jnl EXCEPT !.frees = @ \cup oldN \cup tree.objs[o]]
         /\ com' = [com EXCEPT !.old = @ \cup oldN, !.freed = @ \cup tree.objs[o]]
  BY Zenon DEF Unlink, IsCow
<1>2. /\ com.phase = "unlink"
      /\ UNCHANGED <<mounted, trimPending, pendingOld, sb, task, devDirty, metaVars, view, diskSb,
                     crashes, faults>>
  BY Zenon DEF Unlink, metaVars
<1>3. MemTyped /\ Apart /\ Owned /\ Bytes /\ Tracked /\ mounted /\ mounted'
  BY <1>2, InCommit, Zenon DEF StoreInv
<1>4. newN \in SUBSET Free /\ none \in SUBSET Free /\ none \in SUBSET InFlight /\ none \cap newN = {}
      /\ none \cup none = none /\ oldN # {}
  BY <1>1, Zenon DEF CowChoices, Cow
<1>5. IsCow(tree, tree', o, oldN, newN, none \cup none) /\ UNCHANGED <<devDirty, metaVars, crashes, faults>>
  BY <1>1, <1>2, <1>4, Zenon
<1> HIDE DEF none
<1>6. CowDone(o, oldN, newN, none, none)
  BY <1>1, <1>3, <1>4, <1>5, CowSteps, Zenon
<1> DEFINE gone == oldN \cup tree.objs[o]
<1>7. /\ tree' \in Tree /\ Proper(tree)' /\ bits' \subseteq Blocks /\ pageDirty' \subseteq Pages
      /\ DevTyped'
      /\ Refs(tree)' \subseteq Refs(tree) \cup newN
      /\ gone \cap Refs(tree)' = {}
      /\ gone \subseteq Refs(tree)
      /\ newN \cap bits = {} /\ newN \subseteq bits' /\ bits \subseteq bits'
      /\ cacheDirty' \subseteq cacheDirty \cup newN
      /\ trimmed' = trimmed \ newN
  BY <1>6, Zenon DEF CowDone, none
<1>8. tree \in Tree /\ gone \subseteq Blocks
  BY <1>3, <1>7, TreeRefs, Zenon DEF MemTyped
<1>9. /\ jnl'.frees = jnl.frees \cup gone /\ jnl'.seq = jnl.seq
      /\ jnl'.uncommitted = jnl.uncommitted
      /\ jnl' \in [head : JPos, seq : Nat, frees : SUBSET Blocks, uncommitted : SUBSET JPos]
  <2>1. jnl \in [head : JPos, seq : Nat, frees : SUBSET Blocks, uncommitted : SUBSET JPos]
    BY <1>3, Zenon DEF MemTyped
  <2>2. jnl' = [jnl EXCEPT !.frees = jnl.frees \cup gone]
    BY <1>1, Zenon
  <2> HIDE DEF gone
  <2>3. QED
    BY <1>8, <2>1, <2>2, Zenon
<1>10. /\ com'.old = com.old \cup oldN /\ com'.freed = com.freed \cup tree.objs[o] /\ com'.phase = "unlink"
       /\ com' \in [phase : Phases, old : SUBSET Blocks, freed : SUBSET Blocks]
  <2>1. com \in [phase : Phases, old : SUBSET Blocks, freed : SUBSET Blocks]
    BY <1>3, Zenon DEF MemTyped
  <2>2. QED
    BY <1>1, <1>2, <1>8, <2>1, Zenon
<1>11. gone # {} /\ com'.old \cup com'.freed = (com.old \cup com.freed) \cup gone
  BY <1>4, <1>10, Zenon
<1> HIDE DEF gone
<1>12. MemTyped'
  BY <1>2, <1>3, <1>7, <1>9, <1>10, Zenon DEF MemTyped
<1>13. Tracked'
  <2>1. jnl'.frees # {} /\ com'.old \cup com'.freed \subseteq jnl'.frees
    BY <1>2, <1>3, <1>9, <1>11, Zenon DEF Tracked
  <2>2. QED
    BY <1>2, <1>3, <1>9, <1>10, <2>1, Zenon DEF Tracked
<1>14. Asleep' /\ Media'
  BY <1>2, <1>3, MediaStays, Zenon DEF StoreInv, Asleep
<1>15. Marked'
  <2>1. pageDirty' = pageDirty \cup PagesOf(newN) /\ \A x : x \notin newN => (x \in bits <=> x \in bits')
    <3>1. newN \cup none = newN
      BY Zenon DEF none
    <3>2. QED
      BY <1>1, <3>1, Zenon DEF Cow
  <2>2. com'.phase \notin {"barrier", "sb"}
    BY <1>10, Zenon
  <2>3. QED
    BY <1>2, <1>3, <2>1, <2>2, MarkedStays, Zenon
<1>16. Apart' /\ Owned'
  <2>1. InFlight' = InFlight
    BY <1>2, Zenon DEF InFlight
  <2>2. Waiting' \subseteq Waiting \cup gone /\ Doomed' \subseteq Doomed \cup gone
    BY <1>2, <1>9, <1>10 DEF Waiting, Doomed, gone
  <2>3. pendingOld' \cap (com'.old \cup com'.freed) = {}
    BY <1>2, <1>3, <1>7, <1>11, Zenon DEF Apart, Waiting
  <2>4. Refs(tree)' \cap InFlight' = {}
    BY <1>3, <1>7, <2>1, Zenon DEF Apart, Owned
  <2>5. \A r, u \in Tasks : r # u => task'[r].ext \cap task'[u].ext = {}
    BY <1>2, <1>3, Zenon DEF Apart
  <2>6. /\ {} \cap (Refs(tree)' \cup InFlight') = {} /\ bits \ {} \subseteq bits'
        /\ Refs(tree)' \subseteq Refs(tree) \cup InFlight \cup newN
        /\ InFlight' \subseteq InFlight \cup newN
    BY <1>7, <2>1, Zenon
  <2>7. Moves(newN, gone, {})
    BY <1>2, <1>3, <1>7, <2>2, <2>3, <2>4, <2>5, <2>6, Zenon DEF Moves
  <2>8. QED
    BY <2>7, Settled, Zenon
<1>17. Bytes'
  <2>1. \A u \in Tasks : task'[u].step = "written" => task'[u] = task[u]
    BY <1>2, Zenon
  <2>2. trimmed' \cap Refs(tree)' = {}
    BY <1>3, <1>7, Zenon DEF Bytes
  <2>3. com'.phase \notin {"barrier", "sb"} /\ trimmed' \subseteq trimmed
    BY <1>7, <1>10, Zenon
  <2>4. QED
    BY <1>2, <1>3, <1>7, <2>1, <2>2, <2>3, BytesKept, Zenon
<1>18. QED
  BY <1>7, <1>12, <1>13, <1>14, <1>15, <1>16, <1>17, Zenon DEF StoreInv

LEMMA UnlinkNoRoomInv ==
    ASSUME StoreInv, UnlinkNoRoom
    PROVE  StoreInv'
<1>1. /\ com.phase = "unlink" /\ bits' = Blocks
      /\ pageDirty' = pageDirty \cup PagesOf(Free)
      /\ cacheDirty' = cacheDirty \cup Free
      /\ trimmed' = trimmed \ Free
      /\ UNCHANGED <<mounted, tree, trimPending, pendingOld, jnl, sb, com, task, devDirty, metaVars, view,
                     diskSb, crashes, faults>>
  BY Zenon DEF UnlinkNoRoom, metaVars
<1>2. MemTyped /\ DevTyped /\ Apart /\ Owned /\ Bytes /\ Tracked /\ mounted /\ mounted'
  BY <1>1, InCommit, Zenon DEF StoreInv
<1>3. bits \subseteq Blocks /\ Free \in SUBSET Blocks /\ Free \cap bits = {}
  BY <1>2, Zenon DEF MemTyped, Free
<1>4. MemTyped'
  BY <1>1, <1>2, <1>3, PagesTyped, Zenon DEF MemTyped
<1>5. DevTyped'
  BY <1>1, <1>2, <1>3, Zenon DEF DevTyped, metaVars
<1>6. Asleep' /\ Media'
  BY <1>1, <1>2, MediaStays, Zenon DEF StoreInv, Asleep
<1>7. Tracked'
  BY <1>1, <1>2, Zenon DEF Tracked
<1>8. Marked'
  <2>1. \A x : x \notin Free => (x \in bits <=> x \in bits')
    BY <1>1, <1>3, Zenon DEF Free
  <2>2. com'.phase \notin {"barrier", "sb"}
    BY <1>1, Zenon
  <2>3. QED
    BY <1>1, <1>2, <2>1, <2>2, MarkedStays, Zenon
<1>9. Apart' /\ Owned'
  <2>1. InFlight' = InFlight /\ Waiting' = Waiting /\ Doomed' = Doomed
    BY <1>1, ZenonT(40) DEF InFlight, Waiting, Doomed
  <2>2. QED
    BY <1>1, <1>2, <1>3, <2>1, Zenon DEF Apart, Owned
<1>10. Bytes'
  <2>1. \A u \in Tasks : task'[u].step = "written" => task'[u] = task[u]
    BY <1>1, Zenon
  <2>2. trimmed' \cap Refs(tree)' = {} /\ trimmed' \subseteq trimmed
    BY <1>1, <1>2, Zenon DEF Bytes
  <2>3. com'.phase \notin {"barrier", "sb"} /\ cacheDirty' \subseteq cacheDirty \cup Free
    BY <1>1, Zenon
  <2>4. QED
    BY <1>1, <1>2, <1>3, <2>1, <2>2, <2>3, BytesKept, Zenon
<1>11. QED
  BY <1>4, <1>5, <1>6, <1>7, <1>8, <1>9, <1>10, Zenon DEF StoreInv

-----------------------------------------------------------------------------
(* The phases of a commit: what reaches the media.                         *)

LEMMA AddrFacts ==
    /\ \A p \in Pages : p \in Addr /\ p \notin JPos
    /\ \A j \in JPos : j \in Addr /\ j \notin Pages
BY PagesAssumption, Zenon DEF Addr, JPos

\* New contents of the block cache, whichever of them have reached the device
LEMMA Flushed ==
    ASSUME Media, diskSb' = diskSb,
           \A a \in Addr : Contents(a)' \subseteq Contents(a) \cup {view'[a]},
           \A p \in Pages : PageSafe(view'[p], p),
           \A j \in JPos : EntrySafe(view'[j])
    PROVE  Media'
<1>1. ASSUME NEW p \in Pages, NEW S \in Contents(p)' PROVE PageSafe(S, p)'
  <2>1. PageSafe(S, p)
    BY <1>1, AddrFacts, Zenon DEF Media
  <2>2. QED
    BY <2>1, Zenon DEF PageSafe
<1>2. ASSUME NEW j \in JPos, NEW e \in Contents(j)' PROVE EntrySafe(e)'
  <2>1. EntrySafe(e)
    BY <1>2, AddrFacts, Zenon DEF Media
  <2>2. QED
    BY <2>1, Zenon DEF EntrySafe
<1>3. QED
  BY <1>1, <1>2, Zenon DEF Media

LEMMA ViewSafe ==
    ASSUME Media
    PROVE  /\ \A p \in Pages : PageSafe(view[p], p)
           /\ \A j \in JPos : EntrySafe(view[j])
<1>1. \A a \in Addr : view[a] \in Contents(a)
  BY Zenon DEF Contents
<1>2. QED
  BY <1>1, AddrFacts, Zenon DEF Media

\* A page that marks what is allocated marks what the superblock references.
LEMMA BitsSafe ==
    ASSUME StoreInv, mounted, NEW p \in Pages
    PROVE  PageSafe(PageBits(bits, p), p)
<1>1. bits \subseteq Blocks /\ Refs(diskSb.tree) \subseteq bits
  BY Zenon DEF StoreInv, MemTyped, Owned
<1>2. QED
  BY <1>1, Zenon DEF PageSafe, PageBits

LEMMA Pushed ==
    ASSUME NEW v, PushView(v), DOMAIN v = Addr, DOMAIN stable = Addr
    PROVE  /\ \A a \in Addr : Contents(a)' \subseteq Contents(a) \cup {view'[a]}
           /\ DOMAIN view' = Addr /\ DOMAIN top' = Addr /\ DOMAIN stable' = Addr /\ DOMAIN limbo' = Addr
           /\ view' = v /\ top' = v
<1>1. /\ view' = v /\ top' = v /\ stable' = stable
      /\ limbo' = [a \in Addr |-> limbo[a] \cup ({view[a], v[a]} \ {top[a]})]
  BY Zenon DEF PushView
<1>2. \A a \in Addr : limbo'[a] = limbo[a] \cup ({view[a], v[a]} \ {top[a]})
  BY <1>1, Zenon
<1>3. \A a \in Addr : Contents(a)' \subseteq Contents(a) \cup {view'[a]}
  BY <1>1, <1>2, Zenon DEF Contents
<1>4. QED
  BY <1>1, <1>3, Zenon

\* The cache changed, nothing was pushed.
LEMMA Cached ==
    ASSUME UNCHANGED <<top, stable>>,
           limbo' = [a \in Addr |-> limbo[a] \cup ({view[a]} \ {top[a]})]
    PROVE  /\ \A a \in Addr : Contents(a)' \subseteq Contents(a) \cup {view'[a]}
           /\ DOMAIN limbo' = Addr
<1>1. \A a \in Addr : limbo'[a] = limbo[a] \cup ({view[a]} \ {top[a]})
  BY Zenon
<1>2. \A a \in Addr : Contents(a)' \subseteq Contents(a) \cup {view'[a]}
  BY <1>1, Zenon DEF Contents
<1>3. QED
  BY <1>2, Zenon

LEMMA BarrierFacts ==
    ASSUME DeviceBarrier, DOMAIN view = Addr
    PROVE  /\ view' = view /\ cacheDirty' = cacheDirty /\ trimmed' = trimmed /\ devDirty' = {}
           /\ DOMAIN view' = Addr /\ DOMAIN top' = Addr /\ DOMAIN stable' = Addr /\ DOMAIN limbo' = Addr
           /\ \A a \in Addr : /\ top'[a] \in {view[a], top[a]}
                              /\ stable'[a] = top'[a] /\ limbo'[a] = {}
           /\ \A a \in Addr : Contents(a)' \subseteq Contents(a)
<1>1. PICK evicted \in SUBSET {a \in Addr : view[a] # top[a]} :
         top' = [a \in Addr |-> IF a \in evicted THEN view[a] ELSE top[a]]
  BY Zenon DEF DeviceBarrier
<1>2. /\ stable' = top' /\ limbo' = [a \in Addr |-> {}] /\ devDirty' = {}
      /\ view' = view /\ cacheDirty' = cacheDirty /\ trimmed' = trimmed
  BY Zenon DEF DeviceBarrier
<1>3. \A a \in Addr : top'[a] \in {view[a], top[a]} /\ stable'[a] = top'[a] /\ limbo'[a] = {}
  BY <1>1, <1>2, Zenon
<1>4. \A a \in Addr : Contents(a)' \subseteq Contents(a)
  BY <1>2, <1>3, ZenonT(40) DEF Contents
<1>5. QED
  BY <1>1, <1>2, <1>3, <1>4, Zenon

LEMMA SlotTyped ==
    ASSUME NEW h \in JPos, NEW i \in Int
    PROVE  Slot(h, i) \in JPos
BY SizesAssumption DEF Slot, JPos

\* A step of a commit: the tree, the bitmap and the puts stay as they are.
LEMMA Committing ==
    ASSUME StoreInv, mounted, UNCHANGED <<mounted, tree, bits, pendingOld, task>>,
           diskSb'.tree = diskSb.tree \/ diskSb'.tree = tree,
           com'.old \subseteq com.old, com'.freed \subseteq com.freed,
           Doomed' \subseteq Doomed,
           MemTyped', DevTyped', Tracked', Marked', Media', Bytes'
    PROVE  StoreInv'
<1>1. Apart
  BY Zenon DEF StoreInv
<1>2. InFlight' \subseteq InFlight
  BY Zenon DEF InFlight
<1>3. Waiting' \subseteq Waiting \cup Doomed /\ Doomed' \subseteq Waiting \cup Doomed
  BY Zenon DEF Waiting
<1>4. pendingOld' \cap (com'.old \cup com'.freed) = {}
  BY <1>1, Zenon DEF Apart
<1>5. \A r, u \in Tasks : r # u => task'[r].ext \cap task'[u].ext = {}
  BY <1>1, Zenon DEF Apart
<1>6. Apart' /\ Owned'
  BY <1>2, <1>3, <1>4, <1>5, Shrunk, Zenon
<1>7. Asleep'
  BY Zenon DEF Asleep
<1>8. QED
  BY <1>6, <1>7, Zenon DEF StoreInv

LEMMA DoomedStays ==
    ASSUME jnl'.frees \subseteq jnl.frees, jnl'.uncommitted \subseteq jnl.uncommitted,
           \A j \in jnl'.uncommitted : view'[j].frees = view[j].frees
    PROVE  Doomed' \subseteq Doomed
BY Zenon DEF Doomed

\* Journal blocks go to the cache uncommitted, under the next sequence number.
LEMMA Journaled ==
    ASSUME StoreInv, NEW n \in Int, WriteChunks(n)
    PROVE  /\ jnl' \in [head : JPos, seq : Nat, frees : SUBSET Blocks, uncommitted : SUBSET JPos]
           /\ jnl'.seq = jnl.seq + 1
           /\ jnl'.frees = IF n = ChunksOf(jnl.frees) THEN {} ELSE jnl.frees
           /\ \A j \in jnl'.uncommitted : view'[j].seq = jnl'.seq
           /\ \A p \in Pages : view'[p] = view[p]
           /\ UNCHANGED <<top, stable>> /\ DOMAIN view' = Addr /\ DOMAIN limbo' = Addr
           /\ \A a \in Addr : Contents(a)' \subseteq Contents(a) \cup {view'[a]}
           /\ \A j \in JPos : EntrySafe(view'[j])
           /\ Doomed' \subseteq Doomed
<1> DEFINE written == 0 .. n - 1
<1> DEFINE slots == {Slot(jnl.head, i) : i \in written}
<1> DEFINE entry(i) == [magic |-> TRUE, seq |-> jnl.seq + 1, committed |-> FALSE,
                        frees |-> Chunk(jnl.frees, i)]
<1> DEFINE frees == IF n = ChunksOf(jnl.frees) THEN {} ELSE jnl.frees
<1> DEFINE block(a) == entry(CHOOSE i \in written : Slot(jnl.head, i) = a)
<1>1. jnl \in [head : JPos, seq : Nat, frees : SUBSET Blocks, uncommitted : SUBSET JPos]
  BY Zenon DEF StoreInv, MemTyped
<1>2. /\ jnl' = [jnl EXCEPT !.head = Slot(@, n), !.seq = @ + 1, !.uncommitted = slots,
                            !.frees = frees]
      /\ view' = [a \in Addr |-> IF a \in slots THEN block(a) ELSE view[a]]
      /\ limbo' = [a \in Addr |-> limbo[a] \cup ({view[a]} \ {top[a]})]
      /\ UNCHANGED <<top, stable>>
  BY Zenon DEF WriteChunks
<1>3. slots \subseteq JPos
  <2>1. \A i \in written : i \in Int
    OBVIOUS
  <2>2. QED
    BY <1>1, <2>1, SlotTyped, Zenon
<1>4. Slot(jnl.head, n) \in JPos /\ frees \subseteq jnl.frees
  BY <1>1, SlotTyped, Zenon
<1>5. /\ jnl' \in [head : JPos, seq : Nat, frees : SUBSET Blocks, uncommitted : SUBSET JPos]
      /\ jnl'.seq = jnl.seq + 1 /\ jnl'.frees = frees /\ jnl'.uncommitted = slots
  <2> DEFINE h == Slot(jnl.head, n)
  <2> DEFINE s == jnl.seq + 1
  <2>1. jnl' = [jnl EXCEPT !.head = h, !.seq = s, !.uncommitted = slots, !.frees = frees]
    BY <1>2, Zenon
  <2>2. h \in JPos /\ s \in Nat /\ slots \in SUBSET JPos /\ frees \in SUBSET Blocks
    BY <1>1, <1>3, <1>4
  <2> HIDE DEF slots, frees, h, s
  <2>3. /\ jnl'.head = h /\ jnl'.seq = s /\ jnl'.frees = frees /\ jnl'.uncommitted = slots
        /\ jnl' = [head |-> h, seq |-> s, frees |-> frees, uncommitted |-> slots]
    BY <1>1, <2>1, Zenon
  <2>4. jnl' \in [head : JPos, seq : Nat, frees : SUBSET Blocks, uncommitted : SUBSET JPos]
    BY <2>2, <2>3, Zenon
  <2>5. QED
    BY <2>3, <2>4, Zenon DEF s
<1>6. \A i : Chunk(jnl.frees, i) \subseteq jnl.frees
  BY Zenon DEF Chunk
<1>7. \A a : /\ block(a).seq = jnl.seq + 1 /\ block(a).frees \subseteq jnl.frees
             /\ ~block(a).committed
             /\ block(a) \in Entry
  <2>1. \A i : /\ entry(i).seq = jnl.seq + 1 /\ entry(i).frees \subseteq jnl.frees
               /\ ~entry(i).committed
               /\ entry(i) \in Entry
    <3> SUFFICES ASSUME NEW i
                 PROVE  /\ entry(i).seq = jnl.seq + 1 /\ entry(i).frees \subseteq jnl.frees
                        /\ ~entry(i).committed
                        /\ entry(i) \in Entry
      BY Zenon
    <3> DEFINE c == Chunk(jnl.frees, i)
    <3>1. c \subseteq jnl.frees /\ c \in SUBSET Blocks /\ jnl.seq + 1 \in Nat
      BY <1>1, <1>6
    <3> HIDE DEF c
    <3>2. QED
      BY <3>1, Zenon DEF Entry, c
  <2> HIDE DEF entry
  <2>2. QED
    BY <2>1, Zenon
<1> HIDE DEF block, slots, frees
<1>8. \A a \in Addr : view'[a] = IF a \in slots THEN block(a) ELSE view[a]
  BY <1>2, Zenon
<1>9. \A j \in jnl'.uncommitted : view'[j].seq = jnl'.seq /\ view'[j].frees \subseteq jnl.frees
  BY <1>3, <1>5, <1>7, <1>8, AddrFacts, Zenon
<1>10. \A p \in Pages : view'[p] = view[p]
  BY <1>3, <1>8, AddrFacts, Zenon
<1>11. ASSUME NEW j \in JPos PROVE EntrySafe(view'[j])
  <2>1. EntrySafe(view[j])
    BY ViewSafe, Zenon DEF StoreInv
  <2>2. EntrySafe(block(j))
    BY <1>7, Zenon DEF EntrySafe
  <2>3. QED
    BY <1>8, <2>1, <2>2, AddrFacts, Zenon
<1>12. Doomed' \subseteq Doomed
  BY <1>4, <1>5, <1>9, ZenonT(40) DEF Doomed
<1>13. /\ \A a \in Addr : Contents(a)' \subseteq Contents(a) \cup {view'[a]}
       /\ DOMAIN limbo' = Addr /\ DOMAIN view' = Addr
  BY <1>2, Cached, Zenon
<1>14. QED
  BY <1>2, <1>5, <1>9, <1>10, <1>11, <1>12, <1>13, Zenon DEF frees

LEMMA IdleTyped ==
    /\ Idle \in [phase : Phases, old : SUBSET Blocks, freed : SUBSET Blocks]
    /\ Idle.phase = "idle" /\ Idle.old = {} /\ Idle.freed = {}
BY Zenon DEF Idle, Phases

LEMMA PhaseTyped ==
    ASSUME MemTyped, NEW ph \in Phases, NEW c, c = [com EXCEPT !.phase = ph]
    PROVE  /\ c \in [phase : Phases, old : SUBSET Blocks, freed : SUBSET Blocks]
           /\ c.phase = ph /\ c.old = com.old /\ c.freed = com.freed
BY Zenon DEF MemTyped

\* The sequence numbers only grow.
LEMMA Numbers ==
    ASSUME StoreInv
    PROVE  /\ diskSb.jseq \in Nat /\ sb.jseq \in Nat /\ jnl.seq \in Nat
           /\ diskSb.jseq \leq sb.jseq
           /\ mounted => /\ sb.jseq \leq jnl.seq /\ diskSb.jseq \leq jnl.seq
                         /\ diskSb.jseq < jnl.seq + 1 /\ diskSb.jseq \leq jnl.seq + 1
                         /\ sb.jseq \leq jnl.seq + 1 /\ jnl.seq \leq jnl.seq
                         /\ jnl.seq + 1 \leq jnl.seq + 1
<1>1. diskSb.jseq \in Nat /\ sb.jseq \in Nat /\ jnl.seq \in Nat
  BY Zenon DEF StoreInv, MemTyped
<1>2. diskSb.jseq \leq sb.jseq /\ (mounted => sb.jseq \leq jnl.seq)
  BY Zenon DEF StoreInv, Tracked
<1>3. QED
  BY <1>1, <1>2

\* Nothing is written to data or node blocks, and no phase with a demand on them
\* is entered.
LEMMA BytesStay ==
    ASSUME Bytes, UNCHANGED <<tree, task, diskSb>>, UNCHANGED dataVars,
           com'.phase \notin {"barrier", "sb"}
    PROVE  Bytes'
<1>1. UNCHANGED <<cacheDirty, devDirty, trimmed>>
  BY Zenon DEF dataVars
<1>2. LiveBlocksIntact'
  BY <1>1, Zenon DEF Bytes, LiveBlocksIntact
<1>3. QED
  BY <1>1, <1>2, Zenon DEF Bytes

\* The same when the cache's node blocks are pushed to the device.
LEMMA BytesPushed ==
    ASSUME Bytes, UNCHANGED <<tree, task, diskSb, trimmed>>, PushNodes, com'.phase # "sb"
    PROVE  Bytes'
<1>1. devDirty' = devDirty \cup cacheDirty /\ cacheDirty' = {}
  BY Zenon DEF PushNodes
<1>2. LiveBlocksIntact'
  BY <1>1, Zenon DEF Bytes, LiveBlocksIntact
<1>3. QED
  BY <1>1, <1>2, Zenon DEF Bytes

LEMMA PrepareInv ==
    ASSUME StoreInv, ChunksOf(jnl.frees) \in Int, Prepare
    PROVE  StoreInv'
<1>1. /\ com.phase = "prepare"
      /\ sb' = [sb EXCEPT !.jhead = jnl'.head, !.jseq = jnl'.seq]
      /\ com' = [com EXCEPT !.phase = "sync"]
      /\ UNCHANGED <<mounted, tree, bits, pageDirty, trimPending, pendingOld, task, dataVars, diskSb,
                     crashes, faults>>
  BY Zenon DEF Prepare
<1>2. mounted /\ MemTyped /\ DevTyped /\ Tracked /\ Marked /\ Media /\ Bytes
  BY <1>1, InCommit, Zenon DEF StoreInv
<1>3. /\ jnl' \in [head : JPos, seq : Nat, frees : SUBSET Blocks, uncommitted : SUBSET JPos]
      /\ diskSb.jseq \leq jnl'.seq /\ jnl'.frees = {}
      /\ tree = diskSb.tree \/ diskSb.jseq < jnl'.seq
      /\ \A j \in jnl'.uncommitted : view'[j].seq = jnl'.seq
      /\ \A p \in Pages : view'[p] = view[p]
      /\ DOMAIN view' = Addr /\ DOMAIN top' = Addr /\ DOMAIN stable' = Addr /\ DOMAIN limbo' = Addr
      /\ Media' /\ Doomed' \subseteq Doomed
  <2>1. CASE jnl.frees = {}
    <3>1. UNCHANGED <<jnl, view, top, limbo, stable>> /\ UNCHANGED metaVars
      BY <2>1, Zenon DEF Prepare, metaVars
    <3>2. Media' /\ Doomed' = Doomed
      BY <1>1, <1>2, <3>1, MediaStays, ZenonT(40) DEF Doomed
    <3>3. diskSb.jseq \leq jnl.seq
      BY <1>2, Numbers, Zenon
    <3>4. tree = diskSb.tree \/ diskSb.jseq < jnl.seq
      BY <1>1, <1>2, <2>1, Zenon DEF Tracked
    <3>5. QED
      BY <1>2, <2>1, <3>1, <3>2, <3>3, <3>4, Zenon DEF MemTyped, DevTyped, Tracked
  <2>2. CASE jnl.frees # {}
    <3>1. WriteChunks(ChunksOf(jnl.frees))
      BY <2>2, Zenon DEF Prepare
    <3>2. /\ jnl' \in [head : JPos, seq : Nat, frees : SUBSET Blocks, uncommitted : SUBSET JPos]
          /\ jnl'.seq = jnl.seq + 1
          /\ jnl'.frees = {}
          /\ \A j \in jnl'.uncommitted : view'[j].seq = jnl'.seq
          /\ \A p \in Pages : view'[p] = view[p]
          /\ UNCHANGED <<top, stable>> /\ DOMAIN view' = Addr /\ DOMAIN limbo' = Addr
          /\ \A a \in Addr : Contents(a)' \subseteq Contents(a) \cup {view'[a]}
          /\ \A j \in JPos : EntrySafe(view'[j])
          /\ Doomed' \subseteq Doomed
      BY <3>1, Journaled, Zenon
    <3>3. \A p \in Pages : PageSafe(view'[p], p)
      BY <1>2, <3>2, ViewSafe, Zenon
    <3>4. Media'
      BY <1>1, <1>2, <3>2, <3>3, Flushed, Zenon
    <3>5. diskSb.jseq \leq jnl'.seq /\ diskSb.jseq < jnl'.seq
      BY <1>2, <3>2, Numbers, Zenon
    <3>6. QED
      BY <1>2, <3>2, <3>4, <3>5, Zenon DEF DevTyped
  <2>3. QED
    BY <2>1, <2>2, Zenon
<1>4. sb' \in [gen : Nat, jhead : JPos, jseq : Nat] /\ sb'.jseq = jnl'.seq
  <2>1. sb \in [gen : Nat, jhead : JPos, jseq : Nat]
    BY <1>2, Zenon DEF MemTyped
  <2>2. jnl'.head \in JPos /\ jnl'.seq \in Nat
    BY <1>3, Zenon
  <2>3. QED
    BY <1>1, <2>1, <2>2, Zenon
<1>5. /\ com' \in [phase : Phases, old : SUBSET Blocks, freed : SUBSET Blocks]
      /\ com'.phase = "sync" /\ com'.old = com.old /\ com'.freed = com.freed
  <2>1. "sync" \in Phases
    BY Zenon DEF Phases
  <2>2. QED
    BY <1>1, <1>2, <2>1, PhaseTyped, Zenon
<1>6. MemTyped'
  BY <1>1, <1>2, <1>3, <1>4, <1>5, Zenon DEF MemTyped
<1>7. DevTyped'
  BY <1>1, <1>2, <1>3, Zenon DEF DevTyped, dataVars
<1>8. Tracked'
  <2>1. jnl'.seq \leq jnl'.seq
    BY <1>3
  <2>2. QED
    BY <1>1, <1>3, <1>4, <1>5, <2>1, ZenonT(40) DEF Tracked
<1>9. Marked'
  BY <1>1, <1>2, <1>3, <1>5, Zenon DEF Marked, PageBits
<1>10. Bytes'
  BY <1>1, <1>2, <1>5, BytesStay, Zenon
<1>11. QED
  BY <1>1, <1>2, <1>3, <1>5, <1>6, <1>7, <1>8, <1>9, <1>10, Committing, ZenonT(40)

LEMMA PrepareFailInv ==
    ASSUME StoreInv, PrepareFail
    PROVE  StoreInv'
<1>1. /\ com.phase = "prepare" /\ faults' = faults + 1 /\ com' = Idle
      /\ UNCHANGED <<mounted, tree, bits, pageDirty, trimPending, pendingOld, sb, task, dataVars,
                     diskSb, crashes>>
  BY Zenon DEF PrepareFail
<1>2. PICK n \in 0 .. ChunksOf(jnl.frees) - 1 : WriteChunks(n)
  BY Zenon DEF PrepareFail
<1>3. mounted /\ MemTyped /\ DevTyped /\ Tracked /\ Marked /\ Media /\ Bytes
  BY <1>1, InCommit, Zenon DEF StoreInv
<1>4. n \in Int
  OBVIOUS
<1>5. /\ jnl' \in [head : JPos, seq : Nat, frees : SUBSET Blocks, uncommitted : SUBSET JPos]
      /\ jnl'.seq = jnl.seq + 1
      /\ \A j \in jnl'.uncommitted : view'[j].seq = jnl'.seq
      /\ \A p \in Pages : view'[p] = view[p]
      /\ UNCHANGED <<top, stable>> /\ DOMAIN view' = Addr /\ DOMAIN limbo' = Addr
      /\ \A a \in Addr : Contents(a)' \subseteq Contents(a) \cup {view'[a]}
      /\ \A j \in JPos : EntrySafe(view'[j])
      /\ Doomed' \subseteq Doomed
  BY <1>2, <1>4, Journaled, Zenon
<1>6. Media'
  <2>1. \A p \in Pages : PageSafe(view'[p], p)
    BY <1>3, <1>5, ViewSafe, Zenon
  <2>2. QED
    BY <1>1, <1>3, <1>5, <2>1, Flushed, Zenon
<1>7. MemTyped'
  BY <1>1, <1>3, <1>5, IdleTyped, Zenon DEF MemTyped
<1>8. DevTyped'
  <2>1. faults' \in Nat
    BY <1>1, <1>3 DEF DevTyped
  <2>2. QED
    BY <1>1, <1>3, <1>5, <2>1, Zenon DEF DevTyped, dataVars
<1>9. Tracked'
  <2>1. diskSb.jseq \leq sb.jseq /\ sb.jseq \leq jnl'.seq /\ diskSb.jseq < jnl'.seq
    BY <1>3, <1>5, Numbers, Zenon
  <2>2. QED
    BY <1>1, <1>5, <2>1, IdleTyped, Zenon DEF Tracked
<1>10. Marked'
  BY <1>1, <1>3, <1>5, IdleTyped, ZenonT(40) DEF Marked, PageBits
<1>11. Bytes'
  BY <1>1, <1>3, IdleTyped, BytesStay, Zenon
<1>12. com'.old \subseteq com.old /\ com'.freed \subseteq com.freed
  BY <1>1, IdleTyped, Zenon
<1>13. QED
  BY <1>1, <1>3, <1>5, <1>6, <1>7, <1>8, <1>9, <1>10, <1>11, <1>12, Committing, ZenonT(40)

\* Bitmap::sync brings every page up to date and leaves the journal alone.
LEMMA SyncedFacts ==
    ASSUME StoreInv, mounted
    PROVE  /\ DOMAIN Synced = Addr
           /\ \A p \in Pages : Synced[p] = PageBits(bits, p) /\ PageSafe(Synced[p], p)
           /\ \A j \in JPos : Synced[j] = view[j] /\ EntrySafe(Synced[j])
<1>1. \A a \in Addr : Synced[a] = IF a \in pageDirty THEN PageBits(bits, a) ELSE view[a]
  BY Zenon DEF Synced
<1>2. pageDirty \subseteq Pages
  BY Zenon DEF StoreInv, MemTyped
<1>3. \A p \in Pages : Synced[p] = PageBits(bits, p)
  BY <1>1, AddrFacts, Zenon DEF StoreInv, Marked
<1>4. \A j \in JPos : Synced[j] = view[j]
  BY <1>1, <1>2, AddrFacts, Zenon
<1>5. \A j \in JPos : EntrySafe(view[j])
  BY ViewSafe, Zenon DEF StoreInv
<1>6. \A p \in Pages : PageSafe(PageBits(bits, p), p)
  BY BitsSafe, Zenon
<1>7. DOMAIN Synced = Addr
  BY Zenon DEF Synced
<1>8. QED
  BY <1>3, <1>4, <1>5, <1>6, <1>7, Zenon

LEMMA SyncInv ==
    ASSUME StoreInv, Sync
    PROVE  StoreInv'
<1>1. /\ com.phase = "sync" /\ PushView(Synced) /\ pageDirty' = {} /\ PushNodes
      /\ com' = [com EXCEPT !.phase = "barrier"]
      /\ UNCHANGED <<mounted, tree, bits, trimPending, pendingOld, jnl, sb, task, trimmed, diskSb,
                     crashes, faults>>
  BY Zenon DEF Sync
<1>2. mounted /\ MemTyped /\ DevTyped /\ Tracked /\ Media /\ Bytes
  BY <1>1, InCommit, Zenon DEF StoreInv
<1>3. /\ DOMAIN Synced = Addr
      /\ \A p \in Pages : Synced[p] = PageBits(bits, p) /\ PageSafe(Synced[p], p)
      /\ \A j \in JPos : Synced[j] = view[j] /\ EntrySafe(Synced[j])
  BY <1>2, SyncedFacts, Zenon
<1>4. /\ \A a \in Addr : Contents(a)' \subseteq Contents(a) \cup {view'[a]}
      /\ DOMAIN view' = Addr /\ DOMAIN top' = Addr /\ DOMAIN stable' = Addr /\ DOMAIN limbo' = Addr
      /\ view' = Synced /\ top' = Synced
  BY <1>1, <1>2, <1>3, Pushed, Zenon DEF DevTyped
<1>5. /\ com' \in [phase : Phases, old : SUBSET Blocks, freed : SUBSET Blocks]
      /\ com'.phase = "barrier" /\ com'.old = com.old /\ com'.freed = com.freed
  <2>1. "barrier" \in Phases
    BY Zenon DEF Phases
  <2>2. QED
    BY <1>1, <1>2, <2>1, PhaseTyped, Zenon
<1>6. MemTyped'
  BY <1>1, <1>2, <1>5, Zenon DEF MemTyped
<1>7. DevTyped'
  BY <1>1, <1>2, <1>4, Zenon DEF DevTyped, PushNodes
<1>8. Media'
  BY <1>1, <1>2, <1>3, <1>4, Flushed, Zenon
<1>9. jnl.uncommitted \subseteq JPos
  BY <1>2, Zenon DEF MemTyped
<1>10. Tracked'
  BY <1>1, <1>2, <1>3, <1>4, <1>5, <1>9, ZenonT(40) DEF Tracked
<1>11. Marked'
  BY <1>1, <1>3, <1>4, <1>5, Zenon DEF Marked, PageBits
<1>12. Bytes'
  BY <1>1, <1>2, <1>5, BytesPushed, Zenon
<1>13. Doomed' \subseteq Doomed
  BY <1>1, <1>3, <1>4, <1>9, DoomedStays, Zenon
<1>14. QED
  BY <1>1, <1>2, <1>5, <1>6, <1>7, <1>8, <1>10, <1>11, <1>12, <1>13, Committing, ZenonT(40)

\* The barrier leaves on media what was handed to the device.
LEMMA BarrierKeeps ==
    ASSUME StoreInv, mounted, DeviceBarrier, diskSb' = diskSb, tree' = tree, task' = task,
           com'.phase = com.phase \/ (com.phase = "barrier" /\ com'.phase = "sb")
             \/ com'.phase = "kssb",
           mounted' = mounted, bits' = bits, pageDirty' = pageDirty,
           UNCHANGED <<crashes, faults>>
    PROVE  DevTyped' /\ Media' /\ Marked' /\ Bytes' /\ view' = view
<1>1. DevTyped /\ Media /\ Marked /\ Bytes
  BY Zenon DEF StoreInv
<1>2. /\ view' = view /\ cacheDirty' = cacheDirty /\ trimmed' = trimmed /\ devDirty' = {}
      /\ DOMAIN view' = Addr /\ DOMAIN top' = Addr /\ DOMAIN stable' = Addr /\ DOMAIN limbo' = Addr
      /\ \A a \in Addr : /\ top'[a] \in {view[a], top[a]}
                         /\ stable'[a] = top'[a] /\ limbo'[a] = {}
      /\ \A a \in Addr : Contents(a)' \subseteq Contents(a)
  BY <1>1, BarrierFacts, Zenon DEF DevTyped
<1>3. DevTyped'
  BY <1>1, <1>2, Zenon DEF DevTyped
<1>4. Media'
  <2>1. /\ \A p \in Pages : PageSafe(view'[p], p)
        /\ \A j \in JPos : EntrySafe(view'[j])
        /\ \A a \in Addr : Contents(a)' \subseteq Contents(a) \cup {view'[a]}
    BY <1>1, <1>2, ViewSafe, Zenon
  <2>2. QED
    BY <1>1, <2>1, Flushed, Zenon
<1>5. Marked'
  <2>1. com'.phase \in {"barrier", "sb"} =>
          /\ com.phase \in {"barrier", "sb"}
          /\ pageDirty' = {} /\ \A p \in Pages : top'[p] = view'[p]
    BY <1>1, <1>2, AddrFacts, Zenon DEF Marked
  <2>2. com'.phase = "sb" => \A p \in Pages : Contents(p)' = {view'[p]}
    BY <1>2, <2>1, AddrFacts, ZenonT(40) DEF Contents
  <2>3. \A p \in Pages \ pageDirty' : view'[p] = PageBits(bits, p)'
    BY <1>1, <1>2, Zenon DEF Marked, PageBits
  <2>4. QED
    BY <2>1, <2>2, <2>3, Zenon DEF Marked
<1>6. Bytes'
  <2>1. LiveBlocksIntact'
    BY <1>1, <1>2, Zenon DEF Bytes, LiveBlocksIntact
  <2>2. com'.phase \in {"barrier", "sb"} => cacheDirty' = {}
    BY <1>1, <1>2, Zenon DEF Bytes
  <2>3. devDirty' \cap Refs(tree)' = {}
    BY <1>2, Zenon
  <2>4. QED
    BY <1>1, <1>2, <2>1, <2>2, <2>3, Zenon DEF Bytes
<1>7. QED
  BY <1>2, <1>3, <1>4, <1>5, <1>6, Zenon

LEMMA BarrierInv ==
    ASSUME StoreInv, Barrier
    PROVE  StoreInv'
<1> DEFINE ph == IF com.phase = "barrier" THEN "sb" ELSE "kssb"
<1>1. /\ com.phase \in {"barrier", "ksbarrier"} /\ DeviceBarrier
      /\ com' = [com EXCEPT !.phase = ph]
      /\ UNCHANGED <<mounted, tree, bits, pageDirty, trimPending, pendingOld, jnl, sb, task, diskSb,
                     crashes, faults>>
  BY Zenon DEF Barrier, memVars
<1>2. mounted /\ MemTyped /\ Tracked
  BY <1>1, InCommit, Zenon DEF StoreInv
<1>3. ph \in Phases
  BY Zenon DEF Phases
<1>4. (com.phase = "barrier" /\ ph = "sb") \/ (com.phase = "ksbarrier" /\ ph = "kssb")
  BY <1>1, Zenon
<1> HIDE DEF ph
<1>5. /\ com' \in [phase : Phases, old : SUBSET Blocks, freed : SUBSET Blocks]
      /\ com'.phase = ph /\ com'.old = com.old /\ com'.freed = com.freed
  BY <1>1, <1>2, <1>3, PhaseTyped, Zenon
<1>6. DevTyped' /\ Media' /\ Marked' /\ Bytes' /\ view' = view
  BY <1>1, <1>2, <1>4, <1>5, BarrierKeeps, ZenonT(40)
<1>7. MemTyped'
  BY <1>1, <1>2, <1>5, Zenon DEF MemTyped
<1>8. Tracked'
  <2>1. CASE com.phase = "barrier" /\ ph = "sb"
    BY <1>1, <1>2, <1>5, <1>6, <2>1, Zenon DEF Tracked
  <2>2. CASE com.phase = "ksbarrier" /\ ph = "kssb"
    BY <1>1, <1>2, <1>5, <1>6, <2>2, ZenonT(40) DEF Tracked
  <2>3. QED
    BY <1>4, <2>1, <2>2, Zenon
<1>9. Doomed' \subseteq Doomed
  BY <1>1, <1>6 DEF Doomed
<1>10. QED
  BY <1>1, <1>2, <1>5, <1>6, <1>7, <1>8, <1>9, Committing, ZenonT(40)

LEMMA ShutdownFlushInv ==
    ASSUME StoreInv, ShutdownFlush
    PROVE  StoreInv'
<1>1. /\ mounted /\ DeviceBarrier
      /\ UNCHANGED <<mounted, tree, bits, pageDirty, trimPending, pendingOld, jnl, sb, com, task, diskSb,
                     crashes, faults>>
  BY Zenon DEF ShutdownFlush, memVars
<1>2. MemTyped /\ Tracked
  BY Zenon DEF StoreInv
<1>3. DevTyped' /\ Media' /\ Marked' /\ Bytes' /\ view' = view
  BY <1>1, BarrierKeeps, Zenon
<1>4. MemTyped'
  BY <1>1, <1>2, Zenon DEF MemTyped
<1>5. Tracked'
  BY <1>1, <1>2, <1>3, Zenon DEF Tracked
<1>6. Doomed' \subseteq Doomed
  BY <1>1, <1>3 DEF Doomed
<1>7. QED
  BY <1>1, <1>3, <1>4, <1>5, <1>6, Committing, ZenonT(40)

\* The superblock lands: every page on media marks the new tree by then, and an
\* entry that replay would apply belongs to this very commit or frees nothing of
\* a tree that did not change.
LEMMA Landed ==
    ASSUME StoreInv, com.phase \in {"sb", "kssb"}, diskSb' = SbImage,
           \A a \in Addr : Contents(a)' \subseteq Contents(a)
    PROVE  /\ Media'
           /\ diskSb' \in [gen : Nat, jhead : JPos, jseq : Nat, tree : Tree]
           /\ diskSb'.tree = tree /\ diskSb'.jseq = sb.jseq
<1>1. mounted /\ MemTyped /\ Tracked /\ Marked /\ Media
  BY InCommit, Zenon DEF StoreInv
<1>2. /\ diskSb'.tree = tree /\ diskSb'.jseq = sb.jseq
      /\ diskSb' \in [gen : Nat, jhead : JPos, jseq : Nat, tree : Tree]
  BY <1>1, Zenon DEF SbImage, MemTyped
<1>3. ASSUME NEW p \in Pages, NEW S \in Contents(p)' PROVE PageSafe(S, p)'
  <2>1. S \in Contents(p)
    BY <1>3, AddrFacts, Zenon
  <2>2. PageSafe(S, p)
    BY <1>1, <2>1, Zenon DEF Media
  <2>3. CASE com.phase = "sb"
    <3>1. S = view[p]
      BY <1>1, <2>1, <2>3, Zenon DEF Marked
    <3>2. view[p] = PageBits(bits, p)
      BY <1>1, <2>3, Zenon DEF Marked
    <3>3. Refs(tree) \subseteq bits
      BY <1>1, Zenon DEF StoreInv, Owned
    <3>4. PageBits(Refs(tree), p) \subseteq S
      BY <3>1, <3>2, <3>3, Zenon DEF PageBits
    <3>5. PageBits(Refs(diskSb.tree), p)' = PageBits(Refs(tree), p)
      BY <1>2, ZenonT(40) DEF PageBits, Refs
    <3>6. QED
      BY <2>2, <3>4, <3>5, Zenon DEF PageSafe
  <2>4. CASE com.phase = "kssb"
    <3>1. diskSb'.tree = diskSb.tree
      BY <1>1, <1>2, <2>4, Zenon DEF Tracked
    <3>2. PageBits(Refs(diskSb.tree), p)' = PageBits(Refs(diskSb.tree), p)
      BY <3>1, Zenon DEF PageBits, Refs
    <3>3. QED
      BY <2>2, <3>2, Zenon DEF PageSafe
  <2>5. QED
    BY <2>3, <2>4, Zenon
<1>4. ASSUME NEW j \in JPos, NEW e \in Contents(j)' PROVE EntrySafe(e)'
  <2>1. e \in Contents(j)
    BY <1>4, AddrFacts, Zenon
  <2>2. EntrySafe(e)
    BY <1>1, <2>1, Zenon DEF Media
  <2>3. e \in Entry /\ e.seq \in Nat
    BY <2>2, Zenon DEF EntrySafe, Entry
  <2>4. ASSUME e.committed PROVE e.seq \leq diskSb'.jseq
    <3>1. e.seq \leq diskSb.jseq
      BY <2>2, <2>4, Zenon DEF EntrySafe
    <3>2. QED
      BY <1>2, <2>3, <3>1, Numbers
  <2>5. ASSUME e.committed, e.seq = diskSb'.jseq PROVE e.frees \cap Refs(diskSb'.tree) = {}
    <3>1. e.seq \leq diskSb.jseq
      BY <2>2, <2>5, Zenon DEF EntrySafe
    <3>2. e.seq = diskSb.jseq /\ ~(diskSb.jseq < sb.jseq)
      BY <1>2, <2>3, <2>5, <3>1, Numbers
    <3>3. e.frees \cap Refs(diskSb.tree) = {}
      BY <2>2, <2>5, <3>2, Zenon DEF EntrySafe
    <3>4. tree = diskSb.tree
      BY <1>1, <3>2, Zenon DEF Tracked
    <3>5. QED
      BY <1>2, <3>3, <3>4, Zenon
  <2>6. QED
    BY <2>3, <2>4, <2>5, Zenon DEF EntrySafe
<1>5. QED
  BY <1>2, <1>3, <1>4, Zenon DEF Media

\* What of the tree has not reached stable media when its superblock does
LEMMA LandedBytes ==
    ASSUME StoreInv, com.phase \in {"sb", "kssb"}, diskSb'.tree = tree,
           UNCHANGED <<tree, task, cacheDirty, devDirty, trimmed>>,
           com'.phase \notin {"barrier", "sb"}
    PROVE  Bytes'
<1>1. Bytes /\ Tracked
  BY Zenon DEF StoreInv
<1>2. Refs(tree) \cap (cacheDirty \cup devDirty \cup trimmed) = {}
  <2>1. CASE com.phase = "sb"
    BY <1>1, <2>1, Zenon DEF Bytes
  <2>2. CASE com.phase = "kssb"
    BY <1>1, <2>2, Zenon DEF Bytes, Tracked, LiveBlocksIntact
  <2>3. QED
    BY <2>1, <2>2, Zenon
<1>3. LiveBlocksIntact'
  BY <1>2, Zenon DEF LiveBlocksIntact
<1>4. QED
  BY <1>1, <1>3, Zenon DEF Bytes

LEMMA WriteSbInv ==
    ASSUME StoreInv, WriteSb
    PROVE  StoreInv'
<1>1. /\ com.phase \in {"sb", "kssb"} /\ diskSb' = SbImage
      /\ com' = IF com.phase = "sb" THEN [com EXCEPT !.phase = "final"] ELSE Idle
      /\ UNCHANGED <<mounted, tree, bits, pageDirty, trimPending, pendingOld, jnl, sb, task, cacheDirty,
                     devDirty, trimmed, view, top, limbo, stable, crashes, faults>>
  BY Zenon DEF WriteSb, memVars, dataVars, metaVars
<1>2. mounted /\ MemTyped /\ DevTyped /\ Tracked /\ Marked
  BY <1>1, InCommit, Zenon DEF StoreInv
<1>3. /\ Media'
      /\ diskSb' \in [gen : Nat, jhead : JPos, jseq : Nat, tree : Tree]
      /\ diskSb'.tree = tree /\ diskSb'.jseq = sb.jseq
  <2>1. \A a \in Addr : Contents(a)' \subseteq Contents(a)
    BY <1>1, Zenon DEF Contents
  <2>2. QED
    BY <1>1, <2>1, Landed, Zenon
<1>4. /\ com' \in [phase : Phases, old : SUBSET Blocks, freed : SUBSET Blocks]
      /\ com'.old \subseteq com.old /\ com'.freed \subseteq com.freed
      /\ \/ com.phase = "sb" /\ com'.phase = "final"
         \/ com'.phase = "idle" /\ com'.old = {} /\ com'.freed = {}
  <2>1. CASE com.phase = "sb"
    <3>1. "final" \in Phases /\ com' = [com EXCEPT !.phase = "final"]
      BY <1>1, <2>1, Zenon DEF Phases
    <3>2. QED
      BY <1>2, <2>1, <3>1, PhaseTyped, ZenonT(40)
  <2>2. CASE com.phase # "sb"
    BY <1>1, <2>2, IdleTyped, Zenon
  <2>3. QED
    BY <2>1, <2>2, Zenon
<1>5. MemTyped'
  BY <1>1, <1>2, <1>3, <1>4, Zenon DEF MemTyped
<1>6. DevTyped'
  BY <1>1, <1>2, Zenon DEF DevTyped
<1>7. Tracked'
  <2>1. sb.jseq \leq sb.jseq /\ sb.jseq \leq jnl.seq
    BY <1>2, Numbers
  <2>2. CASE com.phase = "sb" /\ com'.phase = "final"
    BY <1>1, <1>2, <1>3, <2>1, <2>2, Zenon DEF Tracked
  <2>3. CASE com'.phase = "idle" /\ com'.old = {} /\ com'.freed = {}
    BY <1>1, <1>2, <1>3, <2>1, <2>3, Zenon DEF Tracked
  <2>4. QED
    BY <1>4, <2>2, <2>3, Zenon
<1>8. Marked'
  BY <1>1, <1>2, <1>4, Zenon DEF Marked, PageBits
<1>9. Bytes'
  BY <1>1, <1>3, <1>4, LandedBytes, Zenon
<1>10. Doomed' \subseteq Doomed
  BY <1>1 DEF Doomed
<1>11. QED
  BY <1>1, <1>2, <1>3, <1>4, <1>5, <1>6, <1>7, <1>8, <1>9, <1>10, Committing, ZenonT(40)

\* Journal::finalize marks the entries of the commit that has just landed.
LEMMA FinalizedFacts ==
    ASSUME StoreInv, com.phase = "final"
    PROVE  /\ DOMAIN Finalized = Addr
           /\ \A p \in Pages : Finalized[p] = view[p] /\ PageSafe(Finalized[p], p)
           /\ \A j \in JPos : EntrySafe(Finalized[j])
<1>1. Media /\ Tracked /\ Apart /\ jnl.uncommitted \subseteq JPos
  BY Zenon DEF StoreInv, MemTyped
<1>2. DOMAIN Finalized = Addr
  BY Zenon DEF Finalized
<1>3. \A a \in Addr : Finalized[a] =
          IF a \in jnl.uncommitted THEN [view[a] EXCEPT !.committed = TRUE] ELSE view[a]
  BY Zenon DEF Finalized
<1>4. \A p \in Pages : Finalized[p] = view[p]
  BY <1>1, <1>3, AddrFacts, Zenon
<1>5. \A p \in Pages : PageSafe(view[p], p)
  BY <1>1, ViewSafe, Zenon
<1>6. ASSUME NEW j \in JPos PROVE EntrySafe(Finalized[j])
  <2>1. EntrySafe(view[j])
    BY <1>1, ViewSafe, Zenon
  <2>2. CASE j \notin jnl.uncommitted
    BY <1>3, <2>1, <2>2, AddrFacts, Zenon
  <2>3. CASE j \in jnl.uncommitted
    <3> DEFINE e == [view[j] EXCEPT !.committed = TRUE]
    <3>1. view[j] \in Entry
      BY <2>1, Zenon DEF EntrySafe
    <3>2. e \in Entry /\ e.seq = view[j].seq /\ e.frees = view[j].frees
      BY <3>1, Zenon DEF Entry
    <3>3. view[j].seq = jnl.seq /\ jnl.seq = diskSb.jseq /\ tree = diskSb.tree
      BY <1>1, <2>3, Zenon DEF Tracked
    <3>4. view[j].frees \cap Refs(tree) = {}
      BY <1>1, <2>3, Zenon DEF Apart, Doomed
    <3>5. diskSb.jseq \leq diskSb.jseq
      BY Numbers
    <3>6. Finalized[j] = e
      BY <1>3, <2>3, AddrFacts, Zenon
    <3> HIDE DEF e
    <3>7. EntrySafe(e)
      BY <3>2, <3>3, <3>4, <3>5, Zenon DEF EntrySafe
    <3>8. QED
      BY <3>6, <3>7, Zenon
  <2>4. QED
    BY <2>2, <2>3, Zenon
<1>7. QED
  BY <1>2, <1>4, <1>5, <1>6, Zenon

LEMMA FinishInv ==
    ASSUME StoreInv, Finish
    PROVE  StoreInv'
<1> DEFINE X == com.old \cup com.freed
<1>1. /\ com.phase = "final" /\ PushView(Finalized) /\ PushNodes
      /\ jnl' = [jnl EXCEPT !.uncommitted = {}]
      /\ bits' = bits \ X /\ pageDirty' = pageDirty \cup PagesOf(X \cap bits)
      /\ trimPending' = trimPending \cup X
      /\ com' = Idle
      /\ UNCHANGED <<mounted, tree, pendingOld, sb, task, trimmed, diskSb, crashes, faults>>
  BY Zenon DEF Finish, FreeBits
<1>2. mounted /\ MemTyped /\ DevTyped /\ Apart /\ Owned /\ Tracked /\ Marked /\ Media /\ Bytes
  BY <1>1, InCommit, Zenon DEF StoreInv
<1>3. /\ DOMAIN Finalized = Addr
      /\ \A p \in Pages : Finalized[p] = view[p] /\ PageSafe(Finalized[p], p)
      /\ \A j \in JPos : EntrySafe(Finalized[j])
  BY <1>1, FinalizedFacts, Zenon
<1>4. /\ \A a \in Addr : Contents(a)' \subseteq Contents(a) \cup {view'[a]}
      /\ DOMAIN view' = Addr /\ DOMAIN top' = Addr /\ DOMAIN stable' = Addr /\ DOMAIN limbo' = Addr
      /\ view' = Finalized /\ top' = Finalized
  BY <1>1, <1>2, <1>3, Pushed, Zenon DEF DevTyped
<1>5. /\ jnl' \in [head : JPos, seq : Nat, frees : SUBSET Blocks, uncommitted : SUBSET JPos]
      /\ jnl'.uncommitted = {} /\ jnl'.seq = jnl.seq /\ jnl'.frees = jnl.frees
  BY <1>1, <1>2, Zenon DEF MemTyped
<1>6. X \subseteq Blocks /\ bits \subseteq Blocks
  BY <1>2, Zenon DEF MemTyped
<1>7. MemTyped'
  <2>1. PagesOf(X \cap bits) \subseteq Pages
    BY <1>6, PagesTyped, Zenon
  <2>2. trimPending' \subseteq Blocks /\ bits' \subseteq Blocks
    BY <1>1, <1>2, <1>6, Zenon DEF MemTyped
  <2>3. QED
    BY <1>1, <1>2, <1>5, <2>1, <2>2, IdleTyped, ZenonT(40) DEF MemTyped
<1>8. DevTyped'
  BY <1>1, <1>2, <1>4, Zenon DEF DevTyped, PushNodes
<1>9. Media'
  BY <1>1, <1>2, <1>3, <1>4, Flushed, Zenon
<1>10. Asleep'
  BY <1>1, <1>2, Zenon DEF Asleep
<1>11. tree = diskSb.tree /\ jnl.frees = {}
  BY <1>1, <1>2, Zenon DEF Tracked
<1>12. Tracked'
  BY <1>1, <1>2, <1>5, <1>11, IdleTyped, Zenon DEF Tracked
<1>13. Marked'
  <2> DEFINE T == X \cap bits
  <2>1. \A x : x \notin T => (x \in bits <=> x \in bits')
    BY <1>1, Zenon
  <2>2. ASSUME NEW p \in Pages \ pageDirty' PROVE view'[p] = PageBits(bits, p)'
    <3>1. p \notin pageDirty /\ p \notin PagesOf(T)
      BY <1>1, <2>2, Zenon
    <3> HIDE DEF T
    <3>2. PageBits(bits', p) = PageBits(bits, p)
      BY <2>1, <3>1, PageStays
    <3>3. view'[p] = PageBits(bits, p)
      BY <1>2, <1>3, <1>4, <3>1, Zenon DEF Marked
    <3>4. QED
      BY <3>2, <3>3, Zenon DEF PageBits
  <2>3. QED
    BY <1>1, <2>2, IdleTyped, Zenon DEF Marked
<1>14. Apart' /\ Owned'
  <2>1. /\ InFlight' = InFlight /\ Refs(tree)' = Refs(tree) /\ Refs(diskSb.tree)' = Refs(diskSb.tree)
        /\ Proper(tree)' /\ Proper(diskSb.tree)'
    BY <1>1, <1>2, Zenon DEF InFlight, Apart
  <2>2. Waiting' = pendingOld /\ Doomed' = {}
    BY <1>1, <1>5, <1>11, IdleTyped, Zenon DEF Waiting, Doomed
  <2>3. /\ InFlight \cap (Refs(tree) \cup Refs(diskSb.tree)) = {}
        /\ pendingOld \cap (Refs(tree) \cup InFlight) = {}
        /\ X \cap (Refs(tree) \cup InFlight) = {}
        /\ pendingOld \cap X = {}
        /\ \A t, u \in Tasks : t # u => task[t].ext \cap task[u].ext = {}
    BY <1>2, Zenon DEF Apart, Waiting
  <2>4. Refs(tree) \subseteq bits /\ InFlight \subseteq bits /\ pendingOld \subseteq bits
    BY <1>2, Zenon DEF Owned, Waiting
  <2>5. Apart'
    BY <1>1, <2>1, <2>2, <2>3, IdleTyped, ZenonT(40) DEF Apart
  <2> HIDE DEF X
  <2>6. Owned'
    BY <1>1, <1>11, <2>1, <2>2, <2>3, <2>4, ZenonT(40) DEF Owned
  <2>7. QED
    BY <2>5, <2>6, Zenon
<1>15. Bytes'
  BY <1>1, <1>2, IdleTyped, BytesPushed, Zenon
<1>16. QED
  BY <1>7, <1>8, <1>9, <1>10, <1>12, <1>13, <1>14, <1>15, ZenonT(40) DEF StoreInv

LEMMA CommitFailInv ==
    ASSUME StoreInv, CommitFail
    PROVE  StoreInv'
<1>1. /\ com.phase \in {"sync", "barrier", "ksbarrier", "sb", "kssb", "final"}
      /\ faults' = faults + 1 /\ com' = Idle
      /\ diskSb' = diskSb \/ (com.phase \in {"sb", "kssb"} /\ diskSb' = SbImage)
      /\ pageDirty' = IF com.phase = "sync" THEN {} ELSE pageDirty
      /\ jnl' = IF com.phase = "final" THEN [jnl EXCEPT !.uncommitted = {}] ELSE jnl
      /\ limbo' = [a \in Addr |-> limbo[a] \cup ({view[a]} \ {top[a]})]
      /\ UNCHANGED <<mounted, tree, bits, trimPending, pendingOld, sb, task, cacheDirty, devDirty, trimmed,
                     top, stable, crashes>>
  BY Zenon DEF CommitFail, dataVars
<1>2. /\ com.phase = "sync" => view' = Synced
      /\ com.phase = "final" => view' = Finalized
      /\ com.phase \notin {"sync", "final"} => view' = view
  BY Zenon DEF CommitFail
<1>3. mounted /\ MemTyped /\ DevTyped /\ Tracked /\ Marked /\ Media /\ Bytes
  BY <1>1, InCommit, Zenon DEF StoreInv
<1>4. /\ \A a \in Addr : Contents(a)' \subseteq Contents(a) \cup {view'[a]}
      /\ DOMAIN limbo' = Addr
  BY <1>1, Cached, Zenon
<1>5. /\ jnl' \in [head : JPos, seq : Nat, frees : SUBSET Blocks, uncommitted : SUBSET JPos]
      /\ jnl'.uncommitted \subseteq jnl.uncommitted /\ jnl'.seq = jnl.seq /\ jnl'.frees = jnl.frees
      /\ com.phase = "final" => jnl'.uncommitted = {}
  <2>1. jnl \in [head : JPos, seq : Nat, frees : SUBSET Blocks, uncommitted : SUBSET JPos]
    BY <1>3, Zenon DEF MemTyped
  <2>2. CASE com.phase = "final"
    <3>1. jnl' = [jnl EXCEPT !.uncommitted = {}]
      BY <1>1, <2>2, Zenon
    <3>2. QED
      BY <2>1, <3>1, Zenon
  <2>3. CASE com.phase # "final"
    BY <1>1, <2>1, <2>3, Zenon
  <2>4. QED
    BY <2>2, <2>3, Zenon
<1>6. /\ DOMAIN view' = Addr
      /\ \A p \in Pages : /\ PageSafe(view'[p], p)
                          /\ p \notin pageDirty' => view'[p] = PageBits(bits, p)
      /\ \A j \in JPos : EntrySafe(view'[j])
      /\ \A j \in jnl'.uncommitted : view'[j] = view[j]
  <2>1. CASE com.phase = "sync"
    <3>1. /\ DOMAIN Synced = Addr
          /\ \A p \in Pages : Synced[p] = PageBits(bits, p) /\ PageSafe(Synced[p], p)
          /\ \A j \in JPos : Synced[j] = view[j] /\ EntrySafe(Synced[j])
      BY <1>3, SyncedFacts, Zenon
    <3>2. jnl'.uncommitted \subseteq JPos /\ view' = Synced
      BY <1>2, <1>5, <2>1, Zenon
    <3>3. QED
      BY <3>1, <3>2, Zenon
  <2>2. CASE com.phase = "final"
    <3>1. /\ DOMAIN Finalized = Addr
          /\ \A p \in Pages : Finalized[p] = view[p] /\ PageSafe(Finalized[p], p)
          /\ \A j \in JPos : EntrySafe(Finalized[j])
      BY <2>2, FinalizedFacts, Zenon
    <3>2. view' = Finalized /\ pageDirty' = pageDirty
      BY <1>1, <1>2, <2>2, Zenon
    <3>3. QED
      BY <1>3, <1>5, <2>2, <3>1, <3>2, ZenonT(40) DEF Marked
  <2>3. CASE com.phase \notin {"sync", "final"}
    <3>1. view' = view /\ pageDirty' = pageDirty
      BY <1>1, <1>2, <2>3, Zenon
    <3>2. QED
      BY <1>3, <3>1, ViewSafe, Zenon DEF DevTyped, Marked
  <2>4. QED
    BY <2>1, <2>2, <2>3, Zenon
<1>7. /\ Media' /\ Bytes'
      /\ diskSb' \in [gen : Nat, jhead : JPos, jseq : Nat, tree : Tree]
      /\ \/ diskSb' = diskSb
         \/ com.phase \in {"sb", "kssb"} /\ diskSb'.tree = tree /\ diskSb'.jseq = sb.jseq
  <2>1. CASE diskSb' = diskSb
    <3>1. Media'
      BY <1>3, <1>4, <1>6, <2>1, Flushed, ZenonT(40)
    <3>2. Bytes'
      BY <1>1, <1>3, <2>1, IdleTyped, BytesStay, ZenonT(40) DEF dataVars
    <3>3. QED
      BY <1>3, <2>1, <3>1, <3>2, ZenonT(40) DEF MemTyped
  <2>2. CASE com.phase \in {"sb", "kssb"} /\ diskSb' = SbImage
    <3>1. view' = view
      BY <1>2, <2>2, Zenon
    <3>2. \A a \in Addr : Contents(a)' \subseteq Contents(a)
      BY <1>4, <3>1, ZenonT(40) DEF Contents
    <3>3. /\ Media'
          /\ diskSb' \in [gen : Nat, jhead : JPos, jseq : Nat, tree : Tree]
          /\ diskSb'.tree = tree /\ diskSb'.jseq = sb.jseq
      BY <2>2, <3>2, Landed, Zenon
    <3>4. Bytes'
      BY <1>1, <2>2, <3>3, IdleTyped, LandedBytes, ZenonT(40)
    <3>5. QED
      BY <2>2, <3>3, <3>4, ZenonT(40)
  <2>3. QED
    BY <1>1, <2>1, <2>2, Zenon
<1>8. MemTyped'
  BY <1>1, <1>3, <1>5, <1>7, IdleTyped, ZenonT(40) DEF MemTyped
<1>9. DevTyped'
  <2>1. faults' \in Nat
    BY <1>1, <1>3 DEF DevTyped
  <2>2. QED
    BY <1>1, <1>3, <1>4, <1>6, <2>1, ZenonT(40) DEF DevTyped
<1>10. Tracked'
  <2>1. diskSb'.jseq \leq sb.jseq /\ sb.jseq \leq jnl.seq
    BY <1>3, <1>7, Numbers
  <2>2. tree = diskSb'.tree \/ diskSb'.jseq < jnl.seq
    BY <1>1, <1>3, <1>7, Zenon DEF Tracked
  <2>3. \A j \in jnl'.uncommitted : view'[j].seq = jnl'.seq
    BY <1>3, <1>5, <1>6, Zenon DEF Tracked
  <2>4. QED
    BY <1>1, <1>5, <2>1, <2>2, <2>3, IdleTyped, ZenonT(40) DEF Tracked
<1>11. Marked'
  BY <1>1, <1>6, IdleTyped, Zenon DEF Marked, PageBits
<1>12. Doomed' \subseteq Doomed
  BY <1>5, <1>6, DoomedStays, Zenon
<1>13. com'.old \subseteq com.old /\ com'.freed \subseteq com.freed
  BY <1>1, IdleTyped, Zenon
<1>14. diskSb'.tree = diskSb.tree \/ diskSb'.tree = tree
  BY <1>7, Zenon
<1>15. QED
  BY <1>1, <1>3, <1>7, <1>8, <1>9, <1>10, <1>11, <1>12, <1>13, <1>14, Committing, ZenonT(40)

LEMMA SetKeyslotQuietInv ==
    ASSUME StoreInv, SetKeyslotQuiet
    PROVE  StoreInv'
<1>1. /\ tree = diskSb.tree /\ Ready /\ sb' = [sb EXCEPT !.gen = @ + 1]
      /\ PushView(view) /\ PushNodes
      /\ com' = [Idle EXCEPT !.phase = "ksbarrier"]
      /\ UNCHANGED <<mounted, tree, bits, pageDirty, trimPending, pendingOld, jnl, task, trimmed,
                     diskSb, crashes, faults>>
  BY Zenon DEF SetKeyslotQuiet, SetKeyslot
<1>2. mounted /\ MemTyped /\ DevTyped /\ Tracked /\ Marked /\ Media /\ Bytes
  BY <1>1, Zenon DEF StoreInv, Ready
<1>3. /\ \A a \in Addr : Contents(a)' \subseteq Contents(a) \cup {view'[a]}
      /\ DOMAIN view' = Addr /\ DOMAIN top' = Addr /\ DOMAIN stable' = Addr /\ DOMAIN limbo' = Addr
      /\ view' = view
  BY <1>1, <1>2, Pushed, ZenonT(40) DEF DevTyped
<1>4. sb' \in [gen : Nat, jhead : JPos, jseq : Nat] /\ sb'.jseq = sb.jseq
  BY <1>1, <1>2 DEF MemTyped
<1>5. /\ com' \in [phase : Phases, old : SUBSET Blocks, freed : SUBSET Blocks]
      /\ com'.phase = "ksbarrier" /\ com'.old = {} /\ com'.freed = {}
  BY <1>1, Zenon DEF Idle, Phases
<1>6. MemTyped'
  BY <1>1, <1>2, <1>4, <1>5, ZenonT(40) DEF MemTyped
<1>7. DevTyped'
  BY <1>1, <1>2, <1>3, Zenon DEF DevTyped, PushNodes
<1>8. Media'
  <2>1. \A p \in Pages : PageSafe(view'[p], p)
    BY <1>2, <1>3, ViewSafe, Zenon
  <2>2. \A j \in JPos : EntrySafe(view'[j])
    BY <1>2, <1>3, ViewSafe, Zenon
  <2>3. QED
    BY <1>1, <1>2, <1>3, <2>1, <2>2, Flushed, ZenonT(40)
<1>9. Tracked'
  BY <1>1, <1>2, <1>3, <1>4, <1>5, Zenon DEF Tracked
<1>10. Marked'
  BY <1>1, <1>2, <1>3, <1>5, Zenon DEF Marked, PageBits
<1>11. Bytes'
  BY <1>1, <1>2, <1>5, BytesPushed, Zenon
<1>12. Doomed' \subseteq Doomed
  BY <1>1, <1>3 DEF Doomed
<1>13. com'.old \subseteq com.old /\ com'.freed \subseteq com.freed
  BY <1>5, Zenon
<1>14. QED
  BY <1>1, <1>2, <1>6, <1>7, <1>8, <1>9, <1>10, <1>11, <1>12, <1>13, Committing, ZenonT(40)

-----------------------------------------------------------------------------
(* Power loss and mount.                                                   *)

LEMMA CrashInv ==
    ASSUME StoreInv, Crash
    PROVE  StoreInv'
<1>1. /\ mounted' = FALSE /\ crashes' = crashes + 1
      /\ view' = stable' /\ top' = stable' /\ limbo' = [a \in Addr |-> {}]
      /\ cacheDirty' = {} /\ devDirty' = {} /\ com' = Idle
      /\ task' = [t \in Tasks |-> NoPut] /\ tree' = diskSb.tree
      /\ bits' = {} /\ pageDirty' = {} /\ trimPending' = {} /\ pendingOld' = {}
      /\ jnl' = [head |-> 0, seq |-> 0, frees |-> {}, uncommitted |-> {}]
      /\ sb' = [gen |-> diskSb.gen, jhead |-> diskSb.jhead, jseq |-> diskSb.jseq]
      /\ UNCHANGED <<trimmed, diskSb, faults>>
  BY Zenon DEF Crash
<1>2. MemTyped /\ DevTyped /\ Apart /\ Media /\ Bytes
  BY Zenon DEF StoreInv
<1>3. DOMAIN stable' = Addr /\ \A a \in Addr : stable'[a] \in Contents(a)
  <2>1. PICK m \in Outcomes(JPos), q \in Outcomes(Pages) :
               stable' = [a \in Addr |-> IF a \in JPos THEN m[a] ELSE q[a]]
    BY Zenon DEF Crash
  <2>2. (\A a \in JPos : m[a] \in Leftover(a)) /\ (\A a \in Pages : q[a] \in Leftover(a))
    BY Zenon DEF Outcomes
  <2>3. \A a : Leftover(a) \subseteq Contents(a)
    BY Zenon DEF Leftover, Contents
  <2>4. \A a \in Addr : stable'[a] = IF a \in JPos THEN m[a] ELSE q[a]
    BY <2>1, Zenon
  <2>5. \A a \in Addr : a \notin JPos => a \in Pages
    BY Zenon DEF Addr
  <2>6. DOMAIN stable' = Addr
    BY <2>1, Zenon
  <2>7. QED
    BY <2>2, <2>3, <2>4, <2>5, <2>6, Zenon
<1>4. /\ jnl' \in [head : JPos, seq : Nat, frees : SUBSET Blocks, uncommitted : SUBSET JPos]
      /\ jnl'.frees = {} /\ jnl'.uncommitted = {}
  <2>1. 0 \in JPos /\ 0 \in Nat
    BY SizesAssumption, SMT DEF JPos
  <2>2. QED
    BY <1>1, <2>1, Zenon
<1>5. /\ sb' \in [gen : Nat, jhead : JPos, jseq : Nat]
      /\ sb'.jseq = diskSb.jseq /\ sb'.jhead = diskSb.jhead
  BY <1>1, <1>2, Zenon DEF MemTyped
<1>6. /\ task' \in [Tasks -> Put]
      /\ \A t \in Tasks : task'[t].ext = {} /\ task'[t].step = "idle"
  BY <1>1, NoPutTyped, Zenon
<1>7. MemTyped'
  <2>1. diskSb.tree \in Tree
    BY <1>2, Zenon DEF MemTyped
  <2>2. QED
    BY <1>1, <1>2, <1>4, <1>5, <1>6, <2>1, IdleTyped, ZenonT(40) DEF MemTyped
<1>8. DevTyped'
  <2>1. crashes' \in Nat
    BY <1>1, <1>2 DEF DevTyped
  <2>2. QED
    BY <1>1, <1>2, <1>3, <2>1, ZenonT(40) DEF DevTyped
<1>9. Asleep'
  BY <1>1, <1>4, <1>5, <1>6, ZenonT(40) DEF Asleep
<1>10. InFlight' = {} /\ Waiting' = {} /\ Doomed' = {}
  BY <1>1, <1>4, <1>6, IdleTyped DEF InFlight, Waiting, Doomed
<1>11. Apart'
  <2>1. Proper(tree)' /\ Proper(diskSb.tree)'
    BY <1>1, <1>2, Zenon DEF Apart
  <2>2. QED
    BY <1>1, <1>6, <1>10, <2>1, Zenon DEF Apart
<1>12. Owned'
  BY <1>1, Zenon DEF Owned
<1>13. Tracked'
  <2>1. diskSb.jseq \leq diskSb.jseq
    BY Numbers
  <2>2. QED
    BY <1>1, <1>4, <1>5, <2>1, IdleTyped, Zenon DEF Tracked
<1>14. Marked'
  BY <1>1, IdleTyped, Zenon DEF Marked
<1>15. \A a \in Addr : Contents(a)' \subseteq Contents(a)
  BY <1>1, <1>3, ZenonT(40) DEF Contents
<1>16. Media'
  <2>1. \A a \in Addr : view'[a] \in Contents(a)
    BY <1>1, <1>3, Zenon
  <2>2. (\A p \in Pages : PageSafe(view'[p], p)) /\ (\A j \in JPos : EntrySafe(view'[j]))
    BY <1>2, <2>1, AddrFacts, Zenon DEF Media
  <2>3. QED
    BY <1>1, <1>2, <1>15, <2>2, Flushed, Zenon
<1>17. Bytes'
  <2>1. Refs(tree)' = Refs(diskSb.tree) /\ Refs(diskSb.tree)' = Refs(diskSb.tree)
    BY <1>1, Zenon
  <2>2. Refs(diskSb.tree) \cap trimmed = {}
    BY <1>2, Zenon DEF Bytes, LiveBlocksIntact
  <2>3. QED
    BY <1>1, <1>6, <2>1, <2>2, IdleTyped, ZenonT(40) DEF Bytes, LiveBlocksIntact
<1>18. QED
  BY <1>7, <1>8, <1>9, <1>11, <1>12, <1>13, <1>14, <1>16, <1>17, ZenonT(40) DEF StoreInv

\* What replay frees is not referenced by the superblock it starts from.
LEMMA ReplaySafe ==
    ASSUME MemTyped, Media
    PROVE  /\ ReplayFrees \subseteq Blocks
           /\ ReplayFrees \cap Refs(diskSb.tree) = {}
<1>1. ASSUME NEW k \in JPos, Replayed(k)
      PROVE  /\ stable[Back(k)].frees \subseteq Blocks
             /\ stable[Back(k)].frees \cap Refs(diskSb.tree) = {}
  <2>1. k \in 0 .. k /\ Back(k) \in JPos
    BY SizesAssumption, SMT DEF Back, JPos, MemTyped
  <2>2. stable[Back(k)].committed /\ stable[Back(k)].seq >= diskSb.jseq
    BY <1>1, <2>1, Zenon DEF Replayed
  <2>3. EntrySafe(stable[Back(k)])
    BY <2>1, Zenon DEF Media, Contents
  <2>4. stable[Back(k)].seq \leq diskSb.jseq /\ stable[Back(k)].seq \in Nat
    BY <2>2, <2>3, Zenon DEF EntrySafe, Entry
  <2>5. diskSb.jseq \in Nat
    BY Zenon DEF MemTyped
  <2>6. stable[Back(k)].seq = diskSb.jseq
    BY <2>2, <2>4, <2>5, SMTT(40)
  <2>7. QED
    BY <2>2, <2>3, <2>6, Zenon DEF EntrySafe, Entry
<1>2. QED
  BY <1>1, Zenon DEF ReplayFrees

LEMMA MountInv ==
    ASSUME StoreInv, Mount
    PROVE  StoreInv'
<1> DEFINE loaded == UNION {stable[p] : p \in Pages}
<1> DEFINE hit == PagesOf(ReplayFrees \cap loaded)
<1> DEFINE v == [a \in Addr |-> IF a \in hit THEN PageBits(bits', a) ELSE view[a]]
<1>1. /\ ~mounted /\ mounted' = TRUE
      /\ bits' = loaded \ ReplayFrees /\ trimPending' = ReplayFrees /\ PushView(v)
      /\ jnl' = [head |-> diskSb.jhead, seq |-> diskSb.jseq, frees |-> {}, uncommitted |-> {}]
      /\ UNCHANGED <<tree, pageDirty, pendingOld, sb, com, task, diskSb, crashes, faults>>
      /\ UNCHANGED dataVars
  BY Zenon DEF Mount
<1>2. MemTyped /\ DevTyped /\ Apart /\ Media /\ Bytes /\ Asleep
  BY Zenon DEF StoreInv
<1>3. /\ tree = diskSb.tree /\ com = Idle /\ pendingOld = {} /\ pageDirty = {}
      /\ sb.jseq = diskSb.jseq /\ view = stable
      /\ \A t \in Tasks : task[t].ext = {}
  BY <1>1, <1>2, Zenon DEF Asleep
<1>4. ReplayFrees \subseteq Blocks /\ ReplayFrees \cap Refs(diskSb.tree) = {}
  BY <1>2, ReplaySafe, Zenon
<1>5. \A p \in Pages : PageSafe(stable[p], p)
  BY <1>2, <1>3, ViewSafe, Zenon
<1>6. loaded \subseteq Blocks /\ \A p \in Pages : PageBits(loaded, p) = stable[p]
  BY <1>5 DEF PageSafe, PageBits
<1>7. Refs(diskSb.tree) \subseteq loaded
  <2>1. Refs(diskSb.tree) \subseteq Blocks
    BY <1>2, TreeRefs, Zenon DEF MemTyped
  <2>2. ASSUME NEW x \in Refs(diskSb.tree) PROVE x \in stable[PageOf[x]] /\ PageOf[x] \in Pages
    <3>1. PageOf[x] \in Pages
      BY <2>1, PagesAssumption, Zenon
    <3>2. QED
      BY <1>5, <3>1, Zenon DEF PageSafe, PageBits
  <2>3. QED
    BY <2>2, Zenon
<1>8. Refs(diskSb.tree) \subseteq bits' /\ bits' \subseteq Blocks
  BY <1>1, <1>4, <1>6, <1>7, ZenonT(40)
<1>9. hit \subseteq Pages
  <2>1. ReplayFrees \cap loaded \in SUBSET Blocks
    BY <1>4, Zenon
  <2>2. QED
    BY <2>1, PagesTyped, Zenon
<1>10. \A p \in Pages : PageBits(bits', p) = v[p]
  <2> SUFFICES ASSUME NEW p \in Pages PROVE PageBits(bits', p) = v[p]
    BY Zenon
  <2>1. v[p] = IF p \in hit THEN PageBits(bits', p) ELSE view[p]
    BY AddrFacts, Zenon
  <2>2. CASE p \notin hit
    <3>1. \A x \in loaded : PageOf[x] = p => x \notin ReplayFrees
      BY <2>2, Zenon DEF PagesOf
    <3>2. PageBits(bits', p) = PageBits(loaded, p)
      BY <1>1, <3>1, Zenon DEF PageBits
    <3>3. QED
      BY <1>3, <1>6, <2>1, <2>2, <3>2, ZenonT(40)
  <2>3. QED
    BY <2>1, <2>2, Zenon
<1>11. \A j \in JPos : v[j] = view[j]
  BY <1>9, AddrFacts, Zenon
<1>12. DOMAIN v = Addr
  BY Zenon
<1> HIDE DEF loaded, hit, v
<1>13. /\ \A a \in Addr : Contents(a)' \subseteq Contents(a) \cup {view'[a]}
       /\ DOMAIN view' = Addr /\ DOMAIN top' = Addr /\ DOMAIN stable' = Addr /\ DOMAIN limbo' = Addr
       /\ view' = v
  BY <1>1, <1>2, <1>12, Pushed, ZenonT(40) DEF DevTyped
<1>14. /\ jnl' \in [head : JPos, seq : Nat, frees : SUBSET Blocks, uncommitted : SUBSET JPos]
       /\ jnl'.frees = {} /\ jnl'.uncommitted = {} /\ jnl'.seq = diskSb.jseq
  BY <1>1, <1>2, Zenon DEF MemTyped
<1>15. MemTyped'
  BY <1>1, <1>2, <1>4, <1>8, <1>14, ZenonT(40) DEF MemTyped
<1>16. DevTyped'
  BY <1>1, <1>2, <1>13, Zenon DEF DevTyped, dataVars
<1>17. Asleep'
  BY <1>1, ZenonT(40) DEF Asleep
<1>18. InFlight' = {} /\ Waiting' = {} /\ Doomed' = {}
  BY <1>1, <1>3, <1>14, IdleTyped DEF InFlight, Waiting, Doomed
<1>19. Apart'
  <2>1. Proper(tree)' /\ Proper(diskSb.tree)'
    BY <1>1, <1>2, Zenon DEF Apart
  <2>2. QED
    BY <1>1, <1>3, <1>18, <2>1, ZenonT(40) DEF Apart
<1>20. Owned'
  <2>1. Refs(tree)' = Refs(diskSb.tree) /\ Refs(diskSb.tree)' = Refs(diskSb.tree)
    BY <1>1, <1>3, Zenon
  <2>2. QED
    BY <1>8, <1>18, <2>1, Zenon DEF Owned
<1>21. Tracked'
  <2>1. diskSb.jseq \leq diskSb.jseq
    BY Numbers
  <2>2. QED
    BY <1>1, <1>3, <1>14, <2>1, IdleTyped, ZenonT(40) DEF Tracked
<1>22. Marked'
  BY <1>1, <1>3, <1>10, <1>13, IdleTyped, Zenon DEF Marked, PageBits
<1>23. Media'
  <2>1. ASSUME NEW p \in Pages PROVE PageSafe(view'[p], p)
    <3>1. view'[p] = PageBits(bits', p)
      BY <1>10, <1>13, Zenon
    <3>2. QED
      BY <1>8, <3>1, Zenon DEF PageSafe, PageBits
  <2>2. \A j \in JPos : EntrySafe(view'[j])
    BY <1>2, <1>11, <1>13, ViewSafe, ZenonT(40)
  <2>3. QED
    BY <1>1, <1>2, <1>13, <2>1, <2>2, Flushed, ZenonT(40)
<1>24. Bytes'
  BY <1>1, <1>2, <1>3, IdleTyped, BytesStay, ZenonT(40)
<1>25. QED
  BY <1>15, <1>16, <1>17, <1>19, <1>20, <1>21, <1>22, <1>23, <1>24, ZenonT(40) DEF StoreInv

-----------------------------------------------------------------------------
(* The initial state.                                                      *)

LEMMA InitInv ==
    ASSUME Init
    PROVE  StoreInv
<1>1. /\ mounted = TRUE /\ tree = InitTree /\ bits = Refs(InitTree)
      /\ pageDirty = {} /\ trimPending = {} /\ pendingOld = {}
      /\ jnl = [head |-> 0, seq |-> 0, frees |-> {}, uncommitted |-> {}]
      /\ sb = [gen |-> 1, jhead |-> 0, jseq |-> 0]
      /\ com = Idle /\ task = [t \in Tasks |-> NoPut]
      /\ cacheDirty = {} /\ devDirty = {} /\ trimmed = {}
      /\ stable = [a \in Addr |-> IF a \in Pages THEN PageBits(bits, a) ELSE NoEntry]
      /\ view = stable /\ top = stable /\ limbo = [a \in Addr |-> {}]
      /\ diskSb = [gen |-> 1, jhead |-> 0, jseq |-> 0, tree |-> InitTree]
      /\ crashes = 0 /\ faults = 0
  BY Zenon DEF Init
<1>2. 0 \in JPos /\ 0 \in Nat /\ 1 \in Nat /\ 0 \leq 0
  BY SizesAssumption, SMT DEF JPos
<1>3. InitTree \in Tree /\ Proper(InitTree)
  BY InitTreeAssumption, Zenon DEF Tree, Proper
<1>4. Refs(InitTree) \subseteq Blocks
  BY <1>3, TreeRefs, Zenon
<1>5. /\ jnl \in [head : JPos, seq : Nat, frees : SUBSET Blocks, uncommitted : SUBSET JPos]
      /\ jnl.frees = {} /\ jnl.uncommitted = {} /\ jnl.seq = 0
  BY <1>1, <1>2, Zenon
<1>6. /\ sb \in [gen : Nat, jhead : JPos, jseq : Nat] /\ sb.jseq = 0
      /\ diskSb \in [gen : Nat, jhead : JPos, jseq : Nat, tree : Tree]
      /\ diskSb.jseq = 0 /\ diskSb.tree = InitTree
  BY <1>1, <1>2, <1>3, Zenon
<1>7. task \in [Tasks -> Put] /\ \A t \in Tasks : task[t].ext = {} /\ task[t].step = "idle"
  BY <1>1, NoPutTyped, Zenon
<1>8. MemTyped
  BY <1>1, <1>3, <1>4, <1>5, <1>6, <1>7, IdleTyped, ZenonT(40) DEF MemTyped
<1>9. DevTyped
  BY <1>1, <1>2, Zenon DEF DevTyped
<1>10. Asleep
  BY <1>1, ZenonT(40) DEF Asleep
<1>11. InFlight = {} /\ Waiting = {} /\ Doomed = {}
  BY <1>1, <1>5, <1>7, IdleTyped DEF InFlight, Waiting, Doomed
<1>12. Apart
  BY <1>1, <1>3, <1>6, <1>7, <1>11, ZenonT(40) DEF Apart
<1>13. Owned
  BY <1>1, <1>6, <1>11, Zenon DEF Owned
<1>14. Tracked
  BY <1>1, <1>2, <1>5, <1>6, IdleTyped, ZenonT(40) DEF Tracked
<1>15. /\ \A p \in Pages : stable[p] = PageBits(bits, p)
       /\ \A j \in JPos : stable[j] = NoEntry
       /\ \A a \in Addr : limbo[a] = {}
  BY <1>1, AddrFacts, Zenon
<1>16. Marked
  BY <1>1, <1>15, IdleTyped, Zenon DEF Marked
<1>17. \A a \in Addr : Contents(a) = {stable[a]}
  BY <1>1, <1>15, Zenon DEF Contents
<1>18. \A p \in Pages : PageSafe(PageBits(bits, p), p)
  BY <1>1, <1>4, <1>6, Zenon DEF PageSafe, PageBits
<1>19. EntrySafe(NoEntry)
  BY <1>2, Zenon DEF EntrySafe, NoEntry, Entry
<1>20. Media
  <2>1. \A p \in Pages : Contents(p) = {PageBits(bits, p)}
    BY <1>15, <1>17, AddrFacts, Zenon
  <2>2. \A j \in JPos : Contents(j) = {NoEntry}
    BY <1>15, <1>17, AddrFacts, ZenonT(40)
  <2>3. QED
    BY <1>18, <1>19, <2>1, <2>2, ZenonT(40) DEF Media
<1>21. Bytes
  BY <1>1, <1>7, IdleTyped, ZenonT(40) DEF Bytes, LiveBlocksIntact
<1>22. QED
  BY <1>8, <1>9, <1>10, <1>12, <1>13, <1>14, <1>16, <1>20, <1>21, ZenonT(40) DEF StoreInv

LEMMA StutterInv ==
    ASSUME StoreInv, UNCHANGED vars
    PROVE  StoreInv'
<1>1. UNCHANGED <<mounted, tree, bits, pageDirty, trimPending, pendingOld, jnl, sb, com, task,
                  cacheDirty, devDirty, trimmed, view, top, limbo, stable, diskSb, crashes, faults>>
  BY Zenon DEF vars, memVars, dataVars, metaVars
<1>2. \A a : Contents(a)' = Contents(a)
  BY <1>1, Zenon DEF Contents
<1>3. MemTyped' /\ DevTyped' /\ Asleep'
  BY <1>1, ZenonT(40) DEF StoreInv, MemTyped, DevTyped, Asleep
<1>4. Apart' /\ Owned'
  BY <1>1 DEF StoreInv, Apart, Owned, Waiting, Doomed, InFlight
<1>5. Tracked'
  BY <1>1, ZenonT(40) DEF StoreInv, Tracked
<1>6. Marked'
  BY <1>1, <1>2, ZenonT(40) DEF StoreInv, Marked
<1>7. Media'
  BY <1>1, <1>2, ZenonT(40) DEF StoreInv, Media, PageSafe, EntrySafe
<1>8. Bytes'
  BY <1>1, Zenon DEF StoreInv, Bytes, LiveBlocksIntact
<1>9. QED
  BY <1>3, <1>4, <1>5, <1>6, <1>7, <1>8, ZenonT(40) DEF StoreInv

-----------------------------------------------------------------------------
(* The refinement of AtomicStore.                                          *)

\* Every object the superblock on media names can be read: no block of its
\* tree has lost its bytes.
LEMMA AllReadable ==
    ASSUME NEW t, NEW lost, Refs(t) \cap lost = {}
    PROVE  {o \in Stored(t) : (t.nodes \cup t.objs[o]) \cap lost = {}} = Stored(t)
<1>1. \A o \in Objects : t.nodes \cup t.objs[o] \subseteq Refs(t)
  BY InRefs, Zenon
<1>2. QED
  BY <1>1, Zenon DEF Stored

LEMMA SavedAll ==
    ASSUME StoreInv
    PROVE  SavedObjects = Stored(diskSb.tree)
<1>1. Refs(diskSb.tree) \cap (cacheDirty \cup devDirty \cup trimmed) = {}
  BY Zenon DEF StoreInv, Bytes, LiveBlocksIntact
<1>2. QED
  BY <1>1, AllReadable, Zenon DEF SavedObjects

LEMMA SavedAllNext ==
    ASSUME StoreInv'
    PROVE  SavedObjects' = Stored(diskSb'.tree)
<1>1. Refs(diskSb'.tree) \cap (cacheDirty' \cup devDirty' \cup trimmed') = {}
  BY Zenon DEF StoreInv, Bytes, LiveBlocksIntact
<1>2. QED
  BY <1>1, AllReadable, ZenonT(40) DEF SavedObjects, Stored

\* What a step does to the two trees and to `mounted'
Silent == UNCHANGED <<mounted, tree, diskSb>>

Landing == mounted /\ UNCHANGED <<mounted, tree>> /\ diskSb'.tree = tree

Writing(o) ==
    /\ mounted /\ UNCHANGED <<mounted, diskSb>>
    /\ \E nodes, blocks : tree' = [nodes |-> nodes, objs |-> [tree.objs EXCEPT ![o] = blocks]]

Falling == mounted' = FALSE /\ UNCHANGED diskSb

Rising == ~mounted /\ mounted' = TRUE /\ UNCHANGED <<tree, diskSb>>

LEMMA Kinds ==
    ASSUME StoreInv, [Next]_vars
    PROVE  \/ Silent \/ Landing \/ Falling \/ Rising
           \/ \E o \in Objects : Writing(o) /\ tree.objs[o] = {}
           \/ \E o \in Objects : Writing(o) /\ tree'.objs[o] = {} /\ o \notin Anchored
<1>1. CASE UNCHANGED vars
  BY <1>1, Zenon DEF vars, memVars, Silent
<1>2. ASSUME NEW t \in Tasks, NEW o \in Objects, PutLookup(t, o) PROVE Silent
  BY <1>2, Zenon DEF PutLookup, memVars, Silent
<1>3. ASSUME NEW t \in Tasks, PutAlloc(t) \/ PutNoRoom(t) \/ PutWrite(t) \/ PutWriteFail(t) PROVE Silent
  BY <1>3, Zenon DEF PutAlloc, PutNoRoom, PutWrite, PutWriteFail, memVars, Silent
<1>4. ASSUME NEW t \in Tasks, PutDuplicate(t) \/ PutChainNoRoom(t) \/ PutInsertNoRoom(t) PROVE Silent
  BY <1>4, Zenon DEF PutDuplicate, PutChainNoRoom, PutInsertNoRoom, memVars, Silent
<1>5. ASSUME NEW t \in Tasks, PutInsert(t)
      PROVE  \E o \in Objects : Writing(o) /\ tree.objs[o] = {}
  <2>1. mounted /\ UNCHANGED <<mounted, diskSb>> /\ tree.objs[task[t].obj] = {}
    BY <1>5, Zenon DEF PutInsert, Ready
  <2>2. \E nodes, blocks :
          tree' = [nodes |-> nodes, objs |-> [tree.objs EXCEPT ![task[t].obj] = blocks]]
    BY <1>5, Zenon DEF PutInsert
  <2>3. task[t].obj \in Objects
    BY Zenon DEF StoreInv, MemTyped, Put
  <2>4. QED
    BY <2>1, <2>2, <2>3, Zenon DEF Writing
<1>6. ASSUME NEW o \in Objects, Unlink(o)
      PROVE  Writing(o) /\ tree'.objs[o] = {} /\ o \notin Anchored
  <2>1. PICK nodes : tree' = [nodes |-> nodes, objs |-> [tree.objs EXCEPT ![o] = {}]]
    BY <1>6, Zenon DEF Unlink
  <2>2. tree.objs \in [Objects -> SUBSET Blocks]
    BY Zenon DEF StoreInv, MemTyped, Tree
  <2>3. tree'.objs[o] = {}
    BY <2>1, <2>2, Zenon
  <2>4. mounted /\ UNCHANGED <<mounted, diskSb>> /\ o \notin Anchored
    BY <1>6, InCommit, Zenon DEF Unlink
  <2>5. QED
    BY <2>1, <2>3, <2>4, Zenon DEF Writing
<1>7. ASSUME NEW flip \in BOOLEAN, CommitRoot(flip) PROVE Silent
  BY <1>7, Zenon DEF CommitRoot, Silent
<1>8. CASE SweepBegin \/ UnlinkNoRoom \/ SweepCommit \/ Prepare \/ PrepareFail
  BY <1>8, Zenon DEF SweepBegin, UnlinkNoRoom, SweepCommit, Prepare, PrepareFail, memVars, Silent
<1>9. CASE Sync \/ Barrier \/ Finish \/ Trim \/ ShutdownFlush
  BY <1>9, Zenon DEF Sync, Barrier, Finish, Trim, ShutdownFlush, memVars, Silent
<1>10. CASE WriteSb
  <2>1. mounted /\ UNCHANGED <<mounted, tree>> /\ diskSb' = SbImage
    BY <1>10, InCommit, Zenon DEF WriteSb, memVars
  <2>2. QED
    BY <2>1, Zenon DEF SbImage, Landing
<1>11. CASE CommitFail
  <2>1. /\ com.phase # "idle" /\ UNCHANGED <<mounted, tree>>
        /\ diskSb' = diskSb \/ diskSb' = SbImage
    BY <1>11, Zenon DEF CommitFail
  <2>2. mounted
    BY <2>1, InCommit, Zenon
  <2>3. QED
    BY <2>1, <2>2 DEF SbImage, Landing, Silent
<1>12. CASE Crash
  BY <1>12, Zenon DEF Crash, Falling
<1>13. CASE Mount
  BY <1>13, Zenon DEF Mount, Rising
<1>14. CASE SetKeyslotQuiet
  BY <1>14, Zenon DEF SetKeyslotQuiet, SetKeyslot, Silent
<1>15. QED
  BY <1>1, <1>2, <1>3, <1>4, <1>5, <1>6, <1>7, <1>8, <1>9, <1>10, <1>11, <1>12, <1>13, <1>14, Zenon
     DEF Next, Step

\* An insert or a delete changes whether one object is stored, no other.
LEMMA WritingFacts ==
    ASSUME StoreInv, NEW o \in Objects, Writing(o)
    PROVE  /\ mounted /\ mounted' /\ diskSb' = diskSb
           /\ \A p \in Objects \ {o} : p \in Stored(tree') <=> p \in Stored(tree)
<1>1. tree.objs \in [Objects -> SUBSET Blocks]
  BY Zenon DEF StoreInv, MemTyped, Tree
<1>2. PICK nodes, blocks : tree' = [nodes |-> nodes, objs |-> [tree.objs EXCEPT ![o] = blocks]]
  BY Zenon DEF Writing
<1>3. \A p \in Objects \ {o} : tree'.objs[p] = tree.objs[p]
  BY <1>1, <1>2, Zenon
<1>4. mounted /\ mounted' /\ diskSb' = diskSb
  BY Zenon DEF Writing
<1>5. QED
  BY <1>3, <1>4, Zenon DEF Stored

LEMMA AtomicStep ==
    ASSUME StoreInv, StoreInv', [Next]_vars
    PROVE  [Atomic!Next]_(Atomic!vars)
<1> DEFINE now == IF mounted THEN Stored(tree) ELSE SavedObjects
<1> DEFINE nxt == IF mounted' THEN Stored(tree') ELSE SavedObjects'
<1>1. SavedObjects = Stored(diskSb.tree) /\ SavedObjects' = Stored(diskSb'.tree)
  BY SavedAll, SavedAllNext, Zenon
<1>2. ASSUME nxt = now, SavedObjects' = SavedObjects PROVE UNCHANGED Atomic!vars
  BY <1>2, Zenon DEF Atomic!vars, Stored
<1>3. ASSUME NEW o \in Objects, nxt = now \cup {o}, SavedObjects' = SavedObjects PROVE Atomic!Next
  BY <1>3, Zenon DEF Atomic!Next, Atomic!Put, Stored
<1>4. ASSUME NEW o \in Objects, o \notin Anchored, nxt = now \ {o}, SavedObjects' = SavedObjects
      PROVE  Atomic!Next
  BY <1>4, Zenon DEF Atomic!Next, Atomic!Remove, Stored
<1>5. ASSUME nxt = now, SavedObjects' = now PROVE Atomic!Next
  BY <1>5, Zenon DEF Atomic!Next, Atomic!Commit, Stored
<1>6. ASSUME nxt = SavedObjects, SavedObjects' = SavedObjects PROVE Atomic!Next
  BY <1>6, Zenon DEF Atomic!Next, Atomic!PowerCut, Stored
<1>7. CASE Silent
  <2>1. nxt = now /\ SavedObjects' = SavedObjects
    BY <1>1, <1>7, Zenon DEF Silent
  <2>2. QED
    BY <1>2, <2>1, Zenon
<1>8. CASE Landing
  <2>1. nxt = now /\ SavedObjects' = now
    BY <1>1, <1>8, Zenon DEF Landing
  <2>2. QED
    BY <1>5, <2>1, Zenon
<1>9. CASE Falling
  <2>1. nxt = SavedObjects /\ SavedObjects' = SavedObjects
    BY <1>1, <1>9, ZenonT(40) DEF Falling
  <2>2. QED
    BY <1>6, <2>1, Zenon
<1>10. CASE Rising
  <2>1. tree = diskSb.tree
    BY <1>10, Zenon DEF Rising, StoreInv, Asleep
  <2>2. nxt = now /\ SavedObjects' = SavedObjects
    BY <1>1, <1>10, <2>1, Zenon DEF Rising
  <2>3. QED
    BY <1>2, <2>2, Zenon
<1>11. ASSUME NEW o \in Objects, Writing(o), tree.objs[o] = {} PROVE [Atomic!Next]_(Atomic!vars)
  <2>1. /\ now = Stored(tree) /\ nxt = Stored(tree') /\ SavedObjects' = SavedObjects
        /\ \A p \in Objects \ {o} : p \in nxt <=> p \in now
    BY <1>1, <1>11, WritingFacts, Zenon
  <2>2. o \notin now /\ now \subseteq Objects /\ nxt \subseteq Objects
    BY <1>11, <2>1, Zenon DEF Stored
  <2> HIDE DEF now, nxt
  <2>3. nxt = now \/ nxt = now \cup {o}
    BY <2>1, <2>2
  <2>4. QED
    BY <1>2, <1>3, <2>1, <2>3, ZenonT(40)
<1>12. ASSUME NEW o \in Objects, Writing(o), tree'.objs[o] = {}, o \notin Anchored
       PROVE  [Atomic!Next]_(Atomic!vars)
  <2>1. /\ now = Stored(tree) /\ nxt = Stored(tree') /\ SavedObjects' = SavedObjects
        /\ \A p \in Objects \ {o} : p \in nxt <=> p \in now
    BY <1>1, <1>12, WritingFacts, ZenonT(40)
  <2>2. o \notin nxt /\ now \subseteq Objects /\ nxt \subseteq Objects
    BY <1>12, <2>1, Zenon DEF Stored
  <2> HIDE DEF now, nxt
  <2>3. nxt = now \ {o}
    BY <2>1, <2>2, Zenon
  <2>4. QED
    BY <1>4, <1>12, <2>1, <2>3, ZenonT(40)
<1>13. QED
  BY <1>7, <1>8, <1>9, <1>10, <1>11, <1>12, Kinds, ZenonT(40)

LEMMA AtomicInit ==
    ASSUME Init
    PROVE  Atomic!Init
<1>1. mounted = TRUE /\ tree = InitTree /\ diskSb.tree = InitTree
  BY Zenon DEF Init
<1>2. SavedObjects = Stored(InitTree)
  BY <1>1, InitInv, SavedAll, Zenon
<1>3. Anchored \subseteq Stored(InitTree) /\ Stored(InitTree) \subseteq Objects
  BY InitTreeAssumption, Zenon DEF Stored
<1>4. QED
  BY <1>1, <1>2, <1>3, Zenon DEF Atomic!Init

-----------------------------------------------------------------------------
(* Every step keeps the invariant.                                         *)

LEMMA StepInv ==
    ASSUME StoreInv, ChunksOf(jnl.frees) \in Int, [Next]_vars
    PROVE  StoreInv'
<1>1. CASE UNCHANGED vars
  BY <1>1, StutterInv, ZenonT(40)
<1>2. ASSUME NEW t \in Tasks, NEW o \in Objects, PutLookup(t, o) PROVE StoreInv'
  BY <1>2, PutLookupInv, ZenonT(40)
<1>3. ASSUME NEW t \in Tasks, PutAlloc(t) PROVE StoreInv'
  BY <1>3, PutAllocInv, ZenonT(40)
<1>4. ASSUME NEW t \in Tasks, PutNoRoom(t) \/ PutChainNoRoom(t) PROVE StoreInv'
  BY <1>4, PutNoRoomInv, PutChainNoRoomInv, ZenonT(40)
<1>5. ASSUME NEW t \in Tasks, PutWrite(t) PROVE StoreInv'
  BY <1>5, PutWriteInv, ZenonT(40)
<1>6. ASSUME NEW t \in Tasks, PutWriteFail(t) PROVE StoreInv'
  BY <1>6, PutWriteFailInv, ZenonT(40)
<1>7. ASSUME NEW t \in Tasks, PutDuplicate(t) PROVE StoreInv'
  BY <1>7, PutDuplicateInv, ZenonT(40)
<1>8. ASSUME NEW t \in Tasks, PutInsert(t) PROVE StoreInv'
  BY <1>8, PutInsertInv, ZenonT(40)
<1>9. ASSUME NEW t \in Tasks, PutInsertNoRoom(t) PROVE StoreInv'
  BY <1>9, PutInsertNoRoomInv, ZenonT(40)
<1>10. ASSUME NEW flip \in BOOLEAN, CommitRoot(flip) PROVE StoreInv'
  BY <1>10, CommitRootInv, ZenonT(40)
<1>11. CASE SweepBegin
  BY <1>11, SweepBeginInv, ZenonT(40)
<1>12. ASSUME NEW o \in Objects, Unlink(o) PROVE StoreInv'
  BY <1>12, UnlinkInv, ZenonT(40)
<1>13. CASE UnlinkNoRoom
  BY <1>13, UnlinkNoRoomInv, ZenonT(40)
<1>14. CASE SweepCommit
  BY <1>14, SweepCommitInv, ZenonT(40)
<1>15. CASE Prepare
  BY <1>15, PrepareInv, Zenon
<1>16. CASE PrepareFail
  BY <1>16, PrepareFailInv, Zenon
<1>17. CASE Sync
  BY <1>17, SyncInv, Zenon
<1>18. CASE Barrier
  BY <1>18, BarrierInv, Zenon
<1>19. CASE WriteSb
  BY <1>19, WriteSbInv, Zenon
<1>20. CASE Finish
  BY <1>20, FinishInv, Zenon
<1>21. CASE CommitFail
  BY <1>21, CommitFailInv, Zenon
<1>22. CASE Trim
  BY <1>22, TrimInv, Zenon
<1>23. CASE ShutdownFlush
  BY <1>23, ShutdownFlushInv, Zenon
<1>24. CASE Crash
  BY <1>24, CrashInv, Zenon
<1>25. CASE Mount
  BY <1>25, MountInv, Zenon
<1>26. CASE SetKeyslotQuiet
  BY <1>26, SetKeyslotQuietInv, Zenon
<1>27. QED
  BY ZenonT(40), <1>1, <1>2, <1>3, <1>4, <1>5, <1>6, <1>7, <1>8, <1>9, <1>10, <1>11, <1>12, <1>13, <1>14, <1>15,
     <1>16, <1>17, <1>18, <1>19, <1>20, <1>21, <1>22, <1>23, <1>24, <1>25, <1>26
     DEF Next, Step

LEMMA InvTypes ==
    ASSUME StoreInv, leaked \subseteq Blocks
    PROVE  TypeOK
<1>1. MemTyped /\ DevTyped /\ Media
  BY ZenonT(40) DEF StoreInv
<1>2. ASSUME NEW m \in {view, top, stable}
      PROVE  /\ DOMAIN m = Addr
             /\ \A p \in Pages : m[p] \subseteq Blocks
             /\ \A j \in JPos : m[j] \in Entry
  <2>1. \A a \in Addr : m[a] \in Contents(a)
    BY Zenon DEF Contents
  <2>2. QED
    BY <1>1, <2>1, AddrFacts, SMTT(40) DEF DevTyped, Media, PageSafe, EntrySafe
<1>3. QED
  BY <1>1, <1>2, ZenonT(40) DEF TypeOK, MemTyped, DevTyped, Tree, Phases, Put, Entry

LEMMA InvClean ==
    ASSUME StoreInv
    PROVE  SelfCheckClean /\ MediaSound
<1>1. NoFreeButReferenced
  BY Zenon DEF StoreInv, Owned, NoFreeButReferenced
<1>2. NoDoubleAlloc
  BY ZenonT(40) DEF StoreInv, Apart, Proper, Waiting, NoDoubleAlloc
<1>3. LiveBlocksIntact
  BY Zenon DEF StoreInv, Bytes
<1>4. QED
  BY <1>1, <1>2, <1>3, Zenon DEF SelfCheckClean, MediaSound

\* The finite sets of NpkStore and those of the library's theorems, which
\* are brought in only here, have the same definitions.
LEMMA FiniteMeans ==
    ASSUME NEW S
    PROVE  IsFiniteSet(S) <=>
             \E seq \in Seq(S) : \A s \in S : \E n \in 1 .. Len(seq) : seq[n] = s
BY Zenon DEF IsFiniteSet

LEMMA CountMeans ==
    ASSUME NEW S
    PROVE  Cardinality(S) =
             LET CS[T \in SUBSET S] == IF T = {} THEN 0 ELSE 1 + CS[T \ {CHOOSE x : x \in T}]
             IN  CS[S]
BY Zenon DEF Cardinality

\* The number of ranges in a set of blocks, as prepare counts them
RangeCount(S) == Cardinality(RangeStarts(S))

LOCAL INSTANCE FiniteSetTheorems

LEMMA ChunksTyped ==
    ASSUME NEW S \in SUBSET Blocks
    PROVE  ChunksOf(S) \in Int
<1> DEFINE c == RangeCount(S)
<1> DEFINE full == (c + MaxJournalEntries - 1) \div MaxJournalEntries
<1>1. RangeStarts(S) \in SUBSET Blocks
  BY Zenon DEF RangeStarts
<1>2. IsFiniteSet(Blocks)
  BY BlocksAssumption, FiniteMeans, ZenonT(40) DEF IsFiniteSet
<1>3. IsFiniteSet(RangeStarts(S))
  BY <1>1, <1>2, FS_Subset, ZenonT(40)
<1>4. RangeCount(S) = Cardinality(RangeStarts(S))
  BY CountMeans, ZenonT(40) DEF RangeCount, Cardinality
<1>5. c \in Nat
  BY <1>3, <1>4, FS_CardinalityType, ZenonT(40)
<1>6. full \in Int /\ JournalBlocks \in Int
  <2> HIDE DEF c
  <2>1. QED
    BY <1>5, SizesAssumption, SMTT(40)
<1>7. ChunksOf(S) = IF full > JournalBlocks THEN JournalBlocks ELSE full
  BY Zenon DEF ChunksOf, RangeCount
<1> HIDE DEF full
<1>8. QED
  BY <1>6, <1>7, ZenonT(40)

-----------------------------------------------------------------------------
(* No block is lost, but those of operations that ran out of room.         *)

\* The blocks that somebody answers for
Kept == Refs(tree) \cup InFlight \cup Waiting

\* Nothing is allocated but what is kept and what was left behind, and the two
\* are apart: what a put in flight or a removal gives back was not left behind.
Balanced == bits = Kept \cup leaked /\ leaked \cap Kept = {}

\* A put that has not come to allocate holds no block.
Fresh == \A t \in Tasks : task[t].step \in {"idle", "missed"} => task[t].ext = {}

LeakInv ==
    /\ leaked \subseteq Blocks
    /\ Fresh
    /\ crashes = 0 => mounted
    /\ (crashes = 0 /\ faults = 0) => Balanced

\* A step that allocates `new', frees `drop' and leaves `stray' behind
LEMMA StaysBalanced ==
    ASSUME Balanced, NEW new, NEW drop, NEW stray,
           new \cap bits = {}, new \cap stray = {}, drop \subseteq Kept, drop \cap stray = {},
           bits' = (bits \ drop) \cup new \cup stray,
           Kept' = (Kept \ (drop \cup stray)) \cup new,
           leaked' = leaked \cup stray
    PROVE  Balanced'
<1>1. bits = Kept \cup leaked /\ leaked \cap Kept = {}
  BY Zenon DEF Balanced
<1>2. \A x : x \in bits' <=> x \in Kept' \cup leaked'
  BY <1>1, Zenon
<1>3. \A x : ~(x \in leaked' /\ x \in Kept')
  BY <1>1, Zenon
<1>4. QED
  BY <1>2, <1>3, Zenon DEF Balanced

LEMMA StaysKept ==
    ASSUME Balanced, UNCHANGED <<bits, leaked>>, Kept' = Kept
    PROVE  Balanced'
BY Zenon DEF Balanced

\* A put ends: exactly its blocks leave the ones in flight.
LEMMA FlightLess ==
    ASSUME MemTyped, Apart, NEW t \in Tasks, NEW n \in Put, n.ext = {},
           task' = [task EXCEPT ![t] = n]
    PROVE  InFlight' = InFlight \ task[t].ext
<1>1. /\ InFlight' \subseteq InFlight /\ InFlight' \cap task[t].ext = {}
      /\ \A u \in Tasks : u # t => task'[u] = task[u]
  BY FlightEnds, Zenon
<1>2. ASSUME NEW x \in InFlight, x \notin task[t].ext PROVE x \in InFlight'
  <2>1. PICK u \in Tasks : x \in task[u].ext
    BY <1>2, Zenon DEF InFlight
  <2>2. u # t
    BY <1>2, <2>1, Zenon
  <2>3. x \in task'[u].ext
    BY <1>1, <2>1, <2>2, Zenon
  <2>4. QED
    BY <2>3, Zenon DEF InFlight
<1>3. QED
  BY <1>1, <1>2, Zenon

LEMMA FlightSame ==
    ASSUME \A u \in Tasks : task'[u].ext = task[u].ext
    PROVE  InFlight' = InFlight
BY Zenon DEF InFlight

\* What a copy-on-write step makes of the blocks of a tree, exactly
LEMMA CowRefs ==
    ASSUME NEW t \in Tree, Proper(t), NEW oldN \in SUBSET t.nodes,
           NEW newN \in SUBSET Blocks, NEW blocks \in SUBSET Blocks, NEW o \in Objects,
           newN \cap blocks = {}, (newN \cup blocks) \cap Refs(t) = {},
           NEW u, IsCow(t, u, o, oldN, newN, blocks)
    PROVE  Refs(u) = (Refs(t) \ (oldN \cup t.objs[o])) \cup newN \cup blocks
<1>1. /\ Refs(u) \subseteq Refs(t) \cup newN \cup blocks
      /\ Refs(u) \cap (oldN \cup t.objs[o]) = {}
  BY CowTree
<1>2. t.objs \in [Objects -> SUBSET Blocks]
  BY Zenon DEF Tree
<1>3. /\ u.nodes = (t.nodes \ oldN) \cup newN
      /\ u.objs = [t.objs EXCEPT ![o] = blocks]
  BY Zenon DEF IsCow
<1>4. u.objs[o] = blocks /\ \A p \in Objects \ {o} : u.objs[p] = t.objs[p]
  BY <1>2, <1>3, Zenon
<1>5. newN \subseteq Refs(u) /\ blocks \subseteq Refs(u)
  BY <1>3, <1>4, InRefs, Zenon
<1>6. ASSUME NEW x \in Refs(t), x \notin oldN, x \notin t.objs[o] PROVE x \in Refs(u)
  <2>1. CASE x \in t.nodes
    BY <1>3, <1>6, <2>1, InRefs, Zenon
  <2>2. CASE \E p \in Objects : x \in t.objs[p]
    <3>1. PICK p \in Objects : x \in t.objs[p]
      BY <2>2, Zenon
    <3>2. p # o
      BY <1>6, <3>1, Zenon
    <3>3. x \in u.objs[p]
      BY <1>4, <3>1, <3>2, Zenon
    <3>4. QED
      BY <3>3, InRefs, Zenon
  <2>3. QED
    BY <2>1, <2>2, InRefs, Zenon
<1>7. QED
  BY <1>1, <1>5, <1>6, Zenon

\* Steps that leave every block where it is
LEMMA LeakQuiet ==
    ASSUME LeakInv, UNCHANGED <<mounted, bits, leaked, crashes, faults>>, Refs(tree)' = Refs(tree),
           InFlight' = InFlight, Waiting' = Waiting, Fresh'
    PROVE  LeakInv'
<1>1. Kept' = Kept
  BY Zenon DEF Kept
<1>2. (crashes' = 0 /\ faults' = 0) => Balanced'
  BY <1>1, StaysKept, Zenon DEF LeakInv
<1>3. QED
  BY <1>2, Zenon DEF LeakInv

\* Steps with a failed device command
LEMMA LeakFaulty ==
    ASSUME StoreInv, LeakInv, UNCHANGED <<mounted, leaked, crashes>>, faults' = faults + 1, Fresh'
    PROVE  LeakInv'
<1>1. faults \in Nat
  BY Zenon DEF StoreInv, DevTyped
<1>2. faults' # 0
  BY <1>1, SMT
<1>3. QED
  BY <1>2, Zenon DEF LeakInv

\* A put that ends or starts anew leaves the others as they are.
LEMMA FreshEnds ==
    ASSUME MemTyped, Fresh, NEW t \in Tasks, NEW n \in Put, n.ext = {}, task' = [task EXCEPT ![t] = n]
    PROVE  Fresh'
<1>1. task \in [Tasks -> Put]
  BY Zenon DEF MemTyped
<1>2. task'[t] = n /\ \A u \in Tasks : u # t => task'[u] = task[u]
  BY <1>1, Zenon
<1>3. QED
  BY <1>2, Zenon DEF Fresh

\* The facts about a mounted store that the steps of a put need
LEMMA PutFacts ==
    ASSUME StoreInv, NEW t \in Tasks
    PROVE  /\ MemTyped /\ Apart
           /\ bits \subseteq Blocks /\ tree \in Tree /\ Proper(tree)
           /\ task[t].ext \subseteq Blocks /\ task[t].ext \subseteq InFlight /\ task[t].obj \in Objects
           /\ task[t].ext \cap (Refs(tree) \cup Waiting) = {}
           /\ mounted => Refs(tree) \cup InFlight \subseteq bits
<1>1. MemTyped /\ Apart /\ Owned
  BY Zenon DEF StoreInv
<1>2. bits \subseteq Blocks /\ tree \in Tree /\ Proper(tree) /\ task[t] \in Put
  BY <1>1, Zenon DEF MemTyped, Apart
<1>3. task[t].ext \subseteq Blocks /\ task[t].obj \in Objects
  BY <1>2, Zenon DEF Put
<1>4. task[t].ext \subseteq InFlight
  BY Zenon DEF InFlight
<1>5. InFlight \cap Refs(tree) = {} /\ InFlight \cap Waiting = {}
  BY <1>1, Zenon DEF Apart
<1>6. mounted => Refs(tree) \cup InFlight \subseteq bits
  BY <1>1, Zenon DEF Owned
<1>7. QED
  BY <1>1, <1>2, <1>3, <1>4, <1>5, <1>6, Zenon

LEMMA LeakPutLookup ==
    ASSUME StoreInv, LeakInv, NEW t \in Tasks, NEW o \in Objects, PutLookup(t, o)
    PROVE  LeakInv'
<1> DEFINE n == [step |-> "missed", obj |-> o, ext |-> {}]
<1>1. n \in Put /\ n.ext = {}
  BY Zenon DEF Put
<1>2. task' = [task EXCEPT ![t] = n] /\ task[t].step = "idle"
      /\ UNCHANGED <<mounted, tree, bits, pendingOld, com, crashes, faults, leaked>>
  BY Zenon DEF PutLookup, memVars
<1> HIDE DEF n
<1>3. MemTyped /\ Apart /\ Fresh
  BY Zenon DEF StoreInv, LeakInv
<1>4. InFlight' = InFlight
  <2>1. task[t].ext = {}
    BY <1>2, <1>3, Zenon DEF Fresh
  <2>2. InFlight' = InFlight \ task[t].ext
    BY <1>1, <1>2, <1>3, FlightLess, Zenon
  <2>3. QED
    BY <2>1, <2>2, Zenon
<1>5. Fresh'
  BY <1>1, <1>2, <1>3, FreshEnds, Zenon
<1>6. Refs(tree)' = Refs(tree) /\ Waiting' = Waiting
  BY <1>2, Zenon DEF Refs, Waiting
<1>7. QED
  BY <1>2, <1>4, <1>5, <1>6, LeakQuiet, Zenon

LEMMA LeakPutNoRoom ==
    ASSUME StoreInv, LeakInv, NEW t \in Tasks, PutNoRoom(t)
    PROVE  LeakInv'
<1>1. NoPut \in Put /\ NoPut.ext = {}
  BY NoPutTyped, Zenon
<1>2. task' = [task EXCEPT ![t] = NoPut] /\ task[t].step = "missed"
      /\ UNCHANGED <<mounted, tree, bits, pendingOld, com, crashes, faults, leaked>>
  BY Zenon DEF PutNoRoom
<1>3. MemTyped /\ Apart /\ Fresh
  BY Zenon DEF StoreInv, LeakInv
<1>4. InFlight' = InFlight
  <2>1. task[t].ext = {}
    BY <1>2, <1>3, Zenon DEF Fresh
  <2>2. InFlight' = InFlight \ task[t].ext
    BY <1>1, <1>2, <1>3, FlightLess, Zenon
  <2>3. QED
    BY <2>1, <2>2, Zenon
<1>5. Fresh'
  BY <1>1, <1>2, <1>3, FreshEnds, Zenon
<1>6. Refs(tree)' = Refs(tree) /\ Waiting' = Waiting
  BY <1>2, Zenon DEF Refs, Waiting
<1>7. QED
  BY <1>2, <1>4, <1>5, <1>6, LeakQuiet, Zenon

LEMMA LeakPutWrite ==
    ASSUME StoreInv, LeakInv, NEW t \in Tasks, PutWrite(t)
    PROVE  LeakInv'
<1>1. task' = [task EXCEPT ![t].step = "written"]
      /\ UNCHANGED <<mounted, tree, bits, pendingOld, com, crashes, faults, leaked>>
  BY Zenon DEF PutWrite, memVars
<1>2. task \in [Tasks -> Put] /\ Fresh
  BY Zenon DEF StoreInv, LeakInv, MemTyped
<1>3. task'[t].step = "written" /\ \A u \in Tasks : task'[u].ext = task[u].ext /\ (u # t => task'[u] = task[u])
  BY <1>1, <1>2 DEF Put
<1>4. InFlight' = InFlight
  BY <1>3, FlightSame, Zenon
<1>5. Fresh'
  BY <1>2, <1>3 DEF Fresh
<1>6. Refs(tree)' = Refs(tree) /\ Waiting' = Waiting
  BY <1>1, Zenon DEF Refs, Waiting
<1>7. QED
  BY <1>1, <1>4, <1>5, <1>6, LeakQuiet, Zenon

LEMMA LeakPutAlloc ==
    ASSUME StoreInv, LeakInv, NEW t \in Tasks, PutAlloc(t)
    PROVE  LeakInv'
<1>1. PICK ext \in SUBSET Free :
        /\ bits' = bits \cup ext
        /\ task' = [task EXCEPT ![t].step = "alloced", ![t].ext = ext]
  BY Zenon DEF PutAlloc
<1>2. task[t].step = "missed" /\ UNCHANGED <<mounted, tree, pendingOld, com, crashes, faults, leaked>>
  BY Zenon DEF PutAlloc
<1>3. task \in [Tasks -> Put] /\ Fresh
  BY Zenon DEF StoreInv, LeakInv, MemTyped
<1>4. task'[t].step = "alloced" /\ task'[t].ext = ext /\ \A u \in Tasks : u # t => task'[u] = task[u]
  BY <1>1, <1>3 DEF Put
<1>5. Fresh'
  BY <1>3, <1>4 DEF Fresh
<1>6. InFlight' = InFlight \cup ext
  <2>1. task[t].ext = {}
    BY <1>2, <1>3, Zenon DEF Fresh
  <2>2. QED
    BY <1>4, <2>1, ZenonT(40) DEF InFlight
<1>7. Kept' = Kept \cup ext
  <2>1. Refs(tree)' = Refs(tree) /\ Waiting' = Waiting
    BY <1>2, Zenon DEF Refs, Waiting
  <2>2. QED
    BY <1>6, <2>1, Zenon DEF Kept
<1>8. ext \cap bits = {}
  BY Zenon DEF Free
<1>9. ASSUME Balanced PROVE Balanced'
  <2> DEFINE none == {}
  <2>1. /\ ext \cap none = {} /\ none \subseteq Kept /\ none \cap none = {}
        /\ bits' = (bits \ none) \cup ext \cup none /\ Kept' = (Kept \ (none \cup none)) \cup ext
        /\ leaked' = leaked \cup none
    BY <1>1, <1>2, <1>7, Zenon
  <2> HIDE DEF none
  <2>2. QED
    BY <1>8, <1>9, <2>1, StaysBalanced, Zenon
<1>10. QED
  BY <1>2, <1>5, <1>9, Zenon DEF LeakInv

LEMMA LeakPutDuplicate ==
    ASSUME StoreInv, LeakInv, NEW t \in Tasks, PutDuplicate(t)
    PROVE  LeakInv'
<1>1. NoPut \in Put /\ NoPut.ext = {}
  BY NoPutTyped, Zenon
<1>2. /\ task' = [task EXCEPT ![t] = NoPut] /\ bits' = bits \ task[t].ext
      /\ UNCHANGED <<mounted, tree, pendingOld, com, crashes, faults, leaked>>
  BY Zenon DEF PutDuplicate
<1>3. MemTyped /\ Apart /\ Fresh
  BY Zenon DEF StoreInv, LeakInv
<1>4. Fresh' /\ InFlight' = InFlight \ task[t].ext
  BY <1>1, <1>2, <1>3, FreshEnds, FlightLess, Zenon
<1>5. Refs(tree)' = Refs(tree) /\ Waiting' = Waiting
  BY <1>2, Zenon DEF Refs, Waiting
<1>6. Kept' = Kept \ task[t].ext /\ task[t].ext \subseteq Kept
  BY <1>4, <1>5, PutFacts, Zenon DEF Kept
<1>7. ASSUME Balanced PROVE Balanced'
  <2> DEFINE none == {}
             ext == task[t].ext
  <2>1. /\ none \cap bits = {} /\ none \cap none = {} /\ ext \subseteq Kept /\ ext \cap none = {}
        /\ bits' = (bits \ ext) \cup none \cup none /\ Kept' = (Kept \ (ext \cup none)) \cup none
        /\ leaked' = leaked \cup none
    BY <1>2, <1>6, Zenon
  <2> HIDE DEF none, ext
  <2>2. QED
    BY <1>7, <2>1, StaysBalanced, Zenon
<1>8. QED
  BY <1>2, <1>4, <1>7, Zenon DEF LeakInv

LEMMA LeakPutChainNoRoom ==
    ASSUME StoreInv, LeakInv, NEW t \in Tasks, PutChainNoRoom(t)
    PROVE  LeakInv'
<1>1. NoPut \in Put /\ NoPut.ext = {}
  BY NoPutTyped, Zenon
<1>2. /\ task' = [task EXCEPT ![t] = NoPut] /\ leaked' = leaked \cup task[t].ext
      /\ mounted /\ UNCHANGED <<mounted, tree, bits, pendingOld, com, crashes, faults>>
  BY Zenon DEF PutChainNoRoom, memVars, Ready
<1>3. MemTyped /\ Apart /\ Fresh
  BY Zenon DEF StoreInv, LeakInv
<1>4. Fresh' /\ InFlight' = InFlight \ task[t].ext
  BY <1>1, <1>2, <1>3, FreshEnds, FlightLess, Zenon
<1>5. Refs(tree)' = Refs(tree) /\ Waiting' = Waiting
  BY <1>2, Zenon DEF Refs, Waiting
<1>6. Kept' = Kept \ task[t].ext /\ task[t].ext \subseteq bits /\ task[t].ext \subseteq Blocks
  BY <1>2, <1>4, <1>5, PutFacts, Zenon DEF Kept
<1>7. ASSUME Balanced PROVE Balanced'
  <2> DEFINE none == {}
             ext == task[t].ext
  <2>1. /\ none \cap bits = {} /\ none \cap ext = {} /\ none \subseteq Kept
        /\ bits' = (bits \ none) \cup none \cup ext /\ Kept' = (Kept \ (none \cup ext)) \cup none
        /\ leaked' = leaked \cup ext
    BY <1>2, <1>6, Zenon
  <2> HIDE DEF none, ext
  <2>2. QED
    BY <1>7, <2>1, StaysBalanced, Zenon
<1>8. QED
  BY <1>2, <1>4, <1>6, <1>7, Zenon DEF LeakInv

LEMMA LeakPutInsert ==
    ASSUME StoreInv, LeakInv, NEW t \in Tasks, PutInsert(t)
    PROVE  LeakInv'
<1> DEFINE ext == task[t].ext
           o == task[t].obj
<1>1. PICK oldN \in SUBSET tree.nodes, newN \in CowChoices \ {{}}, chain \in ChainChoices(o) :
        /\ chain \cap newN = {}
        /\ bits' = bits \cup newN \cup chain
        /\ tree' = [nodes |-> (tree.nodes \ oldN) \cup newN, objs |-> [tree.objs EXCEPT ![o] = ext \cup chain]]
        /\ pendingOld' = pendingOld \cup oldN
  BY ZenonT(40) DEF PutInsert, Cow
<1>2. /\ task' = [task EXCEPT ![t] = NoPut] /\ mounted /\ tree.objs[o] = {}
      /\ UNCHANGED <<mounted, com, crashes, faults, leaked>>
  BY Zenon DEF PutInsert, Ready
<1>3. newN \subseteq Free /\ chain \subseteq Free
  BY Zenon DEF CowChoices, ChainChoices
<1>4. /\ MemTyped /\ Apart /\ tree \in Tree /\ Proper(tree) /\ o \in Objects
      /\ ext \subseteq Blocks /\ ext \subseteq InFlight /\ ext \cap (Refs(tree) \cup Waiting) = {}
      /\ Refs(tree) \cup InFlight \subseteq bits
  BY <1>2, PutFacts, Zenon
<1>5. Fresh' /\ InFlight' = InFlight \ ext
  <2>1. NoPut \in Put /\ NoPut.ext = {} /\ Fresh
    BY NoPutTyped, Zenon DEF LeakInv
  <2>2. QED
    BY <1>2, <1>4, <2>1, FreshEnds, FlightLess, Zenon
<1> HIDE DEF ext, o
<1>6. Refs(tree)' = (Refs(tree) \ oldN) \cup newN \cup ext \cup chain
  <2> DEFINE blocks == ext \cup chain
             u == tree'
  <2>1. newN \in SUBSET Blocks /\ blocks \in SUBSET Blocks /\ newN \cap bits = {} /\ chain \cap bits = {}
    BY <1>3, <1>4, Zenon DEF Free
  <2>2. newN \cap blocks = {} /\ (newN \cup blocks) \cap Refs(tree) = {}
    BY <1>1, <1>4, <2>1, Zenon
  <2>3. IsCow(tree, u, o, oldN, newN, blocks)
    BY <1>1, Zenon DEF IsCow
  <2> HIDE DEF blocks, u
  <2>4. Refs(u) = (Refs(tree) \ (oldN \cup tree.objs[o])) \cup newN \cup blocks
    BY <1>4, <2>1, <2>2, <2>3, CowRefs
  <2>5. Refs(u) = (Refs(tree) \ oldN) \cup newN \cup blocks
    BY <1>2, <2>4, Zenon
  <2>6. Refs(tree)' = Refs(u)
    BY Zenon DEF Refs, u
  <2>7. QED
    BY <2>5, <2>6, Zenon DEF blocks
<1>7. Waiting' = Waiting \cup oldN
  BY <1>1, <1>2, Zenon DEF Waiting
<1>8. oldN \subseteq Refs(tree)
  BY Zenon DEF Refs
<1> DEFINE new == newN \cup chain
           none == {}
<1>9. Kept' = Kept \cup new
  <2>1. \A x : x \in Kept' <=> x \in Kept \cup new
    BY <1>4, <1>5, <1>6, <1>7, <1>8, ZenonT(40) DEF Kept
  <2>2. QED
    BY <2>1, Zenon
<1>10. /\ new \cap bits = {} /\ new \cap none = {} /\ none \subseteq Kept /\ none \cap none = {}
       /\ bits' = (bits \ none) \cup new \cup none /\ Kept' = (Kept \ (none \cup none)) \cup new
       /\ leaked' = leaked \cup none
  BY <1>1, <1>2, <1>3, <1>9, Zenon DEF Free
<1> HIDE DEF new, none
<1>11. Balanced => Balanced'
  BY <1>10, StaysBalanced, Zenon
<1>12. QED
  BY <1>2, <1>5, <1>11, Zenon DEF LeakInv

LEMMA LeakPutInsertNoRoom ==
    ASSUME StoreInv, LeakInv, NEW t \in Tasks, PutInsertNoRoom(t)
    PROVE  LeakInv'
<1> DEFINE ext == task[t].ext
<1>1. PICK chain \in ChainChoices(task[t].obj) :
        /\ bits' = Blocks \ (ext \cup chain)
        /\ leaked' = leaked \cup (Free \ chain)
  BY ZenonT(40) DEF PutInsertNoRoom
<1>2. /\ task' = [task EXCEPT ![t] = NoPut] /\ mounted
      /\ UNCHANGED <<mounted, tree, pendingOld, com, crashes, faults>>
  BY Zenon DEF PutInsertNoRoom, Ready
<1>3. chain \subseteq Free
  BY Zenon DEF ChainChoices
<1>4. /\ MemTyped /\ Apart /\ bits \subseteq Blocks
      /\ ext \subseteq InFlight /\ ext \cap (Refs(tree) \cup Waiting) = {}
      /\ Refs(tree) \cup InFlight \subseteq bits
  BY <1>2, PutFacts, Zenon
<1>5. Fresh' /\ InFlight' = InFlight \ ext
  <2>1. NoPut \in Put /\ NoPut.ext = {} /\ Fresh
    BY NoPutTyped, Zenon DEF LeakInv
  <2>2. QED
    BY <1>2, <1>4, <2>1, FreshEnds, FlightLess, Zenon
<1>6. Refs(tree)' = Refs(tree) /\ Waiting' = Waiting
  BY <1>2, Zenon DEF Refs, Waiting
<1> HIDE DEF ext
<1>7. Kept' = Kept \ ext /\ ext \subseteq Kept
  BY <1>4, <1>5, <1>6, Zenon DEF Kept
<1> DEFINE lost == Free \ chain
           none == {}
<1>8. lost \subseteq Blocks /\ lost \cap bits = {} /\ bits' = (bits \ ext) \cup lost
  <2>1. \A x : x \in bits' <=> x \in (bits \ ext) \cup lost
    BY <1>1, <1>3, <1>4, Zenon DEF Free
  <2>2. QED
    BY <2>1, Zenon DEF Free
<1>9. leaked' = leaked \cup lost
  BY <1>1, Zenon
<1> HIDE DEF lost
<1>10. ASSUME Balanced PROVE Balanced'
  <2>1. lost \cap Kept = {}
    BY <1>8, <1>10, Zenon DEF Balanced
  <2>2. /\ none \cap bits = {} /\ none \cap lost = {} /\ ext \cap lost = {}
        /\ bits' = (bits \ ext) \cup none \cup lost /\ Kept' = (Kept \ (ext \cup lost)) \cup none
    BY <1>7, <1>8, <2>1, Zenon
  <2> HIDE DEF none
  <2>3. QED
    BY <1>7, <1>9, <1>10, <2>2, StaysBalanced, Zenon
<1>11. QED
  BY <1>2, <1>5, <1>8, <1>9, <1>10, Zenon DEF LeakInv

LEMMA LeakUnlink ==
    ASSUME StoreInv, LeakInv, NEW o \in Objects, Unlink(o)
    PROVE  LeakInv'
<1>1. PICK oldN \in SUBSET tree.nodes, newN \in CowChoices :
        /\ bits' = bits \cup newN \cup {}
        /\ tree' = [nodes |-> (tree.nodes \ oldN) \cup newN, objs |-> [tree.objs EXCEPT ![o] = {}]]
        /\ com' = [com EXCEPT !.old = @ \cup oldN, !.freed = @ \cup tree.objs[o]]
  BY ZenonT(40) DEF Unlink, Cow
<1>2. com.phase = "unlink" /\ UNCHANGED <<mounted, pendingOld, task, crashes, faults, leaked>>
  BY Zenon DEF Unlink
<1>3. MemTyped /\ Apart /\ Owned /\ Asleep
  BY Zenon DEF StoreInv
<1>4. mounted
  BY <1>2, <1>3 DEF Asleep, Idle
<1>5. /\ tree \in Tree /\ Proper(tree) /\ Refs(tree) \subseteq bits
      /\ com \in [phase : Phases, old : SUBSET Blocks, freed : SUBSET Blocks]
  BY <1>3, <1>4, Zenon DEF MemTyped, Apart, Owned
<1>6. newN \in SUBSET Blocks /\ newN \cap bits = {}
  BY Zenon DEF CowChoices, Free
<1>7. Refs(tree)' = (Refs(tree) \ (oldN \cup tree.objs[o])) \cup newN
  <2> DEFINE blocks == {}
             u == tree'
  <2>1. blocks \in SUBSET Blocks /\ newN \cap blocks = {} /\ (newN \cup blocks) \cap Refs(tree) = {}
    BY <1>5, <1>6, Zenon
  <2>2. IsCow(tree, u, o, oldN, newN, blocks)
    BY <1>1, Zenon DEF IsCow
  <2>3. (Refs(tree) \ (oldN \cup tree.objs[o])) \cup newN \cup blocks = (Refs(tree) \ (oldN \cup tree.objs[o])) \cup newN
    BY Zenon
  <2> HIDE DEF blocks, u
  <2>4. Refs(u) = (Refs(tree) \ (oldN \cup tree.objs[o])) \cup newN \cup blocks
    BY <1>5, <1>6, <2>1, <2>2, CowRefs
  <2>5. Refs(tree)' = Refs(u)
    BY Zenon DEF Refs, u
  <2>6. QED
    BY <2>3, <2>4, <2>5, Zenon
<1>8. Waiting' = Waiting \cup oldN \cup tree.objs[o]
  <2>1. com'.old = com.old \cup oldN /\ com'.freed = com.freed \cup tree.objs[o]
    BY <1>1, <1>5
  <2>2. QED
    BY <1>2, <2>1, Zenon DEF Waiting
<1>9. oldN \subseteq Refs(tree) /\ tree.objs[o] \subseteq Refs(tree)
  BY InRefs, Zenon
<1>10. InFlight' = InFlight /\ Fresh'
  BY <1>2, Zenon DEF InFlight, LeakInv, Fresh
<1>11. Kept' = Kept \cup newN
  <2>1. \A x : x \in Kept' <=> x \in Kept \cup newN
    BY <1>7, <1>8, <1>9, <1>10, ZenonT(40) DEF Kept
  <2>2. QED
    BY <2>1, Zenon
<1> DEFINE none == {}
<1>12. /\ newN \cap none = {} /\ none \subseteq Kept /\ none \cap none = {}
       /\ bits' = (bits \ none) \cup newN \cup none /\ Kept' = (Kept \ (none \cup none)) \cup newN
       /\ leaked' = leaked \cup none
  BY <1>1, <1>2, <1>11, Zenon
<1> HIDE DEF none
<1>13. Balanced => Balanced'
  BY <1>6, <1>12, StaysBalanced, Zenon
<1>14. QED
  BY <1>2, <1>10, <1>13, Zenon DEF LeakInv

LEMMA LeakUnlinkNoRoom ==
    ASSUME StoreInv, LeakInv, UnlinkNoRoom
    PROVE  LeakInv'
<1>1. /\ bits' = Blocks /\ leaked' = leaked \cup Free
      /\ UNCHANGED <<mounted, tree, pendingOld, com, task, crashes, faults>>
  BY Zenon DEF UnlinkNoRoom
<1>2. bits \subseteq Blocks
  BY Zenon DEF StoreInv, MemTyped
<1>3. Kept' = Kept /\ Fresh'
  <2>1. Refs(tree)' = Refs(tree) /\ InFlight' = InFlight /\ Waiting' = Waiting
    BY <1>1, Zenon DEF Refs, InFlight, Waiting
  <2>2. QED
    BY <1>1, <2>1, Zenon DEF Kept, LeakInv, Fresh
<1>4. bits' = bits \cup leaked' \cup Free /\ leaked' \subseteq Blocks /\ Free \cap bits = {}
  BY <1>1, <1>2, Zenon DEF Free, LeakInv
<1>5. Balanced => Balanced'
  BY <1>1, <1>2, <1>3, <1>4, ZenonT(40) DEF Balanced
<1>6. QED
  BY <1>1, <1>3, <1>4, <1>5, Zenon DEF LeakInv

LEMMA LeakFinish ==
    ASSUME StoreInv, LeakInv, Finish
    PROVE  LeakInv'
<1> DEFINE drop == com.old \cup com.freed
<1>1. /\ bits' = bits \ drop /\ com' = Idle
      /\ UNCHANGED <<mounted, tree, pendingOld, task, crashes, faults, leaked>>
  BY Zenon DEF Finish, FreeBits
<1>2. Waiting \cap (Refs(tree) \cup InFlight) = {} /\ pendingOld \cap drop = {}
  BY Zenon DEF StoreInv, Apart
<1>3. Waiting = pendingOld \cup drop /\ Waiting' = pendingOld
  BY <1>1, Zenon DEF Waiting, Idle
<1>4. Refs(tree)' = Refs(tree) /\ InFlight' = InFlight /\ Fresh'
  BY <1>1, Zenon DEF Refs, InFlight, LeakInv, Fresh
<1> HIDE DEF drop
<1>5. Kept' = Kept \ drop /\ drop \subseteq Kept
  BY <1>2, <1>3, <1>4, Zenon DEF Kept
<1> DEFINE none == {}
<1>6. /\ none \cap bits = {} /\ none \cap none = {} /\ drop \cap none = {}
      /\ bits' = (bits \ drop) \cup none \cup none /\ Kept' = (Kept \ (drop \cup none)) \cup none
      /\ leaked' = leaked \cup none
  BY <1>1, <1>5, Zenon
<1> HIDE DEF none
<1>7. Balanced => Balanced'
  BY <1>5, <1>6, StaysBalanced, Zenon
<1>8. QED
  BY <1>1, <1>4, <1>7, Zenon DEF LeakInv

\* The other steps of a commit, which move no block: when one ends the commit
\* without freeing, nothing was waiting in it.
LEMMA LeakCommit ==
    ASSUME StoreInv, LeakInv,
           \/ (\E flip \in BOOLEAN : CommitRoot(flip)) \/ SweepBegin \/ SweepCommit \/ Prepare
           \/ Sync \/ Barrier \/ WriteSb \/ Trim \/ ShutdownFlush \/ SetKeyslotQuiet
    PROVE  LeakInv'
<1>1. UNCHANGED <<mounted, tree, bits, task, crashes, faults, leaked>>
  BY Zenon DEF CommitRoot, SweepBegin, SweepCommit, Prepare, Sync, Barrier, WriteSb, Trim,
     ShutdownFlush, SetKeyslotQuiet, SetKeyslot, memVars
<1>2. com \in [phase : Phases, old : SUBSET Blocks, freed : SUBSET Blocks]
  BY Zenon DEF StoreInv, MemTyped
<1>3. com.phase \in {"idle", "ksbarrier", "kssb"} => com.old = {} /\ com.freed = {}
  BY Zenon DEF StoreInv, Tracked
<1>4. Waiting' = Waiting
  <2>1. ASSUME NEW flip \in BOOLEAN, CommitRoot(flip) PROVE Waiting' = Waiting
    <3>1. com.old = {} /\ com.freed = {}
      BY <1>3, <2>1, Zenon DEF CommitRoot, Ready, Locked
    <3>2. com'.old = pendingOld /\ com'.freed = {} /\ pendingOld' = {}
      BY <2>1, Zenon DEF CommitRoot
    <3>3. QED
      BY <3>1, <3>2, Zenon DEF Waiting
  <2>2. CASE SweepBegin \/ SetKeyslotQuiet
    <3>1. com.old = {} /\ com.freed = {} /\ pendingOld' = pendingOld
      BY <1>3, <2>2, Zenon DEF SweepBegin, SetKeyslotQuiet, SetKeyslot, Ready, Locked, memVars
    <3>2. com'.old = {} /\ com'.freed = {}
      BY <2>2, Zenon DEF SweepBegin, SetKeyslotQuiet, SetKeyslot, Idle
    <3>3. QED
      BY <3>1, <3>2, Zenon DEF Waiting
  <2>3. CASE SweepCommit
    <3>1. pendingOld' = pendingOld
      BY <2>3, Zenon DEF SweepCommit
    <3>2. CASE com.old \cup com.freed = {}
      <4>1. com' = Idle
        BY <2>3, <3>2, Zenon DEF SweepCommit
      <4>2. com'.old = {} /\ com'.freed = {} /\ com.old = {} /\ com.freed = {}
        BY <3>2, <4>1, Zenon DEF Idle
      <4>3. QED
        BY <3>1, <4>2, Zenon DEF Waiting
    <3>3. CASE com.old \cup com.freed # {}
      <4>1. com'.old = com.old /\ com'.freed = com.freed
        BY <1>2, <2>3, <3>3 DEF SweepCommit
      <4>2. QED
        BY <3>1, <4>1, Zenon DEF Waiting
    <3>4. QED
      BY <3>2, <3>3, Zenon
  <2>4. CASE Prepare \/ Sync \/ Barrier
    <3>1. pendingOld' = pendingOld /\ \E p : com' = [com EXCEPT !.phase = p]
      BY <2>4, Zenon DEF Prepare, Sync, Barrier, memVars
    <3>2. com'.old = com.old /\ com'.freed = com.freed
      BY <1>2, <3>1
    <3>3. QED
      BY <3>1, <3>2, Zenon DEF Waiting
  <2>5. CASE WriteSb
    <3>1. pendingOld' = pendingOld
      BY <2>5, Zenon DEF WriteSb, memVars
    <3>2. com'.old = com.old /\ com'.freed = com.freed
      BY <1>2, <1>3, <2>5 DEF WriteSb, Idle
    <3>3. QED
      BY <3>1, <3>2, Zenon DEF Waiting
  <2>6. CASE Trim \/ ShutdownFlush
    BY <2>6, Zenon DEF Trim, ShutdownFlush, memVars, Waiting
  <2>7. QED
    BY <2>1, <2>2, <2>3, <2>4, <2>5, <2>6, Zenon
<1>5. Refs(tree)' = Refs(tree) /\ InFlight' = InFlight /\ Fresh'
  BY <1>1, Zenon DEF Refs, InFlight, LeakInv, Fresh
<1>6. QED
  BY <1>1, <1>4, <1>5, LeakQuiet, Zenon

LEMMA LeakFails ==
    ASSUME StoreInv, LeakInv,
           (\E t \in Tasks : PutWriteFail(t)) \/ PrepareFail \/ CommitFail
    PROVE  LeakInv'
<1>1. UNCHANGED <<mounted, leaked, crashes>> /\ faults' = faults + 1
  BY Zenon DEF PutWriteFail, PrepareFail, CommitFail
<1>2. Fresh'
  <2>1. ASSUME NEW t \in Tasks, PutWriteFail(t) PROVE Fresh'
    <3>1. NoPut \in Put /\ NoPut.ext = {} /\ MemTyped /\ Fresh /\ task' = [task EXCEPT ![t] = NoPut]
      BY <2>1, NoPutTyped, Zenon DEF PutWriteFail, StoreInv, LeakInv
    <3>2. QED
      BY <3>1, FreshEnds, Zenon
  <2>2. CASE PrepareFail \/ CommitFail
    BY <2>2, Zenon DEF PrepareFail, CommitFail, LeakInv, Fresh
  <2>3. QED
    BY <2>1, <2>2, Zenon
<1>3. QED
  BY <1>1, <1>2, LeakFaulty, Zenon

LEMMA LeakPower ==
    ASSUME StoreInv, LeakInv, Crash \/ Mount
    PROVE  LeakInv'
<1>1. crashes \in Nat
  BY Zenon DEF StoreInv, DevTyped
<1>2. CASE Crash
  <2>1. crashes' = crashes + 1 /\ leaked' = {} /\ task' = [t \in Tasks |-> NoPut]
    BY <1>2, Zenon DEF Crash
  <2>2. crashes' # 0
    BY <1>1, <2>1, SMT
  <2>3. Fresh'
    BY <2>1, NoPutTyped, Zenon DEF Fresh
  <2>4. QED
    BY <2>1, <2>2, <2>3, Zenon DEF LeakInv
<1>3. CASE Mount
  <2>1. ~mounted /\ mounted' /\ UNCHANGED <<task, crashes, faults, leaked>>
    BY <1>3, Zenon DEF Mount
  <2>2. QED
    BY <2>1, Zenon DEF LeakInv, Fresh
<1>4. QED
  BY <1>2, <1>3, Zenon

LEMMA LeakStutter ==
    ASSUME LeakInv, UNCHANGED vars
    PROVE  LeakInv'
<1>1. UNCHANGED <<mounted, tree, bits, pendingOld, com, task, crashes, faults, leaked>>
  BY Zenon DEF vars, memVars
<1>2. Refs(tree)' = Refs(tree) /\ InFlight' = InFlight /\ Waiting' = Waiting /\ Fresh'
  BY <1>1, Zenon DEF Refs, InFlight, Waiting, LeakInv, Fresh
<1>3. QED
  BY <1>1, <1>2, LeakQuiet, Zenon

LEMMA LeakStep ==
    ASSUME StoreInv, LeakInv, [Next]_vars
    PROVE  LeakInv'
<1>1. ASSUME NEW t \in Tasks, NEW o \in Objects, PutLookup(t, o) PROVE LeakInv'
  BY <1>1, LeakPutLookup, Zenon
<1>2. ASSUME NEW t \in Tasks, \/ PutAlloc(t) \/ PutNoRoom(t) \/ PutWrite(t) \/ PutDuplicate(t)
                              \/ PutChainNoRoom(t) \/ PutInsert(t) \/ PutInsertNoRoom(t)
      PROVE  LeakInv'
  BY <1>2, LeakPutAlloc, LeakPutNoRoom, LeakPutWrite, LeakPutDuplicate, LeakPutChainNoRoom,
     LeakPutInsert, LeakPutInsertNoRoom, Zenon
<1>3. ASSUME NEW t \in Tasks, PutWriteFail(t) PROVE LeakInv'
  BY <1>3, LeakFails, Zenon
<1>4. ASSUME NEW flip \in BOOLEAN, CommitRoot(flip) PROVE LeakInv'
  BY <1>4, LeakCommit, Zenon
<1>5. ASSUME NEW o \in Objects, Unlink(o) PROVE LeakInv'
  BY <1>5, LeakUnlink, Zenon
<1>6. CASE UnlinkNoRoom
  BY <1>6, LeakUnlinkNoRoom, Zenon
<1>7. CASE \/ SweepBegin \/ SweepCommit \/ Prepare \/ Sync \/ Barrier \/ WriteSb \/ Trim
           \/ ShutdownFlush \/ SetKeyslotQuiet
  BY <1>7, LeakCommit, Zenon
<1>8. CASE Finish
  BY <1>8, LeakFinish, Zenon
<1>9. CASE PrepareFail \/ CommitFail
  BY <1>9, LeakFails, Zenon
<1>10. CASE Crash \/ Mount
  BY <1>10, LeakPower, Zenon
<1>11. CASE UNCHANGED vars
  BY <1>11, LeakStutter, Zenon
<1>12. QED
  BY ZenonT(40), <1>1, <1>2, <1>3, <1>4, <1>5, <1>6, <1>7, <1>8, <1>9, <1>10, <1>11 DEF Next, Step

LEMMA LeakInit ==
    Init => LeakInv
<1> SUFFICES ASSUME Init PROVE LeakInv
  BY Zenon
<1>1. /\ leaked = {} /\ mounted /\ bits = Refs(tree) /\ pendingOld = {} /\ com = Idle
      /\ task = [t \in Tasks |-> NoPut]
  BY Zenon DEF Init
<1>2. \A t \in Tasks : task[t].ext = {}
  BY <1>1, NoPutTyped, Zenon
<1>3. InFlight = {} /\ Waiting = {}
  BY <1>1, <1>2, Zenon DEF InFlight, Waiting, Idle
<1>4. Balanced
  BY <1>1, <1>3, Zenon DEF Balanced, Kept
<1>5. QED
  BY <1>1, <1>2, <1>4, Zenon DEF LeakInv, Fresh

LEMMA Invariance ==
    Spec => []StoreInv
<1>1. Init => StoreInv
  BY InitInv, ZenonT(40)
<1>2. StoreInv => ChunksOf(jnl.frees) \in Int
  <2>1. StoreInv => jnl.frees \in SUBSET Blocks
    BY Zenon DEF StoreInv, MemTyped
  <2>2. QED
    BY <2>1, ChunksTyped, Zenon
<1>3. StoreInv /\ [Next]_vars => StoreInv'
  BY <1>2, StepInv, ZenonT(40)
<1>4. QED
  BY <1>1, <1>3, PTL DEF Spec

LEMMA LeakInvariance ==
    Spec => []LeakInv
<1>1. Init => LeakInv
  BY LeakInit, Zenon
<1>2. StoreInv /\ LeakInv /\ [Next]_vars => LeakInv'
  BY LeakStep, Zenon
<1>3. QED
  BY <1>1, <1>2, Invariance, PTL DEF Spec

-----------------------------------------------------------------------------
(* The theorems.                                                           *)

\* Types, and what the blocks of the block cache and of the device can hold:
\* a bitmap page only blocks of the volume, a journal block only an entry.
THEOREM StoreTypes ==
    Spec => []TypeOK
<1>1. StoreInv /\ LeakInv => TypeOK
  BY InvTypes, Zenon DEF LeakInv
<1>2. QED
  BY <1>1, Invariance, LeakInvariance, PTL

\* self_check of storage.rs stays clean: no block that the tree in memory or the
\* tree on media references is free, and none has two owners, whatever puts,
\* sweeps, commits, failed device commands, power cuts and mounts interleave,
\* for every number of blocks, objects, concurrent puts, crashes and faults.
THEOREM StoreSelfCheckClean ==
    Spec => []SelfCheckClean
<1>1. StoreInv => SelfCheckClean
  BY InvClean, Zenon
<1>2. QED
  BY <1>1, Invariance, PTL

\* What the superblock on media references is allocated and holds its final
\* bytes on stable media: the order of commit's four phases with its barrier,
\* copy-on-write, and the deferred frees together, also when any device command
\* of them fails.
THEOREM StoreMediaSound ==
    Spec => []MediaSound
<1>1. StoreInv => MediaSound
  BY InvClean, Zenon
<1>2. QED
  BY <1>1, Invariance, PTL

\* While no device command fails and the power stays on, the bitmap of storage.rs
\* accounts for every block: what is allocated is referenced by the tree, held by
\* a put in flight, waiting for the commit that frees it, or was left behind by
\* an operation that ran out of room, for every number of blocks, chains, copied
\* nodes and concurrent puts.
THEOREM StoreNoLeak ==
    Spec => []NoLeakWhileHealthy
<1>1. LeakInv => NoLeakWhileHealthy
  BY Zenon DEF LeakInv, Balanced, Kept, Waiting, NoLeakWhileHealthy
<1>2. QED
  BY <1>1, LeakInvariance, PTL

\* put, remove_many, commit and mount of storage.rs implement an atomic set of
\* objects: each put or removal takes effect on its own, all become durable at
\* the superblock write, and a power cut at any point takes the store back to
\* exactly what was durable.
THEOREM StoreImplementsAtomic ==
    Spec => ImplementsAtomicStore
<1>1. Init => Atomic!Init
  BY AtomicInit, ZenonT(40)
<1>2. StoreInv /\ StoreInv' /\ [Next]_vars => [Atomic!Next]_(Atomic!vars)
  BY AtomicStep, Zenon
<1>3. QED
  BY <1>1, <1>2, Invariance, PTL DEF Spec, ImplementsAtomicStore, Atomic!Spec
=============================================================================
