------------------------------ MODULE NpkRoot ------------------------------
(***************************************************************************)
(* The file layer of npkFS (kernel/src/storage/npkfs/fs.rs, paths.rs and   *)
(* the root handling of storage.rs): path mutations that build a new root  *)
(* tree and flip the superblock to it, streaming writes, garbage           *)
(* collection, the drain of deferred puts, failing commits and power cuts. *)
(*                                                                         *)
(* Mutations hold ROOT_MUTEX.  Streams put chunks without it, and drains   *)
(* commit without it.  One storage call is one step: the store underneath  *)
(* is NpkStore, whose promise (AtomicStore) is used here, a set of objects *)
(* of which a power cut leaves those of the last commit.                   *)
(*                                                                         *)
(* An object is its content.  Directories are flattened: a tree gives each *)
(* path a file or Absent.  A file is one blob or a manifest of chunks.     *)
(***************************************************************************)
EXTENDS Integers, Sequences, FiniteSets

CONSTANTS
    Writers,       \* fibers calling write, delete, rename and copy
    Streams,       \* streaming writers
    Paths, Blobs,
    SuperblockSlots, \* SUPERBLOCK_SLOTS
    CommitEvery,   \* STREAM_COMMIT_EVERY
    MaxChunks,     \* bound: chunks of a stream
    MaxRootGeneration, \* bound: commits
    MaxRootFaults,     \* bound: failing commits
    MaxPowerCuts,    \* bound: power cuts
    GcFiber, Nobody

ASSUME SlotsAssumption == SuperblockSlots \in Nat \ {0} /\ CommitEvery \in Nat \ {0}
ASSUME BoundsAssumption ==
    MaxChunks \in Nat /\ MaxRootGeneration \in Nat \ {0} /\ MaxRootFaults \in Nat /\ MaxPowerCuts \in Nat

Mutators == Writers \cup Streams
Fibers   == Mutators \cup {GcFiber}

ASSUME FibersAssumption == Writers \cap Streams = {} /\ GcFiber \notin Mutators /\ Nobody \notin Fibers

Absent    == <<"absent", 0>>
EmptyRoot == <<"empty", 0>>      \* EMPTY_ROOT
Blob(b)     == <<"blob", b>>
Manifest(c) == <<"chunked", c>>
Tree(f)     == <<"tree", f>>

VARIABLES
    objects,  \* hashes in the B-tree in memory
    root,     \* sb.root_tree_hash in memory
    gen,      \* generation
    ring,     \* root_tree_hash of each superblock slot on media
    saved,    \* what a mount finds: the objects, root and generation last committed
    pending,  \* pending_old_blocks is not empty
    holder,   \* who holds ROOT_MUTEX
    pc, op, cur, new, \* per fiber: its place, call, root read and root built
    chunks,   \* per stream: chunk_hashes
    active,   \* streams counted in ACTIVE_STREAMS
    orphans,  \* gc: reachable objects, then the orphans left to remove
    files,    \* history: what the calls, one after the other, leave at each path
    rootFaults, powerCuts

store == <<objects, root, gen, ring, saved, pending>>
local == <<pc, op, cur, new>>
rootVars == <<store, holder, local, chunks, active, orphans, files, rootFaults, powerCuts>>

-----------------------------------------------------------------------------
(* Trees.                                                                  *)

FilesOf(t) == IF t = EmptyRoot THEN [p \in Paths |-> Absent] ELSE t[2]

\* Mutant: manifests are not followed.
MarkedShallow(t) == {t} \cup ({t[2][p] : p \in Paths} \ {Absent})

\* Objects gc marks from tree t: its entries, and the chunks of manifests;
\* mark_file_object passes over a manifest that is not stored
MarkedFrom(t) ==
    LET entries == {t[2][p] : p \in Paths} \ {Absent}
        manifests == {e \in entries : e[1] = "chunked" /\ e \in objects}
    IN  {t} \cup entries \cup UNION {{Blob(e[2][i]) : i \in DOMAIN e[2]} : e \in manifests}

\* What reading a file needs: its object and the chunks this names
FileReach(e) ==
    CASE e[1] = "absent"  -> {}
      [] e[1] = "blob"    -> {e}
      [] e[1] = "chunked" -> {e} \cup {Blob(e[2][i]) : i \in DOMAIN e[2]}

\* What reading every file under root t needs
Reach(t) ==
    IF t = EmptyRoot THEN {} ELSE {t} \cup UNION {FileReach(t[2][p]) : p \in Paths}

\* What the calls of the path layer ask for
Calls == [call : {"write"}, path : Paths, file : {Blob(b) : b \in Blobs}]
         \cup [call : {"delete"}, path : Paths]
         \cup [call : {"rename", "copy"}, path : Paths, to : Paths]

\* The call can be carried out on the paths f.
Allowed(f, c) ==
    CASE c.call = "write"  -> TRUE
      [] c.call = "delete" -> f[c.path] # Absent
      [] OTHER             -> f[c.path] # Absent /\ f[c.to] = Absent

Edited(f, c) ==
    CASE c.call = "write"  -> [f EXCEPT ![c.path] = c.file]
      [] c.call = "delete" -> [f EXCEPT ![c.path] = Absent]
      [] c.call = "rename" -> [f EXCEPT ![c.path] = Absent, ![c.to] = f[c.path]]
      [] c.call = "copy"   -> [f EXCEPT ![c.to] = f[c.path]]

\* Trees the call stores before it succeeds or fails: rename detaches first.
TreesStored(f, c) ==
    (IF Allowed(f, c) THEN {Tree(Edited(f, c))} ELSE {})
    \cup (IF c.call = "rename" /\ c.path # c.to /\ f[c.path] # Absent
          THEN {Tree([f EXCEPT ![c.path] = Absent])} ELSE {})

-----------------------------------------------------------------------------
(* The store.                                                              *)

\* storage::put of some objects; replaced B-tree nodes wait for a commit
PutObjects(S) ==
    /\ objects' = objects \cup S
    /\ pending' = (pending \/ (objects # {} /\ ~(S \subseteq objects)))

\* Mutant: the slot number does not wrap.
PublishNoWrap(o, r) ==
    /\ gen < MaxRootGeneration
    /\ gen' = gen + 1
    /\ objects' = o
    /\ root' = r
    /\ ring' = [i \in DOMAIN ring \cup {gen + 1} |-> IF i = gen + 1 THEN r ELSE ring[i]]
    /\ saved' = [objects |-> o, root |-> r, gen |-> gen + 1]

\* storage's commit of the objects o and root r
Publish(o, r) ==
    /\ gen < MaxRootGeneration
    /\ gen' = gen + 1
    /\ objects' = o
    /\ root' = r
    /\ ring' = [ring EXCEPT ![(gen + 1) % SuperblockSlots] = r]
    /\ saved' = [objects |-> o, root |-> r, gen |-> gen + 1]

\* A commit that returns an error: memory has moved on, the superblock may
\* or may not be on media.
PublishFail(o, r) ==
    /\ rootFaults < MaxRootFaults /\ rootFaults' = rootFaults + 1
    /\ \/ Publish(o, r)
       \/ gen < MaxRootGeneration /\ gen' = gen + 1 /\ objects' = o /\ root' = r
          /\ UNCHANGED <<ring, saved>>

\* Mutant: without deferred puts there is nothing to commit.
CommitNewRootLazy(r) ==
    IF ~pending
      THEN root' = r /\ UNCHANGED <<objects, gen, ring, saved, pending>>
      ELSE /\ Publish(objects, r)
           /\ pending' = FALSE

\* commit_root(r) that succeeds
CommitNewRoot(r) ==
    IF r = root /\ ~pending
      THEN UNCHANGED store
      ELSE /\ Publish(objects, r)
           /\ pending' = FALSE

\* commit_root(r) that fails
CommitNewRootFail(r) ==
    /\ ~(r = root /\ ~pending)
    /\ PublishFail(objects, r)
    /\ pending' = FALSE

-----------------------------------------------------------------------------
(* Path mutations: write, delete, rename, copy, and the end of a stream.   *)

Goto(f, l) == pc' = [pc EXCEPT ![f] = l]

\* The call is over: ROOT_MUTEX goes back, and what it read is forgotten.
Return(f) ==
    /\ holder' = Nobody
    /\ Goto(f, IF f \in Streams THEN "ended" ELSE "idle")
    /\ op' = [op EXCEPT ![f] = <<>>]
    /\ cur' = [cur EXCEPT ![f] = EmptyRoot]
    /\ new' = [new EXCEPT ![f] = EmptyRoot]

\* root_lock
Lock(f, c) ==
    /\ holder = Nobody
    /\ holder' = f
    /\ op' = [op EXCEPT ![f] = c]
    /\ Goto(f, "read")
    /\ UNCHANGED <<store, cur, new, chunks, active, orphans, files, rootFaults, powerCuts>>

BeginCall(w) == pc[w] = "idle" /\ \E c \in Calls : Lock(w, c)

\* StreamingWriter::finish, after the manifest
BeginInstall(s) ==
    /\ pc[s] = "install"
    /\ \E p \in Paths : Lock(s, [call |-> "write", path |-> p, file |-> Manifest(chunks[s])])

\* current_root, then the blob of a write unless it is stored
ReadRoot(f) ==
    /\ pc[f] = "read"
    /\ cur' = [cur EXCEPT ![f] = root]
    /\ Goto(f, IF op[f].call = "write" /\ f \in Writers THEN "blob" ELSE "tree")
    /\ UNCHANGED <<store, holder, op, new, chunks, active, orphans, files, rootFaults, powerCuts>>

PutBlob(w) ==
    /\ pc[w] = "blob"
    /\ PutObjects({op[w].file})
    /\ Goto(w, "tree")
    /\ UNCHANGED <<root, gen, ring, saved, holder, op, cur, new, chunks, active, orphans, files,
                   rootFaults, powerCuts>>

\* The root tree cannot be read, or the call does not apply
Refused(f) ==
    \/ cur[f] # EmptyRoot /\ cur[f] \notin objects
    \/ ~Allowed(FilesOf(cur[f]), op[f])

\* paths::store, delete, rename, copy: read the tree, store the new ones
PutTree(f) ==
    /\ pc[f] = "tree" /\ ~Refused(f)
    /\ PutObjects(TreesStored(FilesOf(cur[f]), op[f]))
    /\ new' = [new EXCEPT ![f] = Tree(Edited(FilesOf(cur[f]), op[f]))]
    /\ Goto(f, "commit")
    /\ UNCHANGED <<root, gen, ring, saved, holder, op, cur, chunks, active, orphans, files,
                   rootFaults, powerCuts>>

Refuse(f) ==
    /\ pc[f] = "tree" /\ Refused(f)
    /\ IF cur[f] = EmptyRoot \/ cur[f] \in objects
         THEN PutObjects(TreesStored(FilesOf(cur[f]), op[f]))
         ELSE UNCHANGED <<objects, pending>>
    /\ Return(f)
    /\ UNCHANGED <<root, gen, ring, saved, chunks, active, orphans, files,
                   rootFaults, powerCuts>>

\* A put fails (no room, a device error): the call returns the error
PutFail(f) ==
    /\ pc[f] \in {"blob", "tree"}
    /\ rootFaults < MaxRootFaults /\ rootFaults' = rootFaults + 1
    /\ Return(f)
    /\ UNCHANGED <<store, chunks, active, orphans, files, powerCuts>>

\* fs::commit and the return
CommitCall(f) ==
    /\ pc[f] = "commit"
    /\ CommitNewRoot(new[f])
    /\ files' = Edited(files, op[f])
    /\ Return(f)
    /\ UNCHANGED <<chunks, active, orphans, rootFaults, powerCuts>>

CommitCallFail(f) ==
    /\ pc[f] = "commit"
    /\ CommitNewRootFail(new[f])
    /\ files' = Edited(files, op[f])
    /\ Return(f)
    /\ UNCHANGED <<chunks, active, orphans, powerCuts>>

-----------------------------------------------------------------------------
(* Streaming writes.                                                       *)

\* Mutant: ROOT_MUTEX is not waited for.
OpenUnlocked(s) ==
    /\ pc[s] = "idle"
    /\ active' = active \cup {s}
    /\ chunks' = [chunks EXCEPT ![s] = <<>>]
    /\ Goto(s, "open")
    /\ UNCHANGED <<store, holder, op, cur, new, orphans, files, rootFaults, powerCuts>>

\* open_streaming_write: counted under ROOT_MUTEX, which it gives back
Open(s) ==
    /\ pc[s] = "idle" /\ holder = Nobody
    /\ active' = active \cup {s}
    /\ chunks' = [chunks EXCEPT ![s] = <<>>]
    /\ Goto(s, "open")
    /\ UNCHANGED <<store, holder, op, cur, new, orphans, files, rootFaults, powerCuts>>

\* flush_chunk, which drains the batch after every CommitEvery chunks, or
\* append_stored_chunk or append_zero_chunk, which do not
FlushChunk(s) ==
    /\ pc[s] = "open" /\ Len(chunks[s]) < MaxChunks
    /\ \E b \in Blobs : PutObjects({Blob(b)}) /\ chunks' = [chunks EXCEPT ![s] = Append(@, b)]
    /\ \E next \in {"open", IF Len(chunks'[s]) % CommitEvery = 0 THEN "drain" ELSE "open"} : Goto(s, next)
    /\ UNCHANGED <<root, gen, ring, saved, holder, op, cur, new, active, orphans, files,
                   rootFaults, powerCuts>>

\* finish: the manifest
PutManifest(s) ==
    /\ pc[s] = "open"
    /\ PutObjects({Manifest(chunks[s])})
    /\ Goto(s, "install")
    /\ UNCHANGED <<root, gen, ring, saved, holder, op, cur, new, chunks, active, orphans, files,
                   rootFaults, powerCuts>>

\* Drop, after finish or instead of it
Drop(s) ==
    /\ pc[s] \in {"open", "ended"}
    /\ active' = active \ {s}
    /\ chunks' = [chunks EXCEPT ![s] = <<>>]
    /\ Goto(s, "idle")
    /\ UNCHANGED <<store, holder, op, cur, new, orphans, files, rootFaults, powerCuts>>

\* flush_pending reads the root and gives the store's lock back,
DrainRead(s) ==
    /\ pc[s] = "drain"
    /\ cur' = [cur EXCEPT ![s] = root]
    /\ pending
    /\ Goto(s, "drainCommit")
    /\ UNCHANGED <<store, holder, op, new, chunks, active, orphans, files, rootFaults, powerCuts>>

\* unless nothing is deferred,
DrainNothing(s) ==
    /\ pc[s] = "drain" /\ ~pending
    /\ Goto(s, "open")
    /\ UNCHANGED <<store, holder, op, cur, new, chunks, active, orphans, files, rootFaults, powerCuts>>

\* and commits that root.
DrainCommit(s) ==
    /\ pc[s] = "drainCommit"
    /\ CommitNewRoot(cur[s])
    /\ Goto(s, "open")
    /\ cur' = [cur EXCEPT ![s] = EmptyRoot]
    /\ UNCHANGED <<holder, op, new, chunks, active, orphans, files, rootFaults, powerCuts>>

DrainCommitFail(s) ==
    /\ pc[s] = "drainCommit"
    /\ CommitNewRootFail(cur[s])
    /\ Goto(s, "open")
    /\ cur' = [cur EXCEPT ![s] = EmptyRoot]
    /\ UNCHANGED <<holder, op, new, chunks, active, orphans, files, powerCuts>>

-----------------------------------------------------------------------------
(* Garbage collection.                                                     *)

\* all_root_hashes: the roots of every slot on media
MarkRoots == {ring[i] : i \in DOMAIN ring}

\* Locked, and no stream is open: mark what the roots reach.  A tree that is
\* missing ends the collection.
GcMark ==
    /\ pc[GcFiber] = "idle" /\ holder = Nobody /\ active = {}
    /\ LET marked == UNION {MarkedFrom(t) : t \in MarkRoots \ {EmptyRoot}}
       IN  /\ MarkRoots \ {EmptyRoot} \subseteq objects
           /\ orphans' = marked
    /\ holder' = GcFiber
    /\ Goto(GcFiber, "list")
    /\ UNCHANGED <<store, op, cur, new, chunks, active, files, rootFaults, powerCuts>>

\* all_object_hashes, and the second look for streams
GcList ==
    /\ pc[GcFiber] = "list"
    /\ IF active = {}
         THEN /\ orphans' = objects \ orphans
              /\ Goto(GcFiber, "sweep")
              /\ UNCHANGED holder
         ELSE /\ orphans' = {}
              /\ Goto(GcFiber, "idle")
              /\ holder' = Nobody
    /\ UNCHANGED <<store, op, cur, new, chunks, active, files, rootFaults, powerCuts>>

\* One batch of remove_many and its commit
GcSweep ==
    /\ pc[GcFiber] = "sweep"
    /\ \E batch \in SUBSET orphans \ {{}} :
         /\ Publish(objects \ batch, root)
         /\ orphans' = orphans \ batch
    /\ UNCHANGED <<pending, holder, local, chunks, active, files, rootFaults, powerCuts>>

GcSweepFail ==
    /\ pc[GcFiber] = "sweep"
    /\ \E batch \in SUBSET orphans \ {{}} : PublishFail(objects \ batch, root)
    /\ orphans' = {}
    /\ holder' = Nobody
    /\ Goto(GcFiber, "idle")
    /\ UNCHANGED <<pending, op, cur, new, chunks, active, files, powerCuts>>

\* Nothing is left: the lock goes back before the TRIM
GcUnlock ==
    /\ pc[GcFiber] = "sweep" /\ orphans = {}
    /\ holder' = Nobody
    /\ Goto(GcFiber, "idle")
    /\ UNCHANGED <<store, op, cur, new, chunks, active, orphans, files, rootFaults, powerCuts>>

-----------------------------------------------------------------------------
\* A power cut and the mount after it
PowerCut ==
    /\ powerCuts < MaxPowerCuts /\ powerCuts' = powerCuts + 1
    /\ objects' = saved.objects /\ root' = saved.root /\ gen' = saved.gen
    /\ pending' = FALSE /\ holder' = Nobody
    /\ pc' = [f \in Fibers |-> "idle"]
    /\ cur' = [f \in Fibers |-> EmptyRoot] /\ new' = [f \in Fibers |-> EmptyRoot]
    /\ op' = [f \in Fibers |-> <<>>]
    /\ chunks' = [s \in Streams |-> <<>>]
    /\ active' = {} /\ orphans' = {}
    /\ UNCHANGED <<ring, saved, files, rootFaults>>

RootInit ==
    /\ objects = {} /\ root = EmptyRoot /\ gen = 1
    /\ ring = [i \in 0 .. SuperblockSlots - 1 |-> EmptyRoot]
    /\ saved = [objects |-> {}, root |-> EmptyRoot, gen |-> 1]
    /\ pending = FALSE /\ holder = Nobody
    /\ pc = [f \in Fibers |-> "idle"]
    /\ cur = [f \in Fibers |-> EmptyRoot] /\ new = [f \in Fibers |-> EmptyRoot]
    /\ op = [f \in Fibers |-> <<>>]
    /\ chunks = [s \in Streams |-> <<>>]
    /\ active = {} /\ orphans = {}
    /\ files = [p \in Paths |-> Absent]
    /\ rootFaults = 0 /\ powerCuts = 0

Mutation(f) ==
    ReadRoot(f) \/ PutTree(f) \/ Refuse(f) \/ PutFail(f) \/ CommitCall(f) \/ CommitCallFail(f)

RootNext ==
    \/ \E f \in Mutators : Mutation(f)
    \/ \E w \in Writers : BeginCall(w) \/ PutBlob(w)
    \/ \E s \in Streams : Open(s) \/ FlushChunk(s) \/ PutManifest(s) \/ BeginInstall(s)
                           \/ DrainRead(s) \/ DrainNothing(s) \/ DrainCommit(s)
                           \/ DrainCommitFail(s) \/ Drop(s)
    \/ GcMark \/ GcList \/ GcSweep \/ GcSweepFail \/ GcUnlock
    \/ PowerCut

RootSpec == RootInit /\ [][RootNext]_rootVars
-----------------------------------------------------------------------------
(* Properties.                                                             *)

RootTypeOK ==
    /\ gen \in 1 .. MaxRootGeneration /\ saved.gen \in 1 .. gen
    /\ DOMAIN ring = 0 .. SuperblockSlots - 1
    /\ \A t \in {root, saved.root} \cup {ring[i] : i \in DOMAIN ring} : t = EmptyRoot \/ t[1] = "tree"
    /\ holder \in Fibers \cup {Nobody}
    /\ active \subseteq Streams
    /\ \A s \in Streams : chunks[s] \in Seq(Blobs) /\ Len(chunks[s]) <= MaxChunks
    /\ pending \in BOOLEAN

\* Every file of the tree in use can be read in full: no collection, whoever
\* runs beside it, removes an object the root reaches (fs.rs:438-445).
RootIntact == Reach(root) \subseteq objects

\* "anything reachable from any of the 8 rotating slots stays alive"
\* (storage.rs:731-732): the roots of the last commits stay readable.
SnapshotsIntact == \A i \in DOMAIN ring : Reach(ring[i]) \subseteq objects

\* Both together: until a commit fails, whatever the root in use or a superblock
\* slot reaches is stored, beside every collection, drain and power cut.
IntactUntilFailure == rootFaults = 0 => RootIntact /\ SnapshotsIntact

\* The chunks of an open stream, reachable from no root yet, outlive every
\* collection (fs.rs:291-298), those found stored by `has' included.
StreamKeepsChunks ==
    \A s \in active : \A i \in DOMAIN chunks[s] : Blob(chunks[s][i]) \in objects

\* "two writers can't observe the same root and clobber each other"
\* (fs.rs:11-12): the root holds what the calls, one after the other, leave.
NoLostUpdate == FilesOf(root) = files
=============================================================================
