--------------------------- MODULE NpkRootProofs ---------------------------
(***************************************************************************)
(* The file layer of npkFS for every number of writers, streams, paths,    *)
(* blobs and superblock slots: no collection takes what a root reaches, a  *)
(* stream's chunks stay, and no update is lost while no commit fails and   *)
(* no stream drains.                                                       *)
(***************************************************************************)
EXTENDS NpkRoot, TLAPS

Places == {"idle", "read", "blob", "tree", "commit", "open", "drain", "drainCommit", "install", "ended",
           "list", "sweep"}

File == {Absent} \cup ({"blob"} \X Blobs) \cup ({"chunked"} \X Seq(Blobs))
Root == {EmptyRoot} \cup ({"tree"} \X [Paths -> File])

\* What streams ask for when they end
Install == [call : {"write"}, path : Paths, file : {"chunked"} \X Seq(Blobs)]

\* The types in full
RootTyped ==
    /\ root \in Root /\ gen \in 1 .. MaxRootGeneration
    /\ ring \in [0 .. SuperblockSlots - 1 -> Root]
    /\ saved.root \in Root /\ saved.gen \in 1 .. gen
    /\ pending \in BOOLEAN /\ holder \in Fibers \cup {Nobody}
    /\ pc \in [Fibers -> Places] /\ op \in [Fibers -> Calls \cup Install \cup {<<>>}]
    /\ cur \in [Fibers -> Root] /\ new \in [Fibers -> Root]
    /\ chunks \in [Streams -> Seq(Blobs)] /\ active \subseteq Streams
    /\ \A s \in Streams : Len(chunks[s]) <= MaxChunks
    /\ files \in [Paths -> File] /\ rootFaults \in Nat /\ powerCuts \in Nat

Mutating == {"read", "blob", "tree", "commit"}

\* ROOT_MUTEX: who holds it is in a mutation or collects, and holds it alone;
\* what runs under it has its call, and a stream's call installs its manifest.
\* A stream is counted from its opening to its drop, and none is while gc runs.
Locked ==
    /\ \A f \in Mutators : pc[f] \in Mutating <=> holder = f
    /\ pc[GcFiber] \in {"idle", "list", "sweep"} /\ (pc[GcFiber] # "idle" <=> holder = GcFiber)
    /\ \A w \in Writers : /\ pc[w] \in Mutating \cup {"idle"}
                          /\ pc[w] \in Mutating => op[w] \in Calls
    /\ \A s \in Streams : /\ pc[s] \notin {"blob", "list", "sweep"}
                          /\ pc[s] = "idle" <=> s \notin active
                          /\ pc[s] \in Mutating => op[s] \in Install /\ op[s].file = Manifest(chunks[s])
    /\ pc[GcFiber] # "idle" => active = {}

\* An open stream's chunks are stored, and its manifest once it is written
Streamed ==
    \A s \in active : /\ \A i \in DOMAIN chunks[s] : Blob(chunks[s][i]) \in objects
                      /\ pc[s] \in Mutating \cup {"install"} => Manifest(chunks[s]) \in objects

\* Until a commit fails, the root in use is the one of the newest slot and of
\* the last commit,
Newest ==
    rootFaults = 0 => /\ root = ring[gen % SuperblockSlots]
                      /\ saved.root = root /\ saved.gen = gen

\* what the slots reach is stored, in memory and at the last commit,
Stored ==
    rootFaults = 0 => \A i \in 0 .. SuperblockSlots - 1 :
                          Reach(ring[i]) \subseteq objects /\ Reach(ring[i]) \subseteq saved.objects

\* what a fiber has read, put and built is,
FiberStored(f) ==
    /\ pc[f] \in {"blob", "tree", "drainCommit"} => Reach(cur[f]) \subseteq objects
    /\ pc[f] = "tree" /\ op[f].call = "write" => FileReach(op[f].file) \subseteq objects
    /\ pc[f] = "commit" => Reach(new[f]) \subseteq objects

FibersStored == rootFaults = 0 => \A f \in Mutators : FiberStored(f)

\* and gc has marked all of what the slots reach, and removes none of it.
Marked ==
    rootFaults = 0 => \A i \in 0 .. SuperblockSlots - 1 :
                          /\ pc[GcFiber] = "list" => Reach(ring[i]) \subseteq orphans
                          /\ pc[GcFiber] = "sweep" => Reach(ring[i]) \cap orphans = {}

RootInv == RootTyped /\ Locked /\ Streamed /\ Newest /\ Stored /\ FibersStored /\ Marked

\* While no commit fails and no stream drains, a call works on the root in use
Updates ==
    /\ rootFaults = 0 /\ \A s \in Streams : pc[s] \notin {"drain", "drainCommit"}
    /\ \A f \in Mutators : /\ pc[f] \in {"blob", "tree", "commit"} => cur[f] = root
                           /\ pc[f] = "commit" => new[f] = Tree(Edited(FilesOf(cur[f]), op[f]))
    /\ NoLostUpdate

-----------------------------------------------------------------------------
(* Trees.                                                                  *)

LEMMA SlotNumber == \A n \in Nat : n % SuperblockSlots \in 0 .. SuperblockSlots - 1
  BY SlotsAssumption

\* gc marks all that a root reaches, when all of it is stored
LEMMA ReachMarked == \A t \in Root \ {EmptyRoot} : Reach(t) \subseteq objects => Reach(t) \subseteq MarkedFrom(t)
<1> SUFFICES ASSUME NEW t \in Root \ {EmptyRoot}, Reach(t) \subseteq objects, NEW x \in Reach(t)
             PROVE  x \in MarkedFrom(t)
  BY Zenon
<1> DEFINE entries == {t[2][p] : p \in Paths} \ {Absent}
<1>1. CASE x = t
  BY <1>1, Zenon DEF MarkedFrom
<1>2. ASSUME NEW p \in Paths, x \in FileReach(t[2][p]) PROVE x \in MarkedFrom(t)
  <2>1. t[2][p] \in File
    BY Zenon DEF Root
  <2>2. CASE t[2][p] = Absent
    BY <1>2, <2>2 DEF FileReach, Absent
  <2>3. CASE t[2][p] \in {"blob"} \X Blobs
    <3>1. x = t[2][p] /\ x # Absent
      BY <1>2, <2>3 DEF FileReach, Absent
    <3> QED BY <3>1, Zenon DEF MarkedFrom
  <2>4. CASE t[2][p] \in {"chunked"} \X Seq(Blobs)
    <3> DEFINE e == t[2][p]
    <3>1. e \in entries /\ e[1] = "chunked"
      BY <2>4 DEF Absent
    <3>2. x = e \/ x \in {Blob(e[2][i]) : i \in DOMAIN e[2]}
      BY <1>2, <3>1, Zenon DEF FileReach
    <3> DEFINE manifests == {f \in entries : f[1] = "chunked" /\ f \in objects}
    <3>3. e \in FileReach(e)
      BY <3>1 DEF FileReach
    <3>4. FileReach(e) \subseteq Reach(t)
      BY Zenon DEF Reach
    <3>5. e \in manifests
      BY <3>1, <3>3, <3>4, Zenon
    <3>6. {Blob(e[2][i]) : i \in DOMAIN e[2]} \in {{Blob(f[2][i]) : i \in DOMAIN f[2]} : f \in manifests}
      <4> HIDE DEF e, manifests
      <4> QED BY <3>5, Zenon
    <3>7. MarkedFrom(t) = {t} \cup entries \cup UNION {{Blob(f[2][i]) : i \in DOMAIN f[2]} : f \in manifests}
      BY Zenon DEF MarkedFrom
    <3> HIDE DEF e, entries, manifests
    <3> QED BY <3>1, <3>2, <3>6, <3>7, Zenon
  <2> QED BY <2>1, <2>2, <2>3, <2>4, Zenon DEF File
<1> QED BY <1>1, <1>2, Zenon DEF Reach

LEMMA FilesOfTyped == \A t \in Root : FilesOf(t) \in [Paths -> File]
  BY Zenon DEF Root, File, FilesOf, EmptyRoot

LEMMA TreeFiles == \A g \in [Paths -> File] : Tree(g) \in Root /\ Tree(g) # EmptyRoot /\ FilesOf(Tree(g)) = g
  BY Zenon DEF Root, Tree, EmptyRoot, FilesOf

LEMMA EditedTyped ==
    ASSUME NEW g \in [Paths -> File], NEW c \in Calls \cup Install
    PROVE  Edited(g, c) \in [Paths -> File]
<1>1. Absent \in File
  BY Zenon DEF File
<1>2. CASE c \in Install \/ c \in [call : {"write"}, path : Paths, file : {Blob(b) : b \in Blobs}]
  <2>1. c.call = "write" /\ c.file \in File
    BY <1>2 DEF Install, File, Blob
  <2> QED BY <2>1, Zenon DEF Edited
<1>3. CASE c \in [call : {"delete"}, path : Paths]
  BY <1>1, <1>3, Zenon DEF Edited
<1>4. CASE c \in [call : {"rename", "copy"}, path : Paths, to : Paths]
  BY <1>1, <1>4, Zenon DEF Edited
<1> QED BY <1>2, <1>3, <1>4, Zenon DEF Calls

\* An edited tree has no files but those of the tree before and the call's own
LEMMA EditedFiles ==
    ASSUME NEW g \in [Paths -> File], NEW c \in Calls \cup Install, NEW p \in Paths
    PROVE  \/ Edited(g, c)[p] = Absent
           \/ \E q \in Paths : Edited(g, c)[p] = g[q]
           \/ c.call = "write" /\ Edited(g, c)[p] = c.file
<1>2. CASE c \in Install \/ c \in [call : {"write"}, path : Paths, file : {Blob(b) : b \in Blobs}]
  <2>1. c.call = "write"
    BY <1>2, Zenon DEF Install
  <2> QED BY <2>1, Zenon DEF Edited
<1>3. CASE c \in [call : {"delete"}, path : Paths]
  BY <1>3, Zenon DEF Edited
<1>4. CASE c \in [call : {"rename", "copy"}, path : Paths, to : Paths]
  BY <1>4, Zenon DEF Edited
<1> QED BY <1>2, <1>3, <1>4, Zenon DEF Calls

\* so that what it reaches is stored if that of these is
LEMMA EditedReach ==
    ASSUME NEW t \in Root, NEW c \in Calls \cup Install, NEW S, Reach(t) \subseteq S,
           c.call = "write" => FileReach(c.file) \subseteq S, Tree(Edited(FilesOf(t), c)) \in S
    PROVE  Reach(Tree(Edited(FilesOf(t), c))) \subseteq S
<1> DEFINE g == FilesOf(t)
           u == Tree(Edited(g, c))
<1>1. g \in [Paths -> File] /\ Edited(g, c) \in [Paths -> File]
  BY FilesOfTyped, EditedTyped, Zenon
<1>2. u # EmptyRoot /\ u[2] = Edited(g, c)
  BY Zenon DEF Tree, EmptyRoot
<1>3. FileReach(Absent) = {}
  BY Zenon DEF FileReach, Absent
<1>4. \A q \in Paths : FileReach(g[q]) \subseteq S
  BY <1>3, Zenon DEF FilesOf, Reach
<1>5. ASSUME NEW p \in Paths PROVE FileReach(Edited(g, c)[p]) \subseteq S
  BY <1>1, <1>3, <1>4, EditedFiles
<1> HIDE DEF g, u
<1>6. Reach(u) \subseteq S
  BY <1>2, <1>5, Zenon DEF Reach, u, g
<1> QED BY <1>6, Zenon DEF u, g

-----------------------------------------------------------------------------
(* Types.                                                                  *)

LEMMA NoChunks == <<>> \in Seq(Blobs) /\ Len(<<>>) <= MaxChunks
<1>1. <<>> \in Seq(Blobs) /\ Len(<<>>) = 0
  OBVIOUS
<1> QED BY <1>1, BoundsAssumption

LEMMA RootInitInv == RootInit => RootInv
<1> SUFFICES ASSUME RootInit PROVE RootInv
  BY Zenon
<1>1. RootTyped
  <2>1. Absent \in File /\ EmptyRoot \in Root
    BY Zenon DEF File, Root
  <2>2. chunks \in [Streams -> Seq(Blobs)] /\ \A s \in Streams : Len(chunks[s]) <= MaxChunks
    BY NoChunks, Zenon DEF RootInit
  <2>3. gen \in 1 .. MaxRootGeneration /\ saved.gen \in 1 .. gen /\ saved.root = EmptyRoot
    BY BoundsAssumption DEF RootInit
  <2>4. pc \in [Fibers -> Places] /\ op \in [Fibers -> Calls \cup Install \cup {<<>>}]
    BY Zenon DEF RootInit, Places
  <2>5. cur \in [Fibers -> Root] /\ new \in [Fibers -> Root] /\ files \in [Paths -> File]
        /\ ring \in [0 .. SuperblockSlots - 1 -> Root]
    BY <2>1, Zenon DEF RootInit
  <2> QED BY <2>1, <2>2, <2>3, <2>4, <2>5, Zenon DEF RootInit, RootTyped
<1>2. Locked
  BY FibersAssumption, Zenon DEF RootInit, Locked, Mutating, Fibers, Mutators
<1>3. Streamed /\ Newest
  BY SlotNumber, Zenon DEF RootInit, Streamed, Newest
<1>4. Stored /\ FibersStored /\ Marked
  BY Zenon DEF RootInit, Stored, FibersStored, FiberStored, Marked, Reach, Fibers
<1> QED BY <1>1, <1>2, <1>3, <1>4, Zenon DEF RootInv

LEMMA PublishTyped ==
    ASSUME RootTyped, NEW o, NEW r \in Root, Publish(o, r)
    PROVE  root' \in Root /\ gen' \in 1 .. MaxRootGeneration /\ ring' \in [0 .. SuperblockSlots - 1 -> Root]
           /\ saved'.root \in Root /\ saved'.gen \in 1 .. gen' /\ gen' = gen + 1
  BY SlotNumber, BoundsAssumption DEF RootTyped, Publish

LEMMA PublishFailTyped ==
    ASSUME RootTyped, NEW o, NEW r \in Root, PublishFail(o, r)
    PROVE  root' \in Root /\ gen' \in 1 .. MaxRootGeneration /\ ring' \in [0 .. SuperblockSlots - 1 -> Root]
           /\ saved'.root \in Root /\ saved'.gen \in 1 .. gen' /\ rootFaults' \in Nat \ {0}
<1>1. rootFaults' \in Nat \ {0}
  BY DEF RootTyped, PublishFail
<1>2. CASE Publish(o, r)
  BY <1>1, <1>2, PublishTyped, Zenon
<1>3. CASE gen < MaxRootGeneration /\ gen' = gen + 1 /\ root' = r /\ UNCHANGED <<ring, saved>>
  BY <1>1, <1>3, BoundsAssumption DEF RootTyped
<1> QED BY <1>2, <1>3, Zenon DEF PublishFail

LEMMA CommitTyped ==
    ASSUME RootTyped, NEW r \in Root, CommitNewRoot(r)
    PROVE  root' \in Root /\ gen' \in 1 .. MaxRootGeneration /\ ring' \in [0 .. SuperblockSlots - 1 -> Root]
           /\ saved'.root \in Root /\ saved'.gen \in 1 .. gen' /\ pending' \in BOOLEAN
<1>1. CASE UNCHANGED store
  BY <1>1, Zenon DEF RootTyped, store
<1>2. CASE Publish(objects, r) /\ pending' = FALSE
  BY <1>2, PublishTyped, Zenon
<1> QED BY <1>1, <1>2, Zenon DEF CommitNewRoot

LEMMA PutTyped == ASSUME NEW S, pending \in BOOLEAN, PutObjects(S) PROVE pending' \in BOOLEAN
  BY Zenon DEF PutObjects

LEMMA ReturnTyped ==
    ASSUME RootTyped, NEW f \in Fibers, Return(f)
    PROVE  holder' = Nobody /\ pc' \in [Fibers -> Places] /\ op' \in [Fibers -> Calls \cup Install \cup {<<>>}]
           /\ cur' \in [Fibers -> Root] /\ new' \in [Fibers -> Root]
<1>1. EmptyRoot \in Root
  BY Zenon DEF Root
<1>2. pc' \in [Fibers -> Places]
  BY Zenon DEF Return, RootTyped, Goto, Places
<1> QED BY <1>1, <1>2, Zenon DEF Return, RootTyped

LEMMA RootTypedStep == RootTyped /\ Locked /\ RootNext => RootTyped'
<1> SUFFICES ASSUME RootTyped, Locked, RootNext PROVE RootTyped'
  BY Zenon
<1>e. EmptyRoot \in Root
  BY Zenon DEF Root
<1>f. \A f \in Mutators : f \in Fibers
  BY Zenon DEF Fibers
<1>w. \A w \in Writers : w \in Mutators
  BY Zenon DEF Mutators
<1>s. \A s \in Streams : s \in Mutators
  BY Zenon DEF Mutators
<1>o. ASSUME NEW f \in Mutators, pc[f] \in Mutating PROVE op[f] \in Calls \cup Install
  BY <1>o, Zenon DEF Locked, Mutators
<1>1. ASSUME NEW f \in Mutators, ReadRoot(f) PROVE RootTyped'
  <2>1. pc' \in [Fibers -> Places] /\ cur' \in [Fibers -> Root]
    BY <1>1, <1>f, Zenon DEF ReadRoot, Goto, RootTyped, Places
  <2> QED BY <1>1, <2>1, Zenon DEF ReadRoot, RootTyped, store
<1>2. ASSUME NEW f \in Mutators, PutTree(f) PROVE RootTyped'
  <2>1. new' \in [Fibers -> Root] /\ pc' \in [Fibers -> Places]
    <3>1. Tree(Edited(FilesOf(cur[f]), op[f])) \in Root
      BY <1>2, <1>f, <1>o, FilesOfTyped, EditedTyped, TreeFiles, Zenon DEF PutTree, RootTyped, Mutating
    <3> QED BY <1>2, <1>f, <3>1, Zenon DEF PutTree, Goto, RootTyped, Places
  <2>2. pending' \in BOOLEAN
    BY <1>2, PutTyped DEF PutTree, RootTyped
  <2> QED BY <1>2, <2>1, <2>2, Zenon DEF PutTree, RootTyped
<1>3. ASSUME NEW f \in Mutators, Refuse(f) PROVE RootTyped'
  <2>1. pending' \in BOOLEAN
    BY <1>3, PutTyped DEF Refuse, RootTyped
  <2> QED BY <1>3, <1>f, <2>1, ReturnTyped, Zenon DEF Refuse, RootTyped
<1>4. ASSUME NEW f \in Mutators, PutFail(f) PROVE RootTyped'
  BY <1>4, <1>f, ReturnTyped DEF PutFail, RootTyped, store
<1>5. ASSUME NEW f \in Mutators, CommitCall(f) \/ CommitCallFail(f) PROVE RootTyped'
  <2>1. new[f] \in Root /\ Return(f) /\ UNCHANGED <<chunks, active, orphans, powerCuts>>
    BY <1>5, <1>f, Zenon DEF CommitCall, CommitCallFail, RootTyped
  <2>2. files' \in [Paths -> File]
    BY <1>5, <1>o, EditedTyped, SMTT(40) DEF CommitCall, CommitCallFail, RootTyped, Mutating
  <2>3. CASE CommitCall(f)
    BY <2>1, <2>2, <2>3, <1>f, ReturnTyped, CommitTyped, Zenon DEF CommitCall, RootTyped
  <2>4. CASE CommitCallFail(f)
    BY <2>1, <2>2, <2>4, <1>f, ReturnTyped, PublishFailTyped, Zenon DEF CommitCallFail, CommitNewRootFail, RootTyped
  <2> QED BY <1>5, <2>3, <2>4, Zenon
<1>6. ASSUME NEW w \in Writers, BeginCall(w) PROVE RootTyped'
  <2>1. op' \in [Fibers -> Calls \cup Install \cup {<<>>}] /\ pc' \in [Fibers -> Places] /\ holder' \in Fibers
    BY <1>6, <1>f, <1>w DEF BeginCall, Lock, Goto, RootTyped, Places
  <2> QED BY <1>6, <2>1, Zenon DEF BeginCall, Lock, RootTyped, store
<1>7. ASSUME NEW w \in Writers, PutBlob(w) PROVE RootTyped'
  <2>1. pending' \in BOOLEAN /\ pc' \in [Fibers -> Places]
    BY <1>7, <1>f, <1>w, PutTyped DEF PutBlob, RootTyped, Goto, Places
  <2> QED BY <1>7, <2>1, Zenon DEF PutBlob, RootTyped
<1>8. ASSUME NEW s \in Streams, Open(s) \/ Drop(s) PROVE RootTyped'
  <2>1. pc' \in [Fibers -> Places]
    BY <1>8, <1>f, <1>s, Zenon DEF Open, Drop, RootTyped, Goto, Places
  <2>2. chunks' \in [Streams -> Seq(Blobs)] /\ \A t \in Streams : Len(chunks'[t]) <= MaxChunks
    <3>1. chunks' = [chunks EXCEPT ![s] = <<>>]
      BY <1>8, Zenon DEF Open, Drop
    <3> QED BY <3>1, NoChunks, Zenon DEF RootTyped
  <2> QED BY <1>8, <2>1, <2>2, ZenonT(40) DEF Open, Drop, RootTyped, store
<1>9. ASSUME NEW s \in Streams, FlushChunk(s) PROVE RootTyped'
  <2>1. pending' \in BOOLEAN /\ pc' \in [Fibers -> Places]
    BY <1>9, <1>f, <1>s, PutTyped DEF FlushChunk, RootTyped, Goto, Places
  <2>2. chunks' \in [Streams -> Seq(Blobs)] /\ \A t \in Streams : Len(chunks'[t]) <= MaxChunks
    <3>1. PICK b \in Blobs : chunks' = [chunks EXCEPT ![s] = Append(@, b)]
      BY <1>9, Zenon DEF FlushChunk
    <3>2. Append(chunks[s], b) \in Seq(Blobs) /\ Len(Append(chunks[s], b)) = Len(chunks[s]) + 1
      BY DEF RootTyped
    <3>3. Len(chunks[s]) \in Nat /\ Len(chunks[s]) < MaxChunks
      BY <1>9 DEF FlushChunk, RootTyped
    <3> QED BY <3>1, <3>2, <3>3, BoundsAssumption DEF RootTyped
  <2> QED BY <1>9, <2>1, <2>2, Zenon DEF FlushChunk, RootTyped
<1>10. ASSUME NEW s \in Streams, PutManifest(s) PROVE RootTyped'
  <2>1. pending' \in BOOLEAN /\ pc' \in [Fibers -> Places]
    BY <1>10, <1>f, <1>s, PutTyped DEF PutManifest, RootTyped, Goto, Places
  <2> QED BY <1>10, <2>1, Zenon DEF PutManifest, RootTyped
<1>11. ASSUME NEW s \in Streams, BeginInstall(s) PROVE RootTyped'
  <2>1. PICK p \in Paths : Lock(s, [call |-> "write", path |-> p, file |-> Manifest(chunks[s])])
    BY <1>11, Zenon DEF BeginInstall
  <2>2. [call |-> "write", path |-> p, file |-> Manifest(chunks[s])] \in Install
    BY Zenon DEF RootTyped, Install, Manifest
  <2>3. op' \in [Fibers -> Calls \cup Install \cup {<<>>}] /\ pc' \in [Fibers -> Places] /\ holder' \in Fibers
    BY <2>1, <2>2, <1>f, <1>s, Zenon DEF Lock, Goto, RootTyped, Places
  <2> QED BY <2>1, <2>3, Zenon DEF Lock, RootTyped, store
<1>12. ASSUME NEW s \in Streams, DrainRead(s) \/ DrainNothing(s) PROVE RootTyped'
  <2>1. pc' \in [Fibers -> Places] /\ cur' \in [Fibers -> Root]
    <3>1. CASE DrainRead(s)
      BY <3>1, <1>f, <1>s, Zenon DEF DrainRead, Goto, RootTyped, Places
    <3>2. CASE DrainNothing(s)
      BY <3>2, <1>f, <1>s, Zenon DEF DrainNothing, Goto, RootTyped, Places
    <3> QED BY <1>12, <3>1, <3>2, Zenon
  <2> QED BY <1>12, <2>1, Zenon DEF DrainRead, DrainNothing, RootTyped, store
<1>13. ASSUME NEW s \in Streams, DrainCommit(s) \/ DrainCommitFail(s) PROVE RootTyped'
  <2>1. pc' \in [Fibers -> Places] /\ cur' \in [Fibers -> Root] /\ cur[s] \in Root
    BY <1>13, <1>e, <1>f, <1>s, ZenonT(40) DEF DrainCommit, DrainCommitFail, Goto, RootTyped, Places
  <2>2. CASE DrainCommit(s)
    BY <2>1, <2>2, CommitTyped, Zenon DEF DrainCommit, RootTyped
  <2>3. CASE DrainCommitFail(s)
    BY <2>1, <2>3, PublishFailTyped, Zenon DEF DrainCommitFail, CommitNewRootFail, RootTyped
  <2> QED BY <1>13, <2>2, <2>3, Zenon
<1>14. CASE GcMark \/ GcList \/ GcUnlock
  <2>1. pc' \in [Fibers -> Places] /\ holder' \in Fibers \cup {Nobody}
    BY <1>14, Zenon DEF GcMark, GcList, GcUnlock, Goto, RootTyped, Places, Fibers
  <2> QED BY <1>14, <2>1, Zenon DEF GcMark, GcList, GcUnlock, RootTyped, store
<1>15. CASE GcSweep
  BY <1>15, PublishTyped, Zenon DEF GcSweep, RootTyped, local
<1>16. CASE GcSweepFail
  <2>1. pc' \in [Fibers -> Places]
    BY <1>16, Zenon DEF GcSweepFail, Goto, RootTyped, Places
  <2> QED BY <1>16, <2>1, PublishFailTyped, Zenon DEF GcSweepFail, RootTyped
<1>17. CASE PowerCut
  <2>1. chunks' \in [Streams -> Seq(Blobs)] /\ \A s \in Streams : Len(chunks'[s]) <= MaxChunks
    BY <1>17, NoChunks, Zenon DEF PowerCut
  <2>2. root' \in Root /\ gen' \in 1 .. MaxRootGeneration /\ saved'.root \in Root /\ saved'.gen \in 1 .. gen'
    BY <1>17, BoundsAssumption DEF PowerCut, RootTyped
  <2>3. pc' \in [Fibers -> Places] /\ op' \in [Fibers -> Calls \cup Install \cup {<<>>}]
    BY <1>17, Zenon DEF PowerCut, Places
  <2>4. cur' \in [Fibers -> Root] /\ new' \in [Fibers -> Root]
    BY <1>17, <1>e, Zenon DEF PowerCut
  <2>5. pending' \in BOOLEAN /\ holder' = Nobody /\ active' = {}
    BY <1>17, Zenon DEF PowerCut
  <2>6. powerCuts' \in Nat /\ UNCHANGED <<ring, files, rootFaults>>
    BY <1>17 DEF PowerCut, RootTyped
  <2> QED BY <2>1, <2>2, <2>3, <2>4, <2>5, <2>6, Zenon DEF RootTyped
<1> QED BY Zenon, RootNext, <1>1, <1>2, <1>3, <1>4, <1>5, <1>6, <1>7, <1>8, <1>9, <1>10, <1>11, <1>12, <1>13,
           <1>14, <1>15, <1>16, <1>17 DEF RootNext, Mutation

-----------------------------------------------------------------------------
(* The lock.                                                               *)

LEMMA LockedStep == RootTyped /\ Locked /\ RootNext => Locked'
<1> SUFFICES ASSUME RootTyped, Locked, RootNext PROVE Locked'
  BY Zenon
<1> USE FibersAssumption DEF Mutating
<1>f. \A f \in Mutators : f \in Fibers /\ f # GcFiber /\ f # Nobody
  BY Zenon DEF Fibers
<1>w. \A w \in Writers : w \in Mutators /\ w \notin Streams
  BY Zenon DEF Mutators
<1>s. \A s \in Streams : s \in Mutators /\ s \notin Writers
  BY Zenon DEF Mutators
<1>g. GcFiber \in Fibers /\ GcFiber # Nobody
  BY Zenon DEF Fibers
<1>1. ASSUME NEW f \in Mutators, ReadRoot(f) PROVE Locked'
  BY <1>1, <1>f, <1>w, <1>s, <1>g, ZenonT(40) DEF ReadRoot, Goto, RootTyped, Locked
<1>2. ASSUME NEW f \in Mutators, PutTree(f) PROVE Locked'
  BY <1>2, <1>f, <1>w, <1>s, <1>g, ZenonT(40) DEF PutTree, Goto, RootTyped, Locked
<1>3. ASSUME NEW f \in Mutators, pc[f] \in Mutating, Return(f), UNCHANGED <<chunks, active>> PROVE Locked'
  BY <1>3, <1>f, <1>w, <1>s, <1>g, ZenonT(40) DEF Return, Goto, RootTyped, Locked
<1>4. ASSUME NEW f \in Mutators, Refuse(f) \/ PutFail(f) \/ CommitCall(f) \/ CommitCallFail(f) PROVE Locked'
  BY <1>3, <1>4, Zenon DEF Refuse, PutFail, CommitCall, CommitCallFail
<1>6. ASSUME NEW w \in Writers, BeginCall(w) PROVE Locked'
  BY <1>6, <1>f, <1>w, <1>s, <1>g DEF BeginCall, Lock, Goto, RootTyped, Locked
<1>7. ASSUME NEW w \in Writers, PutBlob(w) PROVE Locked'
  BY <1>7, <1>f, <1>w, <1>s, <1>g, ZenonT(40) DEF PutBlob, Goto, RootTyped, Locked
<1>8. ASSUME NEW s \in Streams, Open(s) \/ Drop(s) PROVE Locked'
  BY <1>8, <1>f, <1>w, <1>s, <1>g DEF Open, Drop, Goto, RootTyped, Locked
<1>9. ASSUME NEW s \in Streams, FlushChunk(s) PROVE Locked'
  <2>1. pc[s] = "open" /\ pc'[s] \in {"open", "drain"} /\ \A g \in Fibers : g # s => pc'[g] = pc[g]
    BY <1>9, <1>f, <1>s, Zenon DEF FlushChunk, Goto, RootTyped
  <2>2. \A t \in Streams : t # s => chunks'[t] = chunks[t]
    BY <1>9, Zenon DEF FlushChunk, RootTyped
  <2> QED BY <1>9, <1>f, <1>w, <1>s, <1>g, <2>1, <2>2, ZenonT(40) DEF FlushChunk, Locked
<1>10. ASSUME NEW s \in Streams, PutManifest(s) \/ DrainRead(s) \/ DrainNothing(s) PROVE Locked'
  <2>1. /\ pc[s] \in {"open", "drain"} /\ pc'[s] \in {"open", "drainCommit", "install"}
        /\ \A g \in Fibers : g # s => pc'[g] = pc[g]
    <3>1. CASE PutManifest(s)
      BY <3>1, <1>f, <1>s, Zenon DEF PutManifest, Goto, RootTyped
    <3>2. CASE DrainRead(s)
      BY <3>2, <1>f, <1>s, Zenon DEF DrainRead, Goto, RootTyped
    <3>3. CASE DrainNothing(s)
      BY <3>3, <1>f, <1>s, Zenon DEF DrainNothing, Goto, RootTyped
    <3> QED BY <1>10, <3>1, <3>2, <3>3, Zenon
  <2>2. UNCHANGED <<holder, op, chunks, active>>
    BY <1>10, Zenon DEF PutManifest, DrainRead, DrainNothing
  <2> QED BY <1>f, <1>w, <1>s, <1>g, <2>1, <2>2, ZenonT(40) DEF Locked
<1>11. ASSUME NEW s \in Streams, BeginInstall(s) PROVE Locked'
  <2>1. PICK p \in Paths : Lock(s, [call |-> "write", path |-> p, file |-> Manifest(chunks[s])])
    BY <1>11, Zenon DEF BeginInstall
  <2>2. op'[s] \in Install /\ op'[s].file = Manifest(chunks[s])
    BY <2>1, <1>f, <1>s, Zenon DEF Lock, RootTyped, Install, Manifest
  <2>3. \A g \in Fibers : g # s => op'[g] = op[g] /\ pc'[g] = pc[g]
    BY <2>1, <1>f, <1>s, Zenon DEF Lock, Goto, RootTyped
  <2>4. pc[s] = "install" /\ pc'[s] = "read" /\ holder = Nobody /\ holder' = s
    BY <1>11, <2>1, <1>f, <1>s, Zenon DEF BeginInstall, Lock, Goto, RootTyped
  <2> QED BY <2>1, <2>2, <2>3, <2>4, <1>f, <1>w, <1>s, <1>g, ZenonT(40) DEF Lock, Locked
<1>12. ASSUME NEW s \in Streams, DrainCommit(s) \/ DrainCommitFail(s) PROVE Locked'
  BY <1>12, <1>f, <1>w, <1>s, <1>g DEF DrainCommit, DrainCommitFail, Goto, RootTyped, Locked
<1>13. CASE GcMark \/ GcList \/ GcUnlock \/ GcSweepFail
  BY <1>13, <1>f, <1>w, <1>s, <1>g DEF GcMark, GcList, GcUnlock, GcSweepFail, Goto, RootTyped, Locked
<1>14. CASE GcSweep
  BY <1>14, Zenon DEF GcSweep, local, Locked
<1>15. CASE PowerCut
  BY <1>15, <1>f, <1>w, <1>s, <1>g, Zenon DEF PowerCut, Locked
<1> QED BY RootNext, <1>1, <1>2, <1>4, <1>6, <1>7, <1>8, <1>9, <1>10, <1>11, <1>12, <1>13, <1>14, <1>15, Zenon
        DEF RootNext, Mutation

-----------------------------------------------------------------------------
(* Streams.                                                                *)

\* Only sweeps and power cuts take objects away
LEMMA ObjectsGrow ==
    ASSUME RootNext
    PROVE  objects \subseteq objects' \/ GcSweep \/ GcSweepFail \/ PowerCut
<1>1. ASSUME NEW S, PutObjects(S) PROVE objects \subseteq objects'
  BY <1>1, Zenon DEF PutObjects
<1>2. ASSUME NEW r, CommitNewRoot(r) \/ CommitNewRootFail(r) PROVE objects' = objects
  BY <1>2, Zenon DEF CommitNewRoot, CommitNewRootFail, Publish, PublishFail, store
<1>3. ASSUME NEW f \in Mutators, Mutation(f) PROVE objects \subseteq objects'
  BY <1>1, <1>2, <1>3, Zenon DEF Mutation, ReadRoot, PutTree, Refuse, PutFail, CommitCall, CommitCallFail, store
<1>4. ASSUME NEW w \in Writers, BeginCall(w) \/ PutBlob(w) PROVE objects \subseteq objects'
  BY <1>1, <1>4, Zenon DEF BeginCall, Lock, PutBlob, store
<1>5. ASSUME NEW s \in Streams, \/ Open(s) \/ FlushChunk(s) \/ PutManifest(s) \/ BeginInstall(s) \/ DrainRead(s)
                                \/ DrainNothing(s) \/ DrainCommit(s) \/ DrainCommitFail(s) \/ Drop(s)
      PROVE objects \subseteq objects'
  BY <1>1, <1>2, <1>5, Zenon DEF Open, FlushChunk, PutManifest, BeginInstall, Lock, DrainRead, DrainNothing, DrainCommit,
     DrainCommitFail, Drop, store
<1>6. CASE GcMark \/ GcList \/ GcUnlock
  BY <1>6, Zenon DEF GcMark, GcList, GcUnlock, store
<1> QED BY RootNext, <1>3, <1>4, <1>5, <1>6, Zenon DEF RootNext

LEMMA StreamedStep == RootTyped /\ Locked /\ Streamed /\ RootNext => Streamed'
<1> SUFFICES ASSUME RootTyped, Locked, Streamed, RootNext PROVE Streamed'
  BY Zenon
<1> USE FibersAssumption DEF Mutating
<1>f. \A f \in Mutators : f \in Fibers /\ f # GcFiber /\ f # Nobody
  BY Zenon DEF Fibers
<1>s. \A s \in Streams : s \in Mutators
  BY Zenon DEF Mutators
<1>w. \A w \in Writers : w \in Mutators /\ w \notin Streams
  BY Zenon DEF Mutators
<1>1. GcSweep \/ GcSweepFail \/ PowerCut => active' = {}
  BY Zenon DEF GcSweep, GcSweepFail, PowerCut, Locked
<1>2. CASE objects \subseteq objects'
  \* A stream that stays as it is keeps what it has; its manifest is there
  \* before it goes on to install it
  <2> DEFINE Same(s) == /\ s \in active /\ chunks'[s] = chunks[s]
                        /\ \/ pc'[s] \in Mutating \cup {"install"} => pc[s] \in Mutating \cup {"install"}
                           \/ Manifest(chunks[s]) \in objects'
             Fresh(s) == chunks'[s] = <<>> /\ pc'[s] = "open"
             Longer(s) == \E b \in Blobs : /\ s \in active /\ Blob(b) \in objects'
                                           /\ chunks'[s] = Append(chunks[s], b)
                                           /\ pc'[s] \notin Mutating \cup {"install"}
  <2>1. SUFFICES \A s \in active' : Same(s) \/ Fresh(s) \/ Longer(s)
    <3> SUFFICES ASSUME NEW s \in active'
                 PROVE  /\ \A i \in DOMAIN chunks'[s] : Blob(chunks'[s][i]) \in objects'
                        /\ pc'[s] \in Mutating \cup {"install"} => Manifest(chunks'[s]) \in objects'
      BY Zenon DEF Streamed
    <3>1. CASE Same(s)
      BY <1>2, <3>1, Zenon DEF Streamed
    <3>2. CASE Fresh(s)
      BY <3>2
    <3>3. ASSUME NEW b \in Blobs, s \in active, Blob(b) \in objects', chunks'[s] = Append(chunks[s], b),
                 pc'[s] \notin Mutating \cup {"install"}
          PROVE  \A i \in DOMAIN chunks'[s] : Blob(chunks'[s][i]) \in objects'
      <4>1. chunks[s] \in Seq(Blobs)
        BY <3>3, Zenon DEF RootTyped
      <4> SUFFICES ASSUME NEW i \in DOMAIN Append(chunks[s], b) PROVE Blob(Append(chunks[s], b)[i]) \in objects'
        BY <3>3, Zenon
      <4>2. CASE i = Len(chunks[s]) + 1
        BY <3>3, <4>1, <4>2
      <4>3. CASE i # Len(chunks[s]) + 1
        <5>1. i \in DOMAIN chunks[s] /\ Append(chunks[s], b)[i] = chunks[s][i]
          BY <4>1, <4>3
        <5> QED BY <1>2, <3>3, <5>1, Zenon DEF Streamed
      <4> QED BY <4>2, <4>3, Zenon
    <3> QED BY <2>1, <3>1, <3>2, <3>3, Zenon
  <2>2. ASSUME NEW f \in Mutators, Mutation(f), NEW s \in active'
        PROVE  Same(s)
    BY <2>2, <1>f, <1>s, Zenon DEF Mutation, ReadRoot, PutTree, Refuse, PutFail, CommitCall, CommitCallFail, Return, Goto, RootTyped
  <2>3. ASSUME NEW w \in Writers, BeginCall(w) \/ PutBlob(w), NEW s \in active'
        PROVE  Same(s)
    BY <2>3, <1>f, <1>s, <1>w DEF BeginCall, Lock, PutBlob, Goto, RootTyped
  <2>4. ASSUME NEW t \in Streams, BeginInstall(t) \/ DrainRead(t) \/ DrainNothing(t) \/ DrainCommit(t) \/ DrainCommitFail(t),
               NEW s \in active'
        PROVE  Same(s)
    BY <2>4, <1>f, <1>s, ZenonT(40) DEF BeginInstall, Lock, DrainRead, DrainNothing, DrainCommit, DrainCommitFail, Goto, RootTyped
  <2>5. ASSUME NEW t \in Streams, Open(t), NEW s \in active'
        PROVE  Same(s) \/ Fresh(s)
    BY <2>5, <1>f, <1>s, Zenon DEF Open, Goto, RootTyped
  <2>6. ASSUME NEW t \in Streams, Drop(t), NEW s \in active'
        PROVE  Same(s)
    BY <2>6, <1>f, <1>s, Zenon DEF Drop, Goto, RootTyped
  <2>7. ASSUME NEW t \in Streams, FlushChunk(t), NEW s \in active'
        PROVE  Same(s) \/ Longer(s)
    <3>1. PICK b \in Blobs : PutObjects({Blob(b)}) /\ chunks' = [chunks EXCEPT ![t] = Append(@, b)]
      BY <2>7, Zenon DEF FlushChunk
    <3>2. s \in active /\ pc'[t] \in {"drain", "open"} /\ (s # t => pc'[s] = pc[s])
      BY <2>7, <1>f, <1>s, Zenon DEF FlushChunk, Goto, RootTyped
    <3> QED BY <3>1, <3>2, Zenon DEF PutObjects, RootTyped
  <2>8. ASSUME NEW t \in Streams, PutManifest(t), NEW s \in active'
        PROVE  Same(s)
    BY <2>8, <1>f, <1>s, Zenon DEF PutManifest, PutObjects, Goto, RootTyped
  <2>9. ASSUME GcMark \/ GcList \/ GcUnlock, NEW s \in active'
        PROVE  Same(s)
    BY <2>9, <1>f, <1>s, Zenon DEF GcMark, GcList, GcUnlock, Goto, RootTyped, Fibers
  <2> HIDE DEF Same, Fresh, Longer
  <2> QED BY <1>1, <2>2, <2>3, <2>4, <2>5, <2>6, <2>7, <2>8, <2>9, RootNext, Zenon DEF RootNext
<1>3. active' = {} => Streamed'
  BY Zenon DEF Streamed
<1> QED BY <1>1, <1>2, <1>3, ObjectsGrow, Zenon

-----------------------------------------------------------------------------
(* What the slots and the fibers reach.                                    *)

\* A step that leaves the superblocks alone, and takes no object away
Quiet == UNCHANGED <<root, gen, ring, saved>> /\ objects \subseteq objects'

\* The commit of a call or of a drain, with the root that the fiber has
CallPublishes(f) == CommitCall(f) /\ Publish(objects, new[f])
DrainPublishes(s) == DrainCommit(s) /\ Publish(objects, cur[s])

\* A step that is not a failure
LEMMA StepKinds ==
    ASSUME RootTyped, RootNext, rootFaults' = 0
    PROVE  /\ rootFaults = 0
           /\ \/ Quiet \/ GcSweep \/ PowerCut
              \/ \E f \in Mutators : CallPublishes(f)
              \/ \E s \in Streams : DrainPublishes(s)
<1> USE DEF Quiet, CallPublishes, DrainPublishes
<1>p. ASSUME NEW S, PutObjects(S) PROVE objects \subseteq objects'
  BY <1>p, Zenon DEF PutObjects
<1>n. rootFaults' # rootFaults + 1
  BY DEF RootTyped
<1>1. ASSUME NEW f \in Mutators, ReadRoot(f) \/ PutTree(f) \/ Refuse(f) PROVE Quiet /\ rootFaults = 0
  BY <1>1, <1>p, Zenon DEF ReadRoot, PutTree, Refuse, store
<1>2. ASSUME NEW f \in Mutators, CommitCall(f) PROVE (Quiet \/ CallPublishes(f)) /\ rootFaults = 0
  BY <1>2, Zenon DEF CommitCall, CommitNewRoot, store
<1>3. ASSUME NEW f \in Mutators PROVE ~PutFail(f) /\ ~CommitCallFail(f)
  BY <1>n, Zenon DEF PutFail, CommitCallFail, CommitNewRootFail, PublishFail
<1>4. ASSUME NEW w \in Writers, BeginCall(w) \/ PutBlob(w) PROVE Quiet /\ rootFaults = 0
  BY <1>4, <1>p, Zenon DEF BeginCall, Lock, PutBlob, store
<1>5. ASSUME NEW s \in Streams, Open(s) \/ FlushChunk(s) \/ PutManifest(s) \/ BeginInstall(s)
                                \/ DrainRead(s) \/ DrainNothing(s) \/ Drop(s)
      PROVE  Quiet /\ rootFaults = 0
  BY <1>5, <1>p, Zenon DEF Open, FlushChunk, PutManifest, BeginInstall, Lock, DrainRead, DrainNothing, Drop, store
<1>6. ASSUME NEW s \in Streams, DrainCommit(s) PROVE (Quiet \/ DrainPublishes(s)) /\ rootFaults = 0
  BY <1>6, Zenon DEF DrainCommit, CommitNewRoot, store
<1>7. ASSUME NEW s \in Streams PROVE ~DrainCommitFail(s)
  BY <1>n, Zenon DEF DrainCommitFail, CommitNewRootFail, PublishFail
<1>8. CASE GcMark \/ GcList \/ GcUnlock
  BY <1>8, Zenon DEF GcMark, GcList, GcUnlock, store
<1>9. CASE GcSweep \/ PowerCut
  BY <1>9, Zenon DEF GcSweep, PowerCut
<1>10. ~GcSweepFail
  BY <1>n, Zenon DEF GcSweepFail, PublishFail
<1> HIDE DEF Quiet, CallPublishes, DrainPublishes
<1> QED BY RootNext, <1>1, <1>2, <1>3, <1>4, <1>5, <1>6, <1>7, <1>8, <1>9, <1>10, Zenon DEF RootNext, Mutation

\* A publication: the slots hold what they held, or the root published
LEMMA PublishSlots ==
    ASSUME RootTyped, NEW o, NEW r \in Root, Publish(o, r)
    PROVE  /\ root' = r /\ objects' = o /\ saved'.objects = o /\ saved'.root = r /\ saved'.gen = gen'
           /\ ring'[gen' % SuperblockSlots] = r
           /\ \A i \in 0 .. SuperblockSlots - 1 : ring'[i] \in {ring[i], r}
<1>1. gen' = gen + 1 /\ gen' \in Nat
  BY BoundsAssumption DEF Publish, RootTyped
<1> QED BY <1>1, SlotNumber, Zenon DEF Publish, RootTyped

LEMMA NewestStep == RootTyped /\ Newest /\ RootNext => Newest'
<1> SUFFICES ASSUME RootTyped, Newest, RootNext, rootFaults' = 0
             PROVE  root' = ring'[gen' % SuperblockSlots] /\ saved'.root = root' /\ saved'.gen = gen'
  BY Zenon DEF Newest
<1>0. rootFaults = 0
  BY StepKinds, Zenon
<1>1. CASE Quiet
  BY <1>0, <1>1, Zenon DEF Quiet, Newest
<1>2. CASE GcSweep
  BY <1>2, PublishSlots, Zenon DEF GcSweep, RootTyped
<1>3. CASE PowerCut
  BY <1>0, <1>3, Zenon DEF PowerCut, Newest
<1>4. ASSUME NEW f \in Mutators, CallPublishes(f) PROVE root' = ring'[gen' % SuperblockSlots] /\ saved'.root = root' /\ saved'.gen = gen'
  BY <1>4, PublishSlots DEF CallPublishes, RootTyped, Fibers
<1>5. ASSUME NEW s \in Streams, DrainPublishes(s) PROVE root' = ring'[gen' % SuperblockSlots] /\ saved'.root = root' /\ saved'.gen = gen'
  BY <1>5, PublishSlots DEF DrainPublishes, RootTyped, Fibers, Mutators
<1> QED BY <1>1, <1>2, <1>3, <1>4, <1>5, StepKinds, Zenon

LEMMA StoredStep == RootInv /\ RootNext => Stored'
<1> SUFFICES ASSUME RootInv, RootNext, rootFaults' = 0, NEW i \in 0 .. SuperblockSlots - 1
             PROVE  Reach(ring'[i]) \subseteq objects' /\ Reach(ring'[i]) \subseteq saved'.objects
  BY Zenon DEF Stored
<1> USE DEF RootInv
<1>0. /\ rootFaults = 0 /\ Reach(ring[i]) \subseteq objects /\ Reach(ring[i]) \subseteq saved.objects
  BY StepKinds, Zenon DEF Stored
<1>1. CASE Quiet
  BY <1>0, <1>1, Zenon DEF Quiet
<1>2. CASE GcSweep
  <2>1. PICK batch \in SUBSET orphans : Publish(objects \ batch, root)
    BY <1>2, Zenon DEF GcSweep
  <2>2. /\ objects' = objects \ batch /\ saved'.objects = objects \ batch /\ ring'[i] \in {ring[i], root}
    BY <2>1, PublishSlots, Zenon DEF RootTyped
  <2>3. gen % SuperblockSlots \in 0 .. SuperblockSlots - 1 /\ root = ring[gen % SuperblockSlots]
    BY <1>0, SlotNumber DEF Newest, RootTyped
  <2>4. Reach(root) \subseteq objects /\ Reach(root) \cap orphans = {} /\ Reach(ring[i]) \cap orphans = {}
    BY <1>0, <1>2, <2>3, Zenon DEF Stored, Marked, GcSweep
  <2> QED BY <1>0, <2>2, <2>4, Zenon
<1>3. CASE PowerCut
  BY <1>0, <1>3, Zenon DEF PowerCut
<1>4. ASSUME NEW r \in Root, Reach(r) \subseteq objects, Publish(objects, r)
      PROVE  Reach(ring'[i]) \subseteq objects' /\ Reach(ring'[i]) \subseteq saved'.objects
  BY <1>0, <1>4, PublishSlots
<1>5. ASSUME NEW f \in Mutators, CallPublishes(f) PROVE new[f] \in Root /\ Reach(new[f]) \subseteq objects
  BY <1>0, <1>5, Zenon DEF CallPublishes, CommitCall, FibersStored, FiberStored, RootTyped, Fibers
<1>6. ASSUME NEW s \in Streams, DrainPublishes(s) PROVE cur[s] \in Root /\ Reach(cur[s]) \subseteq objects
  BY <1>0, <1>6, Zenon DEF DrainPublishes, DrainCommit, FibersStored, FiberStored, RootTyped, Fibers, Mutators
<1> QED BY <1>1, <1>2, <1>3, <1>4, <1>5, <1>6, StepKinds, Zenon DEF CallPublishes, DrainPublishes

\* Whoever is not gc leaves its marks alone, and publishes only while gc is idle
LEMMA OthersLeaveGc ==
    ASSUME RootTyped, Locked, RootNext, ~PowerCut, ~GcMark, ~GcList, ~GcSweep, ~GcSweepFail, ~GcUnlock
    PROVE  pc'[GcFiber] = pc[GcFiber] /\ orphans' = orphans /\ (pc[GcFiber] # "idle" => ring' = ring)
<1> USE FibersAssumption DEF Mutating
<1>f. \A f \in Mutators : f \in Fibers /\ f # GcFiber /\ f # Nobody
  BY Zenon DEF Fibers
<1>s. \A s \in Streams : s \in Mutators
  BY Zenon DEF Mutators
<1>w. \A w \in Writers : w \in Mutators
  BY Zenon DEF Mutators
<1>g. GcFiber \in Fibers
  BY Zenon DEF Fibers
<1>1. ASSUME NEW f \in Mutators, Mutation(f)
      PROVE  pc'[GcFiber] = pc[GcFiber] /\ orphans' = orphans /\ pc[GcFiber] = "idle"
  <2>1. pc[f] \in Mutating
    BY <1>1, Zenon DEF Mutation, ReadRoot, PutTree, Refuse, PutFail, CommitCall, CommitCallFail
  <2>2. pc[GcFiber] = "idle"
    BY <2>1, <1>f, Zenon DEF Locked
  <2>3. pc'[GcFiber] = pc[GcFiber] /\ orphans' = orphans
    BY <1>1, <1>f, <1>g, Zenon DEF Mutation, ReadRoot, PutTree, Refuse, PutFail, CommitCall, CommitCallFail, Return, Goto, RootTyped
  <2> QED BY <2>2, <2>3, Zenon
<1>2. ASSUME NEW w \in Writers, BeginCall(w) \/ PutBlob(w)
      PROVE  pc'[GcFiber] = pc[GcFiber] /\ orphans' = orphans /\ ring' = ring
  BY <1>2, <1>f, <1>g, <1>w, Zenon DEF BeginCall, Lock, PutBlob, Goto, RootTyped, store
<1>3. ASSUME NEW s \in Streams, Open(s) \/ FlushChunk(s) \/ PutManifest(s) \/ BeginInstall(s)
                                \/ DrainRead(s) \/ DrainNothing(s) \/ Drop(s)
      PROVE  pc'[GcFiber] = pc[GcFiber] /\ orphans' = orphans /\ ring' = ring
  BY <1>3, <1>f, <1>g, <1>s, Zenon DEF Open, FlushChunk, PutManifest, BeginInstall, Lock, DrainRead, DrainNothing, Drop, Goto, RootTyped, store
<1>4. ASSUME NEW s \in Streams, DrainCommit(s) \/ DrainCommitFail(s)
      PROVE  pc'[GcFiber] = pc[GcFiber] /\ orphans' = orphans /\ pc[GcFiber] = "idle"
  <2>1. s \in active
    BY <1>4, Zenon DEF Locked, DrainCommit, DrainCommitFail
  <2>2. pc'[GcFiber] = pc[GcFiber] /\ orphans' = orphans
    BY <1>4, <1>f, <1>g, <1>s, Zenon DEF DrainCommit, DrainCommitFail, Goto, RootTyped
  <2> QED BY <2>1, <2>2, Zenon DEF Locked
<1> QED BY RootNext, <1>1, <1>2, <1>3, <1>4, Zenon DEF RootNext

LEMMA MarkedStep == RootInv /\ RootNext => Marked'
<1> SUFFICES ASSUME RootInv, RootNext, rootFaults' = 0, NEW i \in 0 .. SuperblockSlots - 1
             PROVE  /\ pc'[GcFiber] = "list" => Reach(ring'[i]) \subseteq orphans'
                    /\ pc'[GcFiber] = "sweep" => Reach(ring'[i]) \cap orphans' = {}
  BY Zenon DEF Marked
<1> USE DEF RootInv
<1>0. rootFaults = 0 /\ Reach(ring[i]) \subseteq objects /\ GcFiber \in Fibers
  BY StepKinds, Zenon DEF Stored, Fibers
<1>1. CASE GcMark
  <2>1. ring[i] \in Root /\ i \in DOMAIN ring /\ ring' = ring /\ pc'[GcFiber] = "list"
    BY <1>0, <1>1, Zenon DEF RootTyped, GcMark, store, Goto
  <2>2. CASE ring[i] = EmptyRoot
    BY <2>1, <2>2, Zenon DEF Reach
  <2>3. CASE ring[i] # EmptyRoot
    <3>1. Reach(ring[i]) \subseteq MarkedFrom(ring[i])
      BY <1>0, <2>1, <2>3, ReachMarked, Zenon
    <3>2. MarkedFrom(ring[i]) \subseteq orphans'
      <4> HIDE DEF RootInv
      <4> QED BY <1>1, <2>1, <2>3, Zenon DEF GcMark, MarkRoots
    <3> QED BY <2>1, <3>1, <3>2, Zenon
  <2> QED BY <2>2, <2>3, Zenon
<1>2. CASE GcList
  <2>1. active = {} /\ orphans' = objects \ orphans /\ pc'[GcFiber] = "sweep" /\ ring' = ring
    BY <1>0, <1>2, Zenon DEF GcList, Locked, Goto, RootTyped, store
  <2>2. Reach(ring[i]) \subseteq orphans
    BY <1>0, <1>2, Zenon DEF GcList, Marked
  <2> QED BY <2>1, <2>2, Zenon
<1>3. CASE GcSweep
  <2>1. PICK batch \in SUBSET orphans : Publish(objects \ batch, root) /\ orphans' = orphans \ batch
    BY <1>3, Zenon DEF GcSweep
  <2>2. ring'[i] \in {ring[i], root}
    BY <2>1, PublishSlots, Zenon DEF RootTyped
  <2>3. gen % SuperblockSlots \in 0 .. SuperblockSlots - 1 /\ root = ring[gen % SuperblockSlots]
    BY <1>0, SlotNumber DEF Newest, RootTyped
  <2>4. Reach(root) \cap orphans = {} /\ Reach(ring[i]) \cap orphans = {} /\ pc'[GcFiber] = "sweep"
    BY <1>0, <1>3, <2>3, Zenon DEF Marked, GcSweep, local
  <2> QED BY <2>1, <2>2, <2>4, Zenon
<1>4. CASE GcUnlock \/ GcSweepFail \/ PowerCut
  BY <1>0, <1>4, Zenon DEF GcUnlock, GcSweepFail, PowerCut, Goto, RootTyped
<1>5. CASE ~PowerCut /\ ~GcMark /\ ~GcList /\ ~GcSweep /\ ~GcSweepFail /\ ~GcUnlock
  BY <1>0, <1>5, OthersLeaveGc, Zenon DEF Marked
<1> QED BY <1>1, <1>2, <1>3, <1>4, <1>5, Zenon

LEMMA FibersStoredStep == RootInv /\ RootNext => FibersStored'
<1> SUFFICES ASSUME RootInv, RootNext, rootFaults' = 0, NEW g \in Mutators PROVE FiberStored(g)'
  BY Zenon DEF FibersStored
<1> USE FibersAssumption DEF RootInv, Mutating
<1>f. \A f \in Mutators : f \in Fibers /\ f # GcFiber /\ f # Nobody
  BY Zenon DEF Fibers
<1>s. \A s \in Streams : s \in Mutators /\ s \notin Writers
  BY Zenon DEF Mutators
<1>w. \A w \in Writers : w \in Mutators /\ w \notin Streams
  BY Zenon DEF Mutators
<1>0. rootFaults = 0 /\ FiberStored(g) /\ Reach(root) \subseteq objects
  <2>1. rootFaults = 0
    BY StepKinds, Zenon
  <2>2. gen % SuperblockSlots \in 0 .. SuperblockSlots - 1 /\ root = ring[gen % SuperblockSlots]
    BY <2>1, SlotNumber DEF Newest, RootTyped
  <2> QED BY <2>1, <2>2, Zenon DEF Stored, FibersStored
<1>1. CASE objects \subseteq objects' /\ pc'[g] = pc[g] /\ cur'[g] = cur[g] /\ new'[g] = new[g] /\ op'[g] = op[g]
  BY <1>0, <1>1, Zenon DEF FiberStored
<1>2. CASE pc'[g] \notin {"blob", "tree", "drainCommit", "commit"}
  BY <1>2, Zenon DEF FiberStored
<1>3. ASSUME ReadRoot(g) PROVE FiberStored(g)'
  <2>1. objects' = objects /\ cur'[g] = root /\ pc'[g] \in {"blob", "tree"} /\ op'[g] = op[g]
    BY <1>3, <1>f, Zenon DEF ReadRoot, Goto, RootTyped, store
  <2>2. pc'[g] = "tree" /\ op[g].call = "write" => FileReach(op[g].file) \subseteq objects
    <3>1. SUFFICES ASSUME g \in Streams PROVE FileReach(op[g].file) \subseteq objects
      BY <1>3, <1>f, Zenon DEF ReadRoot, Goto, RootTyped, Mutators
    <3>2. g \in active /\ op[g].file = Manifest(chunks[g]) /\ Manifest(chunks[g]) \in objects
      BY <1>3, <3>1, Zenon DEF ReadRoot, Locked, Streamed
    <3>3. \A j \in DOMAIN chunks[g] : Blob(chunks[g][j]) \in objects
      BY <3>2, Zenon DEF Streamed
    <3> QED BY <3>2, <3>3 DEF FileReach, Manifest
  <2> QED BY <1>0, <2>1, <2>2, Zenon DEF FiberStored
<1>4. ASSUME g \in Writers, PutBlob(g) PROVE FiberStored(g)'
  <2>1. objects' = objects \cup {op[g].file} /\ cur'[g] = cur[g] /\ pc[g] = "blob" /\ pc'[g] = "tree" /\ op'[g] = op[g]
    BY <1>4, <1>f, Zenon DEF PutBlob, PutObjects, Goto, RootTyped
  <2>2. op[g].call = "write" => FileReach(op[g].file) \subseteq objects'
    <3>1. SUFFICES ASSUME op[g].call = "write" PROVE FileReach(op[g].file) = {op[g].file}
      BY <2>1, Zenon
    <3>2. op[g] \in Calls
      BY <1>4, <2>1, Zenon DEF Locked
    <3>3. op[g] \in [call : {"write"}, path : Paths, file : {Blob(b) : b \in Blobs}]
      BY <3>1, <3>2, Zenon DEF Calls
    <3> QED BY <3>3 DEF FileReach, Blob
  <2> QED BY <1>0, <2>1, <2>2, Zenon DEF FiberStored
<1>5. ASSUME PutTree(g) PROVE FiberStored(g)'
  <2> DEFINE t == cur[g]
             c == op[g]
  <2>1. t \in Root /\ c \in Calls \cup Install
    BY <1>5, <1>f, Zenon DEF PutTree, RootTyped, Locked, Mutators
  <2>2. Allowed(FilesOf(t), c) /\ objects' = objects \cup TreesStored(FilesOf(t), c)
    BY <1>5, Zenon DEF PutTree, Refused, PutObjects
  <2>3. Tree(Edited(FilesOf(t), c)) \in objects' /\ objects \subseteq objects'
    BY <2>2, Zenon DEF TreesStored
  <2>4. Reach(t) \subseteq objects' /\ (c.call = "write" => FileReach(c.file) \subseteq objects')
    BY <1>0, <1>5, <2>3, Zenon DEF PutTree, FiberStored
  <2>5. new'[g] = Tree(Edited(FilesOf(t), c)) /\ pc'[g] = "commit"
    BY <1>5, <1>f, Zenon DEF PutTree, Goto, RootTyped
  <2>6. Reach(Tree(Edited(FilesOf(t), c))) \subseteq objects'
    BY <2>1, <2>3, <2>4, EditedReach, Zenon
  <2> QED BY <2>5, <2>6, Zenon DEF FiberStored
<1>6. ASSUME g \in Streams, DrainRead(g) PROVE FiberStored(g)'
  <2>1. objects' = objects /\ cur'[g] = root /\ pc'[g] = "drainCommit"
    BY <1>6, <1>f, Zenon DEF DrainRead, Goto, RootTyped, store
  <2> QED BY <1>0, <2>1, Zenon DEF FiberStored
\* What another fiber does leaves g alone
<1>7. ASSUME NEW f \in Mutators, f # g, Mutation(f)
      PROVE  pc'[g] = pc[g] /\ cur'[g] = cur[g] /\ new'[g] = new[g] /\ op'[g] = op[g]
  BY <1>7, <1>f, Zenon DEF Mutation, ReadRoot, PutTree, Refuse, PutFail, CommitCall, CommitCallFail, Return, Goto, RootTyped
<1>8. ASSUME Refuse(g) \/ PutFail(g) \/ CommitCall(g) \/ CommitCallFail(g)
      PROVE  pc'[g] \notin {"blob", "tree", "drainCommit", "commit"}
  BY <1>8, <1>f, Zenon DEF Refuse, PutFail, CommitCall, CommitCallFail, Return, Goto, RootTyped
<1>9. ASSUME NEW w \in Writers, BeginCall(w) \/ PutBlob(w), w # g
      PROVE  pc'[g] = pc[g] /\ cur'[g] = cur[g] /\ new'[g] = new[g] /\ op'[g] = op[g]
  BY <1>9, <1>f, <1>w, Zenon DEF BeginCall, Lock, PutBlob, Goto, RootTyped
<1>10. ASSUME g \in Writers, BeginCall(g) PROVE pc'[g] = "read"
  BY <1>10, <1>f, Zenon DEF BeginCall, Lock, Goto, RootTyped
<1>11. ASSUME NEW s \in Streams, s # g, Open(s) \/ FlushChunk(s) \/ PutManifest(s) \/ BeginInstall(s)
                           \/ DrainRead(s) \/ DrainNothing(s) \/ DrainCommit(s)
                           \/ DrainCommitFail(s) \/ Drop(s)
       PROVE  pc'[g] = pc[g] /\ cur'[g] = cur[g] /\ new'[g] = new[g] /\ op'[g] = op[g]
  BY <1>11, <1>f, <1>s, Zenon DEF Open, FlushChunk, PutManifest, BeginInstall, Lock, DrainRead, DrainNothing, DrainCommit,
     DrainCommitFail, Drop, Goto, RootTyped
<1>12. ASSUME g \in Streams, Open(g) \/ FlushChunk(g) \/ PutManifest(g) \/ BeginInstall(g)
                           \/ DrainNothing(g) \/ DrainCommit(g) \/ DrainCommitFail(g) \/ Drop(g)
       PROVE  pc'[g] \notin {"blob", "tree", "drainCommit", "commit"}
  BY <1>12, <1>f, Zenon DEF Open, FlushChunk, PutManifest, BeginInstall, Lock, DrainNothing, DrainCommit,
     DrainCommitFail, Drop, Goto, RootTyped
<1>13. ASSUME GcMark \/ GcList \/ GcUnlock
       PROVE  pc'[g] = pc[g] /\ cur'[g] = cur[g] /\ new'[g] = new[g] /\ op'[g] = op[g]
  BY <1>13, <1>f, Zenon DEF GcMark, GcList, GcUnlock, Goto, RootTyped, Fibers
<1>14. ASSUME GcSweep \/ GcSweepFail \/ PowerCut PROVE pc'[g] \notin {"blob", "tree", "drainCommit", "commit"}
  <2>1. CASE PowerCut
    BY <2>1, <1>f, Zenon DEF PowerCut
  <2>2. CASE GcSweep \/ GcSweepFail
    <3>1. pc[g] \notin {"blob", "tree", "commit"} /\ active = {}
      BY <2>2, <1>f, Zenon DEF GcSweep, GcSweepFail, Locked
    <3>2. pc[g] # "drainCommit"
      BY <3>1, Zenon DEF Locked, Mutators
    <3>3. pc'[g] = pc[g]
      BY <2>2, <1>f, Zenon DEF GcSweep, GcSweepFail, local, Goto, RootTyped, Fibers
    <3> QED BY <3>1, <3>2, <3>3, Zenon
  <2> QED BY <1>14, <2>1, <2>2, Zenon
<1>15. objects \subseteq objects' \/ pc'[g] \notin {"blob", "tree", "drainCommit", "commit"}
  BY <1>14, ObjectsGrow, Zenon
<1> HIDE DEF RootInv, Mutating
<1>16. ASSUME NEW f \in Mutators, Mutation(f) PROVE FiberStored(g)'
  BY <1>16, <1>1, <1>2, <1>3, <1>5, <1>7, <1>8, <1>15, Zenon DEF Mutation
<1>17. ASSUME NEW w \in Writers, BeginCall(w) \/ PutBlob(w) PROVE FiberStored(g)'
  BY <1>17, <1>1, <1>2, <1>4, <1>9, <1>10, <1>15, Zenon
<1>18. ASSUME NEW s \in Streams, Open(s) \/ FlushChunk(s) \/ PutManifest(s) \/ BeginInstall(s)
                           \/ DrainRead(s) \/ DrainNothing(s) \/ DrainCommit(s)
                           \/ DrainCommitFail(s) \/ Drop(s)
       PROVE  FiberStored(g)'
  BY <1>18, <1>1, <1>2, <1>6, <1>11, <1>12, <1>15, Zenon
<1> QED BY RootNext, <1>1, <1>2, <1>13, <1>14, <1>15, <1>16, <1>17, <1>18, Zenon DEF RootNext

LEMMA RootStep == RootInv /\ [RootNext]_rootVars => RootInv'
<1>1. RootInv /\ RootNext => RootInv'
  BY RootTypedStep, LockedStep, StreamedStep, NewestStep, StoredStep, FibersStoredStep, MarkedStep, Zenon DEF RootInv
<1>2. ASSUME RootInv, UNCHANGED rootVars PROVE RootInv'
  BY <1>2, Zenon DEF rootVars, store, local, RootInv, RootTyped, Locked, Streamed, Newest, Stored, FibersStored, FiberStored,
              Marked
<1> QED BY <1>1, <1>2, Zenon

LEMMA RootInvariant == RootSpec => []RootInv
  BY RootInitInv, RootStep, PTL DEF RootSpec

-----------------------------------------------------------------------------
\* Types, and the generation on media never ahead of the one in memory, which
\* wraps around the superblock slots (commit, mount)
THEOREM RootTypes == RootSpec => []RootTypeOK
<1>1. RootInv => RootTypeOK
  <2> SUFFICES ASSUME RootInv PROVE RootTypeOK
    BY Zenon
  <2>1. \A t \in Root : t = EmptyRoot \/ t[1] = "tree"
    BY Zenon DEF Root
  <2>2. pending \in BOOLEAN
    BY Zenon DEF RootInv, RootTyped
  <2> QED BY <2>1, <2>2 DEF RootInv, RootTyped, RootTypeOK
<1> QED BY <1>1, RootInvariant, PTL

\* Collections, drains and power cuts leave whatever the root in use or one of
\* the superblock slots reaches, for every number of fibers, paths and slots
\* (gc marks from all slots under ROOT_MUTEX), until a commit fails
THEOREM RootCollectionSafe == RootSpec => []IntactUntilFailure
<1>1. RootInv => IntactUntilFailure
  <2> SUFFICES ASSUME RootInv, rootFaults = 0 PROVE RootIntact /\ SnapshotsIntact
    BY Zenon DEF IntactUntilFailure
  <2>1. DOMAIN ring = 0 .. SuperblockSlots - 1 /\ gen \in Nat
    BY DEF RootInv, RootTyped
  <2> QED BY <2>1, SlotNumber, Zenon DEF RootInv, Newest, Stored, RootIntact, SnapshotsIntact
<1> QED BY <1>1, RootInvariant, PTL

\* No collection takes a chunk of an open stream, whatever fails (gc looks at
\* ACTIVE_STREAMS under ROOT_MUTEX, and streams open under it)
THEOREM RootStreamsSafe == RootSpec => []StreamKeepsChunks
<1>1. RootInv => StreamKeepsChunks
  BY Zenon DEF RootInv, Streamed, StreamKeepsChunks
<1> QED BY <1>1, RootInvariant, PTL

-----------------------------------------------------------------------------
(* Updates.                                                                *)

LEMMA Remainder == \A m \in Nat \ {0} : \A n \in 1 .. m - 1 : n % m # 0
  OBVIOUS

LEMMA UpdatesStep ==
    ASSUME MaxRootFaults = 0, MaxChunks < CommitEvery, RootInv, Updates, RootNext
    PROVE  Updates'
<1> USE FibersAssumption DEF Mutating
<1>t. RootTyped /\ Locked
  BY Zenon DEF RootInv
<1>f. \A f \in Mutators : f \in Fibers /\ f # GcFiber /\ f # Nobody
  BY Zenon DEF Fibers
<1>s. \A s \in Streams : s \in Mutators
  BY Zenon DEF Mutators
<1>w. \A w \in Writers : w \in Mutators /\ w \notin Streams
  BY Zenon DEF Mutators
<1>n. ~(rootFaults < MaxRootFaults)
  BY DEF Updates
<1>1. ASSUME NEW f \in Mutators, ReadRoot(f) PROVE Updates'
  BY <1>1, <1>t, <1>f, <1>s, Zenon DEF ReadRoot, Goto, RootTyped, store, Updates, NoLostUpdate
<1>2. ASSUME NEW f \in Mutators, PutTree(f) PROVE Updates'
  BY <1>2, <1>t, <1>f, <1>s, Zenon DEF PutTree, Goto, RootTyped, Updates, NoLostUpdate
<1>3. ASSUME NEW f \in Mutators, Refuse(f) PROVE Updates'
  BY <1>3, <1>t, <1>f, <1>s, Zenon DEF Refuse, Return, Goto, RootTyped, Updates, NoLostUpdate
<1>4. ASSUME NEW f \in Mutators PROVE ~PutFail(f) /\ ~CommitCallFail(f)
  BY <1>n, Zenon DEF PutFail, CommitCallFail, CommitNewRootFail, PublishFail
<1>5. ASSUME NEW f \in Mutators, CommitCall(f) PROVE Updates'
  <2>1. op[f] \in Calls \cup Install /\ cur[f] \in Root /\ cur[f] = root /\ new[f] = Tree(Edited(files, op[f]))
    BY <1>5, <1>t, <1>f, Zenon DEF CommitCall, Locked, Mutators, RootTyped, Updates, NoLostUpdate
  <2>2. FilesOf(new[f]) = Edited(files, op[f])
    BY <2>1, <1>t, EditedTyped, TreeFiles, Zenon DEF RootTyped
  <2>3. root' = new[f]
    BY <1>5, Zenon DEF CommitCall, CommitNewRoot, Publish, store
  <2>4. NoLostUpdate'
    BY <1>5, <2>2, <2>3, Zenon DEF CommitCall, NoLostUpdate
  <2>5. \A g \in Mutators : pc'[g] \notin {"blob", "tree", "commit"}
    BY <1>5, <1>t, <1>f, Zenon DEF CommitCall, Return, Goto, RootTyped, Locked
  <2>6. rootFaults' = 0 /\ \A s \in Streams : pc'[s] \notin {"drain", "drainCommit"}
    BY <1>5, <1>t, <1>f, <1>s, Zenon DEF CommitCall, Return, Goto, RootTyped, Updates
  <2> QED BY <2>4, <2>5, <2>6, Zenon DEF Updates
<1>6. ASSUME NEW w \in Writers, BeginCall(w) \/ PutBlob(w) PROVE Updates'
  BY <1>6, <1>t, <1>f, <1>s, <1>w, ZenonT(40) DEF BeginCall, Lock, PutBlob, Goto, RootTyped, store, Updates, NoLostUpdate
<1>7. ASSUME NEW s \in Streams, Open(s) \/ PutManifest(s) \/ Drop(s) PROVE Updates'
  BY <1>7, <1>t, <1>f, <1>s, ZenonT(40) DEF Open, PutManifest, Drop, Goto, RootTyped, store, Updates, NoLostUpdate
<1>8. ASSUME NEW s \in Streams, BeginInstall(s) PROVE Updates'
  BY <1>8, <1>t, <1>f, <1>s, ZenonT(40) DEF BeginInstall, Lock, Goto, RootTyped, store, Updates, NoLostUpdate
<1>9. ASSUME NEW s \in Streams, FlushChunk(s) PROVE Updates'
  <2>1. Len(chunks'[s]) \in 1 .. CommitEvery - 1
    <3>1. PICK b \in Blobs : chunks' = [chunks EXCEPT ![s] = Append(@, b)]
      BY <1>9, Zenon DEF FlushChunk
    <3>2. Len(chunks'[s]) = Len(chunks[s]) + 1 /\ Len(chunks[s]) \in Nat
      BY <1>t, <3>1 DEF RootTyped
    <3>3. Len(chunks[s]) < MaxChunks
      BY <1>9, Zenon DEF FlushChunk
    <3> QED BY <3>2, <3>3, SlotsAssumption, BoundsAssumption
  <2>2. pc'[s] = "open"
    <3>1. Len(chunks'[s]) % CommitEvery # 0
      BY <2>1, Remainder, SlotsAssumption, Zenon
    <3> QED BY <1>9, <1>t, <1>f, <1>s, <3>1, Zenon DEF FlushChunk, Goto, RootTyped
  <2>3. \A g \in Mutators : g # s => pc'[g] = pc[g]
    BY <1>9, <1>t, <1>f, <1>s, Zenon DEF FlushChunk, Goto, RootTyped
  <2> QED BY <1>9, <2>2, <2>3, <1>s, Zenon DEF FlushChunk, Updates, NoLostUpdate
<1>10. ASSUME NEW s \in Streams PROVE ~DrainRead(s) /\ ~DrainNothing(s) /\ ~DrainCommit(s) /\ ~DrainCommitFail(s)
  BY Zenon DEF Updates, DrainRead, DrainNothing, DrainCommit, DrainCommitFail
<1>11. CASE GcMark \/ GcList \/ GcUnlock
  BY <1>11, <1>t, <1>f, <1>s, ZenonT(40) DEF GcMark, GcList, GcUnlock, Goto, RootTyped, store, Updates, NoLostUpdate
<1>12. CASE GcSweep
  BY <1>12, Zenon DEF GcSweep, Publish, local, Updates, NoLostUpdate
<1>13. ~GcSweepFail
  BY <1>n, Zenon DEF GcSweepFail, PublishFail
<1>14. CASE PowerCut
  <2>1. root' = root
    BY <1>14, Zenon DEF PowerCut, RootInv, Newest, Updates
  <2> QED BY <1>14, <2>1, <1>f, <1>s, Zenon DEF PowerCut, Updates, NoLostUpdate
<1> HIDE DEF Mutating
<1> QED BY RootNext, <1>1, <1>2, <1>3, <1>4, <1>5, <1>6, <1>7, <1>8, <1>9, <1>10, <1>11, <1>12, <1>13, <1>14, Zenon
        DEF RootNext, Mutation

\* While no put or commit fails and streams stay below the length at which
\* they drain, the root holds what the calls, one after the other, leave:
\* ROOT_MUTEX keeps two writers from building on the same root, and a power cut
\* takes back no call that returned
THEOREM RootNoLostUpdate ==
    ASSUME MaxRootFaults = 0, MaxChunks < CommitEvery
    PROVE  RootSpec => []NoLostUpdate
<1>1. RootInit => Updates
  BY Zenon DEF RootInit, Updates, NoLostUpdate, FilesOf, Fibers, Mutators
<1>2. RootInv /\ Updates /\ [RootNext]_rootVars => Updates'
  <2>1. RootInv /\ Updates /\ RootNext => Updates'
    BY UpdatesStep, Zenon
  <2>2. ASSUME Updates, UNCHANGED rootVars PROVE Updates'
    BY <2>2, Zenon DEF rootVars, store, local, Updates, NoLostUpdate
  <2> QED BY <2>1, <2>2, Zenon
<1>3. Updates => NoLostUpdate
  BY Zenon DEF Updates
<1> QED BY <1>1, <1>2, <1>3, RootInvariant, PTL DEF RootSpec
=============================================================================
