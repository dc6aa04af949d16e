---------------------------- MODULE ParJobProofs ----------------------------
(***************************************************************************)
(* The fork-join of ParJob is safe for every number of indices and         *)
(* workers, and does what ForEach promises.                                *)
(***************************************************************************)
EXTENDS ParJob, FiniteSetTheorems, TLAPS

\* Helpers that `active` counts
Inside == {h \in Helpers : at[h] \in {"check", "take", "call", "work", "leave"}}

Busy(p) == at[p] \in {"call", "work"}

\* Where the caller and the helpers can be, and what is then known
Roles ==
    /\ at[Caller] \in {"spawn", "take", "call", "work", "close", "wait", "back"}
    /\ \A h \in Helpers : at[h] \in {"idle", "check", "take", "call", "work", "leave", "gone"}
    /\ at[Caller] \in {"wait", "back"} /\ HelperCount # 0 => jobClosed
    /\ at[Caller] \in {"close", "wait", "back"} => jobNext >= N

\* Each index below the counter is finished or with one participant
Handed ==
    /\ \A p \in Team : Busy(p) => idx[p] \in Indices /\ idx[p] < jobNext /\ idx[p] \notin finished
    /\ \A p, q \in Team : Busy(p) /\ Busy(q) /\ p # q => idx[p] # idx[q]
    /\ \A i \in Indices : i < jobNext => i \in finished \/ \E p \in Team : Busy(p) /\ idx[p] = i
    /\ \A i \in finished : i < jobNext

\* The calls made follow from it
Counted ==
    /\ \A i \in finished : calls[i] = 1
    /\ \A p \in Team : at[p] = "work" => calls[idx[p]] = 1
    /\ \A p \in Team : at[p] = "call" => calls[idx[p]] = 0
    /\ \A i \in Indices : i >= jobNext => calls[i] = 0

ParInv == ParTypeOK /\ jobActive = Cardinality(Inside) /\ Roles /\ Handed /\ Counted /\ WorkOutlives

-----------------------------------------------------------------------------
\* The number of helpers is a number, and the sets are what they look like
LEMMA TeamFacts ==
    /\ HelperCount \in Nat /\ Caller \in Team /\ Caller \notin Helpers
    /\ Helpers \subseteq Team /\ \A p \in Team : p = Caller \/ p \in Helpers
    /\ IsFiniteSet(Helpers)
<1>1. HelperCount \in Nat
  BY ParAssumption DEF HelperCount
<1>2. IsFiniteSet(Helpers)
  BY <1>1, FS_Interval DEF Helpers
<1> QED BY <1>1, <1>2 DEF Caller, Team, Helpers

LEMMA InsideFinite == IsFiniteSet(Inside)
BY TeamFacts, FS_Subset, Zenon DEF Inside

LEMMA ParInitInv == ParInit => ParInv
<1> SUFFICES ASSUME ParInit PROVE ParInv
  BY Zenon
<1>1. ParTypeOK
  <2>1. spawned \in 0 .. HelperCount
    BY TeamFacts DEF ParInit
  <2>2. jobClosed \in BOOLEAN
    BY Zenon DEF ParInit
  <2>3. /\ jobNext \in Nat /\ jobActive \in Nat /\ idx \in [Team -> Nat]
        /\ calls \in [Indices -> Nat] /\ finished \subseteq Indices
    BY Zenon DEF ParInit
  <2>4. at \in [Team -> {"idle", "spawn", "take", "call", "work", "close", "wait", "back",
                        "check", "leave", "gone"}]
    BY Zenon DEF ParInit
  <2> QED BY <2>1, <2>2, <2>3, <2>4, Zenon DEF ParTypeOK
<1>2. Inside = {}
  BY TeamFacts, Zenon DEF ParInit, Inside
<1>3. jobActive = Cardinality(Inside)
  BY <1>2, FS_EmptySet, Zenon DEF ParInit
<1>4. \A p \in Team : at[p] \in {"take", "spawn", "idle"} /\ (p # Caller => at[p] = "idle")
  BY Zenon DEF ParInit
<1>5. Roles
  BY <1>4, TeamFacts, Zenon DEF ParInit, Roles
<1>6. Handed /\ Counted
  BY <1>4, ParAssumption DEF ParInit, Handed, Counted, Busy, Indices
<1>7. WorkOutlives
  BY <1>4, TeamFacts, Zenon DEF WorkOutlives
<1> QED BY <1>1, <1>3, <1>5, <1>6, <1>7, Zenon DEF ParInv

-----------------------------------------------------------------------------
\* One participant moves and stays on its side of the job's border: the
\* count of helpers inside is untouched
LEMMA SameInside ==
    ASSUME ParTypeOK, NEW p \in Team, NEW l, Move(p, l),
           p \in Helpers => ( at[p] \in {"check", "take", "call", "work", "leave"}
                              <=> l \in {"check", "take", "call", "work", "leave"} )
    PROVE  Inside' = Inside
<1>1. \A h \in Helpers : h \in Team /\ at'[h] = IF h = p THEN l ELSE at[h]
  BY TeamFacts, Zenon DEF ParTypeOK, Move
<1> QED BY <1>1, Zenon DEF Inside

\* SpawnHelper moves the caller at most
LEMMA SpawnHelperInv == ParInv /\ SpawnHelper => ParInv'
<1> SUFFICES ASSUME ParInv, SpawnHelper PROVE ParInv'
  BY Zenon
<1> USE DEF ParInv
<1>1. CASE spawned < HelperCount /\ spawned' = spawned + 1 /\ UNCHANGED at
  <2>1. ParTypeOK'
    BY <1>1, TeamFacts DEF ParTypeOK, SpawnHelper
  <2>2. Inside' = Inside /\ jobActive' = jobActive
    BY <1>1, Zenon DEF Inside, SpawnHelper
  <2> QED BY <1>1, <2>1, <2>2, Zenon DEF SpawnHelper, Roles, Handed, Counted, Busy, WorkOutlives
<1>2. CASE spawned = HelperCount /\ Move(Caller, "take") /\ UNCHANGED spawned
  <2>1. \A p \in Team : at'[p] = IF p = Caller THEN "take" ELSE at[p]
    BY <1>2, Zenon DEF Move, ParTypeOK
  <2>2. ParTypeOK'
    BY <1>2, Zenon DEF ParTypeOK, SpawnHelper, Move
  <2>3. Inside' = Inside /\ jobActive' = jobActive
    BY <1>2, TeamFacts, SameInside, Zenon DEF SpawnHelper
  <2>4. \A p \in Team : Busy(p)' <=> Busy(p)
    BY <2>1, TeamFacts, Zenon DEF Busy, SpawnHelper
  <2>5. Handed'
    BY <2>4, Zenon DEF Handed, SpawnHelper
  <2>6. Roles' /\ Counted' /\ WorkOutlives'
    BY <2>1, TeamFacts, Zenon DEF SpawnHelper, Roles, Counted, WorkOutlives
  <2> QED BY <2>2, <2>3, <2>5, <2>6, Zenon
<1> QED BY <1>1, <1>2, Zenon DEF SpawnHelper

\* TakeIndex: the counter hands each index to one participant
LEMMA TakeIndexInv == ASSUME NEW p \in Team, ParInv, TakeIndex(p) PROVE ParInv'
<1> USE DEF ParInv
<1>1. CASE jobNext < N /\ idx' = [idx EXCEPT ![p] = jobNext] /\ Move(p, "call")
  <2>1. \A q \in Team : /\ at'[q] = IF q = p THEN "call" ELSE at[q]
                        /\ idx'[q] = IF q = p THEN jobNext ELSE idx[q]
    BY <1>1, Zenon DEF Move, ParTypeOK
  <2>2. ParTypeOK'
    BY <1>1 DEF ParTypeOK, TakeIndex, Move
  <2>3. Inside' = Inside /\ jobActive' = jobActive
    BY <1>1, SameInside, Zenon DEF TakeIndex
  <2>4. jobNext \in Indices /\ jobNext' = jobNext + 1 /\ jobNext \in Nat
    BY <1>1, ParAssumption DEF TakeIndex, ParTypeOK, Indices
  <2>5. \A q \in Team : Busy(q)' <=> q = p \/ Busy(q)
    BY <2>1, Zenon DEF Busy
  <2>6. ~Busy(p) /\ finished' = finished /\ calls' = calls
    BY Zenon DEF Busy, TakeIndex
  <2>7. \A i \in Indices : i \in Nat
    BY ParAssumption DEF Indices
  <2>8. Handed'
    <3>1. \A q \in Team : Busy(q)' => idx'[q] \in Indices /\ idx'[q] < jobNext' /\ idx'[q] \notin finished'
      <4>1. jobNext \notin finished
        BY <2>4 DEF Handed
      <4>2. \A q \in Team : Busy(q) => idx[q] \in Indices /\ idx[q] < jobNext /\ idx[q] \notin finished
        BY Zenon DEF Handed
      <4>3. \A q \in Team : Busy(q) => idx[q] < jobNext'
        <5> SUFFICES ASSUME NEW q \in Team, Busy(q) PROVE idx[q] < jobNext'
          BY Zenon
        <5>1. idx[q] \in Nat /\ idx[q] < jobNext
          BY <4>2, <2>7, Zenon
        <5> QED BY <5>1, <2>4
      <4> QED BY <4>1, <4>2, <4>3, <2>1, <2>4, <2>5, <2>6
    <3>2. \A q, r \in Team : Busy(q)' /\ Busy(r)' /\ q # r => idx'[q] # idx'[r]
      BY <2>1, <2>4, <2>5, <2>6, <2>7 DEF Handed
    <3>3. \A i \in Indices : i < jobNext' => i \in finished' \/ \E q \in Team : Busy(q)' /\ idx'[q] = i
      <4> SUFFICES ASSUME NEW i \in Indices, i < jobNext', i \notin finished'
                   PROVE  \E q \in Team : Busy(q)' /\ idx'[q] = i
        BY Zenon
      <4>1. CASE i = jobNext
        BY <4>1, <2>1, <2>5, Zenon
      <4>2. CASE i # jobNext
        <5>1. i < jobNext
          BY <4>2, <2>4, <2>7
        <5>2. PICK q \in Team : Busy(q) /\ idx[q] = i
          BY <5>1, <2>6, Zenon DEF Handed
        <5> QED BY <5>2, <2>1, <2>5, <2>6, Zenon
      <4> QED BY <4>1, <4>2, Zenon
    <3>4. \A i \in finished' : i < jobNext'
      BY <2>4, <2>6, <2>7 DEF Handed, ParTypeOK
    <3> QED BY <3>1, <3>2, <3>3, <3>4, Zenon DEF Handed
  <2>9. Counted'
    BY <2>1, <2>4, <2>6, <2>7 DEF Counted
  <2>10. Roles' /\ WorkOutlives'
    BY <2>1, <2>4, TeamFacts, ParAssumption DEF Roles, WorkOutlives, TakeIndex
  <2> QED BY <2>2, <2>3, <2>8, <2>9, <2>10, Zenon
<1>2. ASSUME NEW l \in {"leave", "back", "close"}, jobNext >= N, UNCHANGED idx, Move(p, l),
             p # Caller => l = "leave",
             p = Caller => l = IF HelperCount = 0 THEN "back" ELSE "close"
      PROVE  ParInv'
  <2>1. \A q \in Team : at'[q] = IF q = p THEN l ELSE at[q]
    BY <1>2, Zenon DEF Move, ParTypeOK
  <2>2. ParTypeOK'
    BY <1>2 DEF ParTypeOK, TakeIndex, Move
  <2>3. Inside' = Inside /\ jobActive' = jobActive
    BY <1>2, SameInside, TeamFacts, Zenon DEF TakeIndex
  <2>4. jobNext' = jobNext + 1 /\ jobNext \in Nat /\ finished' = finished /\ calls' = calls
    BY Zenon DEF TakeIndex, ParTypeOK
  <2>5. \A q \in Team : Busy(q)' <=> Busy(q)
    BY <2>1, Zenon DEF Busy, TakeIndex
  <2>6. \A i \in Indices : i \in Nat /\ i < jobNext
    BY <1>2, <2>4, ParAssumption DEF Indices
  <2>7. Handed'
    BY <1>2, <2>4, <2>5, <2>6 DEF Handed, ParTypeOK
  <2>8. Counted'
    BY <1>2, <2>1, <2>4, <2>6 DEF Counted
  <2>9. Roles'
    BY <1>2, <2>1, <2>4, TeamFacts, ParAssumption DEF Roles, TakeIndex
  <2>10. WorkOutlives'
    <3>1. CASE p = Caller
      <4>1. CASE HelperCount = 0
        <5>1. \A q \in Team : q = p
          BY <3>1, <4>1 DEF Team, Caller
        <5> QED BY <5>1, <2>1, <1>2, Zenon DEF WorkOutlives
      <4>2. CASE HelperCount # 0
        BY <3>1, <4>2, <2>1, <1>2, Zenon DEF WorkOutlives
      <4> QED BY <4>1, <4>2, Zenon
    <3>2. CASE p # Caller
      BY <3>2, <2>1, <1>2, TeamFacts, Zenon DEF WorkOutlives
    <3> QED BY <3>1, <3>2, Zenon
  <2> QED BY <2>2, <2>3, <2>7, <2>8, <2>9, <2>10, Zenon
<1> QED BY <1>1, <1>2, Zenon DEF TakeIndex

\* CallWork and WorkReturns: the participant that has index i is the only one
LEMMA CallWorkInv == ASSUME NEW p \in Team, ParInv, CallWork(p) PROVE ParInv'
<1> USE DEF ParInv
<1>1. \A q \in Team : at'[q] = IF q = p THEN "work" ELSE at[q]
  BY Zenon DEF CallWork, Move, ParTypeOK
<1>2. ParTypeOK'
  <2>1. idx[p] \in Indices
    BY Zenon DEF Handed, Busy, CallWork
  <2>2. calls' \in [Indices -> Nat]
    BY <2>1 DEF ParTypeOK, CallWork
  <2> QED BY <2>2, Zenon DEF ParTypeOK, CallWork, Move
<1>3. Inside' = Inside /\ jobActive' = jobActive
  BY SameInside, Zenon DEF CallWork
<1>4. UNCHANGED <<jobNext, jobClosed, idx, finished>>
  BY Zenon DEF CallWork
<1>5. Busy(p) /\ \A q \in Team : Busy(q)' <=> Busy(q)
  BY <1>1, Zenon DEF Busy, CallWork
<1>6. \A q \in Team : Busy(q) => idx[q] \in Indices
  BY Zenon DEF Handed
<1>7. \A i \in Indices : calls'[i] = IF i = idx[p] THEN calls[i] + 1 ELSE calls[i]
  BY <1>5, <1>6, Zenon DEF CallWork, ParTypeOK
<1>8. Handed'
  BY <1>4, <1>5, SMTT(40) DEF Handed
<1>9. Roles' /\ WorkOutlives'
  BY <1>1, <1>4, TeamFacts DEF Roles, WorkOutlives, CallWork
<1>10. Counted'
  <2>1. \A i \in finished' : calls'[i] = 1
    BY <1>4, <1>5, <1>7, ZenonT(40) DEF Counted, Handed, ParTypeOK
  <2>2. \A q \in Team : at'[q] = "work" => calls'[idx'[q]] = 1
    <3>1. \A q \in Team : at[q] = "work" => Busy(q) /\ idx[q] # idx[p] /\ calls[idx[q]] = 1
      BY <1>5, Zenon DEF Busy, Handed, Counted, CallWork
    <3>2. calls[idx[p]] = 0
      BY Zenon DEF Counted, CallWork
    <3> QED BY <3>1, <3>2, <1>1, <1>4, <1>5, <1>6, <1>7
  <2>3. \A q \in Team : at'[q] = "call" => calls'[idx'[q]] = 0
    <3>1. \A q \in Team : at'[q] = "call" => at[q] = "call" /\ q # p /\ Busy(q)
      BY <1>1, Zenon DEF Busy
    <3>2. \A q \in Team : at'[q] = "call" => idx[q] # idx[p]
      BY <3>1, <1>5, Zenon DEF Handed
    <3> QED BY <3>1, <3>2, <1>4, <1>6, <1>7, Zenon DEF Counted
  <2>4. \A i \in Indices : i >= jobNext' => calls'[i] = 0
    <3>1. idx[p] < jobNext /\ idx[p] \in Nat /\ jobNext \in Nat
      BY <1>5, Zenon DEF Handed, ParTypeOK
    <3> QED BY <3>1, <1>4, <1>7 DEF Counted
  <2> QED BY <2>1, <2>2, <2>3, <2>4, Zenon DEF Counted
<1> QED BY <1>2, <1>3, <1>8, <1>9, <1>10, Zenon

LEMMA WorkReturnsInv == ASSUME NEW p \in Team, ParInv, WorkReturns(p) PROVE ParInv'
<1> USE DEF ParInv
<1>1. \A q \in Team : at'[q] = IF q = p THEN "take" ELSE at[q]
  BY Zenon DEF WorkReturns, Move, ParTypeOK
<1>2. Busy(p) /\ idx[p] \in Indices /\ idx[p] < jobNext
  BY Zenon DEF WorkReturns, Busy, Handed
<1>3. ParTypeOK'
  BY <1>2, Zenon DEF ParTypeOK, WorkReturns, Move
<1>4. Inside' = Inside /\ jobActive' = jobActive
  BY SameInside, Zenon DEF WorkReturns
<1>5. UNCHANGED <<jobNext, jobClosed, idx, calls>> /\ finished' = finished \union {idx[p]}
  BY Zenon DEF WorkReturns
<1>6. \A q \in Team : Busy(q)' <=> Busy(q) /\ q # p
  BY <1>1, Zenon DEF Busy
<1>7. Handed'
  <2>1. \A q \in Team : Busy(q)' => idx'[q] \in Indices /\ idx'[q] < jobNext' /\ idx'[q] \notin finished'
    BY <1>2, <1>5, <1>6, Zenon DEF Handed
  <2>2. \A q, r \in Team : Busy(q)' /\ Busy(r)' /\ q # r => idx'[q] # idx'[r]
    BY <1>5, <1>6, Zenon DEF Handed
  <2>3. \A i \in Indices : i < jobNext' => i \in finished' \/ \E q \in Team : Busy(q)' /\ idx'[q] = i
    BY <1>5, <1>6, Zenon DEF Handed
  <2>4. \A i \in finished' : i < jobNext'
    BY <1>2, <1>5, Zenon DEF Handed
  <2> QED BY <2>1, <2>2, <2>3, <2>4, Zenon DEF Handed
<1>8. Counted'
  BY <1>1, <1>5, ZenonT(40) DEF Counted, WorkReturns
<1>9. Roles' /\ WorkOutlives'
  BY <1>1, <1>5, TeamFacts DEF Roles, WorkOutlives, WorkReturns
<1> QED BY <1>3, <1>4, <1>7, <1>8, <1>9, Zenon

\* The caller closes the job
LEMMA CloseJobInv == ParInv /\ CloseJob => ParInv'
<1> SUFFICES ASSUME ParInv, CloseJob PROVE ParInv'
  BY Zenon
<1> USE DEF ParInv
<1>1. \A q \in Team : at'[q] = IF q = Caller THEN "wait" ELSE at[q]
  BY Zenon DEF CloseJob, Move, ParTypeOK
<1>2. ParTypeOK'
  BY Zenon DEF ParTypeOK, CloseJob, Move
<1>3. Inside' = Inside /\ jobActive' = jobActive
  BY SameInside, TeamFacts, Zenon DEF CloseJob
<1>4. \A q \in Team : Busy(q)' <=> Busy(q)
  BY <1>1, TeamFacts, Zenon DEF Busy, CloseJob
<1>5. Handed'
  BY <1>4, Zenon DEF Handed, CloseJob
<1>6. Roles' /\ Counted' /\ WorkOutlives'
  BY <1>1, TeamFacts, Zenon DEF Roles, Counted, WorkOutlives, CloseJob
<1> QED BY <1>2, <1>3, <1>5, <1>6, Zenon

\* When `active` is zero no helper is inside, so every call has returned
LEMMA NobodyInside ==
    ASSUME ParInv, Join PROVE (\A p \in Team : ~Busy(p) /\ at[p] # "take") /\ finished = Indices
<1> USE DEF ParInv
<1>1. Inside = {}
  BY InsideFinite, FS_EmptySet, Zenon DEF Join
<1>2. \A p \in Team : ~Busy(p) /\ at[p] # "take"
  BY <1>1, TeamFacts, Zenon DEF Inside, Busy, Join
<1>3. \A i \in Indices : i < jobNext
  BY ParAssumption DEF Roles, Join, Indices, ParTypeOK
<1>4. finished = Indices
  BY <1>2, <1>3, Zenon DEF Handed, ParTypeOK
<1> QED BY <1>2, <1>4, Zenon

LEMMA JoinInv == ParInv /\ Join => ParInv'
<1> SUFFICES ASSUME ParInv, Join PROVE ParInv'
  BY Zenon
<1> USE DEF ParInv
<1>1. \A q \in Team : at'[q] = IF q = Caller THEN "back" ELSE at[q]
  BY Zenon DEF Join, Move, ParTypeOK
<1>2. ParTypeOK'
  BY Zenon DEF ParTypeOK, Join, Move
<1>3. Inside' = Inside /\ jobActive' = jobActive
  BY SameInside, TeamFacts, Zenon DEF Join
<1>4. \A q \in Team : Busy(q)' <=> Busy(q)
  BY <1>1, TeamFacts, Zenon DEF Busy, Join
<1>5. Handed'
  BY <1>4, Zenon DEF Handed, Join
<1>6. Roles' /\ Counted'
  BY <1>1, TeamFacts, Zenon DEF Roles, Counted, Join
<1>7. WorkOutlives'
  BY <1>1, NobodyInside, Zenon DEF WorkOutlives, Busy
<1> QED BY <1>2, <1>3, <1>5, <1>6, <1>7, Zenon

\* A helper comes in: it is one more
LEMMA EnterInv == ASSUME NEW h \in Helpers, ParInv, Enter(h) PROVE ParInv'
<1> USE DEF ParInv
<1>1. h \in Team /\ \A q \in Team : at'[q] = IF q = h THEN "check" ELSE at[q]
  BY TeamFacts, Zenon DEF Enter, Move, ParTypeOK
<1>2. ParTypeOK'
  BY TeamFacts DEF ParTypeOK, Enter, Move
<1>3. Inside' = Inside \union {h} /\ h \notin Inside
  BY <1>1, TeamFacts, Zenon DEF Inside, Enter
<1>4. jobActive' = Cardinality(Inside')
  BY <1>3, InsideFinite, FS_AddElement, Zenon DEF Enter
<1>5. \A q \in Team : Busy(q)' <=> Busy(q)
  BY <1>1, Zenon DEF Busy, Enter
<1>6. Handed'
  BY <1>5, Zenon DEF Handed, Enter
<1>7. Roles' /\ Counted' /\ WorkOutlives'
  BY <1>1, TeamFacts, ZenonT(40) DEF Roles, Counted, WorkOutlives, Enter
<1> QED BY <1>2, <1>4, <1>6, <1>7, Zenon

\* A helper looks at `closed': the caller that has returned has set it
LEMMA CheckClosedInv == ASSUME NEW h \in Helpers, ParInv, CheckClosed(h) PROVE ParInv'
<1> USE DEF ParInv
<1> DEFINE l == IF jobClosed THEN "leave" ELSE "take"
<1>1. h \in Team /\ \A q \in Team : at'[q] = IF q = h THEN l ELSE at[q]
  BY TeamFacts, Zenon DEF CheckClosed, Move, ParTypeOK
<1>2. ParTypeOK'
  BY TeamFacts, Zenon DEF ParTypeOK, CheckClosed, Move
<1>3. Inside' = Inside /\ jobActive' = jobActive
  BY <1>1, SameInside, Zenon DEF CheckClosed
<1>4. \A q \in Team : Busy(q)' <=> Busy(q)
  BY <1>1, Zenon DEF Busy, CheckClosed
<1>5. Handed'
  BY <1>4, Zenon DEF Handed, CheckClosed
<1>6. Roles' /\ Counted'
  BY <1>1, TeamFacts, ZenonT(40) DEF Roles, Counted, CheckClosed
<1>7. HelperCount # 0
  BY TeamFacts, SMTT(40) DEF Helpers
<1>8. WorkOutlives'
  BY <1>1, <1>7, TeamFacts, Zenon DEF Roles, WorkOutlives, CheckClosed
<1> QED BY <1>2, <1>3, <1>5, <1>6, <1>8, Zenon

\* A helper goes: it is one less
LEMMA LeaveJobInv == ASSUME NEW h \in Helpers, ParInv, LeaveJob(h) PROVE ParInv'
<1> USE DEF ParInv
<1>1. h \in Team /\ \A q \in Team : at'[q] = IF q = h THEN "gone" ELSE at[q]
  BY TeamFacts, Zenon DEF LeaveJob, Move, ParTypeOK
<1>2. Inside' = Inside \ {h} /\ h \in Inside
  BY <1>1, TeamFacts, Zenon DEF Inside, LeaveJob
<1>3. jobActive' = Cardinality(Inside') /\ jobActive' \in Nat
  <2>1. IsFiniteSet(Inside \ {h}) /\ Cardinality(Inside \ {h}) = Cardinality(Inside) - 1
    BY <1>2, InsideFinite, FS_RemoveElement, Zenon
  <2>2. Cardinality(Inside \ {h}) \in Nat
    BY <2>1, FS_CardinalityType, Zenon
  <2> QED BY <2>1, <2>2, <1>2, Zenon DEF LeaveJob
<1>4. ParTypeOK'
  BY <1>3, TeamFacts, Zenon DEF ParTypeOK, LeaveJob, Move
<1>5. \A q \in Team : Busy(q)' <=> Busy(q)
  BY <1>1, Zenon DEF Busy, LeaveJob
<1>6. Handed'
  BY <1>5, Zenon DEF Handed, LeaveJob
<1>7. Roles' /\ Counted' /\ WorkOutlives'
  BY <1>1, TeamFacts, ZenonT(40) DEF Roles, Counted, WorkOutlives, LeaveJob
<1> QED BY <1>3, <1>4, <1>6, <1>7, Zenon

-----------------------------------------------------------------------------
LEMMA ParNextInv == ParInv /\ [ParNext]_parVars => ParInv'
<1> SUFFICES ASSUME ParInv, [ParNext]_parVars PROVE ParInv'
  BY Zenon
<1>1. ASSUME NEW p \in Team, Drain(p) PROVE ParInv'
  BY <1>1, TakeIndexInv, CallWorkInv, WorkReturnsInv, Zenon DEF Drain
<1>2. ASSUME NEW h \in Helpers, Enter(h) \/ CheckClosed(h) \/ LeaveJob(h) PROVE ParInv'
  BY <1>2, EnterInv, CheckClosedInv, LeaveJobInv, SMTT(40)
<1>3. CASE UNCHANGED parVars
  BY <1>3, ZenonT(40) DEF parVars, ParInv, ParTypeOK, Inside, Roles, Handed, Busy, Counted, WorkOutlives
<1> QED BY <1>1, <1>2, <1>3, SpawnHelperInv, CloseJobInv, JoinInv, Zenon DEF ParNext

\* ParInv holds throughout
THEOREM ParInvariant == ParSpec => []ParInv
<1> QED BY ParInitInv, ParNextInv, PTL DEF ParSpec

\* The closure of for_each outlives every call made of it, for any number of
\* indices and workers: what the comment at the erased lifetime argues
LEMMA ParClosureOutlives == ParSpec => []WorkOutlives
<1>1. ParInv => WorkOutlives
  BY Zenon DEF ParInv
<1> QED BY <1>1, ParInvariant, PTL

\* No index is handed to the closure twice
LEMMA ParCalledOnce == ParSpec => []CalledOnce
<1>1. ParInv => CalledOnce
  <2> SUFFICES ASSUME ParInv, NEW i \in Indices PROVE calls[i] <= 1
    BY Zenon DEF CalledOnce
  <2>1. CASE i < jobNext
    <3>1. i \in finished \/ \E p \in Team : at[p] \in {"call", "work"} /\ idx[p] = i
      BY <2>1, Zenon DEF ParInv, Handed, Busy
    <3>2. calls[i] = 1 \/ calls[i] = 0
      BY <3>1, Zenon DEF ParInv, Counted
    <3> QED BY <3>2
  <2>2. CASE i >= jobNext
    BY <2>2 DEF ParInv, Counted
  <2> QED BY <2>1, <2>2, ParAssumption DEF ParInv, ParTypeOK, Indices
<1> QED BY <1>1, ParInvariant, PTL

\* The closure is safe to share, for any number of indices and workers: it is
\* never called after for_each has returned and never twice with one index
THEOREM ParClosureSafe == ParSpec => []ClosureSafe
<1>1. WorkOutlives /\ CalledOnce => ClosureSafe
  BY Zenon DEF ClosureSafe
<1> QED BY <1>1, ParClosureOutlives, ParCalledOnce, PTL

\* The fork-join implements ForEach: every step is one index finished, the
\* return with all of them finished, or nothing a caller sees
THEOREM ParKeepsPromise == ParSpec => KeepsPromise
<1>1. ParInit => Promise!FeInit
  BY TeamFacts, Zenon DEF ParInit, Promise!FeInit
<1>2. ParInv /\ [ParNext]_parVars => [Promise!FeNext]_<<finished, at[Caller] = "back">>
  <2> SUFFICES ASSUME ParInv, [ParNext]_parVars
               PROVE  Promise!FeNext \/ (UNCHANGED finished /\ (at[Caller] = "back")' = (at[Caller] = "back"))
    BY Zenon
  <2>1. ASSUME NEW p \in Team, WorkReturns(p) PROVE Promise!FeNext
    <3>1. idx[p] \in Indices /\ idx[p] \notin finished /\ finished' = finished \union {idx[p]}
      BY <2>1, Zenon DEF ParInv, Handed, Busy, WorkReturns
    <3>2. at[Caller] # "back" /\ at'[Caller] # "back"
      BY <2>1, TeamFacts, Zenon DEF ParInv, ParTypeOK, WorkOutlives, WorkReturns, Move
    <3> QED BY <3>1, <3>2, Zenon DEF Promise!FeNext, Promise!Run, Indices
  <2>2. CASE Join
    <3>1. finished = Indices /\ finished' = finished
      BY <2>2, NobodyInside, Zenon DEF Join
    <3>2. at[Caller] # "back" /\ at'[Caller] = "back"
      BY <2>2, TeamFacts, Zenon DEF ParInv, ParTypeOK, Join, Move
    <3> QED BY <3>1, <3>2, Zenon DEF Promise!FeNext, Promise!Return, Indices
  <2>3. ASSUME NEW p \in Team, TakeIndex(p)
        PROVE  Promise!FeNext \/ (UNCHANGED finished /\ (at'[Caller] = "back") = (at[Caller] = "back"))
    <3>1. finished' = finished
      BY <2>3, Zenon DEF TakeIndex
    <3>2. CASE p = Caller /\ HelperCount = 0 /\ jobNext >= N
      <4>1. \A q \in Team : q = Caller
        BY <3>2 DEF Team, Caller
      <4>2. \A i \in Indices : i < jobNext
        BY <3>2, ParAssumption DEF Indices, ParInv, ParTypeOK
      <4>3. finished = Indices
        BY <4>1, <4>2, <3>2, <2>3, SMTT(40) DEF ParInv, ParTypeOK, Handed, Busy, TakeIndex
      <4>4. at[Caller] # "back" /\ at'[Caller] = "back"
        BY <2>3, <3>2, TeamFacts, ParAssumption DEF ParInv, ParTypeOK, TakeIndex, Move
      <4> QED BY <3>1, <4>3, <4>4, Zenon DEF Promise!FeNext, Promise!Return, Indices
    <3>3. CASE ~(p = Caller /\ HelperCount = 0 /\ jobNext >= N)
      <4>1. at'[Caller] = "back" <=> at[Caller] = "back"
        BY <2>3, <3>3, TeamFacts, ParAssumption, Zenon DEF ParInv, ParTypeOK, TakeIndex, Move
      <4> QED BY <3>1, <4>1, Zenon
    <3> QED BY <3>2, <3>3, Zenon
  <2>4. CASE SpawnHelper \/ CloseJob \/ (\E p \in Team : CallWork(p))
             \/ (\E h \in Helpers : Enter(h) \/ CheckClosed(h) \/ LeaveJob(h))
    <3>1. finished' = finished
      BY <2>4, Zenon DEF SpawnHelper, CloseJob, CallWork, Enter, CheckClosed, LeaveJob
    <3>2. at'[Caller] = "back" <=> at[Caller] = "back"
      BY <2>4, TeamFacts, Zenon DEF ParInv, ParTypeOK, SpawnHelper, CloseJob, CallWork, Enter, CheckClosed, LeaveJob, Move
    <3> QED BY <3>1, <3>2, Zenon
  <2>5. CASE UNCHANGED parVars
    BY <2>5, Zenon DEF parVars
  <2> QED BY <2>1, <2>2, <2>3, <2>4, <2>5, Zenon DEF ParNext, Drain
<1> QED BY <1>1, <1>2, ParInvariant, PTL DEF ParSpec, KeepsPromise, Promise!FeSpec
=============================================================================
