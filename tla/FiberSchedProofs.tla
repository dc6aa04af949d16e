-------------------------- MODULE FiberSchedProofs --------------------------
(***************************************************************************)
(* FIBER_COUNT, and what the scheduler keeps whatever the cores do: its    *)
(* theorems, from the steps of FiberSchedSteps.                            *)
(***************************************************************************)
EXTENDS FiberSchedSteps, FiniteSetTheorems

\* CountsResidents by its summands
Running(c) == IF current[c] # None THEN 1 ELSE 0

Carried(c) == {k \in Cores : \/ pc[k] = "move" /\ scan[k] = c
                             \/ pc[k] = "push" /\ k = c}

Counts == \A c \in Cores : count[c] = Len(queue[c]) + Running(c) + Cardinality(Carried(c))

FullInv == WakeInv /\ Counts

-----------------------------------------------------------------------------
(* The counters.                                                           *)

LEMMA CountsMeans == CountsResidents <=> Counts
<1>1. ASSUME NEW c \in Cores PROVE Cardinality({c} \cap {d \in Cores : current[d] # None}) = Running(c)
  <2>1. CASE current[c] # None
    <3>1. {c} \cap {d \in Cores : current[d] # None} = {c}
      BY <2>1, Zenon
    <3>2. Cardinality({c}) = 1
      BY FS_Singleton, Zenon
    <3>3. Running(c) = 1
      BY <2>1, Zenon DEF Running
    <3> QED BY <3>1, <3>2, <3>3, Zenon
  <2>2. CASE current[c] = None
    <3>1. {c} \cap {d \in Cores : current[d] # None} = {}
      BY <2>2, Zenon
    <3>2. Cardinality({}) = 0
      BY FS_EmptySet, Zenon
    <3>3. Running(c) = 0
      BY <2>2, Zenon DEF Running
    <3> QED BY <3>1, <3>2, <3>3, Zenon
  <2> QED BY <2>1, <2>2, Zenon
<1>2. ASSUME NEW c \in Cores
      PROVE  {k \in Cores : \/ pc[k] = "move" /\ scan[k] = c
                            \/ pc[k] = "push" /\ k = c} = Carried(c)
  BY Zenon DEF Carried
<1>3. ASSUME NEW c \in Cores
      PROVE  Len(queue[c]) + Cardinality({c} \cap {d \in Cores : current[d] # None})
               + Cardinality({k \in Cores : \/ pc[k] = "move" /\ scan[k] = c
                                            \/ pc[k] = "push" /\ k = c})
             = Len(queue[c]) + Running(c) + Cardinality(Carried(c))
  BY <1>1, <1>2, Zenon
<1> QED BY <1>3, Zenon DEF CountsResidents, Counts

LEMMA CarriedFinite ==
    ASSUME SchedInv, NEW d \in Cores
    PROVE  /\ IsFiniteSet(Carried(d)) /\ Cardinality(Carried(d)) \in Nat
           /\ Len(queue[d]) \in Nat /\ Running(d) \in Nat
<1>1. IsFiniteSet(Cores)
  BY CoresAssumption, FS_Interval DEF Cores
<1>2. Carried(d) \subseteq Cores
  BY Zenon DEF Carried
<1>3. IsFiniteSet(Carried(d)) /\ Cardinality(Carried(d)) \in Nat
  BY <1>1, <1>2, FS_Subset, FS_CardinalityType, ZenonT(40)
<1>4. Len(queue[d]) \in Nat /\ Running(d) \in Nat
  BY DEF SchedInv, Typed, TypeOK, Running
<1> QED BY <1>3, <1>4, Zenon

LEMMA CountsStay ==
    ASSUME Counts, UNCHANGED <<count, queue, current>>,
           \A k \in Cores : /\ pc'[k] = "move" <=> pc[k] = "move"
                            /\ pc'[k] = "push" <=> pc[k] = "push"
                            /\ pc[k] = "move" => scan'[k] = scan[k]
    PROVE  Counts'
<1>1. ASSUME NEW d \in Cores PROVE Carried(d)' = Carried(d) /\ Running(d)' = Running(d)
  BY Zenon DEF Carried, Running
<1> QED BY <1>1, Zenon DEF Counts

\* A core that neither carries a fiber nor begins to leaves Carried alone.
LEMMA CarriedStay ==
    ASSUME NEW c \in Cores, pc[c] \notin {"move", "push"}, pc'[c] \notin {"move", "push"},
           \A k \in Cores \ {c} : pc'[k] = pc[k] /\ scan'[k] = scan[k], NEW d \in Cores
    PROVE  Carried(d)' = Carried(d)
  BY Zenon DEF Carried

LEMMA AdmitCounts ==
    ASSUME SchedInv, Counts, NEW c \in Cores, NEW f \in Fibers, f \notin live, NEW mv, Admit(c, f, mv),
           UNCHANGED <<current, scan>>, \A k \in Cores : pc'[k] # pc[k] => {pc[k], pc'[k]} \cap {"move", "push"} = {}
    PROVE  Counts'
<1>1. /\ count' = [count EXCEPT ![c] = count[c] + 1] /\ queue' = [queue EXCEPT ![c] = Append(queue[c], f)]
      /\ count \in [Cores -> Nat]
  BY Zenon DEF Admit, SchedInv, Typed, TypeOK
<1>2. f \notin Range(queue[c])
  BY Nowhere, Zenon
<1>3. \A d \in Cores : Len(queue'[d]) = IF d = c THEN Len(queue[d]) + 1 ELSE Len(queue[d])
  BY <1>1, <1>2, Joins, ZenonT(40)
<1>4. \A d \in Cores : count'[d] = IF d = c THEN count[d] + 1 ELSE count[d]
  BY <1>1, ZenonT(40)
<1>5. ASSUME NEW d \in Cores PROVE count'[d] = Len(queue'[d]) + Running(d)' + Cardinality(Carried(d)')
  <2>1. Carried(d)' = Carried(d) /\ Running(d)' = Running(d)
    BY Zenon DEF Carried, Running
  <2>2. count[d] = Len(queue[d]) + Running(d) + Cardinality(Carried(d))
    BY Zenon DEF Counts
  <2>3. Cardinality(Carried(d)) \in Nat /\ Len(queue[d]) \in Nat /\ Running(d) \in Nat
    BY CarriedFinite, Zenon
  <2>4. Len(queue'[d]) = (IF d = c THEN Len(queue[d]) + 1 ELSE Len(queue[d])) /\ count'[d] = IF d = c THEN count[d] + 1 ELSE count[d]
    BY <1>3, <1>4, ZenonT(40)
  <2> QED BY ONLY <2>1, <2>2, <2>3, <2>4
<1> QED BY <1>5, Zenon DEF Counts

LEMMA PickCounts == ASSUME SchedInv, Counts, NEW c \in Cores, Pick(c) PROVE Counts'
<1> USE SetsAssumption
<1>1. PICK i \in DOMAIN queue[c] :
        /\ current' = [current EXCEPT ![c] = queue[c][i]]
        /\ queue' = [queue EXCEPT ![c] = Without(queue[c], i)]
  BY Zenon DEF Pick
<1>2. count' = count /\ scan' = scan /\ pc[c] = "run" /\ pc' = [pc EXCEPT ![c] = "fiber"]
  BY Zenon DEF Pick, At, Goto
<1>3. /\ pc \in [Cores -> Places] /\ current \in [Cores -> Fibers \cup {None}] /\ current[c] = None
  BY <1>2, Zenon DEF SchedInv, Typed, TypeOK, CoresInStep
<1>4. queue[c][i] \in Fibers /\ \A d \in Cores : Len(queue'[d]) = IF d = c THEN Len(queue[d]) - 1 ELSE Len(queue[d])
  BY <1>1, Leaves, ZenonT(40)
<1>5. ASSUME NEW d \in Cores PROVE count'[d] = Len(queue'[d]) + Running(d)' + Cardinality(Carried(d)')
  <2>1. Running(d)' = IF d = c THEN Running(d) + 1 ELSE Running(d)
    BY <1>1, <1>3, <1>4, SMTT(40) DEF Running
  <2>2. Carried(d)' = Carried(d)
    BY <1>2, <1>3, CarriedStay, ZenonT(40)
  <2>3. count[d] = Len(queue[d]) + Running(d) + Cardinality(Carried(d))
    BY Zenon DEF Counts
  <2> QED BY <1>2, <1>4, <2>1, <2>2, <2>3, CarriedFinite, SMTT(40)
<1> QED BY <1>5, ZenonT(40) DEF Counts

LEMMA RequeueCounts == ASSUME SchedInv, Counts, NEW c \in Cores, Requeue(c) PROVE Counts'
<1> USE SetsAssumption
<1>1. /\ queue' = [queue EXCEPT ![c] = Append(queue[c], current[c])] /\ current' = [current EXCEPT ![c] = None]
      /\ count' = count /\ scan' = scan /\ pc[c] = "requeue" /\ pc' = [pc EXCEPT ![c] = "between"]
  BY ZenonT(40) DEF Requeue, At, Goto
<1>2. /\ pc \in [Cores -> Places] /\ current \in [Cores -> Fibers \cup {None}]
      /\ current[c] \in Fibers /\ current[c] \notin Range(queue[c])
  BY <1>1 DEF SchedInv, Typed, TypeOK, CoresInStep, Once
<1>3. \A d \in Cores : Len(queue'[d]) = IF d = c THEN Len(queue[d]) + 1 ELSE Len(queue[d])
  BY <1>1, <1>2, Joins, ZenonT(40)
<1>4. ASSUME NEW d \in Cores PROVE count'[d] = Len(queue'[d]) + Running(d)' + Cardinality(Carried(d)')
  <2>1. Running(d)' = IF d = c THEN Running(d) - 1 ELSE Running(d)
    BY <1>1, <1>2 DEF Running
  <2>2. Carried(d)' = Carried(d)
    BY <1>1, <1>2, CarriedStay, ZenonT(40)
  <2>3. count[d] = Len(queue[d]) + Running(d) + Cardinality(Carried(d))
    BY Zenon DEF Counts
  <2> QED BY <1>1, <1>3, <2>1, <2>2, <2>3, CarriedFinite, SMTT(40)
<1> QED BY <1>4, ZenonT(40) DEF Counts

LEMMA FinishCounts == ASSUME SchedInv, Counts, NEW c \in Cores, Finish(c) PROVE Counts' /\ count' \in [Cores -> Nat]
<1> USE SetsAssumption
<1>1. /\ current' = [current EXCEPT ![c] = None] /\ count' = [count EXCEPT ![c] = count[c] - 1]
      /\ queue' = queue /\ scan' = scan /\ pc[c] = "fiber" /\ pc' = [pc EXCEPT ![c] = "between"]
  BY Zenon DEF Finish, At, Goto
<1>2. /\ pc \in [Cores -> Places] /\ current \in [Cores -> Fibers \cup {None}]
      /\ current[c] # None /\ count \in [Cores -> Nat]
  BY <1>1, ZenonT(40) DEF SchedInv, Typed, TypeOK, CoresInStep
<1>3. count[c] >= 1
  <2>1. Running(c) = 1
    BY <1>2, ZenonT(40) DEF Running
  <2>2. count[c] = Len(queue[c]) + Running(c) + Cardinality(Carried(c))
    BY ZenonT(40) DEF Counts
  <2> QED BY <2>1, <2>2, CarriedFinite, SMTT(40)
<1>4. count' \in [Cores -> Nat]
  BY <1>1, <1>2, <1>3, SMTT(40)
<1>5. ASSUME NEW d \in Cores PROVE count'[d] = Len(queue'[d]) + Running(d)' + Cardinality(Carried(d)')
  <2>1. Running(d)' = IF d = c THEN Running(d) - 1 ELSE Running(d)
    BY <1>1, <1>2 DEF Running
  <2>2. Carried(d)' = Carried(d)
    BY <1>1, <1>2, CarriedStay, ZenonT(40)
  <2>3. count[d] = Len(queue[d]) + Running(d) + Cardinality(Carried(d))
    BY Zenon DEF Counts
  <2>4. count'[d] = IF d = c THEN count[d] - 1 ELSE count[d]
    BY <1>1, <1>2, ZenonT(40)
  <2>5. Cardinality(Carried(d)) \in Nat /\ Len(queue[d]) \in Nat /\ Running(d) \in Nat
    BY CarriedFinite, Zenon
  <2>6. queue'[d] = queue[d]
    BY <1>1, ZenonT(40)
  <2> QED BY ONLY <2>1, <2>2, <2>3, <2>4, <2>5, <2>6
<1> QED BY <1>4, <1>5, ZenonT(40) DEF Counts

LEMMA StealTakeCounts == ASSUME SchedInv, Counts, NEW c \in Cores, StealTake(c) PROVE Counts'
<1> USE SetsAssumption
<1>1. PICK v \in Cores \ {c} : v = scan[c] /\ pc[c] = "lock"
  BY Zenon DEF StealTake, At, SchedInv, CoresInStep
<1>2. UNCHANGED <<count, current>> /\ pc \in [Cores -> Places]
  BY Zenon DEF StealTake, SchedInv, Typed
<1>3. CASE \E i \in DOMAIN queue[v] :
             /\ queue' = [queue EXCEPT ![v] = Without(queue[v], i)]
             /\ pc' = [pc EXCEPT ![c] = "move"] /\ scan' = scan
  <2>1. \A d \in Cores : Len(queue'[d]) = IF d = v THEN Len(queue[d]) - 1 ELSE Len(queue[d])
    BY <1>3, Leaves, ZenonT(40)
  <2>2. pc'[c] = "move" /\ scan' = scan /\ \A k \in Cores \ {c} : pc'[k] = pc[k]
    BY <1>2, <1>3, ZenonT(40)
  <2>3. ASSUME NEW d \in Cores PROVE count'[d] = Len(queue'[d]) + Running(d)' + Cardinality(Carried(d)')
    <3>1. Running(d)' = Running(d)
      BY <1>2, Zenon DEF Running
    <3>2. Carried(d)' = IF d = v THEN Carried(d) \cup {c} ELSE Carried(d)
      BY <1>1, <2>2, ZenonT(40) DEF Carried
    <3>3. c \notin Carried(d)
      BY <1>1, Zenon DEF Carried
    <3>4. Cardinality(Carried(d)') = IF d = v THEN Cardinality(Carried(d)) + 1 ELSE Cardinality(Carried(d))
      BY <3>2, <3>3, CarriedFinite, FS_AddElement, ZenonT(40)
    <3>5. count[d] = Len(queue[d]) + Running(d) + Cardinality(Carried(d))
      BY Zenon DEF Counts
    <3>6. Cardinality(Carried(d)) \in Nat /\ Len(queue[d]) \in Nat /\ Running(d) \in Nat
      BY CarriedFinite, Zenon
    <3>7. Len(queue'[d]) = (IF d = v THEN Len(queue[d]) - 1 ELSE Len(queue[d])) /\ count'[d] = count[d]
      BY <1>2, <2>1, ZenonT(40)
    <3> QED BY ONLY <3>1, <3>4, <3>5, <3>6, <3>7
  <2> QED BY <2>3, Zenon DEF Counts
<1>4. CASE scan' = [scan EXCEPT ![c] = scan[c] + 1] /\ pc' = [pc EXCEPT ![c] = "steal"] /\ UNCHANGED <<moving, queue>>
  <2>1. \A k \in Cores : /\ pc'[k] = "move" <=> pc[k] = "move"
                         /\ pc'[k] = "push" <=> pc[k] = "push"
                         /\ pc[k] = "move" => scan'[k] = scan[k]
    BY <1>1, <1>2, <1>4, ZenonT(40) DEF SchedInv, Typed, TypeOK
  <2> QED BY <1>2, <1>4, <2>1, CountsStay, ZenonT(40)
<1> QED BY <1>1, <1>3, <1>4, ZenonT(40) DEF StealTake, Goto

LEMMA StealMoveCounts ==
    ASSUME SchedInv, Counts, NEW c \in Cores, StealMove(c)
    PROVE  Counts' /\ count' \in [Cores -> Nat]
<1> USE SetsAssumption
<1>1. PICK v \in Cores \ {c} : v = scan[c] /\ pc[c] = "move"
  BY Zenon DEF StealMove, At, SchedInv, CoresInStep
<1>2. UNCHANGED <<queue, current, scan>> /\ pc' = [pc EXCEPT ![c] = "push"]
  BY Zenon DEF StealMove, Goto
<1>3. pc \in [Cores -> Places] /\ count \in [Cores -> Nat]
  BY Zenon DEF SchedInv, Typed, TypeOK
<1>4. count' = [count EXCEPT ![v] = count[v] - 1, ![c] = count[c] + 1]
  BY <1>1, <1>3, ZenonT(40) DEF StealMove
<1>5. pc'[c] = "push" /\ \A k \in Cores \ {c} : pc'[k] = pc[k]
  BY <1>2, <1>3, ZenonT(40)
<1>6. \A d \in Cores : count'[d] = IF d = v THEN count[d] - 1 ELSE IF d = c THEN count[d] + 1 ELSE count[d]
  BY <1>1, <1>3, <1>4, ZenonT(40)
<1>7. ASSUME NEW d \in Cores PROVE /\ count'[d] = Len(queue'[d]) + Running(d)' + Cardinality(Carried(d)')
                                   /\ count'[d] \in Nat
  <2>1. Running(d)' = Running(d) /\ queue'[d] = queue[d]
    BY <1>2, Zenon DEF Running
  <2>2. /\ d = v => c \in Carried(d) /\ Carried(d)' = Carried(d) \ {c}
        /\ d = c => c \notin Carried(d) /\ Carried(d)' = Carried(d) \cup {c}
        /\ d \notin {v, c} => Carried(d)' = Carried(d)
    BY <1>1, <1>2, <1>5, ZenonT(40) DEF Carried
  <2>3. Cardinality(Carried(d)') = IF d = v THEN Cardinality(Carried(d)) - 1
                                   ELSE IF d = c THEN Cardinality(Carried(d)) + 1 ELSE Cardinality(Carried(d))
    <3>1. CASE d = v
      BY <1>1, <2>2, <3>1, CarriedFinite, FS_RemoveElement, SMTT(40)
    <3>2. CASE d = c
      BY <1>1, <2>2, <3>2, CarriedFinite, FS_AddElement, ZenonT(40)
    <3>3. CASE d \notin {v, c}
      BY <2>2, <3>3, ZenonT(40)
    <3> QED BY <3>1, <3>2, <3>3, ZenonT(40)
  <2>4. count[d] = Len(queue[d]) + Running(d) + Cardinality(Carried(d))
    BY Zenon DEF Counts
  <2>5. Cardinality(Carried(d)) \in Nat /\ Len(queue[d]) \in Nat /\ Running(d) \in Nat
    BY CarriedFinite, Zenon
  <2>6. d = v => Cardinality(Carried(d)) # 0
    BY <2>2, CarriedFinite, FS_EmptySet, ZenonT(40)
  <2> QED BY ONLY <1>6, <2>1, <2>3, <2>4, <2>5, <2>6
<1>8. DOMAIN count' = Cores /\ count' = [d \in Cores |-> count'[d]]
  BY <1>3, <1>4, ZenonT(40)
<1> QED BY <1>7, <1>8, Zenon DEF Counts

LEMMA StealPushCounts == ASSUME SchedInv, Counts, NEW c \in Cores, StealPush(c) PROVE Counts'
<1> USE SetsAssumption
<1>1. /\ queue' = [queue EXCEPT ![c] = Append(queue[c], moving[c])] /\ UNCHANGED <<count, current>>
      /\ pc[c] = "push" /\ pc' = [pc EXCEPT ![c] = "top"] /\ scan' = [scan EXCEPT ![c] = 1]
  BY ZenonT(40) DEF StealPush, At, Goto
<1>2. moving[c] \in Fibers /\ moving[c] \notin Range(queue[c])
  BY <1>1 DEF SchedInv, Typed, TypeOK, CoresInStep, Once
<1>3. \A d \in Cores : Len(queue'[d]) = IF d = c THEN Len(queue[d]) + 1 ELSE Len(queue[d])
  BY <1>1, <1>2, Joins, ZenonT(40)
<1>4. pc'[c] = "top" /\ \A k \in Cores \ {c} : pc'[k] = pc[k] /\ scan'[k] = scan[k]
  BY <1>1, ZenonT(40) DEF SchedInv, Typed, TypeOK
<1>5. ASSUME NEW d \in Cores PROVE count'[d] = Len(queue'[d]) + Running(d)' + Cardinality(Carried(d)')
  <2>1. Running(d)' = Running(d) /\ count'[d] = count[d]
    BY <1>1, ZenonT(40) DEF Running
  <2>2. /\ d = c => c \in Carried(d) /\ Carried(d)' = Carried(d) \ {c}
        /\ d # c => Carried(d)' = Carried(d)
    BY <1>1, <1>4, ZenonT(40) DEF Carried
  <2>3. Cardinality(Carried(d)') = IF d = c THEN Cardinality(Carried(d)) - 1 ELSE Cardinality(Carried(d))
    BY <2>2, CarriedFinite, FS_RemoveElement, ZenonT(40)
  <2>4. count[d] = Len(queue[d]) + Running(d) + Cardinality(Carried(d))
    BY Zenon DEF Counts
  <2>5. Cardinality(Carried(d)) \in Nat /\ Len(queue[d]) \in Nat /\ Running(d) \in Nat
    BY CarriedFinite, Zenon
  <2>6. Len(queue'[d]) = IF d = c THEN Len(queue[d]) + 1 ELSE Len(queue[d])
    BY <1>3, ZenonT(40)
  <2>7. CASE d = c
    <3>1. Len(queue'[d]) = Len(queue[d]) + 1 /\ Cardinality(Carried(d)') = Cardinality(Carried(d)) - 1
      BY <2>3, <2>6, <2>7, ZenonT(40)
    <3>2. \A l, r, k \in Nat : l + r + k = (l + 1) + r + (k - 1)
      OBVIOUS
    <3>3. Len(queue[d]) + Running(d) + Cardinality(Carried(d))
            = (Len(queue[d]) + 1) + Running(d) + (Cardinality(Carried(d)) - 1)
      BY ONLY <2>5, <3>2, ZenonT(40)
    <3> QED BY ONLY <2>1, <2>4, <3>1, <3>3, ZenonT(40)
  <2>8. CASE d # c
    BY ONLY <2>1, <2>3, <2>4, <2>5, <2>6, <2>8, ZenonT(40)
  <2> QED BY <2>7, <2>8, ZenonT(40)
<1> QED BY <1>5, ZenonT(40) DEF Counts

\* A step that moves no fiber leaves the counters and what they count alone.
LEMMA QuietCounts ==
    ASSUME SchedInv, Counts, NEW c \in Cores,
           \/ TopNative(c) \/ TopNothing(c) \/ NativeEnd(c) \/ Pump(c) \/ Park(c) \/ Yield(c) \/ RunNothing(c)
           \/ Scan(c) \/ GoIdle(c) \/ Wake(c) \/ WaitReturns(c) \/ Pin(c) \/ Look(c) \/ LookInbox(c)
    PROVE  Counts' /\ count' = count
<1> USE SetsAssumption
<1>1. Typed /\ TypeOK
  BY Zenon DEF SchedInv, Typed
<1>2. UNCHANGED <<queue, current, count>>
  BY ZenonT(40) DEF TopNative, TopNothing, NativeEnd, Pump, Park, Yield, RunNothing, Scan, GoIdle, Wake, WaitReturns, Pin, Look,
         LookInbox, coreVars
<1>3. pc[c] \notin {"move", "push"} /\ pc'[c] \notin {"move", "push"} /\ \A d \in Cores \ {c} : pc'[d] = pc[d]
  BY <1>1, SMTT(40) DEF TopNative, TopNothing, NativeEnd, Pump, Park, Yield, RunNothing, Scan, GoIdle, Wake, WaitReturns, Pin, Look,
              LookInbox, At, Goto, Leave, Typed
<1>4. \A d \in Cores \ {c} : scan'[d] = scan[d]
  BY <1>1, ZenonT(40) DEF TopNative, TopNothing, NativeEnd, Pump, Park, Yield, RunNothing, Scan, GoIdle, Wake, WaitReturns, Pin, Look,
              LookInbox, TypeOK
<1>5. \A k \in Cores : /\ pc'[k] = "move" <=> pc[k] = "move"
                       /\ pc'[k] = "push" <=> pc[k] = "push"
                       /\ pc[k] = "move" => scan'[k] = scan[k]
  BY <1>3, <1>4, ZenonT(40)
<1> QED BY <1>2, <1>5, CountsStay, ZenonT(40)

\* accept_intent counts the fiber it admits.
LEMMA AcceptCounts ==
    ASSUME SchedInv, Counts, NEW c \in Cores, TakesHead(c), Head(inbox) \in Fibers, AdmitHead(c),
           \/ pc[c] = "top" /\ pc' = pc
           \/ pc[c] = "between" /\ pc' = [pc EXCEPT ![c] = "run"]
    PROVE  Counts' /\ count' \in [Cores -> Nat]
<1>1. Typed /\ TypeOK /\ InboxNew
  BY Zenon DEF SchedInv, Typed
<1>2. UNCHANGED <<current, scan>> /\ inbox # <<>>
  BY Zenon DEF AdmitHead, TakesHead
<1>3. \A k \in Cores : pc'[k] # pc[k] => {pc[k], pc'[k]} \cap {"move", "push"} = {}
  BY <1>1, Zenon DEF Typed
<1>4. Head(inbox) \notin live
  BY <1>1, <1>2, TailFacts, ZenonT(40) DEF InboxNew, TypeOK
<1>5. CASE Admit(c, Head(inbox), TRUE)
  <2>1. count' = [count EXCEPT ![c] = count[c] + 1]
    BY <1>5, ZenonT(40) DEF Admit
  <2>2. count' \in [Cores -> Nat]
    BY <1>1, <2>1, SMTT(40) DEF TypeOK
  <2>3. Counts'
    BY <1>2, <1>3, <1>4, <1>5, AdmitCounts, ZenonT(40)
  <2> QED BY <2>2, <2>3, ZenonT(40)
<1>6. CASE UNCHANGED <<fiberVars, count, queue>>
  BY <1>1, <1>2, <1>3, <1>6, CountsStay, ZenonT(40) DEF TypeOK
<1> QED BY <1>5, <1>6, ZenonT(40) DEF AdmitHead

\* Every step keeps FIBER_COUNT equal to what it counts, and never below zero.
LEMMA CountsNext ==
    ASSUME SchedInv, Counts, [Next]_vars
    PROVE  Counts' /\ count' \in [Cores -> Nat]
<1>1. count \in [Cores -> Nat]
  BY Zenon DEF SchedInv, Typed, TypeOK
<1>2. ASSUME NEW c \in Cores,
             Pick(c) \/ Requeue(c) \/ Finish(c) \/ StealTake(c) \/ StealMove(c) \/ StealPush(c)
      PROVE  Counts' /\ count' \in [Cores -> Nat]
  <2>1. Pick(c) \/ Requeue(c) \/ StealTake(c) \/ StealPush(c) => count' = count
    BY Zenon DEF Pick, Requeue, StealTake, StealPush
  <2> QED BY <1>1, <1>2, <2>1, PickCounts, RequeueCounts, FinishCounts, StealTakeCounts, StealMoveCounts, StealPushCounts, ZenonT(40)
<1>3. ASSUME NEW c \in Cores, Loop(c) PROVE Counts' /\ count' \in [Cores -> Nat]
  <2>1. CASE TopFiber(c)
    BY <2>1, AcceptCounts, ZenonT(40) DEF TopFiber, At
  <2>2. CASE Between(c)
    <3>1. CASE TakesHead(c) /\ Head(inbox) \in Fibers
      BY <2>2, <3>1, AcceptCounts, ZenonT(40) DEF Between, At, Goto
    <3>2. CASE ~(TakesHead(c) /\ Head(inbox) \in Fibers)
      <4>1. UNCHANGED <<count, queue, current, scan>> /\ pc[c] = "between" /\ pc' = [pc EXCEPT ![c] = "run"]
        BY <2>2, <3>2, ZenonT(40) DEF Between, At, Goto, coreVars
      <4>2. \A k \in Cores : /\ pc'[k] = "move" <=> pc[k] = "move"
                             /\ pc'[k] = "push" <=> pc[k] = "push"
        BY <4>1, ZenonT(40) DEF SchedInv, Typed
      <4> QED BY <1>1, <4>1, <4>2, CountsStay, ZenonT(40)
    <3> QED BY <3>1, <3>2, ZenonT(40)
  <2>3. CASE Pick(c) \/ Requeue(c) \/ StealTake(c) \/ StealMove(c) \/ StealPush(c)
    BY <1>2, <2>3, ZenonT(40)
  <2>4. CASE \/ Look(c) \/ LookInbox(c) \/ TopNative(c) \/ TopNothing(c) \/ NativeEnd(c) \/ RunNothing(c) \/ Scan(c)
             \/ GoIdle(c) \/ Wake(c)
    BY <1>1, <2>4, QuietCounts, ZenonT(40)
  <2> QED BY <1>3, <2>1, <2>2, <2>3, <2>4, ZenonT(40) DEF Loop
<1>4. ASSUME NEW c \in Cores, GiveBack(c) \/ WaitReturns(c) \/ Pin(c) \/ Pump(c)
      PROVE  Counts' /\ count' \in [Cores -> Nat]
  BY <1>1, <1>2, <1>4, QuietCounts, ZenonT(40) DEF GiveBack
<1>5. ASSUME NEW s \in Signallers, Place(s) PROVE Counts' /\ count' \in [Cores -> Nat]
  <2>1. PICK f \in Placed \ live, c \in Cores : Admit(c, f, FALSE) /\ f \in Fibers
    BY <1>5, SetsAssumption, ZenonT(40) DEF Place
  <2>2. UNCHANGED <<current, pc, scan>> /\ count' = [count EXCEPT ![c] = count[c] + 1]
    BY <1>5, <2>1, ZenonT(40) DEF Place, Admit
  <2>3. count' \in [Cores -> Nat]
    BY <1>1, <2>2
  <2>4. Counts'
    BY <2>1, <2>2, AdmitCounts, ZenonT(40)
  <2> QED BY <2>3, <2>4, ZenonT(40)
<1>6. CASE \/ \E c \in Devices, f \in Fibers : DeviceIrq(c, f)
           \/ \E f \in Fibers : Expire(f)
           \/ \E s \in Signallers : Finishing(s) \/ Signal(s) \/ Spawn(s)
           \/ Starve
           \/ UNCHANGED vars
  <2>1. UNCHANGED <<count, queue, current, pc, scan>>
    BY <1>6, ZenonT(40) DEF DeviceIrq, HandlerSignals, Expire, Finishing, Signal, ReadCore, WakeFiberCore, Spawn, WakeIdle, Starve,
                vars, fiberVars, coreVars
  <2> QED BY <1>1, <2>1, CountsStay, ZenonT(40)
<1> QED BY <1>3, <1>4, <1>5, <1>6, ZenonT(40) DEF Next

-----------------------------------------------------------------------------
(* The theorems.                                                           *)

LEMMA SchedInit == Init => FullInv
<1> SUFFICES ASSUME Init PROVE FullInv
  BY Zenon
<1>1. Counts
  <2> SUFFICES ASSUME NEW c \in Cores PROVE count[c] = Len(queue[c]) + Running(c) + Cardinality(Carried(c))
    BY Zenon DEF Counts
  <2>1. Carried(c) = {}
    BY Zenon DEF Init, Carried
  <2>2. Len(queue[c]) = 0 /\ count[c] = 0 /\ Running(c) = 0
    BY Zenon DEF Init, Running
  <2>3. Cardinality({}) = 0
    BY FS_EmptySet, ZenonT(40)
  <2> QED BY <2>1, <2>2, <2>3, SMTT(40)
<1> QED BY <1>1, WakeInit, ZenonT(40) DEF FullInv

LEMMA SchedNext == FullInv /\ [Next]_vars => FullInv'
<1> SUFFICES ASSUME FullInv, [Next]_vars PROVE FullInv'
  BY Zenon
<1>1. Counts' /\ count' \in [Cores -> Nat]
  BY CountsNext, Zenon DEF FullInv, WakeInv
<1> QED BY <1>1, WakeNext, ZenonT(40) DEF FullInv

LEMMA SchedAlways == Spec => []FullInv
  BY SchedInit, SchedNext, PTL DEF Spec

\* Every variable of the scheduler keeps its type, whatever the cores do: in
\* particular no FIBER_COUNT goes below zero, although finish and steal_for
\* subtract from it unguarded, and a waker always names a core.
THEOREM SchedTypes == Spec => []TypeOK
<1>1. FullInv => TypeOK
  BY Zenon DEF FullInv, WakeInv, SchedInv, Typed
<1> QED BY <1>1, SchedAlways, PTL

LEMMA Accounted == FullInv => FibersAccounted
<1> SUFFICES ASSUME FullInv PROVE FibersAccounted
  BY Zenon
<1> USE SetsAssumption
<1>1. SchedInv /\ Homes /\ Once /\ Alive /\ Counts
  BY Zenon DEF FullInv, WakeInv, SchedInv
<1>2. CountsResidents
  BY <1>1, CountsMeans, ZenonT(40)
<1>3. WakerFollows
  BY <1>1 DEF WakerFollows, Homes, SchedInv, Typed, TypeOK
<1>4. OnePlace
  <2>1. \A c \in Cores : IsInjective(queue[c])
    BY <1>1, Zenon DEF Once
  <2>2. ASSUME NEW f \in Fibers
        PROVE  LET at == {<<"queue", c>> : c \in {d \in Cores : f \in Range(queue[d])}}
                         \cup {<<"current", c>> : c \in {d \in Cores : current[d] = f}}
                         \cup {<<"moving", c>> : c \in {d \in Cores : moving[d] = f}}
               IN  IF f \in live THEN \E p \in at : at = {p} ELSE at = {}
    <3> DEFINE Q == {d \in Cores : f \in Range(queue[d])}
               R == {d \in Cores : current[d] = f}
               M == {d \in Cores : moving[d] = f}
               at == {<<"queue", c>> : c \in Q} \cup {<<"current", c>> : c \in R} \cup {<<"moving", c>> : c \in M}
    <3>1. f # None
      BY ZenonT(40)
    <3>2. \A c, d \in Cores : /\ c \in Q /\ d \in Q => c = d
                              /\ c \in R /\ d \in R => c = d
                              /\ c \in M /\ d \in M => c = d
                              /\ ~(c \in Q /\ d \in R) /\ ~(c \in Q /\ d \in M) /\ ~(c \in R /\ d \in M)
      BY <1>1, <3>1, SMTT(40) DEF Homes, Once
    <3>3. CASE f \in live
      <4>1. PICK c \in Cores : c \in Q \/ c \in R \/ c \in M
        BY <1>1, <3>3, ZenonT(40) DEF Alive, Somewhere
      <4> HIDE DEF Q, R, M
      <4>0. Q \subseteq Cores /\ R \subseteq Cores /\ M \subseteq Cores
        BY Zenon DEF Q, R, M
      <4>2. CASE c \in Q
        <5>1. Q = {c} /\ R = {} /\ M = {}
          BY <3>2, <4>0, <4>2, ZenonT(40)
        <5>2. at = {<<"queue", c>>}
          BY <5>1, ZenonT(40)
        <5> QED BY <3>3, <5>2, ZenonT(40) DEF Q, R, M
      <4>3. CASE c \in R
        <5>1. Q = {} /\ R = {c} /\ M = {}
          BY <3>2, <4>0, <4>3, ZenonT(40)
        <5>2. at = {<<"current", c>>}
          BY <5>1, Zenon
        <5> QED BY <3>3, <5>2, ZenonT(40) DEF Q, R, M
      <4>4. CASE c \in M
        <5>1. Q = {} /\ R = {} /\ M = {c}
          BY <3>2, <4>0, <4>4, ZenonT(40)
        <5>2. at = {<<"moving", c>>}
          BY <5>1, Zenon
        <5> QED BY <3>3, <5>2, Zenon DEF Q, R, M
      <4> QED BY <4>1, <4>2, <4>3, <4>4, ZenonT(40)
    <3>4. CASE f \notin live
      <4>1. Q = {} /\ R = {} /\ M = {}
        BY <1>1, <3>4, ZenonT(40) DEF Alive, Somewhere
      <4>2. at = {}
        BY <4>1, Zenon
      <4> QED BY <3>4, <4>2, Zenon
    <3> QED BY <3>3, <3>4, ZenonT(40)
  <2> QED BY <2>1, <2>2, ZenonT(40) DEF OnePlace
<1> QED BY <1>2, <1>3, <1>4, ZenonT(40) DEF FibersAccounted

\* Requeue, steal_for, admit_inner and the end of a fiber hand every fiber on
\* exactly once: it is in one queue, on one core or with one thief, counted
\* there, and its waker names that core.
THEOREM SchedFibersAccounted == Spec => []FibersAccounted
  BY SchedAlways, Accounted, PTL

\* No wake-up is lost between the last look at the queue and the halt, with any
\* number of signallers and device interrupts (IDLE before the look, the bits
\* before IDLE; wake_core).
THEOREM SchedNoLostWakeup == Spec => []NoLostWakeup
<1>1. FullInv => NoLostWakeup
  BY SMTT(40) DEF FullInv, WakeInv, WakeupsKept, NoLostWakeup, Announced, At
<1> QED BY <1>1, SchedAlways, PTL

\* The same for the inbox: whoever pushes a task wakes the cores after it
\* (spawn_inner, wake_idle_workers).
THEOREM SchedNoStrandedTask == Spec => []NoStrandedTask
<1>1. FullInv => NoStrandedTask
  BY Zenon DEF FullInv, WakeInv
<1> QED BY <1>1, SchedAlways, PTL

\* Only a fiber that may be moved changes its core: pin_current and direct
\* placement hold until the fiber ends, also against a thief that looked at the
\* fiber before (steal_for checks movable under the victim's lock).
THEOREM SchedPinnedStays == Spec => PinnedStays
<1> USE SetsAssumption
<1> DEFINE Stays == \A f \in live \cap live' : ~movable[f] => home'[f] = home[f] /\ ~movable'[f]
<1>1. ASSUME FullInv, Next PROVE Stays
  <2>1. TypeOK /\ Homes /\ CoresInStep /\ InboxNew
    BY <1>1, ZenonT(40) DEF FullInv, WakeInv, SchedInv, Typed
  <2>2. CASE UNCHANGED <<home, movable>>
    BY <2>2, Zenon
  <2>3. ASSUME NEW c \in Cores, NEW f \in Fibers, f \notin live, NEW mv, Admit(c, f, mv) PROVE Stays
    BY <2>1, <2>3, ZenonT(40) DEF Admit, TypeOK
  <2>4. ASSUME NEW c \in Cores, TakesHead(c), Head(inbox) \in Fibers, AdmitHead(c) PROVE Stays
    <3>1. Head(inbox) \notin live
      <4>1. inbox # <<>> /\ inbox \in Seq(Fibers \cup Intents) /\ IsInjective(inbox)
        BY <2>1, <2>4, ZenonT(40) DEF TakesHead, TypeOK, InboxNew
      <4>2. Head(inbox) \in Range(inbox)
        BY <4>1, TailFacts, ZenonT(40)
      <4> QED BY <2>1, <4>2, ZenonT(40) DEF InboxNew
    <3>2. CASE Admit(c, Head(inbox), TRUE)
      BY <2>3, <2>4, <3>1, <3>2, ZenonT(40)
    <3>3. CASE UNCHANGED <<fiberVars, count, queue>>
      BY <2>2, <3>3, ZenonT(40) DEF fiberVars
    <3> QED BY <2>4, <3>2, <3>3, ZenonT(40) DEF AdmitHead
  <2>5. ASSUME NEW c \in Cores, Finish(c) PROVE Stays
    BY <2>1, <2>5, ZenonT(40) DEF Finish, TypeOK
  <2>6. ASSUME NEW c \in Cores, Pin(c) PROVE Stays
    BY <2>1, <2>6, ZenonT(40) DEF Pin, TypeOK
  <2>7. ASSUME NEW c \in Cores, StealMove(c) PROVE Stays
    <3>1. movable[moving[c]] /\ home' = [home EXCEPT ![moving[c]] = c] /\ movable' = movable
      BY <2>1, <2>7, ZenonT(40) DEF StealMove, At, Homes, CoresInStep
    <3> QED BY <2>1, <3>1, ZenonT(40) DEF TypeOK
  <2>8. ASSUME NEW s \in Signallers, Place(s) PROVE Stays
    BY <2>3, <2>8, ZenonT(40) DEF Place
  <2>9. ASSUME NEW c \in Cores, Loop(c) PROVE Stays
    <3>1. CASE TopFiber(c)
      BY <2>4, <3>1, ZenonT(40) DEF TopFiber
    <3>2. CASE Between(c)
      <4>1. CASE TakesHead(c) /\ Head(inbox) \in Fibers
        BY <2>4, <3>2, <4>1, ZenonT(40) DEF Between
      <4>2. CASE ~(TakesHead(c) /\ Head(inbox) \in Fibers)
        BY <2>2, <3>2, <4>2, ZenonT(40) DEF Between, fiberVars
      <4> QED BY <4>1, <4>2, ZenonT(40)
    <3>3. CASE StealMove(c)
      BY <2>7, <3>3, ZenonT(40)
    <3>4. CASE \/ TopNative(c) \/ TopNothing(c) \/ NativeEnd(c) \/ Pick(c) \/ Requeue(c) \/ RunNothing(c)
               \/ Scan(c) \/ StealTake(c) \/ StealPush(c) \/ GoIdle(c) \/ Look(c) \/ LookInbox(c) \/ Wake(c)
      BY <2>2, <3>4, ZenonT(40) DEF TopNative, TopNothing, NativeEnd, Pick, Requeue, RunNothing, Scan, StealTake, StealPush, GoIdle,
                        Look, LookInbox, Wake, fiberVars
    <3> HIDE DEF Stays
    <3> QED BY <2>9, <3>1, <3>2, <3>3, <3>4, ZenonT(40) DEF Loop
  <2>10. ASSUME NEW c \in Cores, GiveBack(c) \/ WaitReturns(c) \/ Pin(c) \/ Pump(c) PROVE Stays
    <3>1. CASE Park(c) \/ Yield(c) \/ WaitReturns(c) \/ Pump(c)
      BY <2>2, <3>1, ZenonT(40) DEF Park, Yield, WaitReturns, Pump, fiberVars
    <3> HIDE DEF Stays
    <3> QED BY <2>5, <2>6, <2>10, <3>1, ZenonT(40) DEF GiveBack
  <2>11. ASSUME NEW s \in Signallers, Finishing(s) \/ Signal(s) \/ Place(s) \/ Spawn(s) PROVE Stays
    <3>1. CASE ReadCore(s) \/ WakeFiberCore(s) \/ WakeIdle(s) \/ Signal(s) \/ Spawn(s)
      BY <2>2, <3>1, ZenonT(40) DEF ReadCore, WakeFiberCore, WakeIdle, Signal, Spawn, fiberVars
    <3> HIDE DEF Stays
    <3> QED BY <2>8, <2>11, <3>1, ZenonT(40) DEF Finishing
  <2>12. CASE (\E c \in Devices, f \in Fibers : DeviceIrq(c, f)) \/ (\E f \in Fibers : Expire(f)) \/ Starve
    BY <2>2, <2>12, ZenonT(40) DEF DeviceIrq, HandlerSignals, Expire, Starve, fiberVars
  <2> HIDE DEF Stays
  <2> QED BY <1>1, <2>9, <2>10, <2>11, <2>12, ZenonT(40) DEF Next
<1>2. FullInv /\ [Next]_vars => [Stays]_vars
  <2> HIDE DEF Stays
  <2> QED BY <1>1, Zenon
<1> QED BY <1>2, SchedAlways, PTL DEF Spec, PinnedStays
=============================================================================
