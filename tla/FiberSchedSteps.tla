-------------------------- MODULE FiberSchedSteps ---------------------------
(***************************************************************************)
(* The fiber scheduler for every number of cores, fibers, tasks and        *)
(* signallers: no fiber is lost or in two places, no wake-up is lost, and  *)
(* a pinned fiber stays.                                                   *)
(***************************************************************************)
EXTENDS FiberSched, TLAPS

Places == {"top", "native", "run", "fiber", "requeue", "between", "steal", "lock", "move", "push",
           "idle", "look", "inbox", "halt", "nap"}

\* The types in full
Typed ==
    /\ TypeOK
    /\ pc \in [Cores -> Places]
    /\ sig \in [Signallers -> [at : {"rest", "core", "wake", "wakeAll"}, fiber : Fibers \cup {None}, core : Cores]]
    /\ \A s \in Signallers : sig[s].at \in {"core", "wake"} => sig[s].fiber \in Fibers

\* What the place of a core tells of its fields
CoresInStep ==
    \A c \in Cores :
      /\ current[c] # None <=> pc[c] \in {"fiber", "requeue"}
      /\ moving[c] # None <=> pc[c] \in {"move", "push"}
      /\ pc[c] \in {"lock", "move"} => scan[c] \in Cores \ {c}
      /\ idle[c] <=> pc[c] \in {"look", "inbox", "halt", "nap"}

\* The waker names the core that has the fiber; a thief's fiber may be taken
Homes ==
    \A c \in Cores :
      /\ \A f \in Range(queue[c]) : home[f] = c
      /\ current[c] # None => home[current[c]] = c
      /\ pc[c] = "move" => home[moving[c]] = scan[c]
      /\ pc[c] = "push" => home[moving[c]] = c
      /\ moving[c] # None => movable[moving[c]]

\* No fiber is in two places
Once ==
    \A c \in Cores :
      /\ IsInjective(queue[c]) /\ current[c] \notin Range(queue[c])
      /\ \A d \in Cores : /\ moving[d] \notin Range(queue[c])
                          /\ moving[d] # None => moving[d] # current[c]
                          /\ moving[d] # None /\ d # c => moving[d] # moving[c]

Somewhere(f) == \E c \in Cores : f \in Range(queue[c]) \/ current[c] = f \/ moving[c] = f

\* A fiber lives as long as it is somewhere
Alive == \A f \in Fibers : f \in live <=> Somewhere(f)

\* The inbox holds a task once, and no fiber that lives or is placed directly
InboxNew == IsInjective(inbox) /\ \A t \in Range(inbox) : t \notin live /\ t \notin Placed

\* A core that has looked at its queue: what became runnable since is announced
Announced(c, f) ==
    \E s \in Signallers : /\ sig[s].fiber = f
                          /\ sig[s].at = "core" \/ (sig[s].at = "wake" /\ sig[s].core = c)

WakeupsKept ==
    \A c \in Cores : pc[c] \in {"inbox", "halt"} /\ ~irq[c] =>
      \A f \in Range(queue[c]) : Runnable(f) /\ state[f] # "due" => Announced(c, f)

SchedInv == Typed /\ CoresInStep /\ Homes /\ Once /\ Alive /\ InboxNew

WakeInv == SchedInv /\ WakeupsKept /\ NoStrandedTask

-----------------------------------------------------------------------------
(* Queues.                                                                 *)

LEMMA AppendFacts ==
    ASSUME NEW S, NEW q \in Seq(S), NEW x \in S
    PROVE  /\ Append(q, x) \in Seq(S) /\ Len(Append(q, x)) = Len(q) + 1
           /\ Range(Append(q, x)) = Range(q) \cup {x}
           /\ IsInjective(q) /\ x \notin Range(q) => IsInjective(Append(q, x))
<1>1. /\ Append(q, x) \in Seq(S) /\ Len(Append(q, x)) = Len(q) + 1
      /\ DOMAIN Append(q, x) = 1 .. Len(q) + 1 /\ DOMAIN q = 1 .. Len(q) /\ Len(q) \in Nat
      /\ \A i \in 1 .. Len(q) : Append(q, x)[i] = q[i]
      /\ Append(q, x)[Len(q) + 1] = x
  OBVIOUS
<1>2. Range(Append(q, x)) = Range(q) \cup {x}
  <2>1. \A y \in Range(Append(q, x)) : y \in Range(q) \cup {x}
    BY <1>1 DEF Range
  <2>2. \A y \in Range(q) : y \in Range(Append(q, x))
    BY <1>1 DEF Range
  <2>3. x \in Range(Append(q, x))
    BY <1>1 DEF Range
  <2> QED BY <2>1, <2>2, <2>3, Zenon
<1>3. ASSUME IsInjective(q), x \notin Range(q) PROVE IsInjective(Append(q, x))
  BY <1>1, <1>3 DEF IsInjective, Range
<1> QED BY <1>1, <1>2, <1>3, Zenon

LEMMA RemoveFacts ==
    ASSUME NEW S, NEW q \in Seq(S), NEW i \in DOMAIN q
    PROVE  /\ Without(q, i) \in Seq(S) /\ Len(Without(q, i)) = Len(q) - 1
           /\ q[i] \in Range(q) /\ q[i] \in S
           /\ IsInjective(q) => /\ IsInjective(Without(q, i))
                                /\ Range(Without(q, i)) = Range(q) \ {q[i]}
<1> DEFINE r == Without(q, i)
<1>1. Len(q) \in Nat /\ DOMAIN q = 1 .. Len(q) /\ i \in 1 .. Len(q)
  OBVIOUS
<1>2. \A j \in 1 .. Len(q) - 1 : q[j] \in S /\ q[j + 1] \in S
  BY <1>1
<1>4. /\ r \in Seq(S) /\ Len(r) = Len(q) - 1
      /\ \A j \in 1 .. Len(q) - 1 : r[j] = IF j < i THEN q[j] ELSE q[j + 1]
  BY <1>1, <1>2 DEF Without
<1>5. DOMAIN r = 1 .. Len(q) - 1
  BY <1>4
<1>6. q[i] \in Range(q) /\ q[i] \in S
  BY DEF Range
<1> HIDE DEF r
<1>7. ASSUME IsInjective(q) PROVE IsInjective(r) /\ Range(r) = Range(q) \ {q[i]}
  <2>1. IsInjective(r)
    <3> SUFFICES ASSUME NEW j \in 1 .. Len(q) - 1, NEW k \in 1 .. Len(q) - 1, r[j] = r[k] PROVE j = k
      BY <1>5, Zenon DEF IsInjective
    <3>1. (IF j < i THEN j ELSE j + 1) \in DOMAIN q /\ (IF k < i THEN k ELSE k + 1) \in DOMAIN q
      BY <1>1
    <3>2. (IF j < i THEN j ELSE j + 1) = (IF k < i THEN k ELSE k + 1)
      BY <1>1, <1>4, <1>7, <3>1, Zenon DEF IsInjective
    <3> QED BY <1>1, <3>2
  <2>2. ASSUME NEW y \in Range(r) PROVE y \in Range(q) \ {q[i]}
    <3>1. PICK j \in 1 .. Len(q) - 1 : y = r[j]
      BY <1>5, Zenon DEF Range
    <3>2. (IF j < i THEN j ELSE j + 1) \in DOMAIN q /\ (IF j < i THEN j ELSE j + 1) # i
      BY <1>1
    <3> QED BY <1>4, <1>7, <3>1, <3>2, Zenon DEF Range, IsInjective
  <2>3. ASSUME NEW y \in Range(q) \ {q[i]} PROVE y \in Range(r)
    <3>1. PICK j \in DOMAIN q : y = q[j]
      BY Zenon DEF Range
    <3>2. j # i /\ j \in 1 .. Len(q)
      BY <1>1, <3>1, Zenon
    <3>3. CASE j < i
      <4>1. j \in 1 .. Len(q) - 1 /\ r[j] = q[j]
        BY <1>1, <1>4, <3>2, <3>3
      <4> QED BY <1>5, <3>1, <4>1, Zenon DEF Range
    <3>4. CASE j > i
      <4>1. j - 1 \in 1 .. Len(q) - 1 /\ r[j - 1] = q[j]
        BY <1>1, <1>4, <3>2, <3>4
      <4> QED BY <1>5, <3>1, <4>1, Zenon DEF Range
    <3> QED BY <1>1, <3>2, <3>3, <3>4
  <2> QED BY <2>1, <2>2, <2>3, Zenon
<1> QED BY <1>4, <1>6, <1>7, Zenon DEF r

LEMMA TailFacts ==
    ASSUME NEW S, NEW q \in Seq(S), q # <<>>, IsInjective(q)
    PROVE  /\ Tail(q) \in Seq(S) /\ IsInjective(Tail(q)) /\ Head(q) \in S
           /\ Range(Tail(q)) \subseteq Range(q) /\ Head(q) \in Range(q) /\ Head(q) \notin Range(Tail(q))
<1>1. /\ Len(q) \in Nat \ {0} /\ DOMAIN q = 1 .. Len(q) /\ Head(q) = q[1]
      /\ Tail(q) \in Seq(S) /\ DOMAIN Tail(q) = 1 .. Len(q) - 1
      /\ \A j \in 1 .. Len(q) - 1 : Tail(q)[j] = q[j + 1]
  OBVIOUS
<1>2. \A j \in 1 .. Len(q) - 1 : j + 1 \in DOMAIN q /\ j + 1 # 1
  BY <1>1
<1>3. IsInjective(Tail(q))
  BY <1>1, <1>2 DEF IsInjective
<1>4. Range(Tail(q)) \subseteq Range(q) /\ Head(q) \in Range(q) /\ Head(q) \notin Range(Tail(q))
  BY <1>1, <1>2 DEF Range, IsInjective
<1> QED BY <1>1, <1>3, <1>4 DEF Range

LEMMA RangeTyped == ASSUME NEW S, NEW q \in Seq(S) PROVE Range(q) \subseteq S
  BY DEF Range

LEMMA WakeInit == Init => WakeInv
<1> SUFFICES ASSUME Init PROVE WakeInv
  BY Zenon
<1> USE CoresAssumption, SetsAssumption
<1>1. 1 \in Cores
  BY DEF Cores
<1>2. inbox \in Seq(Fibers \cup Intents) /\ \A c \in Cores : queue[c] = <<>> /\ queue[c] \in Seq(Fibers)
  BY DEF Init
<1>3. TypeOK
  <2>1. /\ live \subseteq Fibers /\ state \in [Fibers -> States] /\ home \in [Fibers -> Cores]
        /\ bits \in [Fibers -> BOOLEAN] /\ movable \in [Fibers -> BOOLEAN] /\ starved \in BOOLEAN
    BY <1>1, Zenon DEF Init, States
  <2>2. queue \in [Cores -> Seq(Fibers)] /\ count \in [Cores -> Nat]
    BY DEF Init
  <2>3. current \in [Cores -> Fibers \cup {None}] /\ moving \in [Cores -> Fibers \cup {None}]
    BY Zenon DEF Init
  <2>4. /\ active \in [Cores -> BOOLEAN] /\ native \in [Cores -> BOOLEAN]
        /\ idle \in [Cores -> BOOLEAN] /\ irq \in [Cores -> BOOLEAN]
    BY Zenon DEF Init
  <2>5. scan \in [Cores -> 1 .. NumCores + 1]
    BY DEF Init
  <2>6. \A k \in Signallers : sig[k].fiber \in Fibers \cup {None} /\ sig[k].core \in Cores
    BY <1>1, Zenon DEF Init, Rest
  <2> QED BY <1>2, <2>1, <2>2, <2>3, <2>4, <2>5, <2>6, Zenon DEF TypeOK
<1>4. Typed
  BY <1>1, <1>3, Zenon DEF Init, Typed, Places, Rest
<1>5. CoresInStep
  BY Zenon DEF Init, CoresInStep
<1>6. Range(<<>>) = {} /\ IsInjective(<<>>)
  BY DEF Range, IsInjective
<1>7. Homes /\ Alive /\ InboxNew
  BY <1>2, <1>6, Zenon DEF Init, Homes, Alive, Somewhere, InboxNew
<1>8. Once
  BY <1>2, <1>6, Zenon DEF Init, Once
<1>10. WakeupsKept /\ NoStrandedTask
  BY Zenon DEF Init, WakeupsKept, NoStrandedTask
<1> QED BY <1>4, <1>5, <1>7, <1>8, <1>10, Zenon DEF WakeInv, SchedInv

\* Where the queues, the running and the carried fibers stay as they are, so
\* does what is said of them.
LEMMA Stay ==
    ASSUME SchedInv, UNCHANGED <<live, home, queue, current, moving>>,
           \A c \in Cores : /\ pc'[c] \in {"move", "push"} => pc'[c] = pc[c] /\ scan'[c] = scan[c]
                            /\ moving[c] # None => movable'[moving[c]]
    PROVE  Homes' /\ Once' /\ Alive'
<1>1. Homes'
  BY DEF SchedInv, Homes
<1>2. Once'
  BY Zenon DEF SchedInv, Once
<1>3. Alive'
  BY Zenon DEF SchedInv, Alive, Somewhere
<1> QED BY <1>1, <1>2, <1>3, Zenon

\* The steps that leave every fiber where it is
LEMMA QuietTypes ==
    ASSUME SchedInv, NEW c \in Cores,
           TopNative(c) \/ TopNothing(c) \/ NativeEnd(c) \/ Pump(c) \/ Park(c) \/ Yield(c) \/ RunNothing(c)
    PROVE  Typed' /\ CoresInStep' /\ InboxNew'
<1> USE CoresAssumption, SetsAssumption
<1>1. CASE TopNative(c)
  <2>1. Typed'
    <3>1. inbox' \in Seq(Fibers \cup Intents) /\ starved' \in BOOLEAN
      BY <1>1, TailFacts, ZenonT(40) DEF InboxNew, TopNative, TakesHead, TakeHead, SchedInv, Typed, TypeOK, fiberVars, At, Goto
    <3> QED BY <1>1, <3>1, Zenon DEF TopNative, Places, SchedInv, Typed, TypeOK, fiberVars, At, Goto
  <2>2. CoresInStep'
    BY <1>1, SMTT(40) DEF TopNative, TakesHead, TakeHead, CoresInStep, Places, SchedInv, Typed, TypeOK, fiberVars, At, Goto
  <2>3. InboxNew'
    BY <1>1, TailFacts, Zenon DEF TopNative, TakesHead, TakeHead, InboxNew, SchedInv, Typed, TypeOK, fiberVars, At, Goto
  <2> QED BY <2>1, <2>2, <2>3, Zenon
<1>2. CASE TopNothing(c)
  <2>1. Typed'
    BY <1>2, Zenon DEF TopNothing, Places, SchedInv, Typed, TypeOK, fiberVars, At, Goto
  <2>2. CoresInStep'
    BY <1>2, SMTT(40) DEF TopNothing, CoresInStep, Places, SchedInv, Typed, TypeOK, fiberVars, At, Goto
  <2>3. InboxNew'
    BY <1>2, Zenon DEF TopNothing, InboxNew, SchedInv, fiberVars
  <2> QED BY <2>1, <2>2, <2>3, Zenon
<1>3. CASE NativeEnd(c)
  <2>1. Typed'
    BY <1>3, Zenon DEF NativeEnd, Places, SchedInv, Typed, TypeOK, fiberVars, At, Goto
  <2>2. CoresInStep'
    BY <1>3, SMTT(40) DEF NativeEnd, CoresInStep, Places, SchedInv, Typed, TypeOK, fiberVars, At, Goto
  <2>3. InboxNew'
    BY <1>3, Zenon DEF NativeEnd, InboxNew, SchedInv, fiberVars
  <2> QED BY <2>1, <2>2, <2>3, Zenon
<1>4. CASE Pump(c)
  <2>1. Typed'
    BY <1>4, Zenon DEF Pump, Places, SchedInv, Typed, TypeOK, fiberVars, coreVars, At, Goto
  <2>2. CoresInStep'
    BY <1>4, SMTT(40) DEF Pump, CoresInStep, Places, SchedInv, Typed, TypeOK, fiberVars, coreVars, At, Goto
  <2>3. InboxNew'
    BY <1>4, Zenon DEF Pump, InboxNew, SchedInv, fiberVars, coreVars
  <2> QED BY <2>1, <2>2, <2>3, Zenon
<1>5. CASE Park(c)
  <2>1. Typed'
    BY <1>5, Zenon DEF Park, States, Places, SchedInv, Typed, TypeOK, coreVars, At, Goto
  <2>2. CoresInStep'
    BY <1>5, SMTT(40) DEF Park, States, CoresInStep, Places, SchedInv, Typed, TypeOK, coreVars, At, Goto
  <2>3. InboxNew'
    BY <1>5, Zenon DEF Park, States, InboxNew, SchedInv, coreVars
  <2> QED BY <2>1, <2>2, <2>3, Zenon
<1>6. CASE Yield(c)
  <2>1. Typed'
    BY <1>6, Zenon DEF Yield, Invite, Invitable, Places, SchedInv, Typed, TypeOK, fiberVars, coreVars, At, Goto
  <2>2. CoresInStep'
    BY <1>6, SMTT(40) DEF Yield, Invite, Invitable, CoresInStep, Places, SchedInv, Typed, TypeOK, fiberVars, coreVars, At, Goto
  <2>3. InboxNew'
    BY <1>6, Zenon DEF Yield, Invite, Invitable, InboxNew, SchedInv, fiberVars, coreVars
  <2> QED BY <2>1, <2>2, <2>3, Zenon
<1>7. CASE RunNothing(c)
  <2>1. /\ pc' = [pc EXCEPT ![c] = "native"] \/ pc' = [pc EXCEPT ![c] = "steal"]
        /\ active' = active \/ active' = [active EXCEPT ![c] = FALSE]
        /\ pc[c] = "run"
    BY <1>7, Zenon DEF RunNothing, SchedInv, Typed, TypeOK, fiberVars, At, Goto
  <2>2. Typed'
    <3>1. pc' \in [Cores -> Places]
      BY <2>1, Zenon DEF Places, SchedInv, Typed, TypeOK
    <3>2. active' \in [Cores -> BOOLEAN]
      BY <2>1, Zenon DEF SchedInv, Typed, TypeOK
    <3> QED BY <1>7, <3>1, <3>2, Zenon DEF RunNothing, SchedInv, Typed, TypeOK, fiberVars, At, Goto
  <2>3. CoresInStep'
    <3>1. pc'[c] \in {"native", "steal"} /\ \A d \in Cores \ {c} : pc'[d] = pc[d]
      BY <2>1, ZenonT(40) DEF SchedInv, Typed, TypeOK
    <3>2. UNCHANGED <<current, moving, scan, idle>>
      BY <1>7, Zenon DEF RunNothing, SchedInv, Typed, TypeOK, fiberVars, At, Goto
    <3>3. current[c] = None /\ moving[c] = None /\ ~idle[c]
      BY <2>1, Zenon DEF CoresInStep, SchedInv
    <3> QED BY <3>1, <3>2, <3>3, Zenon DEF CoresInStep, SchedInv
  <2>4. InboxNew'
    BY <1>7, Zenon DEF RunNothing, InboxNew, SchedInv, fiberVars
  <2> QED BY <2>2, <2>3, <2>4, Zenon
<1> QED BY <1>1, <1>2, <1>3, <1>4, <1>5, <1>6, <1>7, Zenon

LEMMA HaltTypes ==
    ASSUME SchedInv, NEW c \in Cores,
           Scan(c) \/ GoIdle(c) \/ Look(c) \/ LookInbox(c) \/ Wake(c) \/ WaitReturns(c) \/ Pin(c)
    PROVE  Typed' /\ CoresInStep' /\ InboxNew'
<1> USE CoresAssumption, SetsAssumption
<1>1. CASE Scan(c)
  <2>1. \/ scan' = [scan EXCEPT ![c] = 1] /\ pc' = [pc EXCEPT ![c] = "idle"]
        \/ \E v \in Cores \ {c} : scan' = [scan EXCEPT ![c] = v] /\ pc' = [pc EXCEPT ![c] = "lock"]
    BY <1>1, Zenon DEF Scan, Victim, SchedInv, Typed, TypeOK, fiberVars, coreVars, At, Goto
  <2>2. pc[c] = "steal"
    BY <1>1, Zenon DEF Scan, SchedInv, Typed, TypeOK, fiberVars, coreVars, At, Goto
  <2>3. Typed'
    <3>1. 1 \in 1 .. NumCores + 1 /\ \A v \in Cores : v \in 1 .. NumCores + 1
      BY DEF Cores, SchedInv, Typed, TypeOK
    <3>3. scan' \in [Cores -> 1 .. NumCores + 1]
      <4>1. PICK v \in 1 .. NumCores + 1 : scan' = [scan EXCEPT ![c] = v]
        BY <2>1, <3>1, Zenon
      <4> QED BY <4>1, Zenon DEF SchedInv, Typed, TypeOK
    <3>2. pc' \in [Cores -> Places]
      BY <2>1, Zenon DEF Places, SchedInv, Typed, TypeOK
    <3> QED BY <1>1, <3>2, <3>3, Zenon DEF Scan, SchedInv, Typed, TypeOK, fiberVars, coreVars, At, Goto
  <2>4. CoresInStep'
    <3>1. /\ pc'[c] = "idle" \/ (pc'[c] = "lock" /\ scan'[c] \in Cores \ {c})
          /\ \A d \in Cores \ {c} : pc'[d] = pc[d] /\ scan'[d] = scan[d]
      BY <2>1, ZenonT(40) DEF SchedInv, Typed, TypeOK
    <3>2. UNCHANGED <<current, moving, idle>>
      BY <1>1, Zenon DEF Scan, SchedInv, Typed, TypeOK, fiberVars, coreVars, At, Goto
    <3> QED BY <2>2, <3>1, <3>2, Zenon DEF CoresInStep, SchedInv, Typed, TypeOK
  <2>5. InboxNew'
    BY <1>1, Zenon DEF Scan, InboxNew, SchedInv, fiberVars, coreVars
  <2> QED BY <2>3, <2>4, <2>5, Zenon
<1>2. CASE GoIdle(c)
  <2>1. Typed'
    BY <1>2, Zenon DEF GoIdle, Places, SchedInv, Typed, TypeOK, fiberVars, coreVars, At, Goto
  <2>2. CoresInStep'
    BY <1>2 DEF GoIdle, CoresInStep, Places, SchedInv, Typed, TypeOK, fiberVars, coreVars, At, Goto
  <2>3. InboxNew'
    BY <1>2, Zenon DEF GoIdle, InboxNew, SchedInv, fiberVars, coreVars
  <2> QED BY <2>1, <2>2, <2>3, Zenon
<1>3. ASSUME pc[c] \in {"look", "inbox", "halt", "nap"},
             \/ Leave(c)
             \/ (pc' = [pc EXCEPT ![c] = "inbox"] \/ pc' = [pc EXCEPT ![c] = "halt"] \/ pc' = [pc EXCEPT ![c] = "nap"])
                /\ UNCHANGED <<idle, irq>>,
             UNCHANGED <<inbox, starved, fiberVars, coreVars, scan, sig>>
      PROVE  Typed' /\ CoresInStep' /\ InboxNew'
  <2>1. Typed'
    BY <1>3, ZenonT(40) DEF Leave, Places, SchedInv, Typed, TypeOK, fiberVars, coreVars, Goto
  <2>2. CoresInStep'
    <3>1. /\ (pc'[c] = "top" /\ ~idle'[c]) \/ (pc'[c] \in {"inbox", "halt", "nap"} /\ idle'[c] = idle[c])
          /\ \A d \in Cores \ {c} : pc'[d] = pc[d] /\ idle'[d] = idle[d]
      BY <1>3 DEF Leave, SchedInv, Typed, TypeOK, Goto
    <3>2. UNCHANGED <<current, moving, scan>>
      BY <1>3, Zenon DEF coreVars
    <3>3. CoresInStep
      BY Zenon DEF SchedInv
    <3>4. ASSUME NEW d \in Cores
          PROVE  /\ current'[d] # None <=> pc'[d] \in {"fiber", "requeue"}
                 /\ moving'[d] # None <=> pc'[d] \in {"move", "push"}
                 /\ pc'[d] \in {"lock", "move"} => scan'[d] \in Cores \ {d}
      BY ONLY <1>3, <3>1, <3>2, <3>3, Zenon DEF CoresInStep
    <3>5. ASSUME NEW d \in Cores PROVE idle'[d] <=> pc'[d] \in {"look", "inbox", "halt", "nap"}
      BY ONLY <1>3, <3>1, <3>3, ZenonT(40) DEF CoresInStep
    <3> QED BY ONLY <3>4, <3>5, Zenon DEF CoresInStep
  <2>3. InboxNew'
    BY <1>3, Zenon DEF InboxNew, SchedInv, fiberVars
  <2> QED BY <2>1, <2>2, <2>3, Zenon
<1>4. CASE Look(c)
  BY <1>3, <1>4, Zenon DEF Look, fiberVars, coreVars, At, Goto
<1>5. CASE LookInbox(c)
  BY <1>3, <1>5, Zenon DEF LookInbox, fiberVars, coreVars, At, Goto
<1>6. CASE Wake(c)
  BY <1>3, <1>6, Zenon DEF Wake, SchedInv, Typed, TypeOK, fiberVars, coreVars, At
<1>7. CASE WaitReturns(c)
  <2>1. Typed'
    BY <1>7, Zenon DEF WaitReturns, SchedInv, Typed, TypeOK, coreVars, At
  <2>2. CoresInStep' /\ InboxNew'
    BY <1>7, Zenon DEF WaitReturns, CoresInStep, InboxNew, SchedInv, Typed, TypeOK, coreVars, At
  <2> QED BY <2>1, <2>2, Zenon
<1>8. CASE Pin(c)
  <2>1. Typed'
    BY <1>8, Zenon DEF Pin, SchedInv, Typed, TypeOK, coreVars, At
  <2>2. CoresInStep' /\ InboxNew'
    BY <1>8, Zenon DEF Pin, CoresInStep, InboxNew, SchedInv, Typed, TypeOK, coreVars, At
  <2> QED BY <2>1, <2>2, Zenon
<1> QED BY <1>1, <1>2, <1>4, <1>5, <1>6, <1>7, <1>8, Zenon

LEMMA RestTyped == Rest \in [at : {"rest", "core", "wake", "wakeAll"}, fiber : Fibers \cup {None}, core : Cores]
  BY CoresAssumption DEF Rest, Cores

LEMMA OutsideTypes ==
    ASSUME SchedInv,
           \/ \E c \in Devices, f \in Fibers : DeviceIrq(c, f)
           \/ \E f \in Fibers : Expire(f)
           \/ \E s \in Signallers : Signal(s) \/ ReadCore(s) \/ WakeFiberCore(s) \/ Spawn(s) \/ WakeIdle(s)
           \/ Starve
    PROVE  Typed' /\ CoresInStep' /\ InboxNew'
<1> USE CoresAssumption, SetsAssumption
<1>1. CASE \E c \in Devices, f \in Fibers : DeviceIrq(c, f)
  <2>1. PICK c \in Devices, f \in Fibers : HandlerSignals(c, f)
    BY <1>1, Zenon DEF DeviceIrq, SchedInv, Typed, TypeOK
  <2>2. Typed'
    BY <2>1, Zenon DEF HandlerSignals, SchedInv, Typed, TypeOK, coreVars
  <2>3. CoresInStep' /\ InboxNew'
    BY <2>1, Zenon DEF HandlerSignals, CoresInStep, InboxNew, SchedInv, Typed, TypeOK, coreVars
  <2> QED BY <2>2, <2>3, Zenon
<1>2. CASE \E f \in Fibers : Expire(f)
  <2>1. PICK f \in Fibers : Expire(f)
    BY <1>2, Zenon DEF SchedInv, Typed, TypeOK
  <2>2. Typed'
    BY <2>1, Zenon DEF Expire, States, SchedInv, Typed, TypeOK, coreVars
  <2>3. CoresInStep' /\ InboxNew'
    BY <2>1, Zenon DEF Expire, CoresInStep, InboxNew, SchedInv, Typed, TypeOK, coreVars
  <2> QED BY <2>2, <2>3, Zenon
<1>3. ASSUME NEW s \in Signallers, Signal(s) PROVE Typed' /\ CoresInStep' /\ InboxNew'
  <2>1. Typed'
    <3>1. PICK f \in live : bits' = [bits EXCEPT ![f] = TRUE] /\ Step(s, "core", f, 1)
      BY <1>3, Zenon DEF Signal, SchedInv, Typed, TypeOK, coreVars
    <3>2. [at |-> "core", fiber |-> f, core |-> 1]
            \in [at : {"rest", "core", "wake", "wakeAll"}, fiber : Fibers \cup {None}, core : Cores]
      BY DEF Cores, SchedInv, Typed, TypeOK
    <3>3. sig' \in [Signallers -> [at : {"rest", "core", "wake", "wakeAll"}, fiber : Fibers \cup {None}, core : Cores]]
      BY <3>1, <3>2, Zenon DEF Step, SchedInv, Typed, TypeOK
    <3>4. \A k \in Signallers : sig'[k].at \in {"core", "wake"} => sig'[k].fiber \in Fibers
      BY <3>1, ZenonT(40) DEF Step, SchedInv, Typed, TypeOK
    <3> QED BY <1>3, <3>1, <3>3, <3>4, Zenon DEF Signal, SchedInv, Typed, TypeOK, coreVars
  <2>2. CoresInStep' /\ InboxNew'
    BY <1>3, Zenon DEF Signal, CoresInStep, InboxNew, SchedInv, Typed, TypeOK, coreVars
  <2> QED BY <2>1, <2>2, Zenon
<1>4. ASSUME NEW s \in Signallers, ReadCore(s) PROVE Typed' /\ CoresInStep' /\ InboxNew'
  <2>1. Typed'
    BY <1>4, ZenonT(40) DEF ReadCore, Step, SchedInv, Typed, TypeOK, fiberVars, coreVars
  <2>2. CoresInStep' /\ InboxNew'
    BY <1>4, Zenon DEF ReadCore, CoresInStep, InboxNew, SchedInv, Typed, TypeOK, fiberVars, coreVars
  <2> QED BY <2>1, <2>2, Zenon
<1>5. ASSUME NEW s \in Signallers, WakeFiberCore(s) PROVE Typed' /\ CoresInStep' /\ InboxNew'
  <2>1. Typed'
    <3>1. irq' \in [Cores -> BOOLEAN]
      BY <1>5, Zenon DEF WakeFiberCore, Invitable, SchedInv, Typed, TypeOK, fiberVars, coreVars
    <3>2. sig' = [sig EXCEPT ![s] = Rest]
      BY <1>5, Zenon DEF WakeFiberCore, SchedInv, Typed, TypeOK, fiberVars, coreVars
    <3>3. sig' \in [Signallers -> [at : {"rest", "core", "wake", "wakeAll"}, fiber : Fibers \cup {None}, core : Cores]]
      BY <3>2, RestTyped, Zenon DEF SchedInv, Typed, TypeOK
    <3>4. \A k \in Signallers : sig'[k].at \in {"core", "wake"} => sig'[k].fiber \in Fibers
      BY <3>2, Zenon DEF Rest, SchedInv, Typed, TypeOK
    <3> QED BY <1>5, <3>1, <3>3, <3>4, Zenon DEF WakeFiberCore, SchedInv, Typed, TypeOK, fiberVars, coreVars
  <2>2. CoresInStep' /\ InboxNew'
    BY <1>5, Zenon DEF WakeFiberCore, CoresInStep, InboxNew, SchedInv, Typed, TypeOK, fiberVars, coreVars
  <2> QED BY <2>1, <2>2, Zenon
<1>6. ASSUME NEW s \in Signallers, Spawn(s) PROVE Typed' /\ CoresInStep' /\ InboxNew'
  <2>1. PICK t \in ((Fibers \ Placed) \ live) \cup Intents : t \notin Range(inbox) /\ inbox' = Append(inbox, t)
    BY <1>6, Zenon DEF Spawn, SchedInv, Typed, TypeOK, fiberVars, coreVars
  <2>2. Typed'
    <3>1. inbox' \in Seq(Fibers \cup Intents)
      BY <2>1, AppendFacts, Zenon DEF SchedInv, Typed, TypeOK
    <3>2. sig' = [sig EXCEPT ![s] = [at |-> "wakeAll", fiber |-> None, core |-> 1]]
      BY <1>6, Zenon DEF Spawn, Step, SchedInv, Typed, TypeOK, fiberVars, coreVars
    <3>3. sig' \in [Signallers -> [at : {"rest", "core", "wake", "wakeAll"}, fiber : Fibers \cup {None}, core : Cores]]
      BY <3>2 DEF Cores, SchedInv, Typed, TypeOK
    <3>4. \A k \in Signallers : sig'[k].at \in {"core", "wake"} => sig'[k].fiber \in Fibers
      BY <3>2, ZenonT(40) DEF SchedInv, Typed, TypeOK
    <3> QED BY <1>6, <3>1, <3>3, <3>4, Zenon DEF Spawn, SchedInv, Typed, TypeOK, fiberVars, coreVars
  <2>3. CoresInStep'
    BY <1>6, Zenon DEF Spawn, CoresInStep, SchedInv, Typed, TypeOK, fiberVars, coreVars
  <2>4. InboxNew'
    BY <1>6, <2>1, AppendFacts, SMTT(40) DEF Spawn, InboxNew, SchedInv, Typed, TypeOK, fiberVars, coreVars
  <2> QED BY <2>2, <2>3, <2>4, Zenon
<1>7. ASSUME NEW s \in Signallers, WakeIdle(s) PROVE Typed' /\ CoresInStep' /\ InboxNew'
  <2>1. Typed'
    <3>1. irq' \in [Cores -> BOOLEAN]
      BY <1>7, Zenon DEF WakeIdle, SchedInv, Typed, TypeOK, fiberVars, coreVars
    <3>2. PICK r \in [at : {"rest", "core", "wake", "wakeAll"}, fiber : Fibers \cup {None}, core : Cores] :
            sig' = [sig EXCEPT ![s] = r] /\ r.at \in {"rest", "wakeAll"}
      <4>1. CASE sig[s].core < NumCores
        <5>0. sig[s].core \in Cores
          BY Zenon DEF SchedInv, Typed, TypeOK
        <5>1. sig[s].core + 1 \in Cores
          BY ONLY CoresAssumption, <4>1, <5>0 DEF Cores
        <5> QED BY <1>7, <4>1, <5>1, SMTT(40) DEF WakeIdle, Step, SchedInv, Typed, TypeOK, fiberVars, coreVars
      <4>2. CASE ~(sig[s].core < NumCores)
        BY <1>7, <4>2, RestTyped, Zenon DEF WakeIdle, Rest, SchedInv, Typed, TypeOK, fiberVars, coreVars
      <4> QED BY <4>1, <4>2, ZenonT(40)
    <3>3. sig' \in [Signallers -> [at : {"rest", "core", "wake", "wakeAll"}, fiber : Fibers \cup {None}, core : Cores]]
      BY <3>2, Zenon DEF SchedInv, Typed, TypeOK
    <3>4. \A k \in Signallers : sig'[k].at \in {"core", "wake"} => sig'[k].fiber \in Fibers
      BY <3>2, Zenon DEF SchedInv, Typed, TypeOK
    <3> QED BY <1>7, <3>1, <3>3, <3>4, Zenon DEF WakeIdle, SchedInv, Typed, TypeOK, fiberVars, coreVars
  <2>2. CoresInStep' /\ InboxNew'
    BY <1>7, Zenon DEF WakeIdle, CoresInStep, InboxNew, SchedInv, Typed, TypeOK, fiberVars, coreVars
  <2> QED BY <2>1, <2>2, Zenon
<1>8. CASE Starve
  BY <1>8, Zenon DEF Starve, CoresInStep, InboxNew, SchedInv, Typed, TypeOK, fiberVars, coreVars
<1> QED BY <1>1, <1>2, <1>3, <1>4, <1>5, <1>6, <1>7, <1>8, Zenon

\* A fiber that does not live is nowhere.
LEMMA Nowhere ==
    ASSUME SchedInv, NEW f \in Fibers, f \notin live, NEW c \in Cores
    PROVE  f \notin Range(queue[c]) /\ current[c] # f /\ moving[c] # f
  BY Zenon DEF SchedInv, Alive, Somewhere

\* admit_inner: a new fiber at the end of one queue
LEMMA AdmitStep ==
    ASSUME SchedInv, NEW c \in Cores, NEW f \in Fibers, f \notin live, NEW mv, Admit(c, f, mv),
           UNCHANGED <<current, moving, scan>>,
           \A k \in Cores : pc'[k] \in {"move", "push"} => pc'[k] = pc[k]
    PROVE  Homes' /\ Once' /\ Alive'
<1> USE SetsAssumption
<1>1. /\ queue' = [queue EXCEPT ![c] = Append(queue[c], f)] /\ home' = [home EXCEPT ![f] = c]
      /\ movable' = [movable EXCEPT ![f] = mv] /\ live' = live \cup {f}
  BY Zenon DEF Admit
<1>2. /\ queue \in [Cores -> Seq(Fibers)] /\ home \in [Fibers -> Cores] /\ movable \in [Fibers -> BOOLEAN]
      /\ current \in [Cores -> Fibers \cup {None}] /\ moving \in [Cores -> Fibers \cup {None}]
      /\ live \subseteq Fibers
  BY Zenon DEF SchedInv, Typed, TypeOK
<1>3. \A d \in Cores : Range(queue'[d]) = IF d = c THEN Range(queue[d]) \cup {f} ELSE Range(queue[d])
  <2>1. queue'[c] = Append(queue[c], f) /\ \A d \in Cores \ {c} : queue'[d] = queue[d]
    BY <1>1, <1>2, Zenon
  <2>2. Range(Append(queue[c], f)) = Range(queue[c]) \cup {f}
    BY <1>2, AppendFacts
  <2> QED BY <2>1, <2>2, Zenon
<1>4. \A d \in Cores : Range(queue[d]) \subseteq Fibers
  BY <1>2, RangeTyped, Zenon
<1>5. \A d \in Cores : f \notin Range(queue[d]) /\ current[d] # f /\ moving[d] # f
  BY Nowhere, Zenon
<1>6. \A d \in Cores : IsInjective(queue'[d])
  BY <1>1, <1>2, <1>5, AppendFacts, Zenon DEF SchedInv, Once
<1>7. home'[f] = c /\ \A g \in Fibers \ {f} : home'[g] = home[g] /\ movable'[g] = movable[g]
  BY <1>1, <1>2, Zenon
<1>8. Homes'
  <2> SUFFICES ASSUME NEW d \in Cores
               PROVE  /\ \A g \in Range(queue'[d]) : home'[g] = d
                      /\ current'[d] # None => home'[current'[d]] = d
                      /\ pc'[d] = "move" => home'[moving'[d]] = scan'[d]
                      /\ pc'[d] = "push" => home'[moving'[d]] = d
                      /\ moving'[d] # None => movable'[moving'[d]]
    BY Zenon DEF Homes
  <2>0. Homes /\ CoresInStep
    BY Zenon DEF SchedInv
  <2>1. ASSUME NEW g \in Range(queue'[d]) PROVE home'[g] = d
    <3>1. CASE g = f
      BY <1>3, <1>5, <1>7, <3>1, ZenonT(40)
    <3>2. CASE g # f
      <4>1. g \in Range(queue[d]) /\ g \in Fibers \ {f}
        BY <1>3, <1>4, <3>2, Zenon
      <4> QED BY <1>7, <2>0, <4>1 DEF Homes
    <3> QED BY <3>1, <3>2, Zenon
  <2>2. current'[d] # None => home'[current'[d]] = d
    BY <1>2, <1>5, <1>7, <2>0, ZenonT(40) DEF Homes
  <2>3. moving[d] # None => moving[d] \in Fibers \ {f}
    BY <1>2, <1>5, Zenon
  <2>4. pc[d] \in {"move", "push"} => moving[d] # None
    BY <2>0, Zenon DEF CoresInStep
  <2>5. /\ pc'[d] = "move" => home'[moving'[d]] = scan'[d]
        /\ pc'[d] = "push" => home'[moving'[d]] = d
    BY <1>7, <2>0, <2>3, <2>4 DEF Homes
  <2>6. moving'[d] # None => movable'[moving'[d]]
    BY <1>7, <2>0, <2>3, Zenon DEF Homes
  <2> QED BY <2>1, <2>2, <2>5, <2>6, Zenon
<1>9. Once'
  <2>1. Once
    BY Zenon DEF SchedInv
  <2>2. current' = current /\ moving' = moving /\ f # None
    BY Zenon
  <2>3. \A d \in Cores : current'[d] \notin Range(queue'[d]) /\ \A k \in Cores : moving'[k] \notin Range(queue'[d])
    BY <1>3, <1>5, <2>1, <2>2, ZenonT(40) DEF Once
  <2> QED BY <1>6, <2>1, <2>2, <2>3, Zenon DEF Once
<1>10. Alive'
  <2>1. ASSUME NEW g \in Fibers \ {f} PROVE Somewhere(g)' <=> Somewhere(g)
    BY <1>3, Zenon DEF Somewhere
  <2>2. Somewhere(f)'
    BY <1>3, Zenon DEF Somewhere
  <2>3. Alive
    BY Zenon DEF SchedInv
  <2> QED BY <1>1, <2>1, <2>2, <2>3, Zenon DEF Alive
<1> QED BY <1>8, <1>9, <1>10, Zenon

LEMMA AdmitTypes ==
    ASSUME SchedInv, NEW c \in Cores, NEW f \in Fibers, NEW mv \in BOOLEAN, Admit(c, f, mv)
    PROVE  /\ live' \subseteq Fibers /\ state' \in [Fibers -> States]
           /\ bits' \in [Fibers -> BOOLEAN] /\ movable' \in [Fibers -> BOOLEAN] /\ home' \in [Fibers -> Cores]
           /\ queue' \in [Cores -> Seq(Fibers)] /\ count' \in [Cores -> Nat]
<1>1. queue' \in [Cores -> Seq(Fibers)]
  BY AppendFacts, Zenon DEF Admit, SchedInv, Typed, TypeOK
<1>2. count' \in [Cores -> Nat]
  BY SMTT(40) DEF Admit, SchedInv, Typed, TypeOK
<1>3. live' \subseteq Fibers /\ state' \in [Fibers -> States] /\ home' \in [Fibers -> Cores]
  BY Zenon DEF Admit, States, SchedInv, Typed, TypeOK
<1>4. bits' \in [Fibers -> BOOLEAN] /\ movable' \in [Fibers -> BOOLEAN]
  BY Zenon DEF Admit, SchedInv, Typed, TypeOK
<1> QED BY <1>1, <1>2, <1>3, <1>4, Zenon

LEMMA TopFiberStep ==
    ASSUME SchedInv, NEW c \in Cores, pc[c] \in {"top", "between"}, TakesHead(c), Head(inbox) \in Fibers, AdmitHead(c),
           UNCHANGED pc \/ (pc[c] = "between" /\ pc' = [pc EXCEPT ![c] = "run"])
    PROVE  SchedInv'
<1> USE CoresAssumption, SetsAssumption
<1>1. Typed /\ TypeOK /\ CoresInStep /\ InboxNew
  BY Zenon DEF SchedInv, Typed
<1>2. inbox # <<>> /\ inbox' = Tail(inbox) /\ starved' = FALSE
  BY Zenon DEF TakesHead, AdmitHead, TakeHead
<1>3. /\ inbox' \in Seq(Fibers \cup Intents) /\ IsInjective(inbox') /\ Head(inbox) \in Range(inbox)
      /\ Head(inbox) \notin Range(inbox') /\ Range(inbox') \subseteq Range(inbox)
  BY <1>1, <1>2, TailFacts, Zenon DEF InboxNew, TypeOK
<1>4. Head(inbox) \notin live
  BY <1>1, <1>3, Zenon DEF InboxNew
<1>5. UNCHANGED <<current, moving, active, native, idle, irq, scan, sig>>
  BY Zenon DEF AdmitHead
<1>6. \A k \in Cores : pc'[k] \in {"move", "push"} => pc'[k] = pc[k]
  BY <1>1, Zenon DEF Typed
<1>7. pc' \in [Cores -> Places]
  BY <1>1, ZenonT(40) DEF Typed, Places
<1>8. CoresInStep'
  BY <1>1, <1>5 DEF CoresInStep, Typed
<1>9. CASE Admit(c, Head(inbox), TRUE)
  <2>1. Homes' /\ Once' /\ Alive'
    BY <1>4, <1>5, <1>6, <1>9, AdmitStep, Zenon
  <2>2. Typed'
    BY <1>1, <1>2, <1>3, <1>5, <1>7, <1>9, AdmitTypes, Zenon DEF Typed, TypeOK
  <2>3. InboxNew'
    BY <1>1, <1>3, <1>9, Zenon DEF InboxNew, Admit
  <2> QED BY <1>8, <2>1, <2>2, <2>3, Zenon DEF SchedInv
<1>10. CASE UNCHANGED <<fiberVars, count, queue>>
  <2>1. Homes' /\ Once' /\ Alive'
    <3>1. \A k \in Cores : moving[k] # None => movable'[moving[k]]
      BY <1>10, Zenon DEF SchedInv, Homes, fiberVars
    <3> QED BY <1>5, <1>6, <1>10, <3>1, Stay, Zenon DEF fiberVars
  <2>2. Typed'
    BY <1>1, <1>2, <1>3, <1>5, <1>7, <1>10, Zenon DEF Typed, TypeOK, fiberVars
  <2>3. InboxNew'
    BY <1>1, <1>3, <1>10, Zenon DEF InboxNew, fiberVars
  <2> QED BY <1>8, <2>1, <2>2, <2>3, Zenon DEF SchedInv
<1> QED BY <1>9, <1>10, Zenon DEF AdmitHead

LEMMA PlaceStep == ASSUME SchedInv, NEW s \in Signallers, Place(s) PROVE SchedInv'
<1> USE CoresAssumption, SetsAssumption
<1>1. Typed /\ TypeOK /\ CoresInStep /\ InboxNew
  BY Zenon DEF SchedInv, Typed
<1>2. PICK f \in Placed \ live, c \in Cores : Admit(c, f, FALSE) /\ Step(s, "wake", f, c)
  BY Zenon DEF Place
<1>3. UNCHANGED <<inbox, starved, current, moving, active, native, idle, irq, pc, scan>> /\ f \in Fibers
  BY Zenon DEF Place
<1>4. Homes' /\ Once' /\ Alive'
  BY <1>2, <1>3, AdmitStep, Zenon
<1>5. sig' = [sig EXCEPT ![s] = [at |-> "wake", fiber |-> f, core |-> c]]
  BY <1>2, Zenon DEF Step
<1>6. sig' \in [Signallers -> [at : {"rest", "core", "wake", "wakeAll"}, fiber : Fibers \cup {None}, core : Cores]]
  BY <1>1, <1>3, <1>5, Zenon DEF Typed
<1>7. \A k \in Signallers : sig'[k].at \in {"core", "wake"} => sig'[k].fiber \in Fibers
  BY <1>1, <1>3, <1>5, Zenon DEF Typed
<1>8. Typed'
  BY <1>1, <1>2, <1>3, <1>6, <1>7, AdmitTypes, Zenon DEF Typed, TypeOK
<1>9. CoresInStep'
  BY <1>1, <1>3, Zenon DEF CoresInStep
<1>10. InboxNew'
  BY <1>1, <1>2, <1>3, Zenon DEF InboxNew, Admit
<1> QED BY <1>4, <1>8, <1>9, <1>10, Zenon DEF SchedInv

\* The i-th fiber leaves the queue of core v.
LEMMA Leaves ==
    ASSUME SchedInv, NEW v \in Cores, NEW i \in DOMAIN queue[v], queue' = [queue EXCEPT ![v] = Without(queue[v], i)]
    PROVE  /\ queue' \in [Cores -> Seq(Fibers)] /\ queue[v][i] \in Fibers /\ queue[v][i] \in Range(queue[v])
           /\ \A d \in Cores : /\ Range(queue'[d]) = IF d = v THEN Range(queue[d]) \ {queue[v][i]} ELSE Range(queue[d])
                               /\ IsInjective(queue'[d])
                               /\ Len(queue'[d]) = IF d = v THEN Len(queue[d]) - 1 ELSE Len(queue[d])
<1>1. queue \in [Cores -> Seq(Fibers)] /\ \A d \in Cores : IsInjective(queue[d])
  BY Zenon DEF SchedInv, Typed, TypeOK, Once
<1>2. /\ Without(queue[v], i) \in Seq(Fibers) /\ Len(Without(queue[v], i)) = Len(queue[v]) - 1
      /\ queue[v][i] \in Fibers /\ queue[v][i] \in Range(queue[v])
      /\ IsInjective(Without(queue[v], i))
      /\ Range(Without(queue[v], i)) = Range(queue[v]) \ {queue[v][i]}
  BY <1>1, RemoveFacts
<1>3. queue'[v] = Without(queue[v], i) /\ \A d \in Cores \ {v} : queue'[d] = queue[d]
  BY <1>1, Zenon
<1> QED BY <1>1, <1>2, <1>3, Zenon

\* A fiber joins the queue of core v.
LEMMA Joins ==
    ASSUME SchedInv, NEW v \in Cores, NEW f \in Fibers, f \notin Range(queue[v]),
           queue' = [queue EXCEPT ![v] = Append(queue[v], f)]
    PROVE  /\ queue' \in [Cores -> Seq(Fibers)]
           /\ \A d \in Cores : /\ Range(queue'[d]) = IF d = v THEN Range(queue[d]) \cup {f} ELSE Range(queue[d])
                               /\ IsInjective(queue'[d])
                               /\ Len(queue'[d]) = IF d = v THEN Len(queue[d]) + 1 ELSE Len(queue[d])
<1>1. queue \in [Cores -> Seq(Fibers)] /\ \A d \in Cores : IsInjective(queue[d])
  BY Zenon DEF SchedInv, Typed, TypeOK, Once
<1>2. /\ Append(queue[v], f) \in Seq(Fibers) /\ Len(Append(queue[v], f)) = Len(queue[v]) + 1
      /\ IsInjective(Append(queue[v], f)) /\ Range(Append(queue[v], f)) = Range(queue[v]) \cup {f}
  BY <1>1, AppendFacts
<1>3. queue'[v] = Append(queue[v], f) /\ \A d \in Cores \ {v} : queue'[d] = queue[d]
  BY <1>1, Zenon
<1> QED BY <1>1, <1>2, <1>3, Zenon

LEMMA PickStep == ASSUME SchedInv, NEW c \in Cores, Pick(c) PROVE SchedInv'
<1> USE CoresAssumption, SetsAssumption
<1>1. Typed /\ TypeOK /\ CoresInStep /\ InboxNew /\ Homes /\ Once /\ Alive
  BY Zenon DEF SchedInv, Typed
<1>2. PICK i \in DOMAIN queue[c] :
        /\ current' = [current EXCEPT ![c] = queue[c][i]]
        /\ queue' = [queue EXCEPT ![c] = Without(queue[c], i)]
        /\ bits' = [bits EXCEPT ![queue[c][i]] = @ /\ state[queue[c][i]] = "ready"]
        /\ state' = [state EXCEPT ![queue[c][i]] = "ready"]
  BY Zenon DEF Pick
<1> DEFINE f == queue[c][i]
<1>3. /\ UNCHANGED <<inbox, starved, live, home, movable, count, moving, active, native, idle, scan, sig>>
      /\ pc[c] = "run" /\ pc' = [pc EXCEPT ![c] = "fiber"]
  BY Zenon DEF Pick, At, Goto
<1>4. irq' \in [Cores -> BOOLEAN]
  <2>1. irq' = irq \/ Invite(c)
    BY Zenon DEF Pick
  <2> QED BY <1>1, <2>1, Zenon DEF Invite, Invitable, TypeOK
<1>5. /\ queue' \in [Cores -> Seq(Fibers)] /\ f \in Fibers /\ f \in Range(queue[c])
      /\ \A d \in Cores : /\ Range(queue'[d]) = IF d = c THEN Range(queue[d]) \ {f} ELSE Range(queue[d])
                          /\ IsInjective(queue'[d])
  BY <1>2, Leaves, Zenon
<1> HIDE DEF f
<1>6. current'[c] = f /\ (\A d \in Cores \ {c} : current'[d] = current[d]) /\ current[c] = None
  BY <1>1, <1>2, <1>3, ZenonT(40) DEF f, TypeOK, CoresInStep
<1>7. Typed'
  <2>1. bits' \in [Fibers -> BOOLEAN] /\ state' \in [Fibers -> States]
    BY <1>1, <1>2, <1>5, Zenon DEF f, TypeOK, States
  <2>2. current' \in [Cores -> Fibers \cup {None}]
    BY <1>1, <1>2, <1>5, Zenon DEF f, TypeOK
  <2>3. pc' \in [Cores -> Places]
    BY <1>1, <1>3, ZenonT(40) DEF Typed, Places
  <2> QED BY <1>1, <1>3, <1>4, <1>5, <2>1, <2>2, <2>3, Zenon DEF Typed, TypeOK
<1>8. CoresInStep'
  BY <1>1, <1>3, <1>5, <1>6, SMTT(40) DEF Typed, CoresInStep
<1>9. Homes'
  <2>1. \A d \in Cores : pc'[d] \in {"move", "push"} => pc'[d] = pc[d]
    BY <1>1, <1>3, Zenon DEF Typed
  <2>2. home[f] = c
    BY <1>1, <1>5, Zenon DEF Homes
  <2> QED BY <1>1, <1>3, <1>5, <1>6, <2>1, <2>2, SMTT(40) DEF Homes
<1>10. Once'
  BY <1>1, <1>3, <1>5, <1>6, ZenonT(40) DEF Once
<1>11. Alive'
  <2>1. ASSUME NEW g \in Fibers PROVE Somewhere(g)' <=> Somewhere(g)
    BY <1>3, <1>5, <1>6, Zenon DEF Somewhere
  <2> QED BY <1>1, <1>3, <2>1, Zenon DEF Alive
<1>12. InboxNew'
  BY <1>1, <1>3, Zenon DEF InboxNew
<1> QED BY <1>7, <1>8, <1>9, <1>10, <1>11, <1>12, Zenon DEF SchedInv

LEMMA RequeueStep == ASSUME SchedInv, NEW c \in Cores, Requeue(c) PROVE SchedInv'
<1> USE CoresAssumption, SetsAssumption
<1>1. Typed /\ TypeOK /\ CoresInStep /\ InboxNew /\ Homes /\ Once /\ Alive
  BY Zenon DEF SchedInv, Typed
<1> DEFINE f == current[c]
<1>2. /\ queue' = [queue EXCEPT ![c] = Append(queue[c], f)] /\ current' = [current EXCEPT ![c] = None]
      /\ UNCHANGED <<inbox, starved, live, state, bits, home, movable, count, moving, active, native, idle, irq, scan, sig>>
      /\ pc[c] = "requeue" /\ pc' = [pc EXCEPT ![c] = "between"]
  BY Zenon DEF Requeue, At, Goto, fiberVars
<1>3. f \in Fibers /\ f \notin Range(queue[c])
  BY <1>1, <1>2, ZenonT(40) DEF CoresInStep, TypeOK, Once
<1>4. /\ queue' \in [Cores -> Seq(Fibers)]
      /\ \A d \in Cores : /\ Range(queue'[d]) = IF d = c THEN Range(queue[d]) \cup {f} ELSE Range(queue[d])
                          /\ IsInjective(queue'[d])
  BY <1>2, <1>3, Joins, Zenon
<1>5. current'[c] = None /\ (\A d \in Cores \ {c} : current'[d] = current[d]) /\ current[c] = f
  BY <1>1, <1>2, Zenon DEF TypeOK
<1> HIDE DEF f
<1>6. \A d \in Cores : Range(queue[d]) \subseteq Fibers
  BY <1>1, RangeTyped, Zenon DEF TypeOK
<1>7. Typed'
  <2>1. current' \in [Cores -> Fibers \cup {None}]
    BY <1>1, <1>2, Zenon DEF TypeOK
  <2>2. pc' \in [Cores -> Places]
    BY <1>1, <1>2, Zenon DEF Typed, Places
  <2> QED BY <1>1, <1>2, <1>4, <2>1, <2>2, Zenon DEF Typed, TypeOK
<1>8. CoresInStep'
  BY <1>1, <1>2, <1>5, ZenonT(40) DEF Typed, CoresInStep
<1>9. Homes'
  <2>1. \A d \in Cores : pc'[d] \in {"move", "push"} => pc'[d] = pc[d]
    BY <1>1, <1>2, Zenon DEF Typed
  <2>2. home[f] = c
    BY <1>1, <1>3, <1>5, ZenonT(40) DEF Homes
  <2>3. \A d \in Cores : \A g \in Range(queue'[d]) : home[g] = d
    BY <1>1, <1>4, <2>2 DEF Homes
  <2>4. \A d \in Cores : current'[d] # None => home[current'[d]] = d
    BY <1>1, <1>5, Zenon DEF Homes
  <2> QED BY <1>1, <1>2, <2>1, <2>3, <2>4 DEF Homes
<1>10. Once'
  <2>1. \A d \in Cores : moving[d] # f
    BY <1>1, <1>3, <1>5, Zenon DEF Once
  <2>2. \A d \in Cores : current'[d] \notin Range(queue'[d])
    BY <1>1, <1>3, <1>4, <1>5, <1>6, Zenon DEF Once
  <2>3. \A d, e \in Cores : /\ moving[e] \notin Range(queue'[d])
                            /\ moving[e] # None => moving[e] # current'[d]
                            /\ moving[e] # None /\ e # d => moving[e] # moving[d]
    BY <1>1, <1>4, <1>5, <2>1, ZenonT(40) DEF Once
  <2> QED BY <1>2, <1>4, <2>2, <2>3, Zenon DEF Once
<1>11. Alive'
  <2>1. ASSUME NEW g \in Fibers PROVE Somewhere(g)' <=> Somewhere(g)
    <3>1. \A d \in Cores : g \in Range(queue'[d]) <=> g \in Range(queue[d]) \/ (d = c /\ current[d] = g)
      BY <1>4, <1>5, ZenonT(40)
    <3>2. \A d \in Cores : current'[d] = g <=> current[d] = g /\ d # c
      BY <1>5, Zenon
    <3>3. \A d \in Cores : moving'[d] = moving[d]
      BY <1>2, Zenon
    <3> QED BY <3>1, <3>2, <3>3, Zenon DEF Somewhere
  <2> QED BY <1>1, <1>2, <2>1, Zenon DEF Alive
<1>12. InboxNew'
  BY <1>1, <1>2, Zenon DEF InboxNew
<1> QED BY <1>7, <1>8, <1>9, <1>10, <1>11, <1>12, Zenon DEF SchedInv

\* steal_for looks at the next core.
LEMMA StealNextStep ==
    ASSUME SchedInv, NEW c \in Cores, pc[c] = "lock",
           scan' = [scan EXCEPT ![c] = scan[c] + 1], pc' = [pc EXCEPT ![c] = "steal"],
           UNCHANGED <<inbox, starved, fiberVars, coreVars, idle, irq, sig>>
    PROVE  SchedInv'
<1> USE CoresAssumption, SetsAssumption
<1>1. Typed /\ TypeOK /\ CoresInStep /\ InboxNew /\ Homes
  BY Zenon DEF SchedInv, Typed
<1>2. scan[c] \in Cores
  BY <1>1, Zenon DEF CoresInStep
<1>3. scan' \in [Cores -> 1 .. NumCores + 1]
  <2>1. scan[c] + 1 \in 1 .. NumCores + 1
    BY ONLY CoresAssumption, <1>2 DEF Cores
  <2> QED BY <1>1, <2>1, Zenon DEF TypeOK
<1>4. pc' \in [Cores -> Places]
  BY <1>1, Zenon DEF Typed, Places
<1>5. Typed'
  BY <1>1, <1>3, <1>4, ZenonT(40) DEF Typed, TypeOK, fiberVars, coreVars
<1>6. CoresInStep'
  BY <1>1 DEF Typed, TypeOK, CoresInStep, coreVars
<1>7. InboxNew'
  BY <1>1, Zenon DEF InboxNew, fiberVars
<1>8. Homes' /\ Once' /\ Alive'
  <2>1. \A k \in Cores : /\ pc'[k] \in {"move", "push"} => pc'[k] = pc[k] /\ scan'[k] = scan[k]
                         /\ moving[k] # None => movable'[moving[k]]
    BY <1>1, ZenonT(40) DEF Typed, TypeOK, Homes, fiberVars
  <2> QED BY <2>1, Stay, Zenon DEF fiberVars, coreVars
<1> QED BY <1>5, <1>6, <1>7, <1>8, Zenon DEF SchedInv

LEMMA StealTakeStep == ASSUME SchedInv, NEW c \in Cores, StealTake(c) PROVE SchedInv'
<1> USE CoresAssumption, SetsAssumption
<1>1. Typed /\ TypeOK /\ CoresInStep /\ InboxNew /\ Homes /\ Once /\ Alive
  BY Zenon DEF SchedInv, Typed
<1> DEFINE v == scan[c]
<1>2. /\ UNCHANGED <<inbox, starved, live, state, bits, home, movable, count, current, active, native, idle, irq, sig>>
      /\ pc[c] = "lock" /\ v \in Cores \ {c}
  BY <1>1, Zenon DEF StealTake, At, fiberVars, CoresInStep
<1>3. CASE \E i \in DOMAIN queue[v] :
               /\ FirstIn(queue[v], i, {g \in Fibers : Stealable(g)})
               /\ moving' = [moving EXCEPT ![c] = queue[v][i]]
               /\ queue' = [queue EXCEPT ![v] = Without(queue[v], i)]
               /\ pc' = [pc EXCEPT ![c] = "move"] /\ scan' = scan
  <2>1. PICK i \in DOMAIN queue[v] :
               /\ Stealable(queue[v][i])
               /\ moving' = [moving EXCEPT ![c] = queue[v][i]]
               /\ queue' = [queue EXCEPT ![v] = Without(queue[v], i)]
               /\ pc' = [pc EXCEPT ![c] = "move"] /\ scan' = scan
    BY <1>3, Zenon DEF FirstIn
  <2> DEFINE f == queue[v][i]
  <2>2. /\ queue' \in [Cores -> Seq(Fibers)] /\ f \in Fibers /\ f \in Range(queue[v])
        /\ \A d \in Cores : /\ Range(queue'[d]) = IF d = v THEN Range(queue[d]) \ {f} ELSE Range(queue[d])
                            /\ IsInjective(queue'[d])
    BY <1>2, <2>1, Leaves, ZenonT(40)
  <2>3. movable[f] /\ home[f] = v
    BY <1>1, <1>2, <2>1, <2>2 DEF Stealable, Homes
  <2> HIDE DEF f, v
  <2>4. moving'[c] = f /\ (\A d \in Cores \ {c} : moving'[d] = moving[d]) /\ moving[c] = None
    <3>1. moving[c] = None
      BY <1>1, <1>2, Zenon DEF CoresInStep
    <3> QED BY <1>1, <2>1, <3>1, Zenon DEF f, TypeOK
  <2>5. pc'[c] = "move" /\ \A d \in Cores \ {c} : pc'[d] = pc[d]
    BY <1>1, <2>1, Zenon DEF Typed
  <2>6. Typed'
    <3>1. moving' \in [Cores -> Fibers \cup {None}]
      BY <1>1, <2>1, <2>2, Zenon DEF f, TypeOK
    <3>2. pc' \in [Cores -> Places]
      BY <1>1, <2>1, Zenon DEF Typed, Places
    <3> QED BY <1>1, <1>2, <2>1, <2>2, <3>1, <3>2, Zenon DEF Typed, TypeOK
  <2>7. CoresInStep'
    <3>1. scan'[c] \in Cores \ {c} /\ \A d \in Cores : scan'[d] = scan[d] /\ idle'[d] = idle[d] /\ current'[d] = current[d]
      BY <1>2, <2>1, Zenon DEF v
    <3>2. current[c] = None /\ ~idle[c] /\ f # None
      BY <1>1, <1>2, <2>2, SetsAssumption, ZenonT(40) DEF CoresInStep
    <3>3. ASSUME NEW d \in Cores, d # c
          PROVE  pc'[d] = pc[d] /\ scan'[d] = scan[d] /\ idle'[d] = idle[d] /\ current'[d] = current[d] /\ moving'[d] = moving[d]
      BY <2>4, <2>5, <3>1, <3>3, Zenon
    <3>4. pc'[c] = "move" /\ moving'[c] # None /\ current'[c] = None /\ ~idle'[c]
      BY <2>4, <2>5, <3>1, <3>2, Zenon
    <3>5. ASSUME NEW d \in Cores
          PROVE  /\ current'[d] # None <=> pc'[d] \in {"fiber", "requeue"}
                 /\ moving'[d] # None <=> pc'[d] \in {"move", "push"}
                 /\ pc'[d] \in {"lock", "move"} => scan'[d] \in Cores \ {d}
                 /\ idle'[d] <=> pc'[d] \in {"look", "inbox", "halt", "nap"}
      <4>1. CASE d = c
        BY <3>1, <3>4, <4>1, Zenon
      <4>2. CASE d # c
        BY <1>1, <3>3, <4>2, ZenonT(40) DEF CoresInStep
      <4> QED BY <4>1, <4>2, Zenon
    <3> QED BY <3>5, Zenon DEF CoresInStep
  <2>8. Homes'
    <3>1. \A d \in Cores : (\A g \in Range(queue'[d]) : home[g] = d) /\ (current[d] # None => home[current[d]] = d)
      BY <1>1, <2>2 DEF Homes
    <3>2. \A d \in Cores : /\ pc'[d] = "move" => home[moving'[d]] = scan[d]
                           /\ pc'[d] = "push" => home[moving'[d]] = d
                           /\ moving'[d] # None => movable[moving'[d]]
      BY <1>1, <2>3, <2>4, <2>5 DEF Homes, v
    <3> QED BY <1>2, <2>1, <3>1, <3>2, Zenon DEF Homes
  <2>9. Once'
    <3>1. \A d \in Cores : current[d] # f
      BY <1>1, <1>2, <2>2, <2>3 DEF Once, Homes
    <3>2. \A d \in Cores : moving[d] # f
      BY <1>1, <1>2, <2>2, ZenonT(40) DEF Once
    <3>3. \A d \in Cores : f \notin Range(queue'[d])
      BY <1>1, <2>2, <2>3 DEF Homes
    <3>4. \A d \in Cores : current[d] \notin Range(queue'[d]) /\ IsInjective(queue'[d])
      BY <1>1, <2>2, ZenonT(40) DEF Once
    <3>5. \A d, e \in Cores : /\ moving'[e] \notin Range(queue'[d])
                              /\ moving'[e] # None => moving'[e] # current[d]
                              /\ moving'[e] # None /\ e # d => moving'[e] # moving'[d]
      BY <1>1, <2>2, <2>4, <3>1, <3>2, <3>3, SMTT(40) DEF Once
    <3> QED BY <1>2, <3>4, <3>5, Zenon DEF Once
  <2>10. Alive'
    <3>1. ASSUME NEW g \in Fibers PROVE Somewhere(g)' <=> Somewhere(g)
      <4>1. \A d \in Cores : g \in Range(queue'[d]) <=> g \in Range(queue[d]) /\ ~(d = v /\ g = f)
        BY <2>2, Zenon
      <4>2. \A d \in Cores : moving'[d] = g <=> moving[d] = g \/ (d = c /\ g = f)
        BY <2>4, Zenon
      <4>3. \A d \in Cores : current'[d] = current[d]
        BY <1>2, Zenon
      <4> QED BY <1>2, <2>2, <4>1, <4>2, <4>3 DEF Somewhere
    <3> QED BY <1>1, <1>2, <3>1, Zenon DEF Alive
  <2>11. InboxNew'
    BY <1>1, <1>2, Zenon DEF InboxNew
  <2> QED BY <2>6, <2>7, <2>8, <2>9, <2>10, <2>11, Zenon DEF SchedInv
<1>4. CASE scan' = [scan EXCEPT ![c] = scan[c] + 1] /\ pc' = [pc EXCEPT ![c] = "steal"] /\ UNCHANGED <<moving, queue>>
  BY <1>2, <1>4, StealNextStep, Zenon DEF fiberVars, coreVars
<1> QED BY <1>3, <1>4, Zenon DEF StealTake, Goto

LEMMA StealMoveStep ==
    ASSUME SchedInv, NEW c \in Cores, StealMove(c), count' \in [Cores -> Nat]
    PROVE  SchedInv'
<1> USE CoresAssumption, SetsAssumption
<1>1. Typed /\ TypeOK /\ CoresInStep /\ InboxNew /\ Homes /\ Once /\ Alive
  BY Zenon DEF SchedInv, Typed
<1> DEFINE f == moving[c]
<1>2. /\ UNCHANGED <<inbox, starved, live, state, bits, movable, queue, current, moving, active, native, idle, irq, scan, sig>>
      /\ pc[c] = "move" /\ pc' = [pc EXCEPT ![c] = "push"] /\ home' = [home EXCEPT ![f] = c]
  BY Zenon DEF StealMove, At, Goto
<1>3. f \in Fibers /\ f # None
  BY <1>1, <1>2, ZenonT(40) DEF CoresInStep, TypeOK
<1>4. \A d \in Cores : f \notin Range(queue[d]) /\ current[d] # f /\ (d # c => moving[d] # f)
  BY <1>1, <1>3, Zenon DEF Once
<1>5. moving[c] = f
  BY Zenon
<1> HIDE DEF f
<1>6. home'[f] = c /\ \A g \in Fibers \ {f} : home'[g] = home[g]
  BY <1>1, <1>2, <1>3, Zenon DEF TypeOK
<1>7. Typed'
  <2>1. home' \in [Fibers -> Cores]
    BY <1>1, <1>2, Zenon DEF TypeOK
  <2>2. pc' \in [Cores -> Places]
    BY <1>1, <1>2, Zenon DEF Typed, Places
  <2> QED BY <1>1, <1>2, <2>1, <2>2, Zenon DEF Typed, TypeOK
<1>8. pc'[c] = "push" /\ \A d \in Cores \ {c} : pc'[d] = pc[d]
  BY <1>1, <1>2, Zenon DEF Typed
<1>9. CoresInStep'
  BY <1>1, <1>2, <1>8, ZenonT(40) DEF CoresInStep
<1>10. Homes'
  <2>1. \A d \in Cores : \A g \in Range(queue[d]) : home'[g] = d
    <3>1. \A d \in Cores : Range(queue[d]) \subseteq Fibers \ {f}
      BY <1>1, <1>4, RangeTyped DEF TypeOK
    <3> QED BY <1>1, <1>6, <3>1, ZenonT(40) DEF Homes
  <2>2. \A d \in Cores : current[d] # None => home'[current[d]] = d
    BY <1>1, <1>4, <1>6, Zenon DEF Homes, TypeOK
  <2>3. \A d \in Cores \ {c} : moving[d] # None => home'[moving[d]] = home[moving[d]]
    BY <1>1, <1>4, <1>6, ZenonT(40) DEF TypeOK
  <2>4. \A d \in Cores : /\ pc'[d] = "move" => home'[moving[d]] = scan[d]
                         /\ pc'[d] = "push" => home'[moving[d]] = d
    BY <1>1, <1>5, <1>6, <1>8, <2>3 DEF Homes, CoresInStep
  <2> QED BY <1>1, <1>2, <2>1, <2>2, <2>4 DEF Homes
<1>11. Once' /\ Alive' /\ InboxNew'
  BY <1>1, <1>2, ZenonT(40) DEF Once, Alive, Somewhere, InboxNew
<1> QED BY <1>7, <1>9, <1>10, <1>11, Zenon DEF SchedInv

LEMMA StealPushStep == ASSUME SchedInv, NEW c \in Cores, StealPush(c) PROVE SchedInv'
<1> USE CoresAssumption, SetsAssumption
<1>1. Typed /\ TypeOK /\ CoresInStep /\ InboxNew /\ Homes /\ Once /\ Alive
  BY Zenon DEF SchedInv, Typed
<1> DEFINE f == moving[c]
<1>2. /\ queue' = [queue EXCEPT ![c] = Append(queue[c], f)] /\ moving' = [moving EXCEPT ![c] = None]
      /\ UNCHANGED <<inbox, starved, live, state, bits, home, movable, count, current, active, native, idle, irq, sig>>
      /\ pc[c] = "push" /\ pc' = [pc EXCEPT ![c] = "top"] /\ scan' = [scan EXCEPT ![c] = 1]
  BY Zenon DEF StealPush, At, Goto, fiberVars
<1>3. f \in Fibers /\ f # None
  BY <1>1, <1>2, ZenonT(40) DEF CoresInStep, TypeOK
<1>4. \A d \in Cores : f \notin Range(queue[d]) /\ current[d] # f /\ (d # c => moving[d] # f)
  BY <1>1, <1>3, Zenon DEF Once
<1>5. /\ queue' \in [Cores -> Seq(Fibers)]
      /\ \A d \in Cores : /\ Range(queue'[d]) = IF d = c THEN Range(queue[d]) \cup {f} ELSE Range(queue[d])
                          /\ IsInjective(queue'[d])
  BY <1>2, <1>3, <1>4, Joins, Zenon
<1>6. moving'[c] = None /\ (\A d \in Cores \ {c} : moving'[d] = moving[d]) /\ moving[c] = f
  BY <1>1, <1>2, Zenon DEF TypeOK
<1>7. home[f] = c
  BY <1>1, <1>2, Zenon DEF Homes
<1> HIDE DEF f
<1>8. \A d \in Cores : Range(queue[d]) \subseteq Fibers
  BY <1>1, RangeTyped, Zenon DEF TypeOK
<1>9. pc'[c] = "top" /\ \A d \in Cores \ {c} : pc'[d] = pc[d] /\ scan'[d] = scan[d]
  BY <1>1, <1>2, Zenon DEF Typed, TypeOK
<1>10. Typed'
  <2>1. moving' \in [Cores -> Fibers \cup {None}]
    BY <1>1, <1>2, Zenon DEF TypeOK
  <2>2. pc' \in [Cores -> Places]
    BY <1>1, <1>2, ZenonT(40) DEF Typed, Places
  <2>3. scan' \in [Cores -> 1 .. NumCores + 1]
    BY <1>1, <1>2, SMTT(40) DEF TypeOK
  <2> QED BY <1>1, <1>2, <1>5, <2>1, <2>2, <2>3, ZenonT(40) DEF Typed, TypeOK
<1>11. CoresInStep'
  BY <1>1, <1>2, <1>6, <1>9 DEF CoresInStep
<1>12. Homes'
  <2>1. \A d \in Cores : \A g \in Range(queue'[d]) : home[g] = d
    BY <1>1, <1>5, <1>7 DEF Homes
  <2>2. \A d \in Cores : /\ pc'[d] = "move" => home[moving'[d]] = scan'[d]
                         /\ pc'[d] = "push" => home[moving'[d]] = d
                         /\ moving'[d] # None => movable[moving'[d]]
    BY <1>1, <1>6, <1>9 DEF Homes
  <2> QED BY <1>1, <1>2, <2>1, <2>2, ZenonT(40) DEF Homes
<1>13. Once'
  <2>1. \A d \in Cores : current[d] \notin Range(queue'[d])
    BY <1>1, <1>4, <1>5, Zenon DEF Once
  <2>2. None \notin Fibers
    BY ZenonT(40)
  <2>3. \A d, e \in Cores : /\ moving'[e] \notin Range(queue'[d])
                            /\ moving'[e] # None => moving'[e] # current[d]
                            /\ moving'[e] # None /\ e # d => moving'[e] # moving'[d]
    BY <1>1, <1>3, <1>4, <1>5, <1>6, <1>8, <2>2, SMTT(40) DEF Once
  <2> QED BY <1>2, <1>5, <2>1, <2>3, Zenon DEF Once
<1>14. Alive'
  <2>1. ASSUME NEW g \in Fibers PROVE Somewhere(g)' <=> Somewhere(g)
    <3>1. \A d \in Cores : g \in Range(queue'[d]) <=> g \in Range(queue[d]) \/ (d = c /\ moving[d] = g)
      BY <1>5, <1>6, ZenonT(40)
    <3>2. \A d \in Cores : moving'[d] = g <=> moving[d] = g /\ d # c
      BY <1>6, Zenon
    <3>3. \A d \in Cores : current'[d] = current[d]
      BY <1>2, Zenon
    <3> QED BY <3>1, <3>2, <3>3, ZenonT(40) DEF Somewhere
  <2> QED BY <1>1, <1>2, <2>1, Zenon DEF Alive
<1>15. InboxNew'
  BY <1>1, <1>2, Zenon DEF InboxNew
<1> QED BY <1>10, <1>11, <1>12, <1>13, <1>14, <1>15, Zenon DEF SchedInv

LEMMA FinishStep ==
    ASSUME SchedInv, NEW c \in Cores, Finish(c), count' \in [Cores -> Nat]
    PROVE  SchedInv'
<1> USE CoresAssumption, SetsAssumption
<1>1. Typed /\ TypeOK /\ CoresInStep /\ InboxNew /\ Homes /\ Once /\ Alive
  BY Zenon DEF SchedInv, Typed
<1>0. PICK f : f = current[c]
  BY Zenon
<1>2. /\ UNCHANGED <<inbox, starved, state, queue, moving, active, native, idle, irq, scan, sig>>
      /\ pc[c] = "fiber" /\ pc' = [pc EXCEPT ![c] = "between"]
      /\ live' = live \ {f} /\ bits' = [bits EXCEPT ![f] = FALSE] /\ movable' = [movable EXCEPT ![f] = FALSE]
      /\ home' = [home EXCEPT ![f] = 1] /\ current' = [current EXCEPT ![c] = None]
  BY <1>0, ZenonT(40) DEF Finish, At, Goto
<1>3. f \in Fibers /\ f # None /\ home[f] = c
  BY <1>0, <1>1, <1>2 DEF CoresInStep, TypeOK, Homes
<1>4. current'[c] = None /\ (\A d \in Cores \ {c} : current'[d] = current[d]) /\ current[c] = f
  BY <1>0, <1>1, <1>2, ZenonT(40) DEF TypeOK
<1>5. \A d \in Cores : f \notin Range(queue[d]) /\ moving[d] # f /\ (d # c => current[d] # f)
  BY <1>1, <1>3, <1>4 DEF Once, Homes
<1>6. \A g \in Fibers \ {f} : home'[g] = home[g] /\ movable'[g] = movable[g]
  BY <1>1, <1>2, ZenonT(40) DEF TypeOK
<1>7. \A d \in Cores : Range(queue[d]) \subseteq Fibers \ {f}
  BY <1>1, <1>5, RangeTyped DEF TypeOK
<1>8. pc'[c] = "between" /\ \A d \in Cores \ {c} : pc'[d] = pc[d]
  BY <1>1, <1>2, Zenon DEF Typed
<1>9. Typed'
  <2>0. 1 \in Cores
    BY DEF Cores
  <2>1. current' \in [Cores -> Fibers \cup {None}] /\ home' \in [Fibers -> Cores] /\ live' \subseteq Fibers
    BY <1>1, <1>2, <2>0, Zenon DEF TypeOK
  <2>2. pc' \in [Cores -> Places]
    BY <1>1, <1>2, Zenon DEF Typed, Places
  <2>3. bits' \in [Fibers -> BOOLEAN] /\ movable' \in [Fibers -> BOOLEAN]
    BY <1>1, <1>2, ZenonT(40) DEF TypeOK
  <2> QED BY <1>1, <1>2, <2>1, <2>2, <2>3, ZenonT(40) DEF Typed, TypeOK
<1>10. CoresInStep'
  BY <1>1, <1>2, <1>4, <1>8 DEF CoresInStep
<1>11. Homes'
  <2>1. \A d \in Cores : \A g \in Range(queue[d]) : home'[g] = d
    BY <1>1, <1>6, <1>7, Zenon DEF Homes
  <2>2. \A d \in Cores : current'[d] # None => home'[current'[d]] = d
    <3>1. \A d \in Cores \ {c} : current[d] # None => current[d] \in Fibers \ {f} /\ home[current[d]] = d
      BY <1>1, <1>5, Zenon DEF Homes, TypeOK
    <3> QED BY <1>4, <1>6, <3>1
  <2>3. \A d \in Cores : moving[d] # None => home'[moving[d]] = home[moving[d]] /\ movable'[moving[d]] = movable[moving[d]]
    BY <1>1, <1>5, <1>6, ZenonT(40) DEF TypeOK
  <2>4. \A d \in Cores : /\ pc'[d] = "move" => home'[moving[d]] = scan[d]
                         /\ pc'[d] = "push" => home'[moving[d]] = d
                         /\ moving[d] # None => movable'[moving[d]]
    BY <1>1, <1>8, <2>3 DEF Homes, CoresInStep
  <2> QED BY <1>2, <2>1, <2>2, <2>4, ZenonT(40) DEF Homes
<1>12. Once'
  <2>1. \A d \in Cores : current'[d] \notin Range(queue[d])
    BY <1>1, <1>4, <1>7, Zenon DEF Once
  <2>2. \A d, e \in Cores : moving[e] # None => moving[e] # current'[d]
    BY <1>1, <1>4, Zenon DEF Once
  <2> QED BY <1>1, <1>2, <2>1, <2>2, Zenon DEF Once
<1>13. Alive'
  <2>1. ASSUME NEW g \in Fibers \ {f} PROVE Somewhere(g)' <=> Somewhere(g)
    <3>1. \A d \in Cores : /\ current'[d] = g <=> current[d] = g
                           /\ queue'[d] = queue[d] /\ moving'[d] = moving[d]
      BY <1>2, <1>4, Zenon
    <3> QED BY <3>1, Zenon DEF Somewhere
  <2>2. ~Somewhere(f)'
    BY <1>2, <1>3, <1>4, <1>5, Zenon DEF Somewhere
  <2>3. \A g \in Fibers : g \in live' <=> g \in live /\ g # f
    BY <1>2, Zenon
  <2> QED BY <1>1, <2>1, <2>2, <2>3, Zenon DEF Alive
<1>14. InboxNew'
  BY <1>1, <1>2, Zenon DEF InboxNew
<1> QED BY <1>9, <1>10, <1>11, <1>12, <1>13, <1>14, ZenonT(40) DEF SchedInv

-----------------------------------------------------------------------------
(* Wake-ups.                                                               *)

\* A step of core c that leaves it outside the last look and the halt
LEMMA CoreWake ==
    ASSUME SchedInv, WakeupsKept, NoStrandedTask, NEW c \in Cores, sig' = sig,
           pc'[c] \notin {"inbox", "halt"}, inbox' # <<>> => inbox # <<>>,
           \A d \in Cores \ {c} : /\ pc'[d] = pc[d] /\ (irq[d] => irq'[d])
                                  /\ Range(queue'[d]) \subseteq Range(queue[d])
                                  /\ \A f \in Range(queue'[d]) : state'[f] = state[f] /\ bits'[f] = bits[f]
    PROVE  WakeupsKept' /\ NoStrandedTask'
<1>1. WakeupsKept'
  <2> SUFFICES ASSUME NEW d \in Cores, pc'[d] \in {"inbox", "halt"}, ~irq'[d],
                      NEW f \in Range(queue'[d]), Runnable(f)', state'[f] # "due"
               PROVE  Announced(d, f)'
    BY Zenon DEF WakeupsKept
  <2>1. d # c
    BY Zenon
  <2>2. pc[d] \in {"inbox", "halt"} /\ ~irq[d] /\ f \in Range(queue[d]) /\ state'[f] = state[f] /\ bits'[f] = bits[f]
    BY <2>1, Zenon
  <2>3. Announced(d, f)
    BY <2>2, Zenon DEF WakeupsKept, Runnable
  <2> QED BY <2>3, Zenon DEF Announced
<1>2. NoStrandedTask'
  BY Zenon DEF NoStrandedTask, At
<1> QED BY <1>1, <1>2, Zenon

\* What a core changes of a fiber of its own, no other core has in its queue.
LEMMA OwnFibers ==
    ASSUME SchedInv, NEW c \in Cores, NEW d \in Cores \ {c}, NEW f \in Range(queue[d])
    PROVE  f \notin Range(queue[c]) /\ f # current[c] /\ f \in Fibers
<1>1. f \in Fibers /\ home[f] = d /\ None \notin Fibers
  BY RangeTyped, SetsAssumption, ZenonT(40) DEF SchedInv, Typed, TypeOK, Homes
<1>2. f \notin Range(queue[c])
  BY <1>1, Zenon DEF SchedInv, Homes
<1>3. f # current[c]
  BY <1>1 DEF SchedInv, Homes
<1> QED BY <1>1, <1>2, <1>3, Zenon

\* The steps of a core that move no fiber
LEMMA QuietStep ==
    ASSUME WakeInv, NEW c \in Cores,
           \/ TopNative(c) \/ TopNothing(c) \/ NativeEnd(c) \/ Pump(c) \/ Park(c) \/ Yield(c) \/ RunNothing(c)
           \/ Scan(c) \/ GoIdle(c) \/ Wake(c) \/ WaitReturns(c) \/ Pin(c)
    PROVE  WakeInv'
<1> USE SetsAssumption
<1>1. SchedInv /\ WakeupsKept /\ NoStrandedTask /\ Typed /\ TypeOK /\ Homes /\ Once
  BY Zenon DEF WakeInv, SchedInv, Typed
<1>2. Typed' /\ CoresInStep' /\ InboxNew'
  BY <1>1, QuietTypes, HaltTypes, Zenon
<1>3. UNCHANGED <<live, home, queue, current, moving, sig>>
  BY Zenon DEF TopNative, TopNothing, NativeEnd, Pump, Park, Yield, RunNothing, Scan, GoIdle, Wake, WaitReturns, Pin,
         fiberVars, coreVars
<1>4. /\ pc[c] \notin {"move", "push"} /\ pc'[c] \notin {"move", "push", "inbox", "halt"}
      /\ \A d \in Cores \ {c} : pc'[d] = pc[d]
  BY <1>1, ZenonT(40) DEF TopNative, TopNothing, NativeEnd, Pump, Park, Yield, RunNothing, Scan, GoIdle, Wake, WaitReturns, Pin,
              At, Goto, Leave, Typed
<1>5. \A d \in Cores \ {c} : scan'[d] = scan[d]
  BY <1>1, Zenon DEF TopNative, TopNothing, NativeEnd, Pump, Park, Yield, RunNothing, Scan, GoIdle, Wake, WaitReturns, Pin,
              TypeOK
<1>6. \A k \in Cores : moving[k] # None => movable'[moving[k]]
  <2>1. movable' = movable \/ movable' = [movable EXCEPT ![current[c]] = FALSE]
    BY Zenon DEF TopNative, TopNothing, NativeEnd, Pump, Park, Yield, RunNothing, Scan, GoIdle, Wake, WaitReturns, Pin,
           fiberVars
  <2>2. \A k \in Cores : moving[k] # None => moving[k] # current[c] /\ moving[k] \in Fibers /\ movable[moving[k]]
    BY <1>1, Zenon DEF Once, Homes, TypeOK
  <2> QED BY <1>1, <2>1, <2>2, Zenon DEF TypeOK
<1>7. SchedInv'
  <2>1. \A k \in Cores : /\ pc'[k] \in {"move", "push"} => pc'[k] = pc[k] /\ scan'[k] = scan[k]
                         /\ moving[k] # None => movable'[moving[k]]
    BY <1>4, <1>5, <1>6, Zenon
  <2>2. Homes' /\ Once' /\ Alive'
    BY <1>1, <1>3, <2>1, Stay, Zenon
  <2> QED BY <1>2, <2>2, Zenon DEF SchedInv
<1>9. inbox' # <<>> => inbox # <<>>
  BY Zenon DEF TopNative, TakesHead, TopNothing, NativeEnd, Pump, Park, Yield, RunNothing, Scan, GoIdle, Wake, WaitReturns, Pin
<1>10. \A d \in Cores \ {c} : irq[d] => irq'[d]
  <2>1. \/ irq' = irq \/ irq' = [irq EXCEPT ![c] = FALSE]
        \/ \E k \in Cores : irq' = [irq EXCEPT ![k] = TRUE]
    BY SetsAssumption, Zenon DEF TopNative, TopNothing, NativeEnd, Pump, Park, Yield, Invite, Invitable, RunNothing,
           Scan, GoIdle, Wake, WaitReturns, Pin, Leave
  <2> QED BY <1>1, <2>1, ZenonT(40) DEF TypeOK
<1>11. \A f \in Fibers : f # current[c] => state'[f] = state[f] /\ bits'[f] = bits[f]
  BY <1>1, Zenon DEF TopNative, TopNothing, NativeEnd, Pump, Park, Yield, RunNothing, Scan, GoIdle, Wake, WaitReturns, Pin,
              fiberVars, TypeOK
<1>12. \A d \in Cores \ {c} : /\ Range(queue'[d]) \subseteq Range(queue[d])
                              /\ \A f \in Range(queue'[d]) : state'[f] = state[f] /\ bits'[f] = bits[f]
  BY <1>1, <1>3, <1>11, OwnFibers, Zenon
<1>13. WakeupsKept' /\ NoStrandedTask'
  BY <1>1, <1>3, <1>4, <1>9, <1>10, <1>12, CoreWake, ZenonT(40)
<1> QED BY <1>7, <1>13, Zenon DEF WakeInv

\* The last look before the halt: what is runnable then keeps the core awake.
LEMMA LookStep ==
    ASSUME WakeInv, NEW c \in Cores, Look(c) \/ LookInbox(c)
    PROVE  WakeInv'
<1> USE SetsAssumption
<1>1. SchedInv /\ WakeupsKept /\ NoStrandedTask /\ Typed /\ TypeOK /\ Homes
  BY Zenon DEF WakeInv, SchedInv, Typed
<1>2. Typed' /\ CoresInStep' /\ InboxNew'
  BY <1>1, HaltTypes, Zenon
<1>3. UNCHANGED <<inbox, live, home, queue, current, moving, sig, movable, scan, state, bits>>
  BY ZenonT(40) DEF Look, LookInbox, fiberVars, coreVars
<1>4. /\ pc[c] \in {"look", "inbox"} /\ pc'[c] \in {"top", "inbox", "halt", "nap"}
      /\ \A d \in Cores \ {c} : pc'[d] = pc[d] /\ irq'[d] = irq[d]
  BY <1>1 DEF Look, LookInbox, At, Goto, Leave, Typed, TypeOK
<1>5. SchedInv'
  <2>1. \A k \in Cores : /\ pc'[k] \in {"move", "push"} => pc'[k] = pc[k] /\ scan'[k] = scan[k]
                         /\ moving[k] # None => movable'[moving[k]]
    BY <1>1, <1>3, <1>4, Zenon DEF Homes
  <2>2. Homes' /\ Once' /\ Alive'
    BY <1>1, <1>3, <2>1, Stay, Zenon
  <2> QED BY <1>2, <2>2, Zenon DEF SchedInv
<1>7. pc'[c] = "inbox" => \A f \in Range(queue[c]) : ~Runnable(f)
  BY <1>1, <1>4, Zenon DEF Look, LookInbox, At, Goto, Leave, Typed
<1>8. pc'[c] = "halt" => pc[c] = "inbox" /\ irq'[c] = irq[c] /\ inbox = <<>>
  BY <1>1, <1>4, ZenonT(40) DEF Look, LookInbox, At, Goto, Leave, Typed
<1>9. WakeupsKept'
  <2> SUFFICES ASSUME NEW d \in Cores, pc'[d] \in {"inbox", "halt"}, ~irq'[d],
                      NEW f \in Range(queue'[d]), Runnable(f)', state'[f] # "due"
               PROVE  Announced(d, f)'
    BY Zenon DEF WakeupsKept
  <2>1. f \in Range(queue[d]) /\ Runnable(f) /\ state[f] # "due"
    BY <1>3, Zenon DEF Runnable
  <2>2. pc[d] \in {"inbox", "halt"} /\ ~irq[d]
    BY <1>4, <1>7, <1>8, <2>1, Zenon
  <2>3. Announced(d, f)
    BY <1>1, <2>1, <2>2, Zenon DEF WakeupsKept
  <2> QED BY <1>3, <2>3, Zenon DEF Announced
<1>10. NoStrandedTask'
  BY <1>1, <1>3, <1>4, <1>8, Zenon DEF NoStrandedTask, At
<1> QED BY <1>5, <1>9, <1>10, Zenon DEF WakeInv

\* The steps of a core that move a fiber
LEMMA TopFiberFull ==
    ASSUME WakeInv, NEW c \in Cores, TakesHead(c), Head(inbox) \in Fibers, AdmitHead(c),
           \/ pc[c] = "top" /\ pc' = pc
           \/ pc[c] = "between" /\ pc' = [pc EXCEPT ![c] = "run"]
    PROVE  WakeInv'
<1>1. SchedInv /\ WakeupsKept /\ NoStrandedTask /\ Typed /\ TypeOK
  BY Zenon DEF WakeInv, SchedInv, Typed
<1>2. SchedInv'
  BY <1>1, TopFiberStep, Zenon
<1>3. UNCHANGED <<current, moving, irq, scan, sig>> /\ inbox # <<>>
  BY Zenon DEF AdmitHead, TakesHead
<1>4. /\ pc'[c] \in {"top", "run"} /\ \A d \in Cores \ {c} : pc'[d] = pc[d]
  BY <1>1, Zenon DEF Typed
<1>5. Head(inbox) \notin live
  <2>1. inbox \in Seq(Fibers \cup Intents) /\ IsInjective(inbox)
    BY <1>1, Zenon DEF SchedInv, InboxNew, TypeOK
  <2>2. Head(inbox) \in Range(inbox)
    BY <1>3, <2>1, TailFacts, Zenon
  <2> QED BY <1>1, <2>2, Zenon DEF SchedInv, InboxNew
<1>6. CASE Admit(c, Head(inbox), TRUE)
  <2>2. /\ queue' = [queue EXCEPT ![c] = Append(queue[c], Head(inbox))]
        /\ state' = [state EXCEPT ![Head(inbox)] = "ready"] /\ bits' = [bits EXCEPT ![Head(inbox)] = FALSE]
    BY <1>6, Zenon DEF Admit
  <2>3. \A d \in Cores \ {c} : queue'[d] = queue[d] /\ Head(inbox) \notin Range(queue[d]) /\ Range(queue[d]) \subseteq Fibers
    BY <1>1, <1>5, <2>2, Nowhere, RangeTyped, Zenon DEF TypeOK
  <2>4. \A d \in Cores \ {c} : /\ Range(queue'[d]) \subseteq Range(queue[d])
                               /\ \A f \in Range(queue'[d]) : state'[f] = state[f] /\ bits'[f] = bits[f]
    BY <1>1, <2>2, <2>3, ZenonT(40) DEF TypeOK
  <2>5. WakeupsKept' /\ NoStrandedTask'
    BY <1>1, <1>3, <1>4, <2>4, CoreWake, Zenon
  <2> QED BY <1>2, <2>5, Zenon DEF WakeInv
<1>7. CASE UNCHANGED <<fiberVars, count, queue>>
  <2>2. WakeupsKept' /\ NoStrandedTask'
    BY <1>1, <1>3, <1>4, <1>7, CoreWake, Zenon DEF fiberVars
  <2> QED BY <1>2, <2>2, Zenon DEF WakeInv
<1> QED BY <1>6, <1>7, Zenon DEF AdmitHead

LEMMA BetweenNothing ==
    ASSUME WakeInv, NEW c \in Cores, pc[c] = "between", pc' = [pc EXCEPT ![c] = "run"],
           UNCHANGED <<inbox, starved, fiberVars, coreVars, idle, irq, scan, sig>>
    PROVE  WakeInv'
<1>1. SchedInv /\ WakeupsKept /\ NoStrandedTask /\ Typed /\ TypeOK /\ CoresInStep /\ Homes /\ InboxNew
  BY Zenon DEF WakeInv, SchedInv, Typed
<1>2. pc'[c] = "run" /\ (\A d \in Cores \ {c} : pc'[d] = pc[d]) /\ pc' \in [Cores -> Places]
  BY <1>1, Zenon DEF Typed, Places
<1>3. Typed' /\ InboxNew'
  BY <1>1, <1>2, Zenon DEF Typed, TypeOK, InboxNew, fiberVars, coreVars
<1>4. CoresInStep'
  BY <1>1, <1>2, ZenonT(40) DEF CoresInStep, coreVars
<1>5. Homes' /\ Once' /\ Alive'
  BY <1>1, <1>2, Stay, Zenon DEF Homes, fiberVars, coreVars
<1>7. WakeupsKept' /\ NoStrandedTask'
  BY <1>1, <1>2, CoreWake, Zenon DEF fiberVars, coreVars
<1> QED BY <1>3, <1>4, <1>5, <1>7, Zenon DEF WakeInv, SchedInv

LEMMA MoverStep ==
    ASSUME WakeInv, NEW c \in Cores,
           Pick(c) \/ Requeue(c) \/ Finish(c) \/ StealTake(c) \/ StealMove(c) \/ StealPush(c),
           count' \in [Cores -> Nat]
    PROVE  WakeInv'
<1> USE SetsAssumption
<1>1. SchedInv /\ WakeupsKept /\ NoStrandedTask /\ Typed /\ TypeOK
  BY Zenon DEF WakeInv, SchedInv, Typed
<1>2. SchedInv'
  BY <1>1, PickStep, RequeueStep, FinishStep, StealTakeStep, StealMoveStep, StealPushStep, Zenon
<1>3. sig' = sig /\ inbox' = inbox
  BY Zenon DEF Pick, Requeue, Finish, StealTake, StealMove, StealPush
<1>4. pc'[c] \notin {"inbox", "halt"} /\ \A d \in Cores \ {c} : pc'[d] = pc[d]
  BY <1>1, Zenon DEF Pick, Requeue, Finish, StealTake, StealMove, StealPush, Goto, Typed
<1>5. \A d \in Cores \ {c} : irq[d] => irq'[d]
  <2>1. irq' = irq \/ Invite(c)
    BY Zenon DEF Pick, Requeue, Finish, StealTake, StealMove, StealPush
  <2> QED BY <1>1, <2>1, ZenonT(40) DEF Invite, Invitable, TypeOK
<1>6. \A d \in Cores \ {c} : Range(queue'[d]) \subseteq Range(queue[d])
  <2>1. CASE Pick(c) \/ Requeue(c) \/ StealPush(c) \/ Finish(c) \/ StealMove(c)
    BY <1>1, <2>1, ZenonT(40) DEF Pick, Requeue, StealPush, Finish, StealMove, TypeOK
  <2>2. CASE StealTake(c)
    <3>1. CASE queue' = queue
      BY <3>1, Zenon
    <3>2. CASE \E i \in DOMAIN queue[scan[c]] : queue' = [queue EXCEPT ![scan[c]] = Without(queue[scan[c]], i)]
      <4>1. scan[c] \in Cores
        BY <1>1, <2>2, Zenon DEF StealTake, At, SchedInv, CoresInStep
      <4>2. \A d \in Cores : Range(queue'[d]) \subseteq Range(queue[d])
        <5>1. PICK i \in DOMAIN queue[scan[c]] : queue' = [queue EXCEPT ![scan[c]] = Without(queue[scan[c]], i)]
          BY <3>2, Zenon
        <5>2. \A d \in Cores : Range(queue'[d]) = IF d = scan[c] THEN Range(queue[d]) \ {queue[scan[c]][i]} ELSE Range(queue[d])
          BY <1>1, <4>1, <5>1, Leaves, ZenonT(40)
        <5> QED BY <5>2, Zenon
      <4> QED BY <4>2, Zenon
    <3> QED BY <2>2, <3>1, <3>2, Zenon DEF StealTake
  <2> QED BY <2>1, <2>2, Zenon
<1>7. \A f \in Fibers : f # current[c] /\ f \notin Range(queue[c]) => state'[f] = state[f] /\ bits'[f] = bits[f]
  <2>1. CASE Requeue(c) \/ StealPush(c) \/ Finish(c) \/ StealMove(c) \/ StealTake(c)
    BY <1>1, <2>1, ZenonT(40) DEF Requeue, StealPush, Finish, StealMove, StealTake, TypeOK, fiberVars
  <2>2. CASE Pick(c)
    <3>1. PICK i \in DOMAIN queue[c] :
            /\ bits' = [bits EXCEPT ![queue[c][i]] = @ /\ state[queue[c][i]] = "ready"]
            /\ state' = [state EXCEPT ![queue[c][i]] = "ready"]
      BY <2>2, Zenon DEF Pick
    <3>2. queue[c][i] \in Range(queue[c])
      BY Zenon DEF Range
    <3> QED BY <1>1, <3>1, <3>2, Zenon DEF TypeOK
  <2> QED BY <2>1, <2>2, Zenon
<1>8. \A d \in Cores \ {c} : \A f \in Range(queue'[d]) : state'[f] = state[f] /\ bits'[f] = bits[f]
  BY <1>1, <1>6, <1>7, OwnFibers, Zenon
<1>9. WakeupsKept' /\ NoStrandedTask'
  BY <1>1, <1>3, <1>4, <1>5, <1>6, <1>8, CoreWake, ZenonT(40)
<1> QED BY <1>2, <1>9, Zenon DEF WakeInv

\* What comes from outside leaves the cores where they are.
LEMMA OutsideStep ==
    ASSUME WakeInv,
           \/ \E c \in Devices, f \in Fibers : DeviceIrq(c, f)
           \/ \E f \in Fibers : Expire(f)
           \/ \E s \in Signallers : Signal(s) \/ ReadCore(s) \/ WakeFiberCore(s) \/ Spawn(s) \/ WakeIdle(s)
           \/ Starve
    PROVE  SchedInv' /\ UNCHANGED <<queue, pc, home, live, movable>>
<1>1. SchedInv /\ Homes
  BY Zenon DEF WakeInv, SchedInv
<1>2. Typed' /\ CoresInStep' /\ InboxNew'
  BY <1>1, OutsideTypes, Zenon
<1>3. UNCHANGED <<live, home, queue, current, moving, movable, scan, pc>>
  BY ZenonT(40) DEF DeviceIrq, HandlerSignals, Expire, Signal, ReadCore, WakeFiberCore, Spawn, WakeIdle, Starve, fiberVars, coreVars
<1>4. Homes' /\ Once' /\ Alive'
  BY <1>1, <1>3, Stay, Zenon DEF Homes
<1> QED BY <1>2, <1>3, <1>4, Zenon DEF SchedInv

\* An interrupt, a deadline
LEMMA IrqFull ==
    ASSUME WakeInv,
           (\E c \in Devices, f \in Fibers : DeviceIrq(c, f)) \/ (\E f \in Fibers : Expire(f)) \/ Starve
    PROVE  WakeInv'
<1> USE SetsAssumption
<1>1. SchedInv /\ WakeupsKept /\ NoStrandedTask /\ TypeOK /\ Homes /\ CoresInStep
  BY Zenon DEF WakeInv, SchedInv, Typed
<1>2. SchedInv' /\ UNCHANGED <<queue, pc>>
  BY OutsideStep, Zenon
<1>3. sig' = sig /\ inbox' = inbox
  BY Zenon DEF DeviceIrq, HandlerSignals, Expire, Starve
<1>4. \A d \in Cores : Range(queue[d]) \subseteq Fibers /\ \A g \in Range(queue[d]) : home[g] = d
  BY <1>1, RangeTyped, Zenon DEF TypeOK, Homes
<1>5. ASSUME NEW d \in Cores, NEW g \in Range(queue[d]), pc[d] \in {"inbox", "halt"}, ~irq'[d],
             Runnable(g)', state'[g] # "due"
      PROVE  ~irq[d] /\ Runnable(g) /\ state[g] # "due"
  <2>1. CASE \E c \in Devices, f \in Fibers : DeviceIrq(c, f)
    <3>1. PICK c \in Devices, f \in Fibers : DeviceIrq(c, f)
      BY <2>1, Zenon
    <3>2. state' = state /\ bits' = [bits EXCEPT ![f] = TRUE] /\ pc[c] \notin {"look", "inbox"} /\ c \in Cores
      BY <3>1, Zenon DEF DeviceIrq, HandlerSignals
    <3>3. irq'[d] <=> irq[d] \/ d \in {k \in {c} : pc[k] \in {"halt", "nap"}} \/ d \in {k \in {home[f]} \ {c} : idle[k]}
      BY <3>1, Zenon DEF DeviceIrq, HandlerSignals
    <3>4. idle[d]
      BY <1>1, <1>5, Zenon DEF CoresInStep
    <3>5. g # f
      BY <1>4, <1>5, <3>2, <3>3, <3>4, ZenonT(40)
    <3> QED BY <1>1, <1>4, <1>5, <3>2, <3>3, <3>5, ZenonT(40) DEF Runnable, TypeOK
  <2>2. CASE \E f \in Fibers : Expire(f)
    BY <1>1, <1>4, <1>5, <2>2, ZenonT(40) DEF Expire, Runnable, TypeOK
  <2>3. CASE Starve
    BY <1>5, <2>3, Zenon DEF Starve, Runnable, fiberVars
  <2> QED BY <2>1, <2>2, <2>3, Zenon
<1>6. WakeupsKept'
  BY <1>1, <1>2, <1>3, <1>5 DEF WakeupsKept, Announced
<1>7. \A d \in Cores : irq[d] => irq'[d]
  BY <1>1, Zenon DEF DeviceIrq, HandlerSignals, Expire, Starve, TypeOK
<1>8. NoStrandedTask'
  BY <1>1, <1>2, <1>3, <1>7, Zenon DEF NoStrandedTask, At
<1> QED BY <1>2, <1>6, <1>8, Zenon DEF WakeInv

LEMMA SignalFull == ASSUME WakeInv, NEW s \in Signallers, Signal(s) PROVE WakeInv'
<1>1. SchedInv /\ WakeupsKept /\ NoStrandedTask /\ TypeOK /\ Typed
  BY Zenon DEF WakeInv, SchedInv, Typed
<1>2. SchedInv' /\ UNCHANGED <<queue, pc>>
  BY OutsideStep, Zenon
<1>3. PICK f \in live : bits' = [bits EXCEPT ![f] = TRUE] /\ Step(s, "core", f, 1)
  BY Zenon DEF Signal
<1>4. UNCHANGED <<inbox, state, irq>> /\ sig[s].at = "rest"
  BY Zenon DEF Signal
<1>5. sig'[s].at = "core" /\ sig'[s].fiber = f /\ \A k \in Signallers \ {s} : sig'[k] = sig[k]
  BY <1>1, <1>3, Zenon DEF Step, Typed
<1>6. WakeupsKept'
  <2> SUFFICES ASSUME NEW d \in Cores, pc'[d] \in {"inbox", "halt"}, ~irq'[d],
                      NEW g \in Range(queue'[d]), Runnable(g)', state'[g] # "due"
               PROVE  Announced(d, g)'
    BY Zenon DEF WakeupsKept
  <2>1. CASE g = f
    BY <1>5, <2>1, Zenon DEF Announced
  <2>2. CASE g # f
    <3>1. g \in Fibers
      BY <1>1, <1>2, RangeTyped, Zenon DEF TypeOK
    <3>2. Runnable(g) /\ state[g] # "due"
      BY <1>1, <1>3, <1>4, <2>2, <3>1, Zenon DEF Runnable, TypeOK
    <3>3. Announced(d, g)
      BY <1>1, <1>2, <1>4, <3>2, Zenon DEF WakeupsKept
    <3> QED BY <1>4, <1>5, <3>3, Zenon DEF Announced
  <2> QED BY <2>1, <2>2, Zenon
<1>7. NoStrandedTask'
  BY <1>1, <1>2, <1>4, <1>5, Zenon DEF NoStrandedTask, At
<1> QED BY <1>2, <1>6, <1>7, Zenon DEF WakeInv

LEMMA ReadCoreFull == ASSUME WakeInv, NEW s \in Signallers, ReadCore(s) PROVE WakeInv'
<1>1. SchedInv /\ WakeupsKept /\ NoStrandedTask /\ Typed /\ Homes
  BY Zenon DEF WakeInv, SchedInv
<1>2. SchedInv' /\ UNCHANGED <<queue, pc>>
  BY OutsideStep, Zenon
<1>3. UNCHANGED <<inbox, state, bits, irq>> /\ sig[s].at = "core"
  BY Zenon DEF ReadCore, fiberVars
<1>4. /\ sig'[s].at = "wake" /\ sig'[s].fiber = sig[s].fiber /\ sig'[s].core = home[sig[s].fiber]
      /\ \A k \in Signallers \ {s} : sig'[k] = sig[k]
  BY <1>1, Zenon DEF ReadCore, Step, Typed
<1>5. WakeupsKept'
  <2> SUFFICES ASSUME NEW d \in Cores, pc'[d] \in {"inbox", "halt"}, ~irq'[d],
                      NEW g \in Range(queue'[d]), Runnable(g)', state'[g] # "due"
               PROVE  Announced(d, g)'
    BY Zenon DEF WakeupsKept
  <2>1. Announced(d, g)
    BY <1>1, <1>2, <1>3, Zenon DEF WakeupsKept, Runnable
  <2>2. home[g] = d
    BY <1>1, <1>2, Zenon DEF Homes
  <2> QED BY <1>4, <2>1, <2>2, ZenonT(40) DEF Announced
<1>6. NoStrandedTask'
  BY <1>1, <1>2, <1>3, <1>4, ZenonT(40) DEF NoStrandedTask, At
<1> QED BY <1>2, <1>5, <1>6, Zenon DEF WakeInv

\* wake_fiber_core sees IDLE of a core on its way into the halt.
LEMMA WakeFiberCoreFull == ASSUME WakeInv, NEW s \in Signallers, WakeFiberCore(s) PROVE WakeInv'
<1>1. SchedInv /\ WakeupsKept /\ NoStrandedTask /\ Typed /\ TypeOK /\ CoresInStep
  BY Zenon DEF WakeInv, SchedInv, Typed
<1>2. SchedInv' /\ UNCHANGED <<queue, pc>>
  BY OutsideStep, Zenon
<1>3. UNCHANGED <<inbox, state, bits>> /\ sig[s].at = "wake" /\ sig[s].core \in Cores
  BY <1>1, Zenon DEF WakeFiberCore, fiberVars, TypeOK
<1>4. sig'[s].at = "rest" /\ \A k \in Signallers \ {s} : sig'[k] = sig[k]
  BY <1>1, Zenon DEF WakeFiberCore, Rest, Typed
<1>5. (idle[sig[s].core] => irq'[sig[s].core]) /\ \A d \in Cores : irq[d] => irq'[d]
  <2> DEFINE woken == [irq EXCEPT ![sig[s].core] = @ \/ idle[sig[s].core]]
  <2>1. woken \in [Cores -> BOOLEAN] /\ (idle[sig[s].core] => woken[sig[s].core]) /\ \A d \in Cores : irq[d] => woken[d]
    BY <1>1, <1>3, Zenon DEF TypeOK
  <2>2. irq' = woken \/ \E k \in Cores : irq' = [woken EXCEPT ![k] = TRUE]
    BY SetsAssumption, Zenon DEF WakeFiberCore, Invitable
  <2> HIDE DEF woken
  <2> QED BY <1>3, <2>1, <2>2, Zenon
<1>6. WakeupsKept'
  <2> SUFFICES ASSUME NEW d \in Cores, pc'[d] \in {"inbox", "halt"}, ~irq'[d],
                      NEW g \in Range(queue'[d]), Runnable(g)', state'[g] # "due"
               PROVE  Announced(d, g)'
    BY Zenon DEF WakeupsKept
  <2>1. Announced(d, g)
    BY <1>1, <1>2, <1>3, <1>5, Zenon DEF WakeupsKept, Runnable
  <2>2. d # sig[s].core
    BY <1>1, <1>2, <1>5, Zenon DEF CoresInStep
  <2> QED BY <1>3, <1>4, <2>1, <2>2, Zenon DEF Announced
<1>7. NoStrandedTask'
  BY <1>1, <1>2, <1>3, <1>4, <1>5, ZenonT(40) DEF NoStrandedTask, At
<1> QED BY <1>2, <1>6, <1>7, Zenon DEF WakeInv

LEMMA SpawnFull == ASSUME WakeInv, NEW s \in Signallers, Spawn(s) PROVE WakeInv'
<1>1. SchedInv /\ WakeupsKept /\ NoStrandedTask /\ Typed
  BY Zenon DEF WakeInv, SchedInv
<1>2. SchedInv' /\ UNCHANGED <<queue, pc>>
  BY OutsideStep, Zenon
<1>3. UNCHANGED <<state, bits, irq>> /\ sig[s].at = "rest"
  BY Zenon DEF Spawn, fiberVars
<1>4. sig'[s].at = "wakeAll" /\ sig'[s].core = 1 /\ \A k \in Signallers \ {s} : sig'[k] = sig[k]
  BY <1>1, ZenonT(40) DEF Spawn, Step, Typed
<1>5. WakeupsKept'
  BY <1>1, <1>2, <1>3, <1>4, SMTT(40) DEF WakeupsKept, Announced, Runnable
<1>6. NoStrandedTask'
  BY <1>4, CoresAssumption DEF NoStrandedTask, Cores
<1> QED BY <1>2, <1>5, <1>6, Zenon DEF WakeInv

\* wake_idle_workers has passed a core only once that core is woken or awake.
LEMMA WakeIdleFull == ASSUME WakeInv, NEW s \in Signallers, WakeIdle(s) PROVE WakeInv'
<1>1. SchedInv /\ WakeupsKept /\ NoStrandedTask /\ Typed /\ TypeOK /\ CoresInStep
  BY Zenon DEF WakeInv, SchedInv, Typed
<1>2. SchedInv' /\ UNCHANGED <<queue, pc>>
  BY OutsideStep, Zenon
<1>3. PICK c \in Cores : c = sig[s].core
  BY <1>1, Zenon DEF TypeOK
<1>4. UNCHANGED <<inbox, state, bits>> /\ sig[s].at = "wakeAll"
  BY Zenon DEF WakeIdle, fiberVars
<1>5. (idle[c] => irq'[c]) /\ \A d \in Cores : irq[d] => irq'[d]
  BY <1>1, <1>3, ZenonT(40) DEF WakeIdle, TypeOK
<1>6. /\ c < NumCores => sig'[s].at = "wakeAll" /\ sig'[s].core = c + 1
      /\ sig'[s].at \in {"wakeAll", "rest"} /\ \A k \in Signallers \ {s} : sig'[k] = sig[k]
  BY <1>1, <1>3 DEF WakeIdle, Step, Rest, Typed
<1>7. WakeupsKept'
  <2> SUFFICES ASSUME NEW d \in Cores, pc'[d] \in {"inbox", "halt"}, ~irq'[d],
                      NEW g \in Range(queue'[d]), Runnable(g)', state'[g] # "due"
               PROVE  Announced(d, g)'
    BY Zenon DEF WakeupsKept
  <2>1. Announced(d, g)
    BY <1>1, <1>2, <1>4, <1>5, Zenon DEF WakeupsKept, Runnable
  <2> QED BY <1>4, <1>6, <2>1, Zenon DEF Announced
<1>8. NoStrandedTask'
  <2> SUFFICES ASSUME NEW d \in Cores, pc'[d] = "halt", ~irq'[d], inbox' # <<>>
               PROVE  \E k \in Signallers : sig'[k].at = "wakeAll" /\ sig'[k].core <= d
    BY Zenon DEF NoStrandedTask, At
  <2>1. PICK k \in Signallers : sig[k].at = "wakeAll" /\ sig[k].core <= d
    BY <1>1, <1>2, <1>4, <1>5, Zenon DEF NoStrandedTask, At
  <2>2. CASE k # s
    BY <1>6, <2>1, <2>2, Zenon
  <2>3. CASE k = s
    <3>1. d # c
      BY <1>1, <1>2, <1>5, ZenonT(40) DEF CoresInStep
    <3>2. c < d /\ d <= NumCores /\ c \in Nat /\ d \in Nat
      BY <1>3, <2>1, <2>3, <3>1, CoresAssumption, SMTT(40) DEF Cores
    <3>3. c < NumCores /\ c + 1 <= d
      BY <3>2, CoresAssumption
    <3> QED BY <1>6, <3>3, Zenon
  <2> QED BY <2>2, <2>3, Zenon
<1> QED BY <1>2, <1>7, <1>8, Zenon DEF WakeInv

LEMMA PlaceFull == ASSUME WakeInv, NEW s \in Signallers, Place(s) PROVE WakeInv'
<1> USE SetsAssumption
<1>1. SchedInv /\ WakeupsKept /\ NoStrandedTask /\ Typed /\ TypeOK
  BY Zenon DEF WakeInv, SchedInv, Typed
<1>2. SchedInv'
  BY <1>1, PlaceStep, Zenon
<1>3. PICK f \in Placed \ live, c \in Cores : Admit(c, f, FALSE) /\ Step(s, "wake", f, c)
  BY Zenon DEF Place
<1>4. UNCHANGED <<inbox, current, irq, pc, scan>> /\ sig[s].at = "rest" /\ f \in Fibers
  BY Zenon DEF Place
<1>6. sig'[s] = [at |-> "wake", fiber |-> f, core |-> c] /\ \A k \in Signallers \ {s} : sig'[k] = sig[k]
  BY <1>1, <1>3, Zenon DEF Step, Typed
<1>7. f \notin Range(queue[c])
  BY <1>1, <1>3, <1>4, Nowhere, Zenon
<1>8. \A d \in Cores : Range(queue'[d]) = IF d = c THEN Range(queue[d]) \cup {f} ELSE Range(queue[d])
  BY <1>1, <1>3, <1>4, <1>7, Joins, Zenon DEF Admit
<1>9. WakeupsKept'
  <2> SUFFICES ASSUME NEW d \in Cores, pc'[d] \in {"inbox", "halt"}, ~irq'[d],
                      NEW g \in Range(queue'[d]), Runnable(g)', state'[g] # "due"
               PROVE  Announced(d, g)'
    BY Zenon DEF WakeupsKept
  <2>1. f \notin Range(queue[d]) /\ Range(queue[d]) \subseteq Fibers
    BY <1>1, <1>3, <1>4, Nowhere, RangeTyped, Zenon DEF TypeOK
  <2>2. CASE g = f
    <3>1. d = c
      BY <1>8, <2>1, <2>2, ZenonT(40)
    <3>2. sig'[s].at = "wake" /\ sig'[s].fiber = g /\ sig'[s].core = d
      BY <1>6, <2>2, <3>1
    <3> QED BY <3>2, Zenon DEF Announced
  <2>3. CASE g # f
    <3>1. g \in Range(queue[d]) /\ g \in Fibers
      BY <1>8, <2>1, <2>3, Zenon
    <3>2. state'[g] = state[g] /\ bits'[g] = bits[g]
      BY <1>1, <1>3, <2>3, <3>1, Zenon DEF Admit, TypeOK
    <3>3. Announced(d, g)
      BY <1>1, <1>4, <3>1, <3>2, Zenon DEF WakeupsKept, Runnable
    <3> QED BY <1>4, <1>6, <3>3, Zenon DEF Announced
  <2> QED BY <2>2, <2>3, Zenon
<1>10. NoStrandedTask'
  BY <1>1, <1>4, <1>6, Zenon DEF NoStrandedTask, At
<1> QED BY <1>2, <1>9, <1>10, Zenon DEF WakeInv

LEMMA WakeNext == ASSUME WakeInv, [Next]_vars, count' \in [Cores -> Nat] PROVE WakeInv'
<1>1. ASSUME NEW c \in Cores, Loop(c) PROVE WakeInv'
  <2>1. CASE TopFiber(c)
    BY <2>1, TopFiberFull, Zenon DEF TopFiber, At
  <2>2. CASE Between(c)
    <3>1. CASE TakesHead(c) /\ Head(inbox) \in Fibers
      BY <2>2, <3>1, TopFiberFull, Zenon DEF Between, At, Goto
    <3>2. CASE ~(TakesHead(c) /\ Head(inbox) \in Fibers)
      BY <2>2, <3>2, BetweenNothing, Zenon DEF Between, At, Goto
    <3> QED BY <3>1, <3>2, Zenon
  <2>3. CASE Pick(c) \/ Requeue(c) \/ StealTake(c) \/ StealMove(c) \/ StealPush(c)
    BY <2>3, MoverStep, Zenon
  <2>4. CASE Look(c) \/ LookInbox(c)
    BY <2>4, LookStep, Zenon
  <2>5. CASE TopNative(c) \/ TopNothing(c) \/ NativeEnd(c) \/ RunNothing(c) \/ Scan(c) \/ GoIdle(c) \/ Wake(c)
    BY <2>5, QuietStep, Zenon
  <2> QED BY <1>1, <2>1, <2>2, <2>3, <2>4, <2>5, Zenon DEF Loop
<1>2. ASSUME NEW c \in Cores, GiveBack(c) \/ WaitReturns(c) \/ Pin(c) \/ Pump(c) PROVE WakeInv'
  BY <1>2, QuietStep, MoverStep, Zenon DEF GiveBack
<1>3. ASSUME NEW s \in Signallers, Finishing(s) \/ Signal(s) \/ Place(s) \/ Spawn(s) PROVE WakeInv'
  BY <1>3, ReadCoreFull, WakeFiberCoreFull, WakeIdleFull, SignalFull, PlaceFull, SpawnFull, Zenon DEF Finishing
<1>4. CASE UNCHANGED vars
  <2>1. SchedInv'
    BY <1>4 DEF vars, fiberVars, coreVars, WakeInv, SchedInv, Typed, TypeOK, CoresInStep, Homes, Once, Alive, Somewhere,
                InboxNew
  <2>3. WakeupsKept' /\ NoStrandedTask'
    <3>1. UNCHANGED <<inbox, pc, irq, queue, state, bits, sig>>
      BY <1>4, Zenon DEF vars, fiberVars, coreVars
    <3>2. WakeupsKept => WakeupsKept'
      <4>1. \A c \in Cores, f \in Fibers : (Runnable(f)' <=> Runnable(f)) /\ (Announced(c, f)' <=> Announced(c, f))
        BY <3>1, Zenon DEF Announced, Runnable
      <4>2. \A c \in Cores : Range(queue[c]) \subseteq Fibers
        BY RangeTyped, Zenon DEF WakeInv, SchedInv, Typed, TypeOK
      <4> QED BY <3>1, <4>1, <4>2, Zenon DEF WakeupsKept
    <3>3. NoStrandedTask' = NoStrandedTask
      BY <3>1, Zenon DEF NoStrandedTask, At
    <3> QED BY <3>2, <3>3, Zenon DEF WakeInv
  <2> QED BY <2>1, <2>3, ZenonT(40) DEF WakeInv
<1> QED BY <1>1, <1>2, <1>3, <1>4, IrqFull, Zenon DEF Next
=============================================================================
