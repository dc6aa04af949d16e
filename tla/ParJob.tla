------------------------------- MODULE ParJob -------------------------------
(***************************************************************************)
(* Fork-join over 0 .. N - 1 (kernel/src/smp/par.rs).  The caller and the  *)
(* helper tasks it spawned take indices from one counter; the caller then  *)
(* closes the job and waits for the helpers inside it, because the closure *)
(* they call lives on its stack.                                           *)
(*                                                                         *)
(* A step is one access to an atomic of the job, or the start or the end   *)
(* of a call of the closure.  A helper starts at any time after it was     *)
(* spawned, when a worker core takes it from the inbox, or never.          *)
(***************************************************************************)
EXTENDS Integers, FiniteSets

CONSTANTS
    N,          \* indices to work on
    Workers     \* worker_count

ASSUME ParAssumption == N \in Nat /\ Workers \in Nat

VARIABLES
    jobNext, jobActive, jobClosed,   \* of the Job
    spawned,                \* helpers in the inbox or beyond it
    at, idx,                \* per participant: its place and its index
    calls, finished         \* history: calls of f(i), and the i that returned

parVars == <<jobNext, jobActive, jobClosed, spawned, at, idx, calls, finished>>

HelperCount ==
    IF N = 0 THEN 0 ELSE IF N - 1 < Workers THEN N - 1 ELSE Workers

Helpers == 1 .. HelperCount
Caller  == 0
Team    == 0 .. HelperCount
Indices == 0 .. N - 1

ParInit ==
    /\ jobNext = 0 /\ jobActive = 0 /\ jobClosed = FALSE /\ spawned = 0
    /\ at = [p \in Team |-> IF p = Caller THEN (IF HelperCount = 0 THEN "take" ELSE "spawn") ELSE "idle"]
    /\ idx = [p \in Team |-> 0]
    /\ calls = [i \in Indices |-> 0] /\ finished = {}

Move(p, l) == at' = [at EXCEPT ![p] = l]

\* for_each: one more helper; they may start before the last one is spawned
SpawnHelper ==
    /\ at[Caller] = "spawn"
    /\ \/ spawned < HelperCount /\ spawned' = spawned + 1 /\ UNCHANGED at
       \/ spawned = HelperCount /\ Move(Caller, "take") /\ UNCHANGED spawned
    /\ UNCHANGED <<jobNext, jobActive, jobClosed, idx, calls, finished>>

\* Mutant: the last index is left out
TakeIndexShort(p) ==
    /\ at[p] = "take"
    /\ jobNext' = jobNext + 1
    /\ \/ jobNext + 1 < N /\ idx' = [idx EXCEPT ![p] = jobNext] /\ Move(p, "call")
       \/ /\ jobNext + 1 >= N /\ UNCHANGED idx
          /\ Move(p, IF p # Caller THEN "leave" ELSE IF HelperCount = 0 THEN "back" ELSE "close")
    /\ UNCHANGED <<jobActive, jobClosed, spawned, calls, finished>>

\* Job::drain: the next index, or the end.  Without helpers the plain loop
\* of for_each, which has no job to close
TakeIndex(p) ==
    /\ at[p] = "take"
    /\ jobNext' = jobNext + 1
    /\ \/ jobNext < N /\ idx' = [idx EXCEPT ![p] = jobNext] /\ Move(p, "call")
       \/ /\ jobNext >= N /\ UNCHANGED idx
          /\ Move(p, IF p # Caller THEN "leave" ELSE IF HelperCount = 0 THEN "back" ELSE "close")
    /\ UNCHANGED <<jobActive, jobClosed, spawned, calls, finished>>

CallWork(p) ==
    /\ at[p] = "call" /\ Move(p, "work")
    /\ calls' = [calls EXCEPT ![idx[p]] = @ + 1]
    /\ UNCHANGED <<jobNext, jobActive, jobClosed, spawned, idx, finished>>

WorkReturns(p) ==
    /\ at[p] = "work" /\ Move(p, "take")
    /\ finished' = finished \union {idx[p]}
    /\ UNCHANGED <<jobNext, jobActive, jobClosed, spawned, idx, calls>>

CloseJob ==
    /\ at[Caller] = "close" /\ jobClosed' = TRUE /\ Move(Caller, "wait")
    /\ UNCHANGED <<jobNext, jobActive, spawned, idx, calls, finished>>

\* The caller sees no helper inside and returns
Join ==
    /\ at[Caller] = "wait" /\ jobActive = 0 /\ Move(Caller, "back")
    /\ UNCHANGED <<jobNext, jobActive, jobClosed, spawned, idx, calls, finished>>

\* helper: it counts itself in, and then looks whether the job is closed
Enter(h) ==
    /\ at[h] = "idle" /\ h <= spawned
    /\ jobActive' = jobActive + 1 /\ Move(h, "check")
    /\ UNCHANGED <<jobNext, jobClosed, spawned, idx, calls, finished>>

\* Mutant: a helper does not look
CheckClosedNever(h) ==
    /\ at[h] = "check" /\ Move(h, "take")
    /\ UNCHANGED <<jobNext, jobActive, jobClosed, spawned, idx, calls, finished>>

CheckClosed(h) ==
    /\ at[h] = "check" /\ Move(h, IF jobClosed THEN "leave" ELSE "take")
    /\ UNCHANGED <<jobNext, jobActive, jobClosed, spawned, idx, calls, finished>>

\* Mutant: a helper that finds the job closed stays counted
LeaveCounted(h) ==
    /\ at[h] = "leave" /\ Move(h, "gone")
    /\ UNCHANGED <<jobNext, jobActive, jobClosed, spawned, idx, calls, finished>>

LeaveJob(h) ==
    /\ at[h] = "leave" /\ jobActive' = jobActive - 1 /\ Move(h, "gone")
    /\ UNCHANGED <<jobNext, jobClosed, spawned, idx, calls, finished>>

Drain(p) == TakeIndex(p) \/ CallWork(p) \/ WorkReturns(p)

ParNext ==
    \/ SpawnHelper \/ CloseJob \/ Join
    \/ \E p \in Team : Drain(p)
    \/ \E h \in Helpers : Enter(h) \/ CheckClosed(h) \/ LeaveJob(h)

\* What goes on by itself: the caller and a helper that has started run on a
\* core, and the closure returns.  A helper may stay in the inbox
CallerGoesOn    == SpawnHelper \/ Drain(Caller) \/ CloseJob \/ Join
HelperGoesOn(h) == CheckClosed(h) \/ Drain(h) \/ LeaveJob(h)

ParSpec == ParInit /\ [][ParNext]_parVars

-----------------------------------------------------------------------------
(* Properties.                                                             *)

\* Types; jobActive is the number of helpers inside the job (helper)
ParTypeOK ==
    /\ jobNext \in Nat /\ jobActive \in Nat /\ jobClosed \in BOOLEAN /\ spawned \in 0 .. HelperCount
    /\ at \in [Team -> {"idle", "spawn", "take", "call", "work", "close", "wait", "back",
                        "check", "leave", "gone"}]
    /\ idx \in [Team -> Nat] /\ calls \in [Indices -> Nat] /\ finished \subseteq Indices

\* The closure outlives every call: no participant is about to call it or
\* inside it once for_each has returned.  "with sequentially consistent
\* ordering a helper either sees `closed` or is seen in `active`"
WorkOutlives ==
    at[Caller] = "back" => \A p \in Team : at[p] \notin {"take", "call", "work"}

\* No index is handed out twice, whoever asks at the same time
CalledOnce == \A i \in Indices : calls[i] <= 1

\* What the erased lifetime of the closure rests on: no call after for_each has
\* returned, and none of an index that another participant has
ClosureSafe == WorkOutlives /\ CalledOnce

\* for_each, seen by its caller
Promise == INSTANCE ForEach WITH done <- finished, back <- (at[Caller] = "back")

\* The job does what ForEach promises: "Returns when every call has returned"
KeepsPromise == Promise!FeSpec
=============================================================================
