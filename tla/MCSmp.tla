------------------------------- MODULE MCSmp -------------------------------
(***************************************************************************)
(* What runs on the cores: the fiber scheduler, the fork-join of smp/par   *)
(* and the topics that fibers watch.  The latter two use the scheduler     *)
(* through what it promises (a spawned task may run, a signal resumes its  *)
(* fiber), so that one run explores each alone: `part` says which one      *)
(* moves, the others stay in their initial states.                         *)
(***************************************************************************)
EXTENDS FiberSched, ParJob, Topics, TLC

CONSTANTS f1, f2, i1, Parts

VARIABLE part

SmpInit == Init /\ ParInit /\ TopInit /\ part \in Parts

\* The job is over: nothing is left to do
JobOver ==
    /\ at[Caller] = "back" /\ \A h \in Helpers : at[h] = "gone"
    /\ UNCHANGED parVars

SmpNext ==
    \/ part = "fibers" /\ Next /\ UNCHANGED <<part, parVars, topVars>>
    \/ part = "par" /\ (ParNext \/ JobOver) /\ UNCHANGED <<part, vars, topVars>>
    \/ part = "topics" /\ TopNext /\ UNCHANGED <<part, vars, parVars>>

SmpSpec == SmpInit /\ [][SmpNext]_<<part, vars, parVars, topVars>>

\* Cores run, fibers give their core back sooner or later (they are
\* cooperative), intents end, signallers do not stop half way, time passes;
\* participants of a job that have started go on
SmpFairSpec ==
    /\ SmpSpec
    /\ \A c \in Cores : WF_vars(part = "fibers" /\ (Loop(c) \/ GiveBack(c)))
    /\ \A s \in Signallers : WF_vars(part = "fibers" /\ Finishing(s))
    /\ WF_vars(part = "fibers" /\ Starve)
    /\ WF_parVars(part = "par" /\ CallerGoesOn)
    /\ \A h \in Helpers : WF_parVars(part = "par" /\ HelperGoesOn(h))

\* Types of the parts
SmpTypeOK == TypeOK /\ ParTypeOK /\ TopTypeOK

\* for_each returns, although it waits for helpers it does not know to run:
\* "The caller always works too, so a job finishes even when no worker is free"
\* (smp/par.rs)
ForEachReturns == part = "par" ~> at[Caller] = "back"

\* Apps are interchangeable
SmpSymmetry == Permutations(Fibers)
=============================================================================
