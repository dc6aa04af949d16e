------------------------------ MODULE ForEach ------------------------------
(***************************************************************************)
(* What smp/par.rs promises of for_each(n, f): f(i) runs once for every i  *)
(* below n, in any order, and the call returns when all of them have.      *)
(***************************************************************************)
EXTENDS Naturals

CONSTANT N

VARIABLES done, back

FeInit == done = {} /\ back = FALSE

Run(i) == ~back /\ i \notin done /\ done' = done \union {i} /\ back' = back

Return == ~back /\ done = 0 .. N - 1 /\ back' = TRUE /\ done' = done

FeNext == (\E i \in 0 .. N - 1 : Run(i)) \/ Return

FeSpec == FeInit /\ [][FeNext]_<<done, back>>
=============================================================================
