----------------------------- MODULE MCNpkStore -----------------------------
(***************************************************************************)
(* Instances of NpkStore: a data area of a few blocks over two bitmap      *)
(* pages, a tree of one node and the anchored object.                      *)
(***************************************************************************)
EXTENDS NpkStore, TLC

CONSTANTS o0, o1, o2, t1, t2

MCPages == {100, 101}
MCPageOf == [b \in Blocks |-> IF b % 2 = 0 THEN 100 ELSE 101]
MCSizeOf == [o \in Objects |-> 1]
MCTree == [nodes |-> {10}, objs |-> [o \in Objects |-> IF o = o0 THEN {11} ELSE {}]]
MCSymmetry == Permutations(Objects \ {o0}) \cup Permutations(Tasks)
=============================================================================
