---------------------------- MODULE AtomicStore ----------------------------
(***************************************************************************)
(* What the object store promises its callers: a set of objects, changed   *)
(* one object at a time, that becomes durable as a whole at a commit; a    *)
(* power cut takes the store back to the last commit, never to anything in *)
(* between.                                                                *)
(***************************************************************************)
CONSTANTS Objects, Anchored

VARIABLES
    now,    \* the objects a reader finds
    saved   \* the objects a reader would find after a power cut

vars == <<now, saved>>

Init ==
    /\ now \in SUBSET Objects
    /\ Anchored \subseteq now
    /\ saved = now

Put(o) == now' = now \cup {o} /\ UNCHANGED saved

Remove(o) == o \notin Anchored /\ now' = now \ {o} /\ UNCHANGED saved

Commit == saved' = now /\ UNCHANGED now

PowerCut == now' = saved /\ UNCHANGED saved

Next ==
    \/ \E o \in Objects : Put(o) \/ Remove(o)
    \/ Commit \/ PowerCut

Spec == Init /\ [][Next]_vars
=============================================================================
