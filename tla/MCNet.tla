------------------------------- MODULE MCNet -------------------------------
(***************************************************************************)
(* Address configuration, neighbours and reassembly share no state that    *)
(* the models keep: an address reaches ARP and the fragments as a constant *)
(* of theirs.  One run explores each of them alone: `part` says which one  *)
(* moves, the others stay in their initial states.                         *)
(***************************************************************************)
EXTENDS AddrConfig, Neigh, Frag

VARIABLE part

\* Datagram A in three fragments; what the network left of B, C and E, under
\* one identification and with other cuts; one fragment of D, another source
Fragment(src, id, off, size, mf, ecn, of) ==
    [src |-> src, id |-> id, off |-> off, size |-> size, mf |-> mf, ecn |-> ecn, of |-> of]
MCFrags ==
    {Fragment("s", 1, 0, 2, TRUE, "ect", "A"), Fragment("s", 1, 2, 2, TRUE, "ce", "A"),
     Fragment("s", 1, 4, 1, FALSE, "ect", "A"),
     Fragment("s", 2, 0, 2, TRUE, "not", "E"), Fragment("s", 2, 2, 2, TRUE, "ect", "B"),
     Fragment("s", 2, 4, 6, FALSE, "ect", "B"),
     Fragment("s", 2, 0, 5, TRUE, "ect", "C"), Fragment("s", 2, 6, 2, FALSE, "ect", "C"),
     Fragment("t", 1, 0, 2, TRUE, "not", "D")}

NetInit == AddrInit /\ NgInit /\ FragInit /\ part \in {"addr", "neigh", "frag"}
NetNext ==
    \/ part = "addr" /\ AddrNext /\ UNCHANGED <<part, ngVars, fragVars>>
    \/ part = "neigh" /\ NgNext /\ UNCHANGED <<part, addrVars, fragVars>>
    \/ part = "frag" /\ FragNext /\ UNCHANGED <<part, addrVars, ngVars>>
NetSpec == NetInit /\ [][NetNext]_<<part, addrVars, ngVars, fragVars>>

\* Types of the parts, with the limits of their tables and queues
NetTypeOK == AddrTypeOK /\ NgTypeOK /\ FragTypeOK

\* Hosts and hardware addresses of the neighbour table are interchangeable
NetSymmetry == Permutations(Ips) \union Permutations(Has)
=============================================================================
