------------------------------- MODULE MCApps -------------------------------
(***************************************************************************)
(* The services behind the host calls of modules: the capability vault,    *)
(* the keyvault and the external volumes.  They share no state, and one    *)
(* run explores each of them alone: `part` says which one moves, the       *)
(* others stay in their initial states.                                    *)
(***************************************************************************)
EXTENDS CapVault, Keyvault, ExtVolumes, TLC

VARIABLE part

MCTtls == {Never, 1}

AppsInit == Init /\ KvInit /\ ExtInit /\ part \in {"vault", "keyvault", "volumes"}
AppsNext ==
    \/ part = "vault" /\ Next /\ UNCHANGED <<part, kvVars, extVars>>
    \/ part = "keyvault" /\ KvNext /\ UNCHANGED <<part, vars, extVars>>
    \/ part = "volumes" /\ ExtNext /\ UNCHANGED <<part, vars, kvVars>>
AppsSpec == AppsInit /\ [][AppsNext]_<<part, vars, kvVars, extVars>>

\* Types of the parts; the usage of a slot is within the rights of its token
AppsTypeOK == TypeOK /\ UsedWithinHeld /\ KvTypeOK /\ ExtTypeOK

\* Fibers that call are interchangeable, in the keyvault and at the volumes
AppsSymmetry == Permutations(KvCallers) \union Permutations(Callers)
=============================================================================
