----------------------------- MODULE MCStorage -----------------------------
(***************************************************************************)
(* npkFS as a whole: the store, the file layer above it and the B-tree     *)
(* inside it.  Each uses the one below by what it promises (AtomicStore, a *)
(* map of entries), so a run explores each of its parts alone: `part' says *)
(* which one moves.                                                        *)
(***************************************************************************)
EXTENDS MCNpkStore, MCNpkRoot, BTree

CONSTANT Parts      \* the parts that a run explores
VARIABLE part

StorageInit == Init /\ RootInit /\ BtInit /\ part \in Parts
StorageNext ==
    \/ part = "store" /\ Next /\ UNCHANGED <<part, rootVars, btVars>>
    \/ part = "files" /\ RootNext /\ UNCHANGED <<part, vars, btVars>>
    \/ part = "index" /\ BtKeptNext /\ UNCHANGED <<part, vars, rootVars>>
StorageSpec == StorageInit /\ [][StorageNext]_<<part, vars, rootVars, btVars>>

\* Types of the store and of the file layer above it: every commit of either
\* (storage.rs, commit) stays within its ring of slots
StorageTypeOK == TypeOK /\ RootTypeOK

\* The state without the histories, which no step reads
StoreState == <<mounted, memVars, com, task, dataVars, metaVars, diskSb, crashes, faults>>
RootState == <<store, holder, local, chunks, active, orphans, rootFaults, powerCuts>>

\* NoLeakWhileHealthy looks at `leaked' until something fails, NoLostUpdate at
\* `files'.  Blocks of the index are interchangeable, but are numbers: two trees
\* of one shape, with as many blocks in use, count as one.
StorageView ==
    CASE part = "store" -> <<StoreState, IF crashes + faults = 0 THEN leaked ELSE {}>>
      [] part = "files" -> <<RootState, files>>
      [] part = "index" -> <<Shape, held, stranded, Cardinality(used)>>

\* For a run that checks neither
FaultsView == IF part = "store" THEN StoreState ELSE RootState
=============================================================================
