----------------------------- MODULE MCNpkRoot -----------------------------
(***************************************************************************)
(* NpkRoot for TLC: interchangeable writers, streams and blobs.            *)
(***************************************************************************)
EXTENDS NpkRoot, TLC

RootSymmetry == Permutations(Writers) \cup Permutations(Streams) \cup Permutations(Blobs)
            \cup Permutations(Paths)
=============================================================================
