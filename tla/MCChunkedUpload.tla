-------------------------- MODULE MCChunkedUpload --------------------------
(* Small instances of ChunkedUpload for TLC. *)
EXTENDS ChunkedUpload, TLC

\* Every session uploads to the same file: the case in which they interfere.
OneTarget == [u \in Uploads |-> CHOOSE p \in Paths : TRUE]

Symmetry == Permutations(Reqs) \cup Permutations(Uploads)
=============================================================================
