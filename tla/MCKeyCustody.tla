---------------------------- MODULE MCKeyCustody ----------------------------
(* Small instances of KeyCustody for TLC. *)
EXTENDS KeyCustody, TLC

Symmetry == UNION {Permutations(S) : S \in {Procs, Reqs, Vaults, Masters, Secrets}}
=============================================================================
