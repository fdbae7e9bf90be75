---------------------------- MODULE MCKeyHandles ----------------------------
(* Small instances of KeyHandles for TLC. *)
EXTENDS KeyHandles, TLC

CONSTANTS pqc, classical

Algs == {pqc, classical}
PqcOnly == {pqc}

Symmetry == Permutations(Handle) \cup Permutations(Obj)
=============================================================================
