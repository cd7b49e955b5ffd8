------------------------------ MODULE MCPlugin ------------------------------
(* Model-checking instances of Plugin. *)
EXTENDS Plugin, TLC

CONSTANTS r1, p1, n1, n2

NickSymmetry == Permutations(Nick)
=============================================================================
