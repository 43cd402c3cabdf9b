------------------------------ MODULE MCReplDb ------------------------------
(* Small instances of ReplDb. The clients are interchangeable. *)
EXTENDS ReplDb

CONSTANTS c1, c2

MCSymmetry == Permutations(Client)
=============================================================================
