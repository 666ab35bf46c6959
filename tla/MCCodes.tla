------------------------------ MODULE MCCodes ------------------------------
(* Instances of Codes for TLC. *)
EXTENDS Codes, TLC

Symmetry == Permutations(Sends) \cup Permutations(Uses)
=============================================================================
