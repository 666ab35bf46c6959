-------------------------- MODULE MCQuotaLedger --------------------------
(* Instances of QuotaLedger for TLC: the calls are interchangeable. *)
EXTENDS QuotaLedger, TLC

Symmetry == Permutations(Calls)
=============================================================================
