----------------------------- MODULE MCRewards -----------------------------
(* Instances of Rewards for TLC.  Only the two fresh users, the phones and  *)
(* the requests are interchangeable: u1 is registered before the run.       *)
EXTENDS Rewards, TLC

Symmetry == Permutations(Users \ Existing) \cup Permutations(Phones) \cup Permutations(Requests)
=============================================================================
