---------------------------- MODULE MCUserCache ----------------------------
(* Instances of UserCache and of FrozenQuota for TLC: two keys of Redis that *)
(* UserService keeps for a user. No method uses both, so a run is about one  *)
(* of them.                                                                  *)
EXTENDS UserCache, FrozenQuota, TLC

AskedAmounts == {-1, 1, 2}
Symmetry == Permutations(Requests) \cup Permutations(Holders)

NoCalls == Init /\ kind = [r \in Requests |-> CHOOSE k \in Kinds : TRUE]

MCInit == Init /\ CounterInit
MCNext == \/ CounterInit /\ Next /\ UNCHANGED counterVars
          \/ NoCalls /\ CounterNext /\ UNCHANGED vars
MCSpec == MCInit /\ [][MCNext]_<<vars, counterVars>>
=============================================================================
