---------------------------- MODULE MCSendLimits ----------------------------
(* Instances of SendLimits and of RateLimit for TLC. The two keep different *)
(* keys in Redis, so a run is about one of them.                            *)
EXTENDS SendLimits, RateLimit, TLC

Symmetry == Permutations(Sends)

NotBegun == now = 0 /\ \A s \in Sends : pc[s] = "idle"

Unused == tries = << >> /\ limit = CHOOSE l \in Limits : TRUE

\* A run has a fourth send, or a fault, or reaches the last moment of the clock, one of the
\* three; and of four sends none is refused.
Four  == \A s \in Sends : pc[s] # "idle"
Small ==
  /\ Four => faults = 0 /\ \A s \in Sends : pc[s] # "refused"
  /\ Four \/ faults > 0 => now < MaxTime

MCInit == Init /\ RateInit
MCNext == \/ Unused /\ Next /\ Small' /\ UNCHANGED rateVars
          \/ NotBegun /\ RateNext /\ UNCHANGED vars
MCSpec == MCInit /\ [][MCNext]_<<vars, rateVars>>
=============================================================================
