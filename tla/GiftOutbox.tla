----------------------------- MODULE GiftOutbox -----------------------------
(***************************************************************************)
(* What the reward pipeline promises, without queue, workers or crashes: a *)
(* promise is made once, paid any number of times while it is open, and    *)
(* never paid again once it is settled.                                    *)
(***************************************************************************)
EXTENDS Naturals

CONSTANT Promises
VARIABLES promised, settled, granted

outboxVars == <<promised, settled, granted>>

Init == promised = {} /\ settled = {} /\ granted = [p \in Promises |-> 0]

Promise(p) ==
  /\ p \notin promised
  /\ promised' = promised \cup {p}
  /\ UNCHANGED <<settled, granted>>

Grant(p) ==
  /\ p \in promised \ settled
  /\ granted' = [granted EXCEPT ![p] = @ + 1]
  /\ UNCHANGED <<promised, settled>>

Settle(p) ==
  /\ p \in promised \ settled
  /\ settled' = settled \cup {p}
  /\ UNCHANGED <<promised, granted>>

Next == \E p \in Promises : Promise(p) \/ Grant(p) \/ Settle(p)

Spec == Init /\ [][Next]_outboxVars
=============================================================================
