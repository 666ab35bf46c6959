---------------------------- MODULE Codes_proofs ----------------------------
(***************************************************************************)
(* For any sends and uses, lifetimes, numbers of workers and failures: how *)
(* long a code that arrives can be used, and that a code which was used up *)
(* stays so.  Both rest on when things happen to one code: it is stored    *)
(* once, after its message was queued, and only uses of it delete it.      *)
(***************************************************************************)
EXTENDS Codes, TLAPS

\* The message is queued once, and again only after a failure.
DeliveryInv == \A s \in Sends :
  /\ arrivals[s] + (IF task[s] \in {"none", "queued"} THEN 1 ELSE 0) <= faults + 1
  /\ pc[s] = "idle" => task[s] = "none"
  /\ task[s] = "none" => arrivals[s] = 0

\* The message arrives no later than its age admits, the code is stored after it was queued.
TimeInv == \A s \in Sends :
  /\ queuedAt[s] <= now
  /\ arrivals[s] > 0 => arrivedAt[s] <= queuedAt[s] + TaskAge
  /\ expires[s] > 0 => pc[s] = "done" /\ queuedAt[s] + CodeTTL <= expires[s]

\* What a use deleted is not stored again.
SpentInv ==
  /\ \A u \in Uses : /\ seen[u] \subseteq spent
                     /\ upc[u] \in {"delete", "used"} => pc[target[u]] = "done"
  /\ \A v \in spent : expires[target[v]] = 0 /\ pc[target[v]] = "done"

Inv == TypeOK /\ DeliveryInv /\ TimeInv /\ SpentInv /\ ReuseNeedsOverlap

----------------------------------------------------------------------------
LEMMA InitInv == Init => Inv
<1> SUFFICES ASSUME Init PROVE Inv
  OBVIOUS
<1>1. MaxTime \in Nat /\ CodeTTL \in Nat /\ MaxFaults \in Nat
  BY CodesConstants
<1>2. TypeOK
  BY <1>1 DEF Init, TypeOK
<1>3. DeliveryInv /\ TimeInv
  BY DEF Init, DeliveryInv, TimeInv
<1>4. SpentInv /\ ReuseNeedsOverlap
  BY DEF Init, SpentInv, ReuseNeedsOverlap
<1> QED BY <1>2, <1>3, <1>4 DEF Inv

LEMMA FaultCounts == ASSUME TypeOK, Fault PROVE faults' \in 0..MaxFaults /\ faults' = faults + 1
BY CodesConstants DEF TypeOK, Fault

\* A step of the mail queue or of a use keeps the types of what it does not change.
LEMMA SendType ==
  ASSUME Inv, NEW s \in Sends, Send(s)
  PROVE  TypeOK'
<1> USE DEF Goes, Moves, send, mail, use
<1>1. faults' \in 0..MaxFaults
  BY FaultCounts DEF Inv, TypeOK, Send, Enqueue, AddRow, Store, Die
<1>2. now' = now /\ UNCHANGED <<arrivals, arrivedAt, dropped, use>>
  BY DEF Send, Enqueue, AddRow, Store, Die
<1>3. pc' \in [Sends -> {"idle", "row", "store", "done", "refused", "unqueued", "failed"}]
  BY DEF Inv, TypeOK, Send, Enqueue, AddRow, Store, Die
<1>4. task' \in [Sends -> {"none", "queued", "sent", "gone"}] /\ queuedAt' \in [Sends -> 0..MaxTime]
  BY DEF Inv, TypeOK, Send, Enqueue, AddRow, Store, Die
<1>5. now + CodeTTL \in 0..(MaxTime + CodeTTL)
  BY CodesConstants DEF Inv, TypeOK
<1>6. expires' \in [Sends -> 0..(MaxTime + CodeTTL)]
  BY <1>5 DEF Inv, TypeOK, Send, Enqueue, AddRow, Store, Die
<1> QED BY <1>1, <1>2, <1>3, <1>4, <1>6 DEF Inv, TypeOK

LEMMA WorkType ==
  ASSUME Inv, NEW s \in Sends, Work(s)
  PROVE  TypeOK'
<1> USE DEF Moves, send, use
<1>1. faults' \in 0..MaxFaults
  BY FaultCounts DEF Inv, TypeOK, Work, DropOld, Deliver, Acknowledge
<1>2. UNCHANGED <<now, send, queuedAt, use>>
  BY DEF Work, DropOld, Deliver, Acknowledge
<1>3. task' \in [Sends -> {"none", "queued", "sent", "gone"}] /\ dropped' \subseteq Sends
  BY DEF Inv, TypeOK, Work, DropOld, Deliver, Acknowledge
<1>4. arrivedAt' \in [Sends -> 0..MaxTime]
  BY DEF Inv, TypeOK, Work, DropOld, Deliver, Acknowledge
<1>5. ASSUME task[s] = "queued" PROVE arrivals[s] + 1 \in 0..(MaxFaults + 1)
  <2>1. arrivals[s] + 1 <= faults + 1
    BY <1>5 DEF Inv, DeliveryInv
  <2>2. arrivals[s] \in Nat /\ faults \in 0..MaxFaults
    BY CodesConstants DEF Inv, TypeOK
  <2> QED BY <2>1, <2>2, CodesConstants
<1>6. arrivals' \in [Sends -> 0..(MaxFaults + 1)]
  BY <1>5 DEF Inv, TypeOK, Work, DropOld, Deliver, Acknowledge
<1> QED BY <1>1, <1>2, <1>3, <1>4, <1>6 DEF Inv, TypeOK

LEMMA UseType ==
  ASSUME Inv, NEW u \in Uses, Use(u)
  PROVE  TypeOK'
<1> USE DEF UseGoes, mail, send
<1>1. faults' \in 0..MaxFaults
  BY FaultCounts DEF Inv, TypeOK, Use, Lookup, Delete
<1>2. UNCHANGED <<now, pc, mail, target>>
  BY DEF Use, Lookup, Delete
<1>3. upc' \in [Uses -> {"idle", "delete", "used", "refused"}]
  BY DEF Inv, TypeOK, Use, Lookup, Delete
<1>4. spent' \subseteq Uses /\ seen' \in [Uses -> SUBSET Uses]
  BY DEF Inv, TypeOK, Use, Lookup, Delete
<1>5. expires' \in [Sends -> 0..(MaxTime + CodeTTL)]
  BY CodesConstants DEF Inv, TypeOK, Use, Lookup, Delete
<1> QED BY <1>1, <1>2, <1>3, <1>4, <1>5 DEF Inv, TypeOK

LEMMA NextType == Inv /\ [Next]_vars => TypeOK'
<1>1. ASSUME Inv, Tick PROVE TypeOK'
  BY <1>1, CodesConstants DEF Inv, TypeOK, Tick, send, mail, use
<1>2. ASSUME Inv, UNCHANGED vars PROVE TypeOK'
  BY <1>2 DEF Inv, TypeOK, vars, send, mail, use
<1> QED BY <1>1, <1>2, SendType, WorkType, UseType DEF Next

----------------------------------------------------------------------------
(* One code's message                                                      *)

LEMMA NextDelivery == Inv /\ [Next]_vars => DeliveryInv'
<1> SUFFICES ASSUME Inv, [Next]_vars, NEW r \in Sends
             PROVE  /\ arrivals'[r] + (IF task'[r] \in {"none", "queued"} THEN 1 ELSE 0)
                         <= faults' + 1
                    /\ pc'[r] = "idle" => task'[r] = "none"
                    /\ task'[r] = "none" => arrivals'[r] = 0
  BY DEF DeliveryInv
<1>1. /\ arrivals[r] + (IF task[r] \in {"none", "queued"} THEN 1 ELSE 0) <= faults + 1
      /\ pc[r] = "idle" => task[r] = "none"
      /\ task[r] = "none" => arrivals[r] = 0
  BY DEF Inv, DeliveryInv
<1>2. /\ pc \in [Sends -> {"idle", "row", "store", "done", "refused", "unqueued", "failed"}]
      /\ task \in [Sends -> {"none", "queued", "sent", "gone"}]
      /\ arrivals \in [Sends -> Nat] /\ faults \in Nat
  BY CodesConstants DEF Inv, TypeOK
<1>3. arrivals[r] \in Nat
  BY <1>2
<1>4. faults' \in Nat /\ faults' >= faults
  BY <1>2, FaultCounts, CodesConstants
     DEF Inv, Next, vars, Tick, Send, Enqueue, AddRow, Store, Die, Work, DropOld, Deliver,
         Acknowledge, Use, Lookup, Delete
<1>5. ASSUME arrivals'[r] = arrivals[r], task'[r] = task[r],
             pc'[r] = pc[r] \/ pc'[r] # "idle"
      PROVE  /\ arrivals'[r] + (IF task'[r] \in {"none", "queued"} THEN 1 ELSE 0)
                  <= faults' + 1
             /\ pc'[r] = "idle" => task'[r] = "none"
             /\ task'[r] = "none" => arrivals'[r] = 0
  BY <1>1, <1>2, <1>3, <1>4, <1>5
<1>6. CASE Tick \/ UNCHANGED vars \/ \E u \in Uses : Use(u)
  BY <1>5, <1>6 DEF Tick, Use, Lookup, Delete, vars, send, mail
<1>7. ASSUME NEW s \in Sends, Enqueue(s)
      PROVE  /\ arrivals'[r] + (IF task'[r] \in {"none", "queued"} THEN 1 ELSE 0)
                  <= faults' + 1
             /\ pc'[r] = "idle" => task'[r] = "none"
             /\ task'[r] = "none" => arrivals'[r] = 0
  <2>1. arrivals' = arrivals /\ pc[s] = "idle"
    BY <1>7 DEF Enqueue, Goes
  <2>2. pc'[r] = pc[r] \/ pc'[r] # "idle"
    BY <1>2, <1>7 DEF Enqueue, Goes
  <2>3. CASE task' = task
    BY <1>5, <2>1, <2>2, <2>3
  <2>4. CASE Moves(s, "none", "queued") /\ Goes(s, "idle", "row")
    <3>1. CASE r = s
      <4>1. task'[r] = "queued" /\ pc'[r] = "row" /\ task[r] = "none"
        BY <1>2, <2>4, <3>1 DEF Moves, Goes
      <4> QED BY <1>1, <1>3, <1>4, <2>1, <4>1
    <3>2. CASE r # s
      <4>1. task'[r] = task[r]
        BY <1>2, <2>4, <3>2 DEF Moves
      <4> QED BY <1>5, <2>1, <2>2, <4>1
    <3> QED BY <3>1, <3>2
  <2> QED BY <1>7, <2>3, <2>4 DEF Enqueue
<1>8. ASSUME NEW s \in Sends, AddRow(s) \/ Store(s) \/ Die(s)
      PROVE  arrivals' = arrivals /\ task' = task /\ (pc'[r] = pc[r] \/ pc'[r] # "idle")
  BY <1>2, <1>8 DEF AddRow, Store, Die, Goes, mail
<1>9. ASSUME NEW s \in Sends, Work(s)
      PROVE  /\ arrivals'[r] + (IF task'[r] \in {"none", "queued"} THEN 1 ELSE 0)
                  <= faults' + 1
             /\ pc'[r] = "idle" => task'[r] = "none"
             /\ task'[r] = "none" => arrivals'[r] = 0
  <2>1. pc' = pc /\ task[s] \in {"queued", "sent"}
    BY <1>9 DEF Work, DropOld, Deliver, Acknowledge, Moves, send
  <2>2. CASE r = s
    <3>1. pc[r] # "idle" /\ task[r] # "none"
      BY <1>1, <2>1, <2>2
    <3>2. CASE DropOld(s)
      <4>1. task[r] = "queued" /\ task'[r] = "gone" /\ arrivals' = arrivals
        BY <1>2, <2>2, <3>2 DEF DropOld, Moves
      <4> QED BY <1>1, <1>2, <1>3, <1>4, <2>1, <3>1, <4>1
    <3>3. CASE Deliver(s)
      <4>1. task[r] = "queued" /\ task'[r] \in {"sent", "gone"}
            /\ arrivals'[r] \in {arrivals[r], arrivals[r] + 1}
        BY <1>2, <2>2, <3>3 DEF Deliver, Moves
      <4> QED BY <1>1, <1>2, <1>3, <1>4, <2>1, <3>1, <4>1
    <3>4. CASE Acknowledge(s)
      <4>1. task[r] = "sent" /\ arrivals' = arrivals
        BY <2>2, <3>4 DEF Acknowledge, Moves
      <4>2. task'[r] = "gone" \/ (task'[r] = "queued" /\ Fault)
        BY <1>2, <2>2, <3>4 DEF Acknowledge, Moves
      <4>3. task'[r] = "gone" \/ (task'[r] = "queued" /\ faults' = faults + 1)
        BY <4>2, FaultCounts DEF Inv
      <4> QED BY <1>1, <1>2, <1>3, <1>4, <2>1, <3>1, <4>1, <4>3
    <3> QED BY <1>9, <3>2, <3>3, <3>4 DEF Work
  <2>3. CASE r # s
    <3>1. task'[r] = task[r] /\ arrivals'[r] = arrivals[r]
      BY <1>2, <1>9, <2>3 DEF Work, DropOld, Deliver, Acknowledge, Moves
    <3> QED BY <1>5, <2>1, <3>1
  <2> QED BY <2>2, <2>3
<1> QED BY <1>5, <1>6, <1>7, <1>8, <1>9 DEF Next, Send

----------------------------------------------------------------------------
(* When a code's message arrives, and when the code is stored              *)

LEMMA NextTime == Inv /\ [Next]_vars => TimeInv'
<1> DEFINE InTime(r) == /\ queuedAt[r] <= now
                        /\ arrivals[r] > 0 => arrivedAt[r] <= queuedAt[r] + TaskAge
                        /\ expires[r] > 0 => pc[r] = "done" /\ queuedAt[r] + CodeTTL <= expires[r]
<1> SUFFICES ASSUME Inv, [Next]_vars, NEW r \in Sends
             PROVE  InTime(r)'
  BY DEF TimeInv
<1>1. InTime(r)
  BY DEF Inv, TimeInv
<1>2. /\ pc \in [Sends -> {"idle", "row", "store", "done", "refused", "unqueued", "failed"}]
      /\ expires \in [Sends -> Nat] /\ now \in Nat /\ TaskAge \in Nat /\ CodeTTL \in Nat
      /\ queuedAt \in [Sends -> Nat] /\ arrivedAt \in [Sends -> Nat] /\ arrivals \in [Sends -> Nat]
  BY CodesConstants DEF Inv, TypeOK
<1>3. ASSUME UNCHANGED <<now, queuedAt, arrivals, arrivedAt>>, expires'[r] \in {expires[r], 0},
             pc[r] = "done" => pc'[r] = "done"
      PROVE  InTime(r)'
  BY <1>1, <1>3
<1>4. CASE UNCHANGED vars
  BY <1>3, <1>4 DEF vars, send, mail
<1>5. CASE Tick
  BY <1>1, <1>2, <1>5 DEF Tick, send, mail
<1>6. ASSUME NEW s \in Sends, Enqueue(s)
      PROVE  InTime(r)'
  <2>1. UNCHANGED <<now, expires, arrivals, arrivedAt>> /\ pc[s] = "idle"
    BY <1>6 DEF Enqueue, Goes
  <2>2. pc[r] = "done" => pc'[r] = "done"
    BY <1>2, <1>6 DEF Enqueue, Goes
  <2>3. CASE UNCHANGED queuedAt
    BY <1>3, <2>1, <2>2, <2>3
  <2>4. CASE queuedAt' = [queuedAt EXCEPT ![s] = now]
    <3>1. CASE r = s
      <4>1. arrivals[r] = 0
        BY <2>1, <3>1 DEF Inv, DeliveryInv
      <4>2. ~(expires[r] > 0)
        BY <1>1, <2>1, <3>1
      <4>3. queuedAt'[r] = now
        BY <1>2, <2>4, <3>1
      <4> QED BY <1>2, <2>1, <4>1, <4>2, <4>3
    <3>2. CASE r # s
      <4>1. queuedAt'[r] = queuedAt[r]
        BY <1>2, <2>4, <3>2
      <4> QED BY <1>1, <2>1, <2>2, <4>1
    <3> QED BY <3>1, <3>2
  <2> QED BY <1>6, <2>3, <2>4 DEF Enqueue, mail
<1>7. ASSUME NEW s \in Sends, Store(s)
      PROVE  InTime(r)'
  <2>1. UNCHANGED <<now, queuedAt, arrivals, arrivedAt>>
    BY <1>7 DEF Store, mail
  <2>2. pc[r] = "done" => pc'[r] = "done"
    BY <1>2, <1>7 DEF Store, Goes
  <2>3. CASE UNCHANGED expires
    BY <1>3, <2>1, <2>2, <2>3
  <2>4. CASE Goes(s, "store", "done") /\ expires' = [expires EXCEPT ![s] = now + CodeTTL]
    <3>1. CASE r = s
      <4>1. pc'[r] = "done" /\ expires'[r] = now + CodeTTL
        BY <1>2, <2>4, <3>1 DEF Goes
      <4>2. queuedAt[r] \in Nat /\ queuedAt[r] + CodeTTL <= now + CodeTTL
        BY <1>1, <1>2
      <4> QED BY <1>1, <2>1, <4>1, <4>2
    <3>2. CASE r # s
      <4>1. expires'[r] = expires[r]
        BY <1>2, <2>4, <3>2
      <4> QED BY <1>3, <2>1, <2>2, <4>1
    <3> QED BY <3>1, <3>2
  <2> QED BY <1>7, <2>3, <2>4 DEF Store
<1>8. ASSUME NEW s \in Sends, AddRow(s) \/ Die(s)
      PROVE  InTime(r)'
  <2>1. UNCHANGED <<now, queuedAt, arrivals, arrivedAt, expires>>
    BY <1>8 DEF AddRow, Die, mail
  <2>2. pc[r] = "done" => pc'[r] = "done"
    BY <1>2, <1>8 DEF AddRow, Die, Goes
  <2> QED BY <1>3, <2>1, <2>2
<1>9. ASSUME NEW s \in Sends, Work(s)
      PROVE  InTime(r)'
  <2>1. UNCHANGED <<now, queuedAt, pc, expires>>
    BY <1>9 DEF Work, DropOld, Deliver, Acknowledge, send
  <2>2. CASE UNCHANGED <<arrivals, arrivedAt>>
    BY <1>3, <2>1, <2>2
  <2>3. CASE /\ ~Old(s) /\ arrivals' = [arrivals EXCEPT ![s] = arrivals[s] + 1]
             /\ arrivedAt' = [arrivedAt EXCEPT ![s] = now]
    <3>1. CASE r = s
      <4>1. arrivedAt'[r] = now
        BY <1>2, <2>3, <3>1
      <4>2. queuedAt[r] \in Nat /\ now <= queuedAt[r] + TaskAge
        BY <1>2, <2>3, <3>1 DEF Old
      <4> QED BY <1>1, <2>1, <4>1, <4>2
    <3>2. CASE r # s
      <4>1. arrivals'[r] = arrivals[r] /\ arrivedAt'[r] = arrivedAt[r]
        BY <1>2, <2>3, <3>2
      <4> QED BY <1>1, <2>1, <4>1
    <3> QED BY <3>1, <3>2
  <2> QED BY <1>9, <2>2, <2>3 DEF Work, DropOld, Deliver, Acknowledge
<1>10. ASSUME NEW u \in Uses, Use(u)
       PROVE  InTime(r)'
  <2>1. UNCHANGED <<now, pc, queuedAt, arrivals, arrivedAt>>
    BY <1>10 DEF Use, Lookup, Delete, send, mail
  <2>2. expires'[r] \in {expires[r], 0}
    BY <1>2, <1>10 DEF Use, Lookup, Delete, send
  <2> QED BY <1>3, <2>1, <2>2
<1> HIDE DEF InTime
<1> QED BY <1>4, <1>5, <1>6, <1>7, <1>8, <1>9, <1>10 DEF Next, Send

----------------------------------------------------------------------------
(* Codes that are used up                                                  *)

LEMMA NextSpent == Inv /\ [Next]_vars => SpentInv' /\ ReuseNeedsOverlap'
<1> SUFFICES ASSUME Inv, [Next]_vars
             PROVE  SpentInv' /\ ReuseNeedsOverlap'
  OBVIOUS
<1>1. SpentInv /\ ReuseNeedsOverlap /\ spent \subseteq Uses
  BY DEF Inv, TypeOK
<1>2. /\ pc \in [Sends -> {"idle", "row", "store", "done", "refused", "unqueued", "failed"}]
      /\ expires \in [Sends -> Nat] /\ now \in Nat
      /\ target \in [Uses -> Sends] /\ seen \in [Uses -> SUBSET Uses]
      /\ upc \in [Uses -> {"idle", "delete", "used", "refused"}]
  BY CodesConstants DEF Inv, TypeOK
<1>3. ASSUME UNCHANGED use,
             \A r \in Sends : pc[r] = "done" => pc'[r] = "done" /\ expires'[r] = expires[r]
      PROVE  SpentInv' /\ ReuseNeedsOverlap'
  <2>1. ReuseNeedsOverlap'
    BY <1>1, <1>3 DEF ReuseNeedsOverlap, use
  <2>2. ASSUME NEW u \in Uses
        PROVE  /\ seen'[u] \subseteq spent'
               /\ upc'[u] \in {"delete", "used"} => pc'[target'[u]] = "done"
    BY <1>1, <1>2, <1>3 DEF SpentInv, use
  <2>3. ASSUME NEW v \in spent'
        PROVE  expires'[target'[v]] = 0 /\ pc'[target'[v]] = "done"
    BY <1>1, <1>2, <1>3 DEF SpentInv, use
  <2> QED BY <2>1, <2>2, <2>3 DEF SpentInv
<1>4. CASE UNCHANGED vars \/ Tick
  BY <1>3, <1>4 DEF vars, Tick, send
<1>5. ASSUME NEW s \in Sends, Send(s)
      PROVE  SpentInv' /\ ReuseNeedsOverlap'
  <2>1. UNCHANGED use
    BY <1>5 DEF Send, Enqueue, AddRow, Store, Die
  <2>2. ASSUME NEW r \in Sends, pc[r] = "done"
        PROVE  pc'[r] = "done" /\ expires'[r] = expires[r]
    BY <1>2, <1>5, <2>2 DEF Send, Enqueue, AddRow, Store, Die, Goes
  <2> QED BY <1>3, <2>1, <2>2
<1>6. ASSUME NEW s \in Sends, Work(s)
      PROVE  SpentInv' /\ ReuseNeedsOverlap'
  BY <1>3, <1>6 DEF Work, DropOld, Deliver, Acknowledge, send
<1>7. ASSUME NEW u \in Uses, Lookup(u)
      PROVE  SpentInv' /\ ReuseNeedsOverlap'
  <2>1. /\ UNCHANGED <<send, target, spent>> /\ seen' = [seen EXCEPT ![u] = spent]
        /\ pc[target[u]] = "done" /\ upc[u] = "idle"
    BY <1>7 DEF Lookup, UseGoes
  <2>2. upc'[u] \in {"delete", "used"} => expires[target[u]] > 0
    BY <1>2, <1>7 DEF Lookup, UseGoes
  <2>3. \A w \in Uses \ {u} : upc'[w] = upc[w] /\ seen'[w] = seen[w]
    BY <1>2, <1>7, <2>1 DEF Lookup, UseGoes
  <2>4. seen'[u] = spent
    BY <1>2, <2>1
  <2>5. ReuseNeedsOverlap'
    <3> SUFFICES ASSUME NEW w \in Uses, NEW v \in Uses, upc'[w] \in {"delete", "used"},
                        target[w] = target[v]
                 PROVE  v \notin seen'[w]
      BY <2>1 DEF ReuseNeedsOverlap
    <3>1. CASE w = u
      <4>1. v \in spent => expires[target[v]] = 0
        BY <1>1 DEF SpentInv
      <4> QED BY <2>2, <2>4, <3>1, <4>1
    <3>2. CASE w # u
      BY <1>1, <2>3, <3>2 DEF ReuseNeedsOverlap
    <3> QED BY <3>1, <3>2
  <2>6. SpentInv'
    <3>1. ASSUME NEW w \in Uses
          PROVE  /\ seen'[w] \subseteq spent
                 /\ upc'[w] \in {"delete", "used"} => pc[target[w]] = "done"
      BY <1>1, <2>1, <2>3, <2>4 DEF SpentInv
    <3> QED BY <1>1, <2>1, <3>1 DEF SpentInv, send
  <2> QED BY <2>5, <2>6
<1>8. ASSUME NEW u \in Uses, Delete(u)
      PROVE  SpentInv' /\ ReuseNeedsOverlap'
  <2>1. UNCHANGED <<pc, target, seen>> /\ UseGoes(u, "delete", "used")
    BY <1>8 DEF Delete
  <2>2. \A w \in Uses : upc'[w] \in {"delete", "used"} => upc[w] \in {"delete", "used"}
    BY <1>2, <2>1 DEF UseGoes
  <2>3. ReuseNeedsOverlap'
    BY <1>1, <2>1, <2>2 DEF ReuseNeedsOverlap
  <2>4. spent \subseteq spent' /\ \A v \in spent' : pc[target[v]] = "done" /\ expires'[target[v]] = 0
    <3>1. pc[target[u]] = "done"
      BY <1>1, <2>1 DEF SpentInv, UseGoes
    <3>2. CASE UNCHANGED <<expires, spent>>
      BY <1>1, <3>2 DEF SpentInv
    <3>3. CASE expires' = [expires EXCEPT ![target[u]] = 0] /\ spent' = spent \cup {u}
      <4>1. \A r \in Sends : expires[r] = 0 => expires'[r] = 0
        BY <1>2, <3>3
      <4>2. expires'[target[u]] = 0
        BY <1>2, <3>3
      <4> QED BY <1>1, <1>2, <3>1, <3>3, <4>1, <4>2 DEF SpentInv
    <3> QED BY <1>8, <3>2, <3>3 DEF Delete
  <2>5. SpentInv'
    <3>1. \A w \in Uses : seen'[w] \subseteq spent'
      BY <1>1, <2>1, <2>4 DEF SpentInv
    <3>2. \A w \in Uses : upc'[w] \in {"delete", "used"} => pc'[target'[w]] = "done"
      BY <1>1, <2>1, <2>2 DEF SpentInv
    <3> QED BY <2>1, <2>4, <3>1, <3>2 DEF SpentInv
  <2> QED BY <2>3, <2>5
<1> QED BY <1>4, <1>5, <1>6, <1>7, <1>8 DEF Next, Use

----------------------------------------------------------------------------
LEMMA Inductive == Spec => []Inv
<1>1. Inv /\ [Next]_vars => Inv'
  BY NextType, NextDelivery, NextTime, NextSpent DEF Inv
<1> QED BY <1>1, InitInv, PTL DEF Spec

\* Every variable keeps its type, for any requests, lifetimes and failures; a message arrives
\* once, and once more for each failure at most.
THEOREM TypeCorrect == Spec => []TypeOK
BY Inductive, PTL DEF Inv

\* A code that arrives can be used for CodeTTL - TaskAge, however late its message was
\* delivered and however often.
THEOREM ArrivesInTime == Spec => []ArrivesUsable
<1>1. Inv => ArrivesUsable
  <2> SUFFICES ASSUME Inv, NEW s \in Sends, arrivals[s] > 0, expires[s] > 0
               PROVE  arrivedAt[s] + CodeTTL <= expires[s] + TaskAge
    BY DEF ArrivesUsable
  <2>1. arrivedAt[s] <= queuedAt[s] + TaskAge /\ queuedAt[s] + CodeTTL <= expires[s]
    BY DEF Inv, TimeInv
  <2>2. /\ arrivedAt[s] \in Nat /\ queuedAt[s] \in Nat /\ expires[s] \in Nat
        /\ TaskAge \in Nat /\ CodeTTL \in Nat
    BY CodesConstants DEF Inv, TypeOK
  <2> QED BY <2>1, <2>2
<1> QED BY <1>1, Inductive, PTL

\* Once a use has deleted a code no later one passes, for any uses of any codes.
THEOREM UsedUpStaysSo == Spec => []ReuseNeedsOverlap
BY Inductive, PTL DEF Inv
=============================================================================
