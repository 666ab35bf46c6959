------------------------------- MODULE Codes -------------------------------
(***************************************************************************)
(* What becomes of a verification code.  A send that SendLimits let        *)
(* through queues a message, then inserts the task's row, then stores the  *)
(* code under an id of its own, and answers with the id; a worker of the   *)
(* mail queue delivers the message; a handler that needs a code reads it   *)
(* back, compares it and deletes it, each by a Redis command.              *)
(***************************************************************************)
EXTENDS Naturals, FiniteSets

CONSTANTS
  Sends, Uses,  \* requests for a code, requests that bring one
  CodeTTL,      \* 15 minutes
  TaskAge,      \* an older message is dropped: 5 minutes, 15 for mail
  Workers,      \* queue_workers of the configuration
  MaxTime,      \* the clock stops here
  MaxFaults     \* failing calls and dying processes during the run

ASSUME CodesConstants ==
  /\ CodeTTL \in Nat \ {0} /\ TaskAge \in 0..CodeTTL
  /\ Workers \in Nat \ {0} /\ MaxTime \in Nat /\ MaxFaults \in Nat

VARIABLES
  now,
  pc,        \* of the send: idle, row, store, done, refused, unqueued, failed
  expires,   \* of auth:verify-code:<id>:<address>; 0: there is no such key
  task,      \* the message in asynq: none, queued, sent (unacknowledged), gone
  queuedAt,
  arrivals,  \* how often the message arrived, and when it last did
  arrivedAt,
  dropped,   \* messages the worker found too old
  upc,       \* of the use: idle, delete, used, refused
  target,    \* the code it brings
  spent,     \* uses whose DEL succeeded
  seen,      \* history: those that had when this use looked
  faults

send == <<pc, expires>>
mail == <<task, queuedAt, arrivals, arrivedAt, dropped>>
use  == <<upc, target, spent, seen>>
vars == <<now, send, mail, use, faults>>

TypeOK ==
  /\ now \in 0..MaxTime
  /\ pc \in [Sends -> {"idle", "row", "store", "done", "refused", "unqueued", "failed"}]
  /\ expires \in [Sends -> 0..(MaxTime + CodeTTL)]
  /\ task \in [Sends -> {"none", "queued", "sent", "gone"}]
  /\ queuedAt \in [Sends -> 0..MaxTime] /\ arrivedAt \in [Sends -> 0..MaxTime]
  /\ arrivals \in [Sends -> 0..(MaxFaults + 1)] /\ dropped \subseteq Sends
  /\ upc \in [Uses -> {"idle", "delete", "used", "refused"}]
  /\ target \in [Uses -> Sends]
  /\ spent \subseteq Uses /\ seen \in [Uses -> SUBSET Uses]
  /\ faults \in 0..MaxFaults

Init ==
  /\ now = 0 /\ pc = [s \in Sends |-> "idle"] /\ expires = [s \in Sends |-> 0]
  /\ task = [s \in Sends |-> "none"] /\ queuedAt = [s \in Sends |-> 0]
  /\ arrivals = [s \in Sends |-> 0] /\ arrivedAt = [s \in Sends |-> 0]
  /\ dropped = {}
  /\ upc = [u \in Uses |-> "idle"] /\ target \in [Uses -> Sends]
  /\ spent = {} /\ seen = [u \in Uses |-> {}]
  /\ faults = 0

Goes(s, from, to) == pc[s] = from /\ pc' = [pc EXCEPT ![s] = to]
Moves(s, from, to) == task[s] = from /\ task' = [task EXCEPT ![s] = to]
UseGoes(u, from, to) == upc[u] = from /\ upc' = [upc EXCEPT ![u] = to]
Fault == faults < MaxFaults /\ faults' = faults + 1

----------------------------------------------------------------------------
\* sendSMSCode and its likes

\* The limits or the callback refuse the address, or asynq takes the message.
Enqueue(s) ==
  /\ \/ Goes(s, "idle", "refused") /\ UNCHANGED <<task, queuedAt, faults>>
     \/ Goes(s, "idle", "unqueued") /\ Fault /\ UNCHANGED <<task, queuedAt>>
     \/ /\ Goes(s, "idle", "row") /\ Moves(s, "none", "queued")
        /\ queuedAt' = [queuedAt EXCEPT ![s] = now] /\ UNCHANGED faults
  /\ UNCHANGED <<now, expires, arrivals, arrivedAt, dropped, use>>

\* The row of queue_tasks; without it Enqueue is an error, and the message stays.
AddRow(s) ==
  /\ \/ Goes(s, "row", "store") /\ UNCHANGED faults
     \/ Goes(s, "row", "unqueued") /\ Fault
  /\ UNCHANGED <<now, expires, mail, use>>

\* SETNX under a new id, and the answer with the id.
Store(s) ==
  /\ \/ /\ Goes(s, "store", "done") /\ UNCHANGED faults
        /\ expires' = [expires EXCEPT ![s] = now + CodeTTL]
     \/ Goes(s, "store", "failed") /\ Fault /\ UNCHANGED expires
  /\ UNCHANGED <<now, mail, use>>

\* The process dies.
Die(s) ==
  /\ Goes(s, "row", "failed") \/ Goes(s, "store", "failed")
  /\ Fault /\ UNCHANGED <<now, expires, mail, use>>

----------------------------------------------------------------------------
\* The worker

\* The queues "mail" and "user" have a fifth of the workers each, rounded down,
\* as priority; asynq ignores a queue of priority 0.  Mutant: a twentieth.
ServedTwentieth == Workers \div 20 > 0
Served == Workers \div 5 > 0

\* Mutant: the age of the message is not looked at.
OldNever(s) == s \notin Sends
Old(s) == queuedAt[s] + TaskAge < now

DropOld(s) ==
  /\ Served /\ Old(s) /\ Moves(s, "queued", "gone")
  /\ dropped' = dropped \cup {s}
  /\ UNCHANGED <<now, send, queuedAt, arrivals, arrivedAt, use, faults>>

\* The handler sends the message; a failure is not retried.
Deliver(s) ==
  /\ Served /\ ~Old(s)
  /\ \/ /\ Moves(s, "queued", "sent") /\ UNCHANGED faults
        /\ arrivals' = [arrivals EXCEPT ![s] = @ + 1]
        /\ arrivedAt' = [arrivedAt EXCEPT ![s] = now]
     \/ Moves(s, "queued", "gone") /\ Fault /\ UNCHANGED <<arrivals, arrivedAt>>
  /\ UNCHANGED <<now, send, queuedAt, dropped, use>>

\* The row's status is updated, or cannot be, and asynq forgets the task; if the
\* worker dies first, asynq delivers it again.
Acknowledge(s) ==
  /\ \/ Moves(s, "sent", "gone") /\ UNCHANGED faults
     \/ Moves(s, "sent", "queued") /\ Fault
  /\ UNCHANGED <<now, send, queuedAt, arrivals, arrivedAt, dropped, use>>

----------------------------------------------------------------------------
\* Sign-in, sign-up, BindPhone, ResetPassword and Destroy

\* GET and the comparison.  The caller has the id once the send was answered,
\* and the code once it arrived; anything else is refused.
Lookup(u) ==
  LET s == target[u] IN
  /\ pc[s] = "done"
  /\ \/ /\ now < expires[s] /\ arrivals[s] > 0
        /\ UseGoes(u, "idle", "delete") /\ UNCHANGED faults
     \/ /\ ~(now < expires[s] /\ arrivals[s] > 0)
        /\ UseGoes(u, "idle", "refused") /\ UNCHANGED faults
     \/ UseGoes(u, "idle", "refused") /\ Fault
  /\ seen' = [seen EXCEPT ![u] = spent]
  /\ UNCHANGED <<now, send, mail, target, spent>>

\* Mutant: the entry stays.
DeleteNothing(u) ==
  /\ UseGoes(u, "delete", "used") /\ spent' = spent \cup {u}
  /\ UNCHANGED <<now, send, mail, target, seen, faults>>

\* DEL, whose error is ignored; then the handler does what the code allows.
Delete(u) ==
  /\ UseGoes(u, "delete", "used")
  /\ \/ /\ expires' = [expires EXCEPT ![target[u]] = 0]
        /\ spent' = spent \cup {u} /\ UNCHANGED faults
     \/ Fault /\ UNCHANGED <<expires, spent>>
  /\ UNCHANGED <<now, pc, mail, target, seen>>

Tick ==
  /\ now < MaxTime /\ now' = now + 1
  /\ UNCHANGED <<send, mail, use, faults>>

Send(s) == Enqueue(s) \/ AddRow(s) \/ Store(s) \/ Die(s)
Use(u) == Lookup(u) \/ Delete(u)
Work(s) == DropOld(s) \/ Deliver(s) \/ Acknowledge(s)
Next ==
  \/ Tick
  \/ \E s \in Sends : Send(s) \/ Work(s)
  \/ \E u \in Uses : Use(u)
Spec == Init /\ [][Next]_vars

\* asynq's workers take what is queued; the clock and the callers owe nothing.
FairSpec == Spec /\ \A s \in Sends : WF_vars(Work(s))

----------------------------------------------------------------------------
\* Properties

\* A message that arrives, even for the second time, leaves CodeTTL - TaskAge to
\* use its code, if the send was answered and the code is not used up.
ArrivesUsable == \A s \in Sends :
  arrivals[s] > 0 /\ expires[s] > 0 => arrivedAt[s] + CodeTTL <= expires[s] + TaskAge

\* A code allows two things only to uses that overlap, or after a failure: once
\* a use has deleted it, no later one passes.
ReuseNeedsOverlap == \A u, v \in Uses :
  upc[u] \in {"delete", "used"} /\ target[u] = target[v] => v \notin seen[u]

\* Every queued message arrives, is dropped for its age, or met a failure.
QueuedCodeArrives == \A s \in Sends :
  task[s] = "queued" ~> arrivals[s] > 0 \/ s \in dropped \/ faults > 0
=============================================================================
