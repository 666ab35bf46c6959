--------------------------- MODULE Rewards_proofs ---------------------------
(***************************************************************************)
(* Theorems about Rewards, for any sets of users, phones, logins and       *)
(* requests and any number of faults and crashes.                          *)
(***************************************************************************)
EXTENDS Rewards, TLAPS

\* What the actions are written with.  CallOK and CallFails stay opaque where
\* only the budget depends on them.
USE DEF users, api, queue, ledger, history, Handler, Worker

(***************************************************************************)
(* Types.  A bind handler at work is that of a user: without this the      *)
(* phone it reads would have no type.                                      *)
(***************************************************************************)
BindHasOwner == \A r \in Requests :
  /\ pc[r] \in {"read", "check"} => req[r].kind = "bind"
  /\ pc[r] \in {"read", "check", "tx"} /\ req[r].kind = "bind" => owner[r] \in Users

TypeInv == TypeOK /\ BindHasOwner

LEMMA InitTypeInv == Init => TypeInv
  BY ConstantsOK DEF Init, TypeInv, TypeOK, UsersTyped, ApiTyped, QueueTyped, LedgerTyped,
       BudgetTyped, BindHasOwner, HandlerStates, WorkerStates, Request, PhoneRequest,
       LoginRequest

\* Parts that a step leaves alone keep their types.
LEMMA UnchangedTypes ==
  /\ UsersTyped /\ UNCHANGED users => UsersTyped'
  /\ ApiTyped /\ UNCHANGED <<api, boundBefore>> => ApiTyped'
  /\ QueueTyped /\ UNCHANGED <<event, queue>> => QueueTyped'
  /\ LedgerTyped /\ UNCHANGED <<ledger, repeats>> => LedgerTyped'
  /\ BudgetTyped /\ UNCHANGED budget => BudgetTyped'
  BY DEF UsersTyped, ApiTyped, QueueTyped, LedgerTyped, BudgetTyped, budget

\* A call that succeeds or fails keeps the budget's type.
LEMMA CallTyped ==
  ASSUME BudgetTyped, NEW r \in Requests, CallOK \/ CallFails(r) \/ UNCHANGED budget
  PROVE  BudgetTyped'
<1>1. CASE UNCHANGED budget
  BY <1>1 DEF BudgetTyped, budget
<1>2. CASE CallFails(r)
  <2>1. faulted' \in [Requests -> BOOLEAN]
    BY <1>2 DEF BudgetTyped, CallFails
  <2>2. faults' \in Nat /\ crashes' \in Nat
    BY <1>2 DEF BudgetTyped, CallFails
  <2> QED BY <2>1, <2>2 DEF BudgetTyped
<1> QED BY <1>1, <1>2 DEF CallOK

LEMMA SignUpTxTyped ==
  ASSUME TypeInv, NEW r \in Requests, SignUpTx(r)
  PROVE  TypeInv'
<1>1. PICK u \in Users :
        /\ account' = [account EXCEPT ![u] = "active"]
        /\ \/ req[r].kind = "phone" /\ phone' = [phone EXCEPT ![u] = req[r].name]
              /\ UNCHANGED login
           \/ req[r].kind # "phone" /\ login' = [login EXCEPT ![u] = req[r].name]
              /\ UNCHANGED phone
        /\ owner' = [owner EXCEPT ![r] = u]
  BY DEF SignUpTx
<1>2. req[r] \in Request /\ req[r].kind \in SignUps
  BY DEF SignUpTx, TypeInv, TypeOK, ApiTyped
<1>3. UsersTyped'
  BY <1>1, <1>2 DEF SignUpTx, TypeInv, TypeOK, UsersTyped, Request, PhoneRequest,
                    LoginRequest, SignUps
<1>4. ApiTyped' /\ BindHasOwner'
  BY <1>1 DEF SignUpTx, TypeInv, TypeOK, ApiTyped, BindHasOwner, HandlerStates
<1>5. QueueTyped'
  BY DEF SignUpTx, TypeInv, TypeOK, QueueTyped
<1>6. LedgerTyped' /\ BudgetTyped'
  BY UnchangedTypes, CallTyped DEF SignUpTx, TypeInv, TypeOK
<1> QED BY <1>3, <1>4, <1>5, <1>6 DEF TypeInv, TypeOK

\* The handler steps that change nothing but the handler and the budget.
LEMMA ApiOnlyTyped ==
  ASSUME TypeInv, NEW r \in Requests,
         \/ ReceiveSignUp(r) \/ ReceiveBind(r) \/ SignUpTaken(r) \/ BindRead(r)
         \/ BindCheck(r) \/ TxFails(r) \/ ApiCrash(r)
  PROVE  TypeInv'
<1>1. UsersTyped' /\ QueueTyped' /\ LedgerTyped'
  BY UnchangedTypes DEF ReceiveSignUp, ReceiveBind, SignUpTaken, BindRead, BindCheck,
       TxFails, ApiCrash, TypeInv, TypeOK
<1>2. BudgetTyped'
  <2>1. CASE ApiCrash(r)
    BY <2>1 DEF ApiCrash, TypeInv, TypeOK, BudgetTyped
  <2>2. CASE ~ApiCrash(r)
    BY <2>2, CallTyped DEF ReceiveSignUp, ReceiveBind, SignUpTaken, BindRead, BindCheck,
         TxFails, TypeInv, TypeOK
  <2> QED BY <2>1, <2>2
<1>3. ApiTyped' /\ BindHasOwner'
  <2> USE ConstantsOK DEF TypeInv, TypeOK, ApiTyped, BindHasOwner, HandlerStates
  <2>1. CASE ReceiveSignUp(r)
    BY <2>1 DEF ReceiveSignUp, Request, PhoneRequest, LoginRequest, AllKinds, SignUps,
         ActiveInviter
  <2>2. CASE ReceiveBind(r)
    BY <2>2 DEF ReceiveBind, Request, PhoneRequest, LoginRequest, ActiveInviter
  <2>3. CASE SignUpTaken(r)
    BY <2>3 DEF SignUpTaken
  <2>4. CASE BindRead(r)
    <3>1. owner[r] \in Users /\ GiftEvents(owner[r]) \subseteq Requests
      BY <2>4 DEF BindRead, GiftEvents
    <3>2. PICK s \in {"check", "done"} : pc' = [pc EXCEPT ![r] = s]
      BY <2>4 DEF BindRead
    <3>3. phone[owner[r]] \in Phones \cup {NoName}
      BY <3>1 DEF UsersTyped
    <3> QED BY <2>4, <3>1, <3>2, <3>3 DEF BindRead
  <2>5. CASE BindCheck(r)
    <3>1. PICK s \in {"tx", "done"} : pc' = [pc EXCEPT ![r] = s]
      BY <2>5 DEF BindCheck
    <3>2. owner[r] \in Users /\ UNCHANGED <<req, owner, seen, boundBefore>>
      BY <2>5 DEF BindCheck
    <3> QED BY <3>1, <3>2
  <2>6. CASE TxFails(r)
    BY <2>6 DEF TxFails
  <2>7. CASE ApiCrash(r)
    BY <2>7 DEF ApiCrash
  <2> QED BY <2>1, <2>2, <2>3, <2>4, <2>5, <2>6, <2>7
<1> QED BY <1>1, <1>2, <1>3 DEF TypeInv, TypeOK

LEMMA BindTxTyped ==
  ASSUME TypeInv, NEW r \in Requests, BindTx(r)
  PROVE  TypeInv'
<1>1. req[r].name \in Phones
  BY DEF BindTx, TypeInv, TypeOK, ApiTyped, Request, PhoneRequest, LoginRequest
<1>2. UsersTyped'
  BY <1>1 DEF BindTx, TypeInv, TypeOK, UsersTyped
<1>3. PICK s \in {"enqueue", "done"} : pc' = [pc EXCEPT ![r] = s]
  BY DEF BindTx
<1>4. ApiTyped' /\ BindHasOwner'
  BY <1>3 DEF BindTx, TypeInv, TypeOK, ApiTyped, BindHasOwner, HandlerStates
<1>5. event' \in {event, [event EXCEPT ![r] = "waiting"]}
  BY DEF BindTx
<1>6. QueueTyped'
  BY <1>5 DEF BindTx, TypeInv, TypeOK, QueueTyped
<1>7. LedgerTyped' /\ BudgetTyped'
  BY UnchangedTypes DEF BindTx, TypeInv, TypeOK
<1> QED BY <1>2, <1>4, <1>6, <1>7 DEF TypeInv, TypeOK

LEMMA EnqueueTyped ==
  ASSUME TypeInv, NEW r \in Requests, Enqueue(r) \/ AddRow(r)
  PROVE  TypeInv'
<1>1. UsersTyped' /\ LedgerTyped'
  BY UnchangedTypes DEF Enqueue, AddRow, TypeInv, TypeOK
<1>2. BudgetTyped'
  BY CallTyped DEF Enqueue, AddRow, TypeInv, TypeOK
<1>3. PICK s \in {"add", "done"} : pc' = [pc EXCEPT ![r] = s]
  BY DEF Enqueue, AddRow
<1>4. ApiTyped' /\ BindHasOwner'
  BY <1>3 DEF Enqueue, AddRow, TypeInv, TypeOK, ApiTyped, BindHasOwner, HandlerStates
<1>5. QueueTyped'
  <2>1. asynq' \in [Requests -> {"none", "queued", "active", "completed", "archived"}]
    BY DEF Enqueue, AddRow, TypeInv, TypeOK, QueueTyped
  <2>2. row' \in [Requests -> {"none", "pending", "success", "failed"}]
    BY DEF Enqueue, AddRow, TypeInv, TypeOK, QueueTyped
  <2> QED BY <2>1, <2>2 DEF Enqueue, AddRow, TypeInv, TypeOK, QueueTyped
<1> QED BY <1>1, <1>2, <1>4, <1>5 DEF TypeInv, TypeOK

LEMMA DestroyTyped ==
  ASSUME TypeInv, NEW u \in Users, Destroy(u)
  PROVE  TypeInv'
<1>1. UsersTyped'
  BY DEF Destroy, TypeInv, TypeOK, UsersTyped
<1>2. ApiTyped' /\ QueueTyped' /\ LedgerTyped' /\ BudgetTyped'
  BY UnchangedTypes DEF Destroy, TypeInv, TypeOK
<1>3. BindHasOwner'
  BY DEF Destroy, TypeInv, BindHasOwner
<1> QED BY <1>1, <1>2, <1>3 DEF TypeInv, TypeOK

\* asynq's own steps and the clean-up job.
LEMMA QueueStepTyped ==
  ASSUME TypeInv, NEW r \in Requests,
         Deliver(r) \/ Age(r) \/ Acknowledge(r) \/ WorkerCrash(r) \/ CollectRow(r)
  PROVE  TypeInv'
<1>1. UsersTyped' /\ ApiTyped'
  BY UnchangedTypes DEF Deliver, Age, Acknowledge, WorkerCrash, CollectRow, TypeInv, TypeOK
<1>2. BindHasOwner'
  BY DEF Deliver, Age, Acknowledge, WorkerCrash, CollectRow, TypeInv, BindHasOwner
<1>3. QueueTyped'
  BY DEF Deliver, Age, Acknowledge, WorkerCrash, CollectRow, TypeInv, TypeOK, QueueTyped,
         WorkerStates
<1>4. LedgerTyped' /\ BudgetTyped'
  <2>1. CASE WorkerCrash(r)
    BY <2>1 DEF WorkerCrash, TypeInv, TypeOK, LedgerTyped, BudgetTyped
  <2>2. CASE ~WorkerCrash(r)
    BY <2>2, UnchangedTypes DEF Deliver, Age, Acknowledge, CollectRow, TypeInv, TypeOK
  <2> QED BY <2>1, <2>2
<1> QED BY <1>1, <1>2, <1>3, <1>4 DEF TypeInv, TypeOK

\* What a task handler's step may do: move the worker on, grant one coin gift,
\* set the invite code or the inviter of its user, settle the event or the row.
LEMMA WorkerStepShape ==
  ASSUME TypeInv, NEW r \in Requests, WorkerStep(r), ~Acknowledge(r)
  PROVE  /\ UNCHANGED <<account, phone, login, api, asynq, stale, history>>
         /\ CallOK \/ CallFails(r)
         /\ \E s \in WorkerStates : wpc' = [wpc EXCEPT ![r] = s]
         /\ code' \in {code, [code EXCEPT ![owner[r]] = TRUE]}
         /\ invitedBy' \in {invitedBy, [invitedBy EXCEPT ![owner[r]] = req[r].by]}
         /\ base' \in {base, [base EXCEPT ![r] = @ + 1]}
         /\ referrer' \in {referrer, [referrer EXCEPT ![r] = @ + 1]}
         /\ referee' \in {referee, [referee EXCEPT ![r] = @ + 1]}
         /\ event' \in {event, [event EXCEPT ![r] = "succeed"], [event EXCEPT ![r] = "failed"]}
         /\ row' \in {row, [row EXCEPT ![r] = "success"], [row EXCEPT ![r] = "failed"]}
<1> USE DEF WorkerStates
<1>1. CASE Begin(r)         BY <1>1 DEF Begin
<1>2. CASE GrantBase(r)     BY <1>2 DEF GrantBase
<1>3. CASE MakeCode(r)      BY <1>3 DEF MakeCode
<1>4. CASE FindInviter(r)   BY <1>4 DEF FindInviter
<1>5. CASE LinkInviter(r)   BY <1>5 DEF LinkInviter
<1>6. CASE GrantReferrer(r) BY <1>6 DEF GrantReferrer
<1>7. CASE GrantReferee(r)  BY <1>7 DEF GrantReferee
<1>8. CASE Settle(r)        BY <1>8 DEF Settle
<1>9. CASE Report(r)        BY <1>9 DEF Report
<1>10. CASE FailRow(r)      BY <1>10 DEF FailRow
<1>11. CASE FailEvent(r)    BY <1>11 DEF FailEvent
<1> QED BY <1>1, <1>2, <1>3, <1>4, <1>5, <1>6, <1>7, <1>8, <1>9, <1>10, <1>11
        DEF WorkerStep

LEMMA WorkerStepTyped ==
  ASSUME TypeInv, NEW r \in Requests, WorkerStep(r), ~Acknowledge(r)
  PROVE  TypeInv'
<1>1. req[r].by \in Users \cup {NoUser}
  BY DEF TypeInv, TypeOK, ApiTyped, Request, PhoneRequest, LoginRequest
<1>2. UsersTyped'
  BY <1>1, WorkerStepShape DEF TypeInv, TypeOK, UsersTyped
<1>3. ApiTyped' /\ BindHasOwner'
  BY WorkerStepShape DEF TypeInv, TypeOK, ApiTyped, BindHasOwner
<1>4. QueueTyped'
  BY WorkerStepShape DEF TypeInv, TypeOK, QueueTyped
<1>5. LedgerTyped'
  BY WorkerStepShape DEF TypeInv, TypeOK, LedgerTyped
<1>6. BudgetTyped'
  BY WorkerStepShape, CallTyped DEF TypeInv, TypeOK
<1> QED BY <1>2, <1>3, <1>4, <1>5, <1>6 DEF TypeInv, TypeOK

LEMMA StutterTyped == TypeInv /\ UNCHANGED vars => TypeInv'
  BY UnchangedTypes DEF vars, TypeInv, TypeOK, BindHasOwner

LEMMA NextTyped == TypeInv /\ [Next]_vars => TypeInv'
  BY SignUpTxTyped, ApiOnlyTyped, BindTxTyped, EnqueueTyped, DestroyTyped,
     QueueStepTyped, WorkerStepTyped, StutterTyped
  DEF Next, HandlerStep, WorkerStep

\* Every variable keeps its type, whatever the interleaving, faults and crashes.
THEOREM TypeCorrect == Spec => []TypeOK
<1>1. Spec => []TypeInv
  BY InitTypeInv, NextTyped, PTL DEF Spec
<1>2. TypeInv => TypeOK
  BY DEF TypeInv
<1> QED BY <1>1, <1>2, PTL

(***************************************************************************)
(* Gifts.  A delivery that is still ahead of a gift step, with its event   *)
(* open, has granted nothing beyond what crashes already account for; once *)
(* the event is settled the begin step sends the delivery away.            *)
(***************************************************************************)
BeforeBase     == {"idle", "begin", "gift"}
BeforeReferrer == BeforeBase \cup {"code", "lookup", "link", "referrer"}
BeforeReferee  == BeforeReferrer \cup {"referee"}
Processing     == {"gift", "code", "lookup", "link", "referrer", "referee", "settle"}

\* The task may still be processed, and is ahead of the steps outside S.
Ahead(r, S) == /\ event[r] \in {"none", "waiting"}
               /\ asynq[r] \in {"none", "queued", "active"}
               /\ wpc[r] \in S

WorkerInv == \A r \in Requests :
  /\ asynq[r] = "active" <=> wpc[r] # "idle"
  /\ wpc[r] \in Processing => event[r] = "waiting"

EventInv == \A r \in Requests :
  /\ pc[r] \in {"idle", "read", "check", "tx"} => event[r] = "none"
  /\ pc[r] \in {"idle", "read", "check", "tx", "enqueue"} => asynq[r] = "none"
  /\ pc[r] = "enqueue" => event[r] = "waiting"
  /\ asynq[r] # "none" => event[r] # "none"

GiftInv ==
  /\ \A r \in Requests :
       /\ Ahead(r, BeforeBase) => base[r] <= repeats[r]
       /\ Ahead(r, BeforeReferrer) => referrer[r] <= repeats[r]
       /\ Ahead(r, BeforeReferee) => referee[r] <= repeats[r]
  /\ GiftsBounded

Inv == TypeInv /\ WorkerInv /\ EventInv /\ GiftInv

LEMMA InitInv == Init => Inv
<1> SUFFICES ASSUME Init PROVE Inv
  OBVIOUS
<1>1. TypeInv
  BY InitTypeInv
<1>2. WorkerInv /\ EventInv /\ GiftInv
  BY DEF Init, WorkerInv, EventInv, GiftInv, GiftsBounded, Processing
<1> QED BY <1>1, <1>2 DEF Inv

\* The handlers: an event is committed, then its task is queued.
LEMMA ApiInv ==
  ASSUME Inv, NEW r \in Requests,
         ReceiveSignUp(r) \/ ReceiveBind(r) \/ HandlerStep(r) \/ ApiCrash(r)
  PROVE  WorkerInv' /\ EventInv' /\ GiftInv'
<1> USE DEF Inv, TypeInv, TypeOK, ApiTyped, QueueTyped
<1>1. /\ UNCHANGED <<wpc, base, referrer, referee, repeats>>
      /\ asynq' \in {asynq, [asynq EXCEPT ![r] = "queued"]}
      /\ asynq' # asynq => pc[r] = "enqueue"
      /\ event' \in {event, [event EXCEPT ![r] = "waiting"]}
      /\ event' # event => pc[r] = "tx" /\ asynq' = asynq
  <2>1. CASE Enqueue(r)
    <3>1. pc[r] = "enqueue" /\ [asynq EXCEPT ![r] = "none"] = asynq
      BY <2>1 DEF Enqueue, EventInv
    <3> QED BY <2>1, <3>1 DEF Enqueue
  <2>2. CASE ~Enqueue(r)
    BY <2>2 DEF HandlerStep, ReceiveSignUp, ReceiveBind, SignUpTaken, SignUpTx, BindRead,
         BindCheck, BindTx, TxFails, AddRow, ApiCrash
  <2> QED BY <2>1, <2>2
<1>2. crashes' \in {crashes, crashes + 1}
  BY DEF HandlerStep, ReceiveSignUp, ReceiveBind, SignUpTaken, SignUpTx, BindRead,
         BindCheck, BindTx, TxFails, Enqueue, AddRow, ApiCrash, CallOK, CallFails, budget
<1>3. WorkerInv'
  BY <1>1 DEF WorkerInv, EventInv
<1>4. GiftInv'
  <2>1. GiftsBounded'
    BY <1>1, <1>2 DEF GiftInv, GiftsBounded, LedgerTyped, BudgetTyped
  <2>2. ASSUME NEW q \in Requests, NEW S, Ahead(q, S)'
        PROVE  Ahead(q, S)
    BY <1>1, <2>2 DEF Ahead, EventInv
  <2> QED BY <1>1, <2>1, <2>2 DEF GiftInv
<1>5. EventInv'
  <2>1. CASE ReceiveSignUp(r) \/ ReceiveBind(r) \/ SignUpTaken(r) \/ BindCheck(r)
             \/ TxFails(r) \/ ApiCrash(r)
    BY <2>1 DEF ReceiveSignUp, ReceiveBind, SignUpTaken, BindCheck, TxFails, ApiCrash, EventInv
  <2>2. CASE BindRead(r)
    BY <2>2 DEF BindRead, EventInv
  <2>3. CASE SignUpTx(r) \/ BindTx(r)
    BY <2>3 DEF SignUpTx, BindTx, EventInv
  <2>4. CASE Enqueue(r) \/ AddRow(r)
    BY <2>4 DEF Enqueue, AddRow, EventInv
  <2> QED BY <2>1, <2>2, <2>3, <2>4 DEF HandlerStep
<1> QED BY <1>3, <1>4, <1>5

LEMMA QueueStepInv ==
  ASSUME Inv, NEW r \in Requests,
         Deliver(r) \/ Age(r) \/ Acknowledge(r) \/ WorkerCrash(r) \/ CollectRow(r)
  PROVE  WorkerInv' /\ EventInv' /\ GiftInv'
<1> USE DEF Inv, TypeInv, TypeOK, QueueTyped
<1>1. UNCHANGED <<pc, event, base, referrer, referee>>
  BY DEF Deliver, Age, Acknowledge, WorkerCrash, CollectRow
<1>2. WorkerInv' /\ EventInv'
  BY DEF Deliver, Age, Acknowledge, WorkerCrash, CollectRow, WorkerInv, EventInv,
         Processing, WorkerStates
<1>3. GiftInv'
  <2>1. CASE WorkerCrash(r)
    <3>1. CASE event[r] = "waiting" /\ wpc[r] \notin {"begin", "gift"}
      BY <1>1, <2>1, <3>1 DEF WorkerCrash, GiftInv, GiftsBounded, Ahead, LedgerTyped,
           BudgetTyped, BeforeBase, BeforeReferrer, BeforeReferee, WorkerInv
    <3>2. CASE ~(event[r] = "waiting" /\ wpc[r] \notin {"begin", "gift"})
      BY <1>1, <2>1, <3>2 DEF WorkerCrash, GiftInv, GiftsBounded, Ahead, LedgerTyped,
           BudgetTyped, BeforeBase, BeforeReferrer, BeforeReferee, WorkerInv, EventInv
    <3> QED BY <3>1, <3>2
  <2>2. CASE Deliver(r) \/ Age(r) \/ CollectRow(r) \/ Acknowledge(r)
    BY <1>1, <2>2 DEF Deliver, Age, CollectRow, Acknowledge, GiftInv, GiftsBounded, Ahead,
         BeforeBase, BeforeReferrer, BeforeReferee, budget
  <2> QED BY <2>1, <2>2
<1> QED BY <1>2, <1>3

\* The task handlers: a gift step finds the event waiting and moves past itself.
LEMMA WorkerStepInv ==
  ASSUME Inv, NEW r \in Requests, WorkerStep(r), ~Acknowledge(r)
  PROVE  WorkerInv' /\ EventInv' /\ GiftInv'
<1> USE DEF Inv, TypeInv, TypeOK, QueueTyped
<1>1. crashes' = crashes /\ UNCHANGED <<pc, asynq, repeats>>
  BY WorkerStepShape DEF CallOK, CallFails, budget
<1>2. asynq[r] = "active" /\ wpc[r] # "idle" /\ event[r] # "none"
  <2>1. wpc[r] # "idle"
    BY DEF WorkerStep, Begin, GrantBase, MakeCode, FindInviter, LinkInviter, GrantReferrer,
           GrantReferee, Settle, Report, FailRow, FailEvent
  <2> QED BY <2>1 DEF WorkerInv, EventInv
<1>3. WorkerInv'
  BY <1>2 DEF WorkerInv, WorkerStep, Begin, GrantBase, MakeCode, FindInviter,
       LinkInviter, GrantReferrer, GrantReferee, Settle, Report, FailRow, FailEvent,
       Processing
<1>4. EventInv'
  BY <1>1, <1>2, WorkerStepShape DEF EventInv
<1>5. GiftInv'
  <2> USE DEF GiftInv, GiftsBounded, Ahead, LedgerTyped, BudgetTyped, BeforeBase,
              BeforeReferrer, BeforeReferee
  <2>1. CASE Begin(r)
    BY <1>1, <2>1 DEF Begin
  <2>2. CASE GrantBase(r)
    BY <1>1, <1>2, <2>2 DEF GrantBase, WorkerInv, Processing
  <2>3. CASE MakeCode(r) \/ FindInviter(r) \/ LinkInviter(r)
    BY <1>1, <2>3 DEF MakeCode, FindInviter, LinkInviter
  <2>4. CASE GrantReferrer(r)
    BY <1>1, <1>2, <2>4 DEF GrantReferrer, WorkerInv, Processing
  <2>5. CASE GrantReferee(r)
    BY <1>1, <1>2, <2>5 DEF GrantReferee, WorkerInv, Processing
  <2>6. CASE Settle(r) \/ Report(r) \/ FailRow(r) \/ FailEvent(r)
    BY <1>1, <1>2, <2>6 DEF Settle, Report, FailRow, FailEvent
  <2> QED BY <2>1, <2>2, <2>3, <2>4, <2>5, <2>6 DEF WorkerStep
<1> QED BY <1>3, <1>4, <1>5

LEMMA NextInv == Inv /\ [Next]_vars => Inv'
<1> SUFFICES ASSUME Inv, [Next]_vars PROVE Inv'
  OBVIOUS
<1>1. TypeInv'
  BY NextTyped DEF Inv
<1>2. WorkerInv' /\ EventInv' /\ GiftInv'
  <2>1. CASE UNCHANGED vars
    BY <2>1 DEF vars, budget, Inv, WorkerInv, EventInv, GiftInv, GiftsBounded, Ahead
  <2>2. CASE \E u \in Users : Destroy(u)
    BY <2>2 DEF Destroy, budget, Inv, WorkerInv, EventInv, GiftInv, GiftsBounded, Ahead
  <2> QED BY <2>1, <2>2, ApiInv, QueueStepInv, WorkerStepInv DEF Next, WorkerStep
<1> QED BY <1>1, <1>2 DEF Inv

LEMMA InvHolds == Spec => []Inv
  BY InitInv, NextInv, PTL DEF Spec

\* However often tasks are redelivered and calls fail, an event's gifts exceed
\* one only by the crashes that left it waiting after its gifts had begun.
THEOREM GiftsAreBounded == Spec => []GiftsBounded
<1>1. Inv => GiftsBounded
  BY DEF Inv, GiftInv
<1> QED BY <1>1, InvHolds, PTL

(***************************************************************************)
(* Refinement: committing an event is a promise, the base gift a grant,    *)
(* the first verdict on the event its settlement; every other step, a      *)
(* redelivery and the overwriting of a verdict included, is a stutter.     *)
(***************************************************************************)
Settled == {"succeed", "failed"}

LEMMA EventStep ==
  ASSUME Inv, NEW r \in Requests, NEW s \in {"waiting", "succeed", "failed"},
         event' = [event EXCEPT ![r] = s], UNCHANGED base,
         s = "waiting" => event[r] = "none",
         s # "waiting" => event[r] # "none"
  PROVE  [Outbox!Next]_(Outbox!outboxVars)
<1> USE DEF Inv, TypeInv, TypeOK, QueueTyped
<1>1. CASE s = "waiting"
  <2>1. Outbox!Promise(r)
    BY <1>1 DEF Outbox!Promise
  <2> QED BY <2>1 DEF Outbox!Next
<1>2. CASE s # "waiting" /\ event[r] = "waiting"
  <2>1. Outbox!Settle(r)
    BY <1>2 DEF Outbox!Settle
  <2> QED BY <2>1 DEF Outbox!Next
<1>3. CASE s # "waiting" /\ event[r] # "waiting"
  BY <1>3 DEF Outbox!outboxVars
<1> QED BY <1>1, <1>2, <1>3

LEMMA StutterStep ==
  ASSUME UNCHANGED <<event, base>>
  PROVE  [Outbox!Next]_(Outbox!outboxVars)
  BY DEF Outbox!outboxVars

LEMMA OutboxStep ==
  ASSUME Inv, [Next]_vars
  PROVE  [Outbox!Next]_(Outbox!outboxVars)
<1> USE DEF Inv
<1>1. ASSUME NEW r \in Requests, SignUpTx(r) \/ (BindTx(r) /\ event' # event)
      PROVE  [Outbox!Next]_(Outbox!outboxVars)
  <2>1. event[r] = "none"
    BY <1>1 DEF SignUpTx, BindTx, EventInv
  <2>2. event' = [event EXCEPT ![r] = "waiting"] /\ UNCHANGED base
    BY <1>1 DEF SignUpTx, BindTx
  <2> QED BY <2>1, <2>2, EventStep
<1>2. ASSUME NEW r \in Requests, GrantBase(r), base' # base
      PROVE  [Outbox!Next]_(Outbox!outboxVars)
  <2>1. event[r] = "waiting"
    BY <1>2 DEF GrantBase, WorkerInv, Processing
  <2>2. base' = [base EXCEPT ![r] = @ + 1] /\ UNCHANGED event
    BY <1>2 DEF GrantBase
  <2>3. Outbox!Grant(r)
    BY <2>1, <2>2 DEF Outbox!Grant
  <2> QED BY <2>3 DEF Outbox!Next
<1>3. ASSUME NEW r \in Requests, Settle(r) \/ FailEvent(r), event' # event
      PROVE  [Outbox!Next]_(Outbox!outboxVars)
  <2>1. event[r] # "none"
    <3>1. asynq[r] = "active"
      BY <1>3 DEF Settle, FailEvent, WorkerInv
    <3> QED BY <3>1 DEF EventInv
  <2>2. PICK s \in Settled : event' = [event EXCEPT ![r] = s] /\ UNCHANGED base
    BY <1>3 DEF Settle, FailEvent, Settled
  <2> QED BY <2>1, <2>2, EventStep DEF Settled
<1>4. CASE UNCHANGED <<event, base>>
  BY <1>4, StutterStep
<1>5. CASE UNCHANGED vars
  BY <1>5, StutterStep DEF vars
<1>6. ASSUME NEW r \in Requests,
             \/ ReceiveSignUp(r) \/ ReceiveBind(r) \/ SignUpTaken(r) \/ BindRead(r)
             \/ BindCheck(r) \/ (BindTx(r) /\ event' = event) \/ TxFails(r) \/ Enqueue(r)
             \/ AddRow(r) \/ ApiCrash(r)
      PROVE  UNCHANGED <<event, base>>
  BY <1>6 DEF ReceiveSignUp, ReceiveBind, SignUpTaken, BindRead, BindCheck, BindTx,
       TxFails, Enqueue, AddRow, ApiCrash
<1>7. ASSUME NEW r \in Requests,
             \/ Deliver(r) \/ Age(r) \/ Acknowledge(r) \/ WorkerCrash(r) \/ CollectRow(r)
      PROVE  UNCHANGED <<event, base>>
  BY <1>7 DEF Deliver, Age, Acknowledge, WorkerCrash, CollectRow
<1>8. ASSUME NEW r \in Requests,
             \/ Begin(r) \/ MakeCode(r) \/ FindInviter(r) \/ LinkInviter(r)
             \/ GrantReferrer(r) \/ GrantReferee(r) \/ Report(r) \/ FailRow(r)
             \/ (GrantBase(r) /\ base' = base)
             \/ ((Settle(r) \/ FailEvent(r)) /\ event' = event)
      PROVE  UNCHANGED <<event, base>>
  BY <1>8 DEF Begin, GrantBase, MakeCode, FindInviter, LinkInviter, GrantReferrer,
       GrantReferee, Settle, Report, FailRow, FailEvent
<1>9. CASE \E u \in Users : Destroy(u)
  BY <1>9, StutterStep DEF Destroy
<1> QED BY <1>1, <1>2, <1>3, <1>4, <1>5, <1>6, <1>7, <1>8, <1>9
        DEF Next, HandlerStep, WorkerStep

\* Events, tasks and retries together are an outbox that pays what it promised
\* only while the promise is open.
THEOREM RewardsImplementOutbox == Spec => ImplementsOutbox
<1>1. Init => Outbox!Init
  BY DEF Init, Outbox!Init
<1>2. Inv /\ [Next]_vars => [Outbox!Next]_(Outbox!outboxVars)
  BY OutboxStep
<1> QED BY <1>1, <1>2, InvHolds, PTL DEF Spec, Outbox!Spec, ImplementsOutbox

(***************************************************************************)
(* Who earns what.  Three invariants on top of Inv: the status row, the    *)
(* conditions of a gift, and the guard on the bound phone.                 *)
(***************************************************************************)

\* A worker that goes to report has settled its event, one that goes to mark the
\* failure finds no success reported, unless a call failed.
RowInv == \A r \in Requests :
  /\ row[r] = "success" => event[r] = "succeed" \/ faulted[r]
  /\ wpc[r] = "report" => event[r] = "succeed" \/ faulted[r]
  /\ wpc[r] \in {"failRow", "failEvent"} => row[r] # "success" \/ faulted[r]

Binding(s) == req[s].kind = "bind" /\ pc[s] \in {"read", "check", "tx"}
GiftEvent(r) == req[r].kind \in GiftedKinds /\ event[r] # "none"

\* The user of an event is registered, and linked before the invite gifts.
EarnInv == \A r \in Requests :
  /\ event[r] # "none" \/ Binding(r) => owner[r] \in Users /\ account[owner[r]] # "absent"
  /\ base[r] + referrer[r] + referee[r] > 0 => event[r] # "none"
  /\ base[r] > 0 => req[r].kind \in GiftedKinds
  /\ wpc[r] = "link" => req[r].by # NoUser
  /\ wpc[r] \in {"referrer", "referee"} \/ referrer[r] + referee[r] > 0 =>
       invitedBy[owner[r]] # NoUser

\* A binding that has seen the user without a phone.
Unbound(s) == Binding(s) /\ pc[s] # "read" /\ seen[s] = NoName

\* A gifted event leaves its user with a phone, so a later binding is turned away;
\* a binding not turned away began before any such event, and after its sign-up.
PairInv ==
  /\ \A r \in Requests :
       /\ GiftEvent(r) => phone[owner[r]] # NoName
       /\ Unbound(r) \/ (GiftEvent(r) /\ req[r].kind = "bind") => boundBefore[r] = {}
  /\ \A r, s \in Requests :
       r # s /\ GiftEvent(r) /\ req[r].kind = "phone" /\ (Unbound(s) \/ GiftEvent(s))
         => owner[s] # owner[r]

SafeInv == Inv /\ RowInv /\ EarnInv /\ PairInv

LEMMA InitSafe == Init => SafeInv
<1> SUFFICES ASSUME Init PROVE SafeInv
  OBVIOUS
<1>1. Inv
  BY InitInv
<1>2. RowInv /\ EarnInv /\ PairInv
  BY DEF Init, RowInv, EarnInv, PairInv, Binding, GiftEvent, Unbound
<1> QED BY <1>1, <1>2 DEF SafeInv

\* That a call of a request failed is never forgotten.
LEMMA FaultKept ==
  ASSUME TypeInv, NEW r \in Requests, CallOK \/ CallFails(r) \/ UNCHANGED faulted
  PROVE  \A q \in Requests : faulted[q] => faulted'[q]
  BY DEF CallOK, CallFails, budget, TypeInv, TypeOK, BudgetTyped

LEMMA FailureNoted ==
  ASSUME TypeInv, NEW r \in Requests, CallFails(r)
  PROVE  faulted'[r]
  BY DEF CallFails, TypeInv, TypeOK, BudgetTyped

\* What a handler may change: its own control state, a new user, the phone of its
\* user, its event from none to waiting, its row to pending.
LEMMA ApiRowStep ==
  ASSUME Inv, RowInv, NEW r \in Requests,
         ReceiveSignUp(r) \/ ReceiveBind(r) \/ HandlerStep(r) \/ ApiCrash(r)
  PROVE  RowInv'
<1> USE DEF Inv, TypeInv, TypeOK, QueueTyped
<1>1. /\ UNCHANGED wpc
      /\ event' \in {event, [event EXCEPT ![r] = "waiting"]}
      /\ event' # event => pc[r] = "tx"
      /\ row' \in {row, [row EXCEPT ![r] = "pending"]}
      /\ CallOK \/ CallFails(r) \/ UNCHANGED faulted
  BY DEF HandlerStep, ReceiveSignUp, ReceiveBind, SignUpTaken, SignUpTx, BindRead,
         BindCheck, BindTx, TxFails, Enqueue, AddRow, ApiCrash, budget
<1>2. \A q \in Requests : faulted[q] => faulted'[q]
  BY <1>1, FaultKept
<1> QED BY <1>1, <1>2 DEF RowInv, EventInv

LEMMA QueueRowStep ==
  ASSUME Inv, RowInv, NEW r \in Requests,
         Deliver(r) \/ Age(r) \/ Acknowledge(r) \/ WorkerCrash(r) \/ CollectRow(r)
  PROVE  RowInv'
<1> USE DEF Inv, TypeInv, TypeOK, QueueTyped
<1>1. UNCHANGED <<event, faulted>>
  BY DEF Deliver, Age, Acknowledge, WorkerCrash, CollectRow, budget
<1>2. row' \in {row, [row EXCEPT ![r] = "none"]}
  BY DEF Deliver, Age, Acknowledge, WorkerCrash, CollectRow
<1>3. wpc' \in {wpc, [wpc EXCEPT ![r] = "begin"], [wpc EXCEPT ![r] = "idle"]}
  BY DEF Deliver, Age, Acknowledge, WorkerCrash, CollectRow
<1> QED BY <1>1, <1>2, <1>3 DEF RowInv

LEMMA WorkerRowStep ==
  ASSUME Inv, RowInv, NEW r \in Requests, WorkerStep(r), ~Acknowledge(r)
  PROVE  RowInv'
<1> USE DEF Inv, TypeInv, TypeOK, QueueTyped
<1>1. \A q \in Requests : faulted[q] => faulted'[q]
  BY WorkerStepShape, FaultKept
<1>2. CallFails(r) => faulted'[r]
  BY FailureNoted
<1>3. CASE Begin(r)
  BY <1>1, <1>2, <1>3 DEF Begin, RowInv
<1>4. CASE \/ GrantBase(r) \/ MakeCode(r) \/ FindInviter(r) \/ LinkInviter(r)
           \/ GrantReferrer(r) \/ GrantReferee(r)
  BY <1>1, <1>4 DEF GrantBase, MakeCode, FindInviter, LinkInviter, GrantReferrer,
       GrantReferee, RowInv
<1>5. CASE Settle(r)
  BY <1>1, <1>2, <1>5 DEF Settle, RowInv
<1>6. CASE Report(r)
  BY <1>1, <1>2, <1>6 DEF Report, RowInv
<1>7. CASE FailRow(r)
  BY <1>1, <1>2, <1>7 DEF FailRow, RowInv
<1>8. CASE FailEvent(r)
  BY <1>1, <1>2, <1>8 DEF FailEvent, RowInv
<1> QED BY <1>3, <1>4, <1>5, <1>6, <1>7, <1>8 DEF WorkerStep

LEMMA NextRow == Inv /\ RowInv /\ [Next]_vars => RowInv'
<1> SUFFICES ASSUME Inv, RowInv, [Next]_vars PROVE RowInv'
  OBVIOUS
<1>1. CASE UNCHANGED vars
  BY <1>1 DEF vars, budget, RowInv
<1>2. CASE \E u \in Users : Destroy(u)
  BY <1>2 DEF Destroy, budget, RowInv
<1> QED BY <1>1, <1>2, ApiRowStep, QueueRowStep, WorkerRowStep DEF Next, WorkerStep

\* Registered users stay registered, linked users stay linked.
LEMMA UsersKept ==
  ASSUME Inv, EarnInv, [Next]_vars
  PROVE  \A u \in Users : /\ account[u] # "absent" => account'[u] # "absent"
                          /\ invitedBy[u] # NoUser => invitedBy'[u] # NoUser
                          /\ phone[u] # NoName => phone'[u] # NoName
<1> USE DEF Inv, TypeInv, TypeOK, UsersTyped
<1>1. ASSUME NEW r \in Requests, SignUpTx(r)
      PROVE  /\ \A u \in Users : account[u] # "absent" => account'[u] # "absent"
             /\ \A u \in Users : phone[u] # NoName => phone'[u] # NoName
             /\ UNCHANGED invitedBy
  <2>1. req[r].kind = "phone" => req[r].name # NoName
    BY ConstantsOK DEF ApiTyped, Request, PhoneRequest, LoginRequest
  <2> QED BY <1>1, <2>1 DEF SignUpTx
<1>2. ASSUME NEW r \in Requests, BindTx(r)
      PROVE  /\ \A u \in Users : phone[u] # NoName => phone'[u] # NoName
             /\ UNCHANGED <<account, invitedBy>>
  <2>1. req[r].name # NoName
    BY <1>2, ConstantsOK DEF BindTx, ApiTyped, Request, PhoneRequest, LoginRequest
  <2> QED BY <1>2, <2>1 DEF BindTx
<1>3. ASSUME NEW r \in Requests, LinkInviter(r)
      PROVE  /\ \A u \in Users : invitedBy[u] # NoUser => invitedBy'[u] # NoUser
             /\ UNCHANGED <<account, phone>>
  BY <1>3 DEF LinkInviter, EarnInv
<1>4. ASSUME NEW u \in Users, Destroy(u)
      PROVE  /\ \A v \in Users : account[v] # "absent" => account'[v] # "absent"
             /\ UNCHANGED <<phone, invitedBy>>
  BY <1>4 DEF Destroy
<1>5. ASSUME NEW r \in Requests,
             \/ ReceiveSignUp(r) \/ ReceiveBind(r) \/ SignUpTaken(r) \/ BindRead(r)
             \/ BindCheck(r) \/ TxFails(r) \/ Enqueue(r) \/ AddRow(r) \/ ApiCrash(r)
      PROVE  UNCHANGED <<account, phone, invitedBy>>
  BY <1>5 DEF ReceiveSignUp, ReceiveBind, SignUpTaken, BindRead, BindCheck, TxFails,
       Enqueue, AddRow, ApiCrash
<1>6. ASSUME NEW r \in Requests,
             \/ Deliver(r) \/ Age(r) \/ Acknowledge(r) \/ WorkerCrash(r) \/ CollectRow(r)
             \/ Begin(r) \/ GrantBase(r) \/ MakeCode(r) \/ FindInviter(r) \/ GrantReferrer(r)
             \/ GrantReferee(r) \/ Settle(r) \/ Report(r) \/ FailRow(r) \/ FailEvent(r)
      PROVE  UNCHANGED <<account, phone, invitedBy>>
  BY <1>6 DEF Deliver, Age, Acknowledge, WorkerCrash, CollectRow, Begin, GrantBase,
       MakeCode, FindInviter, GrantReferrer, GrantReferee, Settle, Report, FailRow, FailEvent
<1>7. CASE UNCHANGED vars
  BY <1>7 DEF vars
<1> QED BY <1>1, <1>2, <1>3, <1>4, <1>5, <1>6, <1>7 DEF Next, HandlerStep, WorkerStep

\* A request's parameters and user are its own from the commit of its event on.
LEMMA ApiEarnStep ==
  ASSUME Inv, EarnInv, [Next]_vars, NEW r \in Requests,
         ReceiveSignUp(r) \/ ReceiveBind(r) \/ HandlerStep(r) \/ ApiCrash(r)
  PROVE  EarnInv'
<1> USE DEF Inv, TypeInv, TypeOK, ApiTyped, QueueTyped, LedgerTyped
<1>1. /\ UNCHANGED <<wpc, base, referrer, referee, invitedBy>>
      /\ \A q \in Requests \ {r} : UNCHANGED <<pc[q], req[q], owner[q], event[q]>>
      /\ UNCHANGED <<req[r], owner[r]>> \/ (pc[r] \in {"idle", "tx"})
  BY DEF HandlerStep, ReceiveSignUp, ReceiveBind, SignUpTaken, SignUpTx, BindRead,
         BindCheck, BindTx, TxFails, Enqueue, AddRow, ApiCrash
<1>2. \A u \in Users : account[u] # "absent" => account'[u] # "absent"
  BY UsersKept
<1>3. event'[r] # "none" \/ Binding(r)' => owner'[r] \in Users /\ account'[owner'[r]] # "absent"
  <2>1. CASE SignUpTx(r)
    <3>1. PICK u \in Users : account' = [account EXCEPT ![u] = "active"]
                             /\ owner' = [owner EXCEPT ![r] = u]
      BY <2>1 DEF SignUpTx
    <3> QED BY <3>1 DEF UsersTyped
  <2>2. CASE ReceiveBind(r)
    BY <2>2 DEF ReceiveBind
  <2>3. CASE ReceiveSignUp(r)
    <3>1. req'[r].kind # "bind" /\ event'[r] = "none"
      BY <2>3 DEF ReceiveSignUp, SignUps, EventInv
    <3> QED BY <3>1 DEF Binding
  <2>4. CASE BindTx(r)
    BY <1>2, <2>4 DEF BindTx, EarnInv, Binding
  <2>5. CASE \/ SignUpTaken(r) \/ BindRead(r) \/ BindCheck(r) \/ TxFails(r) \/ Enqueue(r)
             \/ AddRow(r) \/ ApiCrash(r)
    <3>1. /\ UNCHANGED <<owner[r], event[r], req[r]>>
          /\ pc'[r] \in {"read", "check", "tx"} => pc[r] \in {"read", "check", "tx"}
      BY <2>5 DEF SignUpTaken, BindRead, BindCheck, TxFails, Enqueue, AddRow, ApiCrash
    <3> QED BY <1>2, <3>1 DEF EarnInv, Binding
  <2> QED BY <2>1, <2>2, <2>3, <2>4, <2>5 DEF HandlerStep
<1>4. \A q \in Requests \ {r} :
        event'[q] # "none" \/ Binding(q)' => owner'[q] \in Users /\ account'[owner'[q]] # "absent"
  BY <1>1, <1>2 DEF EarnInv, Binding
<1>5. pc[r] \in {"idle", "tx"} =>
        /\ wpc[r] = "idle" /\ base[r] = 0 /\ referrer[r] = 0 /\ referee[r] = 0
  <2> SUFFICES ASSUME pc[r] \in {"idle", "tx"}
               PROVE  /\ wpc[r] = "idle"
                      /\ base[r] = 0 /\ referrer[r] = 0 /\ referee[r] = 0
    OBVIOUS
  <2>1. event[r] = "none" /\ asynq[r] = "none"
    BY DEF EventInv
  <2>2. ~(base[r] + referrer[r] + referee[r] > 0)
    BY <2>1 DEF EarnInv
  <2>3. wpc[r] = "idle"
    BY <2>1 DEF WorkerInv
  <2>4. base[r] \in Nat /\ referrer[r] \in Nat /\ referee[r] \in Nat
    OBVIOUS
  <2> QED BY <2>2, <2>3, <2>4
<1>6. event'[r] = event[r] \/ (pc[r] = "tx" /\ event'[r] = "waiting")
  BY DEF HandlerStep, ReceiveSignUp, ReceiveBind, SignUpTaken, SignUpTx, BindRead,
         BindCheck, BindTx, TxFails, Enqueue, AddRow, ApiCrash
<1> HIDE DEF Inv, TypeInv, TypeOK, ApiTyped, QueueTyped
<1>7. \A q \in Requests :
        /\ base'[q] + referrer'[q] + referee'[q] > 0 => event'[q] # "none"
        /\ base'[q] > 0 => req'[q].kind \in GiftedKinds
        /\ wpc'[q] = "link" => req'[q].by # NoUser
        /\ wpc'[q] \in {"referrer", "referee"} \/ referrer'[q] + referee'[q] > 0 =>
             invitedBy'[owner'[q]] # NoUser
  BY <1>1, <1>5, <1>6 DEF EarnInv
<1> QED BY <1>3, <1>4, <1>7 DEF EarnInv

LEMMA QueueEarnStep ==
  ASSUME Inv, EarnInv, NEW r \in Requests,
         Deliver(r) \/ Age(r) \/ Acknowledge(r) \/ WorkerCrash(r) \/ CollectRow(r)
  PROVE  EarnInv'
<1>1. UNCHANGED <<users, api, event, ledger>>
  BY DEF Deliver, Age, Acknowledge, WorkerCrash, CollectRow
<1>2. wpc' \in {wpc, [wpc EXCEPT ![r] = "begin"], [wpc EXCEPT ![r] = "idle"]}
  BY DEF Deliver, Age, Acknowledge, WorkerCrash, CollectRow
<1> QED BY <1>1, <1>2 DEF EarnInv, Binding, Inv, TypeInv, TypeOK, QueueTyped

\* A gift step finds the event waiting; the invite gifts follow the link.
LEMMA WorkerEarnStep ==
  ASSUME Inv, EarnInv, [Next]_vars, NEW r \in Requests, WorkerStep(r), ~Acknowledge(r)
  PROVE  EarnInv'
<1> USE DEF Inv, TypeInv, TypeOK, QueueTyped, LedgerTyped
<1>1. UNCHANGED <<account, api>> /\ \A q \in Requests \ {r} :
        UNCHANGED <<wpc[q], base[q], referrer[q], referee[q], event[q]>>
  BY WorkerStepShape
<1>2. \A u \in Users : invitedBy[u] # NoUser => invitedBy'[u] # NoUser
  BY UsersKept
<1>3. event[r] # "none" /\ event'[r] # "none"
  <2>1. wpc[r] # "idle"
    BY DEF WorkerStep, Begin, GrantBase, MakeCode, FindInviter, LinkInviter, GrantReferrer,
           GrantReferee, Settle, Report, FailRow, FailEvent
  <2> QED BY <2>1, WorkerStepShape DEF WorkerInv, EventInv
<1>4. owner[r] \in Users /\ account[owner[r]] # "absent"
  BY <1>3 DEF EarnInv
<1>5. base'[r] > 0 => req[r].kind \in GiftedKinds
  BY DEF WorkerStep, Begin, GrantBase, MakeCode, FindInviter, LinkInviter, GrantReferrer,
         GrantReferee, Settle, Report, FailRow, FailEvent, EarnInv
<1>6. wpc'[r] = "link" => req[r].by # NoUser
  BY ConstantsOK DEF WorkerStep, Begin, GrantBase, MakeCode, FindInviter, LinkInviter,
       GrantReferrer, GrantReferee, Settle, Report, FailRow, FailEvent, ActiveInviter
<1>7. wpc'[r] \in {"referrer", "referee"} \/ referrer'[r] + referee'[r] > 0 =>
        invitedBy'[owner[r]] # NoUser
  <2>1. CASE LinkInviter(r)
    BY <1>2, <1>4, <2>1 DEF LinkInviter, EarnInv, UsersTyped
  <2>2. CASE GrantReferrer(r) \/ GrantReferee(r)
    BY <2>2 DEF GrantReferrer, GrantReferee, EarnInv
  <2>3. CASE \/ Begin(r) \/ GrantBase(r) \/ MakeCode(r) \/ FindInviter(r) \/ Settle(r)
             \/ Report(r) \/ FailRow(r) \/ FailEvent(r)
    <3>1. UNCHANGED <<invitedBy, referrer, referee>> /\ wpc'[r] \notin {"referrer", "referee"}
      BY <2>3 DEF Begin, GrantBase, MakeCode, FindInviter, Settle, Report, FailRow, FailEvent
    <3> QED BY <3>1 DEF EarnInv
  <2> QED BY <2>1, <2>2, <2>3 DEF WorkerStep
<1>8. \A q \in Requests \ {r} :
        wpc[q] \in {"referrer", "referee"} \/ referrer[q] + referee[q] > 0 =>
          invitedBy'[owner[q]] # NoUser
  <2> SUFFICES ASSUME NEW q \in Requests \ {r},
                      wpc[q] \in {"referrer", "referee"} \/ referrer[q] + referee[q] > 0
               PROVE  invitedBy'[owner[q]] # NoUser
    OBVIOUS
  <2>1. event[q] # "none"
    BY DEF EarnInv, WorkerInv, EventInv
  <2>2. owner[q] \in Users /\ invitedBy[owner[q]] # NoUser
    BY <2>1 DEF EarnInv
  <2> QED BY <1>2, <2>2
<1> HIDE DEF Inv, TypeInv, TypeOK, QueueTyped, LedgerTyped
<1> QED BY <1>1, <1>3, <1>4, <1>5, <1>6, <1>7, <1>8 DEF EarnInv, Binding

LEMMA NextEarn == Inv /\ EarnInv /\ [Next]_vars => EarnInv'
<1> SUFFICES ASSUME Inv, EarnInv, [Next]_vars PROVE EarnInv'
  OBVIOUS
<1>1. CASE UNCHANGED vars
  BY <1>1 DEF vars, EarnInv, Binding
<1>2. CASE \E u \in Users : Destroy(u)
  BY <1>2, UsersKept DEF Destroy, EarnInv, Binding
<1> QED BY <1>1, <1>2, ApiEarnStep, QueueEarnStep, WorkerEarnStep DEF Next, WorkerStep

\* The two steps that give a user an event find no rival: a sign-up takes a row
\* nobody owns, a binding has seen its user without a phone.
LEMMA SignUpPairStep ==
  ASSUME Inv, EarnInv, PairInv, [Next]_vars, NEW r \in Requests, SignUpTx(r)
  PROVE  PairInv'
<1> USE DEF Inv, TypeInv, TypeOK, ApiTyped, QueueTyped
<1>1. PICK u \in Users :
        /\ account[u] = "absent"
        /\ owner' = [owner EXCEPT ![r] = u]
        /\ req[r].kind = "phone" => phone' = [phone EXCEPT ![u] = req[r].name]
  BY DEF SignUpTx
<1>2. /\ UNCHANGED <<req, seen, boundBefore>>
      /\ pc' = [pc EXCEPT ![r] = "enqueue"] /\ event' = [event EXCEPT ![r] = "waiting"]
      /\ req[r].kind # "bind"
  BY DEF SignUpTx, SignUps
<1>3. \A q \in Requests \ {r} : GiftEvent(q) \/ Unbound(q) => owner[q] \in Users \ {u}
  BY <1>1 DEF EarnInv, GiftEvent, Unbound
<1>4. req[r].kind = "phone" => phone'[u] # NoName
  BY <1>1, ConstantsOK DEF UsersTyped, Request, PhoneRequest, LoginRequest
<1>5. \A v \in Users : phone[v] # NoName => phone'[v] # NoName
  BY UsersKept
<1>6. \A q \in Requests \ {r} :
        /\ GiftEvent(q)' <=> GiftEvent(q)
        /\ Unbound(q)' <=> Unbound(q)
        /\ UNCHANGED <<owner[q], req[q], boundBefore[q]>>
  BY <1>1, <1>2 DEF GiftEvent, Unbound, Binding
<1>7. ~Unbound(r)' /\ req'[r].kind = req[r].kind /\ owner'[r] = u
  BY <1>1, <1>2 DEF Unbound, Binding
<1>8. GiftEvent(r)' => req[r].kind = "phone"
  BY <1>2 DEF GiftEvent, GiftedKinds
<1> HIDE DEF Inv, TypeInv, TypeOK, ApiTyped, QueueTyped
<1>9. \A q \in Requests : /\ GiftEvent(q)' => phone'[owner'[q]] # NoName
                          /\ Unbound(q)' \/ (GiftEvent(q)' /\ req'[q].kind = "bind")
                               => boundBefore'[q] = {}
  BY <1>2, <1>3, <1>4, <1>5, <1>6, <1>7, <1>8 DEF PairInv
<1>10. \A q, s \in Requests :
         q # s /\ GiftEvent(q)' /\ req'[q].kind = "phone" /\ (Unbound(s)' \/ GiftEvent(s)')
           => owner'[s] # owner'[q]
  BY <1>3, <1>6, <1>7 DEF PairInv
<1> QED BY <1>9, <1>10 DEF PairInv

LEMMA BindReadPairStep ==
  ASSUME Inv, EarnInv, PairInv, NEW r \in Requests, BindRead(r)
  PROVE  PairInv'
<1> USE DEF Inv, TypeInv, TypeOK, ApiTyped, QueueTyped
<1>1. /\ UNCHANGED <<req, owner, event, phone>>
      /\ \A q \in Requests \ {r} : UNCHANGED <<pc[q], seen[q], boundBefore[q]>>
      /\ pc'[r] \in {"check", "done"} /\ pc[r] = "read"
      /\ pc'[r] = "check" => phone[owner[r]] = NoName
      /\ boundBefore'[r] = GiftEvents(owner[r])
  <2>1. GiftEvents(owner[r]) \subseteq Requests /\ owner[r] \in Users
    BY DEF GiftEvents, BindRead, BindHasOwner
  <2> QED BY <2>1 DEF BindRead, UsersTyped
<1>2. event[r] = "none" /\ req[r].kind = "bind"
  BY <1>1 DEF EventInv, BindHasOwner
<1>3. \A q \in Requests : /\ GiftEvent(q)' <=> GiftEvent(q)
                          /\ q # r => (Unbound(q)' <=> Unbound(q))
  BY <1>1 DEF GiftEvent, Unbound, Binding
<1>4. ~GiftEvent(r)
  BY <1>2 DEF GiftEvent
<1>5. Unbound(r)' => \A q \in Requests : GiftEvent(q) => owner[q] # owner[r]
  BY <1>1 DEF PairInv, Unbound, Binding
<1>6. Unbound(r)' => boundBefore'[r] = {}
  BY <1>1, <1>5 DEF GiftEvents, GiftEvent
<1> HIDE DEF Inv, TypeInv, TypeOK, ApiTyped, QueueTyped
<1>7. \A q \in Requests : /\ GiftEvent(q)' => phone'[owner'[q]] # NoName
                          /\ Unbound(q)' \/ (GiftEvent(q)' /\ req'[q].kind = "bind")
                               => boundBefore'[q] = {}
  BY <1>1, <1>3, <1>4, <1>6 DEF PairInv
<1>8. \A q, s \in Requests :
        q # s /\ GiftEvent(q)' /\ req'[q].kind = "phone" /\ (Unbound(s)' \/ GiftEvent(s)')
          => owner'[s] # owner'[q]
  BY <1>1, <1>3, <1>4, <1>5 DEF PairInv
<1> QED BY <1>7, <1>8 DEF PairInv

LEMMA BindTxPairStep ==
  ASSUME Inv, EarnInv, PairInv, [Next]_vars, NEW r \in Requests, BindTx(r)
  PROVE  PairInv'
<1> USE DEF Inv, TypeInv, TypeOK, ApiTyped, QueueTyped
<1>1. owner[r] \in Users /\ req[r].name # NoName
  BY ConstantsOK DEF BindTx, BindHasOwner, Request, PhoneRequest, LoginRequest
<1>2. /\ UNCHANGED <<req, owner, seen, boundBefore>>
      /\ \A q \in Requests \ {r} : UNCHANGED <<pc[q], event[q]>>
      /\ pc[r] = "tx" /\ pc'[r] \in {"enqueue", "done"}
      /\ phone'[owner[r]] # NoName
      /\ req[r].kind = "bind"
      /\ event'[r] # event[r] => seen[r] = NoName
  BY <1>1 DEF BindTx, UsersTyped, HandlerStates
<1>3. \A v \in Users : phone[v] # NoName => phone'[v] # NoName
  BY UsersKept
<1>4. event[r] = "none"
  BY <1>2 DEF EventInv
<1>5. \A q \in Requests \ {r} : /\ GiftEvent(q)' <=> GiftEvent(q)
                                /\ Unbound(q)' <=> Unbound(q)
                                /\ GiftEvent(q) => owner[q] \in Users
  BY <1>2 DEF GiftEvent, Unbound, Binding, EarnInv
<1>6. GiftEvent(r)' => Unbound(r)
  BY <1>2, <1>4 DEF GiftEvent, Unbound, Binding
<1>7. ~Unbound(r)'
  BY <1>2 DEF Unbound, Binding
<1> HIDE DEF Inv, TypeInv, TypeOK, ApiTyped, QueueTyped
<1>8. \A q \in Requests : /\ GiftEvent(q)' => phone'[owner'[q]] # NoName
                          /\ Unbound(q)' \/ (GiftEvent(q)' /\ req'[q].kind = "bind")
                               => boundBefore'[q] = {}
  BY <1>2, <1>3, <1>5, <1>6, <1>7 DEF PairInv
<1>9. \A q, s \in Requests :
        q # s /\ GiftEvent(q)' /\ req'[q].kind = "phone" /\ (Unbound(s)' \/ GiftEvent(s)')
          => owner'[s] # owner'[q]
  BY <1>2, <1>5, <1>6, <1>7 DEF PairInv
<1> QED BY <1>8, <1>9 DEF PairInv

\* Every other step leaves the events, the bindings' reads and the phones alone.
LEMMA OtherPairStep ==
  ASSUME Inv, EarnInv, PairInv, [Next]_vars,
         UNCHANGED <<phone, seen, boundBefore>>,
         \A q \in Requests :
           /\ (event'[q] # "none") <=> (event[q] # "none")
           /\ UNCHANGED <<req[q], owner[q]>> \/ pc[q] = "idle"
           /\ pc'[q] \in {"check", "tx"} => pc[q] \in {"check", "tx"} \/ req'[q].kind # "bind"
  PROVE  PairInv'
<1>1. \A q \in Requests : pc[q] = "idle" => event[q] = "none"
  BY DEF Inv, EventInv
<1>2. \A q \in Requests : GiftEvent(q)' => GiftEvent(q) /\ UNCHANGED <<req[q], owner[q]>>
  BY <1>1 DEF GiftEvent
<1>3. \A q \in Requests : Unbound(q)' => Unbound(q) /\ UNCHANGED <<req[q], owner[q]>>
  BY DEF Unbound, Binding
<1> QED BY <1>2, <1>3 DEF PairInv

LEMMA NextPair == Inv /\ EarnInv /\ PairInv /\ [Next]_vars => PairInv'
<1> SUFFICES ASSUME Inv, EarnInv, PairInv, [Next]_vars PROVE PairInv'
  OBVIOUS
<1> USE DEF Inv, TypeInv, TypeOK, ApiTyped, QueueTyped
<1>1. CASE UNCHANGED vars
  BY <1>1, OtherPairStep DEF vars
<1>2. CASE \E u \in Users : Destroy(u)
  BY <1>2, OtherPairStep DEF Destroy
<1>3. ASSUME NEW r \in Requests, ReceiveSignUp(r) \/ ReceiveBind(r)
      PROVE  PairInv'
  <2>1. /\ pc[r] = "idle" /\ UNCHANGED <<phone, seen, boundBefore, event>>
        /\ \A q \in Requests \ {r} : UNCHANGED <<pc[q], req[q], owner[q]>>
        /\ pc'[r] = "tx" => req'[r].kind # "bind"
        /\ pc'[r] \in {"tx", "read"}
    BY <1>3 DEF ReceiveSignUp, ReceiveBind, SignUps
  <2> QED BY <2>1, OtherPairStep
<1>4. ASSUME NEW r \in Requests,
             \/ SignUpTaken(r) \/ BindCheck(r) \/ TxFails(r) \/ Enqueue(r) \/ AddRow(r)
             \/ ApiCrash(r)
      PROVE  PairInv'
  <2>1. /\ UNCHANGED <<phone, seen, boundBefore, event, req, owner>>
        /\ \A q \in Requests \ {r} : UNCHANGED pc[q]
        /\ pc'[r] \in {"check", "tx"} => pc[r] \in {"check", "tx"}
    BY <1>4 DEF SignUpTaken, BindCheck, TxFails, Enqueue, AddRow, ApiCrash
  <2> QED BY <2>1, OtherPairStep
<1>5. ASSUME NEW r \in Requests,
             Deliver(r) \/ Age(r) \/ Acknowledge(r) \/ WorkerCrash(r) \/ CollectRow(r)
      PROVE  PairInv'
  <2>1. UNCHANGED <<phone, api, boundBefore, event>>
    BY <1>5 DEF Deliver, Age, Acknowledge, WorkerCrash, CollectRow
  <2> QED BY <2>1, OtherPairStep
<1>6. ASSUME NEW r \in Requests, WorkerStep(r), ~Acknowledge(r)
      PROVE  PairInv'
  <2>1. asynq[r] = "active"
    BY <1>6 DEF WorkerStep, Begin, GrantBase, MakeCode, FindInviter, LinkInviter,
         GrantReferrer, GrantReferee, Settle, Report, FailRow, FailEvent, WorkerInv
  <2>2. UNCHANGED <<phone, api, boundBefore>>
    BY <1>6, WorkerStepShape
  <2>3. \A q \in Requests : (event'[q] # "none") <=> (event[q] # "none")
    BY <1>6, <2>1, WorkerStepShape DEF EventInv
  <2> QED BY <2>2, <2>3, OtherPairStep
<1> QED BY <1>1, <1>2, <1>3, <1>4, <1>5, <1>6, SignUpPairStep, BindReadPairStep,
           BindTxPairStep DEF Next, HandlerStep, WorkerStep

LEMMA SafeHolds == Spec => []SafeInv
<1>1. SafeInv /\ [Next]_vars => SafeInv'
  BY NextInv, NextRow, NextEarn, NextPair DEF SafeInv
<1> QED BY <1>1, InitSafe, PTL DEF Spec

\* The row a client polls says success only of an event that succeeded, unless a
\* call of its task failed.
THEOREM RowsTellTheTruth == Spec => []RowTellsTruth
<1>1. SafeInv => RowTellsTruth
  BY DEF SafeInv, RowInv, RowTellsTruth
<1> QED BY <1>1, SafeHolds, PTL

\* No coin is granted without a committed event of a registered user, no base
\* gift without a phone, no invite gift without an inviter.
THEOREM GiftsAreEarned == Spec => []GiftsEarned
<1>1. SafeInv => GiftsEarned
  <2> SUFFICES ASSUME SafeInv, NEW r \in Requests
               PROVE  /\ base[r] > 0 => r \in GiftEvents(owner[r])
                      /\ base[r] + referrer[r] + referee[r] > 0 =>
                           /\ event[r] # "none"
                           /\ owner[r] \in Users /\ account[owner[r]] # "absent"
                      /\ referrer[r] + referee[r] > 0 => invitedBy[owner[r]] # NoUser
    BY DEF GiftsEarned
  <2>1. base[r] \in Nat /\ referrer[r] \in Nat /\ referee[r] \in Nat
    BY DEF SafeInv, Inv, TypeInv, TypeOK, LedgerTyped
  <2>2. base[r] > 0 => base[r] + referrer[r] + referee[r] > 0
    BY <2>1
  <2> QED BY <2>2 DEF SafeInv, EarnInv, GiftEvents
<1> QED BY <1>1, SafeHolds, PTL

\* Two events earn one user the base gift only if both are bindings that read the
\* user before the other's event was committed.
THEOREM RepeatsAreRaces == Spec => []RepeatedGiftNeedsRace
<1>1. SafeInv => RepeatedGiftNeedsRace
  <2> SUFFICES ASSUME SafeInv, NEW r \in Requests, NEW s \in Requests, r # s,
                      NEW u \in Users, {r, s} \subseteq GiftEvents(u)
               PROVE  /\ req[r].kind = "bind" /\ req[s].kind = "bind"
                      /\ r \notin boundBefore[s] /\ s \notin boundBefore[r]
    BY DEF RepeatedGiftNeedsRace
  <2>1. GiftEvent(r) /\ GiftEvent(s) /\ owner[r] = u /\ owner[s] = u
    BY DEF GiftEvents, GiftEvent
  <2>2. req[r].kind # "phone" /\ req[s].kind # "phone"
    BY <2>1 DEF SafeInv, PairInv
  <2>3. req[r].kind = "bind" /\ req[s].kind = "bind"
    BY <2>1, <2>2 DEF GiftEvent, GiftedKinds
  <2> QED BY <2>1, <2>3 DEF SafeInv, PairInv
<1> QED BY <1>1, SafeHolds, PTL
=============================================================================
