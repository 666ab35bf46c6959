------------------------------ MODULE Rewards ------------------------------
(***************************************************************************)
(* Accounts and the coins they are given: the sign-up and bind-phone       *)
(* handlers of the API, the asynq task queue between them and the workers, *)
(* the queue_tasks bookkeeping rows, and the signup / bind_phone task      *)
(* handlers that grant coins and settle the event.                         *)
(*                                                                         *)
(* A request enqueues at most one task and commits at most one event, so   *)
(* tasks, events and rows are indexed by the request they come from.       *)
(***************************************************************************)
EXTENDS Naturals, FiniteSets

CONSTANTS
  Users,      \* row ids of the users table
  Existing,   \* users already registered, with an e-mail outside Logins and no phone
  Phones,     \* phone numbers
  Logins,     \* e-mail addresses, WeChat union ids, Apple uids
  Requests,   \* the requests clients send during the run
  Kinds,      \* which endpoints those requests go to
  NoUser, NoName,
  MaxFaults,  \* database calls and enqueues that fail during the run
  MaxCrashes  \* worker crashes during the run

SignUps  == {"email", "phone", "wechat", "apple"}
AllKinds == SignUps \cup {"bind"}

ASSUME ConstantsOK ==
  /\ Existing \subseteq Users
  /\ Kinds \subseteq AllKinds
  /\ NoUser \notin Users
  /\ NoName \notin Phones \cup Logins
  /\ MaxFaults \in Nat /\ MaxCrashes \in Nat

VARIABLES
  account,    \* users.status of each row: absent, active, deleted
  phone,      \* users.phone
  login,      \* users.email / union_id / apple_uid
  code,       \* users.invite_code is set
  invitedBy,  \* users.invited_by
  pc,         \* control state of the API handler of each request
  req,        \* its parameters
  owner,      \* the user it signed up, or who sent it
  seen,       \* user.Phone as the bind handler read it
  event,      \* the events row it committed, by status
  asynq,      \* its task in the asynq queue
  stale,      \* the task is older than the handler's limit
  row,        \* its queue_tasks row, by status
  wpc,        \* control state of the worker that runs the task
  base,       \* sign-up or bind gifts inserted into quota for this event
  referrer,   \* invite gifts inserted for the inviter
  referee,    \* invite gifts inserted for the invitee
  faults, crashes,  \* the budgets spent
  faulted,    \* history: a call of this request or of its task failed
  repeats,    \* history: crashes that left the event waiting once gifts had begun
  boundBefore \* history: gifted events of the user when the bind handler read it

users   == <<account, phone, login, code, invitedBy>>
api     == <<pc, req, owner, seen>>
queue   == <<asynq, stale, row, wpc>>
ledger  == <<base, referrer, referee>>
budget  == <<faults, crashes, faulted>>
history == <<repeats, boundBefore>>
vars    == <<users, api, event, queue, ledger, budget, history>>

HandlerStates == {"idle", "tx", "read", "check", "enqueue", "add", "done", "dead"}
WorkerStates  == {"idle", "begin", "gift", "code", "lookup", "link", "referrer",
                  "referee", "settle", "report", "failRow", "failEvent", "ack", "nack"}
PhoneRequest == [kind : {"phone", "bind"}, name : Phones, by : Users \cup {NoUser}]
LoginRequest == [kind : {"email", "wechat", "apple"}, name : Logins \cup {NoName},
                 by : Users \cup {NoUser}]
Request == PhoneRequest \cup LoginRequest

UsersTyped ==
  /\ account \in [Users -> {"absent", "active", "deleted"}]
  /\ phone \in [Users -> Phones \cup {NoName}]
  /\ login \in [Users -> Logins \cup {NoName}]
  /\ code \in [Users -> BOOLEAN]
  /\ invitedBy \in [Users -> Users \cup {NoUser}]

ApiTyped ==
  /\ pc \in [Requests -> HandlerStates]
  /\ req \in [Requests -> Request]
  /\ owner \in [Requests -> Users \cup {NoUser}]
  /\ seen \in [Requests -> Phones \cup {NoName}]
  /\ boundBefore \in [Requests -> SUBSET Requests]

QueueTyped ==
  /\ event \in [Requests -> {"none", "waiting", "succeed", "failed"}]
  /\ asynq \in [Requests -> {"none", "queued", "active", "completed", "archived"}]
  /\ stale \in [Requests -> BOOLEAN]
  /\ row \in [Requests -> {"none", "pending", "success", "failed"}]
  /\ wpc \in [Requests -> WorkerStates]

LedgerTyped ==
  /\ base \in [Requests -> Nat]
  /\ referrer \in [Requests -> Nat]
  /\ referee \in [Requests -> Nat]
  /\ repeats \in [Requests -> Nat]

BudgetTyped ==
  /\ faults \in Nat /\ crashes \in Nat
  /\ faulted \in [Requests -> BOOLEAN]

TypeOK == UsersTyped /\ ApiTyped /\ QueueTyped /\ LedgerTyped /\ BudgetTyped

Init ==
  /\ account = [u \in Users |-> IF u \in Existing THEN "active" ELSE "absent"]
  /\ phone = [u \in Users |-> NoName]
  /\ login = [u \in Users |-> NoName]
  /\ code = [u \in Users |-> u \in Existing]
  /\ invitedBy = [u \in Users |-> NoUser]
  /\ pc = [r \in Requests |-> "idle"]
  /\ req = [r \in Requests |-> [kind |-> "email", name |-> NoName, by |-> NoUser]]
  /\ owner = [r \in Requests |-> NoUser]
  /\ seen = [r \in Requests |-> NoName]
  /\ event = [r \in Requests |-> "none"]
  /\ asynq = [r \in Requests |-> "none"]
  /\ stale = [r \in Requests |-> FALSE]
  /\ row = [r \in Requests |-> "none"]
  /\ wpc = [r \in Requests |-> "idle"]
  /\ base = [r \in Requests |-> 0]
  /\ referrer = [r \in Requests |-> 0]
  /\ referee = [r \in Requests |-> 0]
  /\ faults = 0 /\ crashes = 0
  /\ faulted = [r \in Requests |-> FALSE]
  /\ repeats = [r \in Requests |-> 0]
  /\ boundBefore = [r \in Requests |-> {}]

----------------------------------------------------------------------------
\* Helpers

Handler(r, from, to) == pc[r] = from /\ pc' = [pc EXCEPT ![r] = to]
Worker(r, from, to)  == wpc[r] = from /\ wpc' = [wpc EXCEPT ![r] = to]

\* A database call or an enqueue succeeds, or uses up one of the faults.
CallOK == UNCHANGED budget
CallFails(r) ==
  /\ faults < MaxFaults
  /\ faults' = faults + 1
  /\ faulted' = [faulted EXCEPT ![r] = TRUE]
  /\ UNCHANGED crashes

\* The unique index of users.phone.
PhoneTaken(p) == \E v \in Users : phone[v] = p
LoginTaken(l) == \E v \in Users : login[v] = l

\* repo.GetUserByInviteCode: the owner of a code, unless it was deleted.
ActiveInviter(u) == u \in Users /\ code[u] /\ account[u] = "active"

\* BindPhoneGiftCoins for a phone: e-mail and WeChat sign-ups would get
\* SignupGiftCoins, which is 0, and Apple's get nothing.
GiftedKinds == {"phone", "bind"}

\* The events committed so far that earn u a base gift.
GiftEvents(u) == {r \in Requests : /\ req[r].kind \in GiftedKinds
                                   /\ owner[r] = u
                                   /\ event[r] # "none"}

----------------------------------------------------------------------------
\* API handlers

\* A sign-up or sign-in request arrives; its invite code, if it may carry one,
\* is verified.  (The verification code is the subject of another module.)
ReceiveSignUp(r) ==
  /\ Handler(r, "idle", "tx")
  /\ \E k \in Kinds \cap SignUps,
        n \in Phones \cup Logins, b \in Users \cup {NoUser} :
       /\ n \in (IF k = "phone" THEN Phones ELSE Logins)
       /\ b = NoUser \/ (k # "wechat" /\ ActiveInviter(b))
       /\ req' = [req EXCEPT ![r] = [kind |-> k, name |-> n, by |-> b]]
  /\ UNCHANGED <<users, owner, seen, event, queue, ledger, budget, history>>

\* SignUpPhone, SignUpEmail, SignInWithWeChat, SignInWithApple: one transaction
\* that finds the identity taken, or creates the user and its event together.
SignUpTaken(r) ==
  /\ Handler(r, "tx", "done") /\ req[r].kind \in SignUps
  /\ IF req[r].kind = "phone" THEN PhoneTaken(req[r].name) ELSE LoginTaken(req[r].name)
  /\ UNCHANGED <<users, req, owner, seen, event, queue, ledger, budget, history>>

SignUpTx(r) ==
  /\ Handler(r, "tx", "enqueue") /\ req[r].kind \in SignUps
  /\ \E u \in Users :
       /\ account[u] = "absent"
       /\ account' = [account EXCEPT ![u] = "active"]
       /\ \/ /\ req[r].kind = "phone" /\ ~PhoneTaken(req[r].name)
             /\ phone' = [phone EXCEPT ![u] = req[r].name]
             /\ UNCHANGED login
          \/ /\ req[r].kind # "phone" /\ ~LoginTaken(req[r].name)
             /\ login' = [login EXCEPT ![u] = req[r].name]
             /\ UNCHANGED phone
       /\ owner' = [owner EXCEPT ![r] = u]
  /\ event' = [event EXCEPT ![r] = "waiting"]
  /\ CallOK
  /\ UNCHANGED <<code, invitedBy, req, seen, queue, ledger, history>>

\* BindPhone: a signed-in user asks to bind a phone.
ReceiveBind(r) ==
  /\ "bind" \in Kinds
  /\ Handler(r, "idle", "read")
  /\ \E u \in Users, p \in Phones, b \in Users \cup {NoUser} :
       /\ account[u] # "absent"
       /\ b = NoUser \/ ActiveInviter(b)
       /\ req' = [req EXCEPT ![r] = [kind |-> "bind", name |-> p, by |-> b]]
       /\ owner' = [owner EXCEPT ![r] = u]
  /\ UNCHANGED <<users, seen, event, queue, ledger, budget, history>>

\* Mutant: the guard on the bound phone is dropped.
BindReadUnguarded(r) ==
  /\ Handler(r, "read", "check") /\ CallOK
  /\ seen' = [seen EXCEPT ![r] = NoName]
  /\ boundBefore' = [boundBefore EXCEPT ![r] = GiftEvents(owner[r])]
  /\ UNCHANGED <<users, req, owner, event, queue, ledger, repeats>>

\* It reads the user, and goes on only if no phone is bound yet.
BindRead(r) ==
  LET u == owner[r]
      ok == account[u] = "active" /\ phone[u] = NoName
  IN /\ \/ Handler(r, "read", IF ok THEN "check" ELSE "done") /\ CallOK
        \/ Handler(r, "read", "done") /\ CallFails(r)
     /\ seen' = [seen EXCEPT ![r] = phone[u]]
     /\ boundBefore' = [boundBefore EXCEPT ![r] = GiftEvents(u)]
     /\ UNCHANGED <<users, req, owner, event, queue, ledger, repeats>>

\* It looks the phone up: held by another user, deleted or not, it gives up.
BindCheck(r) ==
  /\ \/ Handler(r, "check", IF PhoneTaken(req[r].name) THEN "done" ELSE "tx") /\ CallOK
     \/ Handler(r, "check", "done") /\ CallFails(r)
  /\ UNCHANGED <<users, req, owner, seen, event, queue, ledger, history>>

\* repo.BindPhone: write the phone whatever it is by now, and commit an event
\* when the phone READ before was empty.  The unique index may refuse.
BindTx(r) ==
  LET u == owner[r]
      p == req[r].name
  IN /\ req[r].kind = "bind"
     /\ \A v \in Users \ {u} : phone[v] # p
     /\ phone' = [phone EXCEPT ![u] = p]
     /\ IF seen[r] = NoName
        THEN /\ Handler(r, "tx", "enqueue")
             /\ event' = [event EXCEPT ![r] = "waiting"]
        ELSE /\ Handler(r, "tx", "done")
             /\ UNCHANGED event
     /\ UNCHANGED <<account, login, code, invitedBy, req, owner, seen, queue, ledger,
                    budget, history>>

\* The transaction of a sign-up or a binding rolls back.
TxFails(r) ==
  /\ Handler(r, "tx", "done")
  /\ \/ CallFails(r)
     \/ /\ req[r].kind = "bind" /\ CallOK
        /\ \E v \in Users \ {owner[r]} : phone[v] = req[r].name
  /\ UNCHANGED <<users, req, owner, seen, event, queue, ledger, history>>

\* Queue.Enqueue hands the task to asynq first (an error may come back though
\* the task is in) ...
Enqueue(r) ==
  /\ \/ /\ Handler(r, "enqueue", "add") /\ CallOK
        /\ asynq' = [asynq EXCEPT ![r] = "queued"]
     \/ /\ Handler(r, "enqueue", "done") /\ CallFails(r)
        /\ \E a \in {"none", "queued"} : asynq' = [asynq EXCEPT ![r] = a]
  /\ UNCHANGED <<users, req, owner, seen, event, stale, row, wpc, ledger, history>>

\* ... and inserts the row that describes it afterwards.
AddRow(r) ==
  /\ Handler(r, "add", "done")
  /\ \/ CallOK /\ row' = [row EXCEPT ![r] = "pending"]
     \/ CallFails(r) /\ UNCHANGED row
  /\ UNCHANGED <<users, req, owner, seen, event, asynq, stale, wpc, ledger, history>>

\* The API process dies in the middle of a request.
ApiCrash(r) ==
  /\ pc[r] \notin {"idle", "done", "dead"}
  /\ crashes < MaxCrashes /\ crashes' = crashes + 1
  /\ pc' = [pc EXCEPT ![r] = "dead"]
  /\ UNCHANGED <<users, req, owner, seen, event, queue, ledger, faults, faulted, history>>

\* UserController.Destroy: a user deletes the account; nothing is released.
Destroy(u) ==
  /\ account[u] = "active"
  /\ account' = [account EXCEPT ![u] = "deleted"]
  /\ UNCHANGED <<phone, login, code, invitedBy, api, event, queue, ledger,
                 budget, history>>

----------------------------------------------------------------------------
\* asynq: one worker at a time holds a task; a task whose worker died is
\* delivered again.

Deliver(r) ==
  /\ asynq[r] = "queued"
  /\ asynq' = [asynq EXCEPT ![r] = "active"]
  /\ Worker(r, "idle", "begin")
  /\ UNCHANGED <<users, api, event, stale, row, ledger, budget, history>>

\* 60 minutes pass for a sign-up task, 15 for a bind task, in the queue.
Age(r) ==
  /\ asynq[r] = "queued" /\ ~stale[r]
  /\ stale' = [stale EXCEPT ![r] = TRUE]
  /\ UNCHANGED <<users, api, event, asynq, row, wpc, ledger, budget, history>>

\* The handler is done: a nil completes the task, and of an error the middleware
\* makes SkipRetry, by which asynq archives it and never tries it again.
Acknowledge(r) ==
  /\ \/ Worker(r, "ack", "idle") /\ asynq' = [asynq EXCEPT ![r] = "completed"]
     \/ Worker(r, "nack", "idle") /\ asynq' = [asynq EXCEPT ![r] = "archived"]
  /\ UNCHANGED <<users, api, event, stale, row, ledger, budget, history>>

\* Mutant: a task whose worker died is given up, as one that failed is.
WorkerCrashArchives(r) ==
  /\ asynq[r] = "active"
  /\ crashes < MaxCrashes /\ crashes' = crashes + 1
  /\ asynq' = [asynq EXCEPT ![r] = "archived"]
  /\ wpc' = [wpc EXCEPT ![r] = "idle"]
  /\ UNCHANGED <<users, api, event, stale, row, ledger, faults, faulted, history>>

\* The worker process dies: the lease expires and asynq queues the task again.
WorkerCrash(r) ==
  /\ asynq[r] = "active"
  /\ crashes < MaxCrashes /\ crashes' = crashes + 1
  /\ asynq' = [asynq EXCEPT ![r] = "queued"]
  /\ wpc' = [wpc EXCEPT ![r] = "idle"]
  /\ repeats' = IF event[r] = "waiting" /\ wpc[r] \notin {"begin", "gift"}
             THEN [repeats EXCEPT ![r] = @ + 1] ELSE repeats
  /\ UNCHANGED <<users, api, event, stale, row, ledger, faults, faulted, boundBefore>>

\* The clean-up job deletes successful rows three days later: by then the task
\* is finished, or too old to be processed.
CollectRow(r) ==
  /\ row[r] = "success"
  /\ asynq[r] \in {"completed", "archived"} \/ (asynq[r] = "queued" /\ stale[r])
  /\ row' = [row EXCEPT ![r] = "none"]
  /\ UNCHANGED <<users, api, event, asynq, stale, wpc, ledger, budget, history>>

----------------------------------------------------------------------------
\* Task handlers: RegisterSignupTask and RegisterBindPhoneTask

\* Mutant: the status of the event is not looked at.
BeginUnchecked(r) ==
  /\ Worker(r, "begin", IF stale[r] THEN "ack" ELSE "gift") /\ CallOK
  /\ UNCHANGED <<users, api, event, asynq, stale, row, ledger, history>>

\* A task that is too old, or whose event is settled, is dropped.
Begin(r) ==
  /\ \/ /\ ~stale[r] /\ CallFails(r)
        /\ Worker(r, "begin", "failRow")
     \/ /\ CallOK
        /\ Worker(r, "begin",
                  IF stale[r] \/ event[r] # "waiting" THEN "ack" ELSE "gift")
  /\ UNCHANGED <<users, api, event, asynq, stale, row, ledger, history>>

\* Mutant: every sign-up is given the coins of a phone.
GrantBaseToAll(r) ==
  /\ Worker(r, "gift", IF req[r].kind = "bind" THEN "lookup" ELSE "code") /\ CallOK
  /\ base' = [base EXCEPT ![r] = @ + 1]
  /\ UNCHANGED <<users, api, event, asynq, stale, row, referrer, referee, history>>

\* quota.AddUserQuota: a failure is only logged.
GrantBase(r) ==
  /\ Worker(r, "gift", IF req[r].kind = "bind" THEN "lookup" ELSE "code")
  /\ \/ /\ req[r].kind \in GiftedKinds /\ CallOK
        /\ base' = [base EXCEPT ![r] = @ + 1]
     \/ /\ req[r].kind \in GiftedKinds /\ CallFails(r)
        /\ UNCHANGED base
     \/ /\ req[r].kind \notin GiftedKinds /\ CallOK
        /\ UNCHANGED base
  /\ UNCHANGED <<users, api, event, asynq, stale, row, referrer, referee, history>>

\* repo.GenerateInviteCode
MakeCode(r) ==
  /\ Worker(r, "code", "lookup")
  /\ \/ CallOK /\ code' = [code EXCEPT ![owner[r]] = TRUE]
     \/ CallFails(r) /\ UNCHANGED code
  /\ UNCHANGED <<account, phone, login, invitedBy, api, event, asynq, stale, row,
                 ledger, history>>

\* Mutant: without an inviter the event is not settled.
FindInviterLeaves(r) ==
  /\ Worker(r, "lookup", IF ActiveInviter(req[r].by) THEN "link" ELSE "report")
  /\ CallOK
  /\ UNCHANGED <<users, api, event, asynq, stale, row, ledger, history>>

\* repo.GetUserByInviteCode: no inviter, or a failed call, means no invite gift.
FindInviter(r) ==
  /\ \/ /\ CallOK
        /\ Worker(r, "lookup", IF ActiveInviter(req[r].by) THEN "link" ELSE "settle")
     \/ /\ req[r].by # NoUser /\ CallFails(r)
        /\ Worker(r, "lookup", "settle")
  /\ UNCHANGED <<users, api, event, asynq, stale, row, ledger, history>>

\* repo.UpdateUserInviteBy
LinkInviter(r) ==
  /\ \/ /\ Worker(r, "link", "referrer") /\ CallOK
        /\ invitedBy' = [invitedBy EXCEPT ![owner[r]] = req[r].by]
     \/ /\ Worker(r, "link", "settle") /\ CallFails(r)
        /\ UNCHANGED invitedBy
  /\ UNCHANGED <<account, phone, login, code, api, event, asynq, stale, row,
                 ledger, history>>

\* inviteGiftHandler: the inviter's gift, then the invitee's.
GrantReferrer(r) ==
  /\ Worker(r, "referrer", "referee")
  /\ \/ CallOK /\ referrer' = [referrer EXCEPT ![r] = @ + 1]
     \/ CallFails(r) /\ UNCHANGED referrer
  /\ UNCHANGED <<users, api, event, asynq, stale, row, base, referee, history>>

GrantReferee(r) ==
  /\ Worker(r, "referee", "settle")
  /\ \/ CallOK /\ referee' = [referee EXCEPT ![r] = @ + 1]
     \/ CallFails(r) /\ UNCHANGED referee
  /\ UNCHANGED <<users, api, event, asynq, stale, row, base, referrer, history>>

\* UpdateEvent(succeed): a failure is only logged.
Settle(r) ==
  /\ Worker(r, "settle", "report")
  /\ \/ CallOK /\ event' = [event EXCEPT ![r] = "succeed"]
     \/ CallFails(r) /\ UNCHANGED event
  /\ UNCHANGED <<users, api, asynq, stale, row, ledger, history>>

\* Mutant: the worker waits for the row of its task.
ReportWaits(r) ==
  /\ row[r] # "none" /\ CallOK
  /\ row' = [row EXCEPT ![r] = "success"]
  /\ Worker(r, "report", "ack")
  /\ UNCHANGED <<users, api, event, asynq, stale, ledger, history>>

\* Queue.Update(success): fails as well when the row is not there.
Report(r) ==
  /\ \/ /\ row[r] # "none" /\ CallOK
        /\ row' = [row EXCEPT ![r] = "success"]
        /\ Worker(r, "report", "ack")
     \/ /\ (row[r] = "none" /\ CallOK) \/ CallFails(r)
        /\ Worker(r, "report", "failRow")
        /\ UNCHANGED row
  /\ UNCHANGED <<users, api, event, asynq, stale, ledger, history>>

\* The deferred error path: the row, then the event, are marked failed.
FailRow(r) ==
  /\ Worker(r, "failRow", "failEvent")
  /\ \/ /\ CallOK
        /\ row' = IF row[r] = "none" THEN row ELSE [row EXCEPT ![r] = "failed"]
     \/ CallFails(r) /\ UNCHANGED row
  /\ UNCHANGED <<users, api, event, asynq, stale, ledger, history>>

\* Mutant: the event is opened again for a retry.
FailEventReopens(r) ==
  /\ Worker(r, "failEvent", "nack") /\ CallOK
  /\ event' = [event EXCEPT ![r] = "waiting"]
  /\ UNCHANGED <<users, api, asynq, stale, row, ledger, history>>

FailEvent(r) ==
  /\ Worker(r, "failEvent", "nack")
  /\ \/ CallOK /\ event' = [event EXCEPT ![r] = "failed"]
     \/ CallFails(r) /\ UNCHANGED event
  /\ UNCHANGED <<users, api, asynq, stale, row, ledger, history>>

----------------------------------------------------------------------------
HandlerStep(r) ==
  \/ SignUpTaken(r) \/ SignUpTx(r) \/ BindRead(r) \/ BindCheck(r) \/ BindTx(r)
  \/ TxFails(r) \/ Enqueue(r) \/ AddRow(r)

WorkerStep(r) ==
  \/ Begin(r) \/ GrantBase(r) \/ MakeCode(r) \/ FindInviter(r) \/ LinkInviter(r)
  \/ GrantReferrer(r) \/ GrantReferee(r) \/ Settle(r) \/ Report(r)
  \/ FailRow(r) \/ FailEvent(r) \/ Acknowledge(r)

Next ==
  \/ \E r \in Requests :
       \/ ReceiveSignUp(r) \/ ReceiveBind(r) \/ HandlerStep(r) \/ ApiCrash(r)
       \/ Deliver(r) \/ WorkerStep(r) \/ WorkerCrash(r) \/ Age(r) \/ CollectRow(r)
  \/ \E u \in Users : Destroy(u)

Spec == Init /\ [][Next]_vars

\* Handlers and workers that are running go on running, and asynq delivers
\* what it holds.  Clients, crashes, time and the clean-up job owe nothing.
Fairness ==
  \A r \in Requests : /\ WF_vars(HandlerStep(r))
                      /\ WF_vars(WorkerStep(r))
                      /\ WF_vars(Deliver(r))
FairSpec == Spec /\ Fairness

----------------------------------------------------------------------------
\* Properties

\* What one event earns is granted once, and once more for every crash that
\* left the event waiting after its gifts had begun: the waiting check of the
\* task handlers is all that stands between a redelivery and a second gift.
GiftsBounded == \A r \in Requests :
  /\ base[r] <= 1 + repeats[r]
  /\ referrer[r] <= 1 + repeats[r]
  /\ referee[r] <= 1 + repeats[r]
  /\ repeats[r] <= crashes

\* Coins are granted only for a committed event of a registered user, the base
\* gift only for a phone, the invite gifts only to a user linked to an inviter.
GiftsEarned == \A r \in Requests :
  /\ base[r] > 0 => r \in GiftEvents(owner[r])
  /\ base[r] + referrer[r] + referee[r] > 0 =>
       /\ event[r] # "none"
       /\ owner[r] \in Users /\ account[owner[r]] # "absent"
  /\ referrer[r] + referee[r] > 0 => invitedBy[owner[r]] # NoUser

\* BindPhone's guard on user.Phone: two events earn one user the base gift only
\* if both are bindings whose handlers read the user before the other committed.
RepeatedGiftNeedsRace == \A r, s \in Requests :
  /\ r # s
  /\ \E u \in Users : {r, s} \subseteq GiftEvents(u)
  => /\ req[r].kind = "bind" /\ req[s].kind = "bind"
     /\ r \notin boundBefore[s] /\ s \notin boundBefore[r]

\* The row clients poll says success only when the event has succeeded, unless a
\* database call of this task failed.
RowTellsTruth == \A r \in Requests :
  row[r] = "success" => event[r] = "succeed" \/ faulted[r]

\* A task that asynq holds and that is not too old brings its base gift, crashes
\* or no crashes, unless a call fails.
QueuedGiftArrives == \A r \in Requests :
  asynq[r] = "queued" /\ req[r].kind \in GiftedKinds
    ~> base[r] > 0 \/ stale[r] \/ faulted[r]

\* Every task leaves asynq in the end.
TasksFinish == \A r \in Requests :
  asynq[r] = "queued" ~> asynq[r] \in {"completed", "archived"}

\* The outbox that events and tasks implement together.
Outbox == INSTANCE GiftOutbox
            WITH Promises <- Requests,
                 promised <- {r \in Requests : event[r] # "none"},
                 settled  <- {r \in Requests : event[r] \in {"succeed", "failed"}},
                 granted  <- base
ImplementsOutbox == Outbox!Spec

----------------------------------------------------------------------------
\* What comments of the code say and the code does not keep

\* auth.go:369 "if no phone was bound before it is the initial binding, which
\* sends the event that gives the initial coins": one initial binding per user.
OneInitialBinding == \A u \in Users : Cardinality(GiftEvents(u)) <= 1
=============================================================================
