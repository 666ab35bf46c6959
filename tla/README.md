# A TLA+ model of the aidea chat server

This directory models the server in `src/` (Go): what its handlers, task
workers and goroutines do to MySQL, to Redis and to each other, and what can go
wrong between them. TLC model-checks the modules on small instances; TLAPS
proves the central results for every value of the constants.

Contents: the system, the modules and how they correspond to the code, the runs
and their bounds, fairness, the proofs, where the code disagrees with its own
comments, what is not modelled, and the plan for what is left.

## 1. The system

The server is one Go process (`src/cmd/main.go`), of which several may run at
once. Each runs an HTTP API, a pool of asynq workers and a cron scheduler; all
of them share one MySQL database and one Redis.

| part | source | state it keeps | operations |
|---|---|---|---|
| accounts | `api/controllers/auth.go`, `user.go`, `pkg/repo/user.go` | `users`, `events` | `createAccount`, `SignInOrUpWithSMSCode`, `SignInWithWechat`, `SignInWithApple`, `BindPhone`, `BindWeChat`, `ResetPassword`, `Destroy` |
| ORM models | `pkg/repo/model` (generated) | objects with the columns as read and as set | `Get`, `Create`, `StaledKV`, `Save`, `UpdateFields`, `ToUsersN` |
| task queue | `internal/queue`, `pkg/repo/queue.go`, `internal/consumer` | asynq (in Redis), `queue_tasks` | `Enqueue`, `Update`, `RemoveQueueTasks`, asynq's delivery |
| gifts | `internal/consumer/tasks` | `events.status`, `quota`, `users.invited_by` | the signup and bind_phone task handlers, `inviteGiftHandler` |
| coins | `pkg/repo/quota.go`, `pkg/service/user.go` | `quota`, `debt`, `quota_usage`, a counter of frozen coins in Redis | `AddUserQuota`, `QuotaConsume`, `FreezeUserQuota`, `UnfreezeUserQuota`, `UserQuota` |
| user cache | `pkg/service/user.go`, `api/provider.go` | `user:<id>:info` in Redis | `GetUserByID`, the auth middleware, the handlers that change a user |
| verification codes | `auth.go`, `user.go`, `tasks/sms.go`, `tasks/mail.go` | `auth:verify-code:*` in Redis | the senders, the message tasks, the handlers that take a code |
| rate limits | `pkg/rate/limiter.go` | counters and GCRA buckets in Redis | `OperationCount`, `OperationIncr`, `Allow` |
| chat | `api/controllers/chat.go`, `pkg/chat`, `pkg/misc/stream.go` | goroutines, two channels, a timer, the usage | `ChatStream` (three layers of it), the stream writer |
| context window | `pkg/chat/token.go` | none | `MessageTokenCount`, `ReduceContextByTokens`, `ReduceContextByCount` |
| scheduler | `internal/jobs` | a lock key in Redis | `TryLock`, `Release`, the clean-up jobs |
| tasks read by clients | `api/controllers/tasks.go`, `pkg/repo/queue.go` | `queue_tasks` | `TaskStatus` |
| key-value cache | `pkg/repo/cache.go` | table `cache` | `Get`, `Set`, `GC` |
| the rest | metrics, configuration, clients of remote services, robots and info pages | little | single reads and writes |

How the parts interact:

- The API commits an *event* in the transaction that creates a user or binds a
  phone, and then *enqueues* a task; the enqueue puts the message into asynq and
  after that a row into `queue_tasks`, which clients poll. Nothing looks for
  waiting events later.
- Workers take tasks from asynq, at least once: a worker that dies leaves its
  task to be delivered again. A handler reads the event, grants coins, settles
  the event, and updates the row. Cron removes old rows.
- Requests spend coins concurrently through `QuotaConsume`, one transaction per
  call; frozen coins live in Redis and are updated by single commands.
- The middleware loads the user of each request through the cache; handlers
  that change a user clear the key or do not.
- Verification codes go through asynq, too, and are looked up by later requests.
- A chat request is one handler goroutine and two goroutines per attempt, joined
  by unbuffered channels, and shares the usage record with one of them by pointer.

What is hard, and what makes each part correct:

| part | hard because | correct if |
|---|---|---|
| gifts | crashes, redelivery, failing calls between six statements, a row that comes later than its task, requests that overlap | no gift without a cause, at most one per event and crash; rows and events agree; every queued gift arrives |
| coins | reads from a snapshot, updates of the latest value, locks until the commit, rollback | nobody pays more than was used; exactly that without overlap; coins that expire first go first; calls never wait for each other |
| frozen coins | a counter whose expiry, renewal and deletion are separate commands | the counter never exceeds what is held, never gets stuck, and goes away |
| user cache | a fill that is stored after the write it missed; a DEL that fails or is never made | a stale row disappears within a bounded time; a write that cleared the key is seen |
| identity | four ids lead to a user, some of them written by rows loaded earlier, or found by a read outside the transaction | a destroyed account comes back by no id; a save undoes no other write; a link moves in two known ways only; two answers for one id name one user |
| ORM models | which columns a save writes depends on how the object came about | a save writes what was changed and named, and no blank id but the e-mail of a sign-in with Apple |
| scheduler | a lease of a minute over jobs of up to ten; rows deleted beside calls that use them | servers overlap only past a lease; the last value set is the one read; a client is told one report |
| GCRA limits | an attempt that is refused may have used up its place | at most twice the count less two pass in a period; a caller below the count always passes |
| context window | messages dropped until the rest fits, then an answer in front of it; then a conversion by the model, not by the message | what is kept is the longest end that fits, with the question, and is sent as it was counted |
| send limits | counters read before the send and increased after it, expiry set by another command | sends that do not overlap are as far apart as the counter lives and keep the day's limit; no counter blocks a phone for good |
| codes | message, row and code stored by three calls; late and repeated delivery; check and delete by separate commands | a code that arrives can still be used; a used code serves no later request; a queued code arrives |
| chat | a select over four sources, a timer reset that keeps an old tick, a second attempt, a client that leaves, a forwarder that sends without looking at the context | the client reads one answer, in order and without gaps; every goroutine ends, or it is known which does not |

`PROJECT.json` lists the hazards at the lines where they bite, each with the
properties that cover it.

## 2. The modules

| module | models | extended by |
|---|---|---|
| `Rewards` | accounts, phone binding, events, queue, workers, gifts | `MCRewards`, `Rewards_proofs` |
| `GiftOutbox` | what events and tasks promise together (abstract) | instantiated by `Rewards` |
| `Identity` | the users table, the four ids, every request that looks a user up, links an id or changes a row | `MCTables`, `Identity_proofs` |
| `Record` | what the generated ORM code does to a table (operators) | `Identity`, `Housekeeping` |
| `QuotaLedger` | the coins of one user | `MCQuotaLedger`, `QuotaLedger_proofs` |
| `FrozenQuota` | the counter of frozen coins | `MCUserCache`, `QuotaLedger_proofs` |
| `UserCache` | the cached row, the middleware, the writers | `MCUserCache`, `UserCache_proofs` |
| `SendLimits` | the counters that limit verification codes | `MCSendLimits`, `SendLimits_proofs` |
| `RateLimit` | the GCRA limit of one key | `MCSendLimits`, `SendLimits_proofs` |
| `Codes` | the message, the stored code, its use | `MCCodes`, `Codes_proofs` |
| `ChatStream` | one chat request and its goroutines | `MCChatStream`, `ChatStream_proofs` |
| `ContextWindow` | what of a conversation is kept, converted and sent to a model | `MCContextWindow`, `MCChatStream`, `QuotaLedger_proofs` |
| `Housekeeping` | the cron lock, the clean-up jobs, the cache table and a task's row beside them | `MCTables`, `Housekeeping_proofs` |

The `MC` modules hold symmetry sets and sets of values. `MCTables`, `MCUserCache`,
`MCSendLimits` and `MCChatStream` each put two components that share no state into
one run: either moves only while the other has not begun, so that every behaviour of
each is there, and the two do not multiply. Operators that a
comment calls a *mutant* are plausible faults of the code, such as a dropped
guard or a swapped order; no next-state relation uses them. With one of them in
place of the definition it changes, TLC finds the property it is paired with in
`PROJECT.json` violated.

One action is one atomic step of the code: a database transaction whose effect
is seen as a whole, a single statement outside a transaction, a Redis command,
or a channel operation. The code between two of them is sequential and local, and is
part of one of the two steps. Failing calls and dying processes use up a budget
(`MaxFaults`, `MaxCrashes`); the history variables are marked as such where they are declared and
guard nothing.

**Rewards.** A request signs up (by e-mail, phone, WeChat or Apple) or binds a
phone, and enqueues at most one task, so events, tasks and rows are indexed by
the request. `users` rows have a status, a phone, a login and an inviter; the
unique indexes of the schema are guards of the transactions. The handler's
states are its calls in order: the transaction, reads before it where the code
reads outside, `enqueue` (asynq), `add` (the row). The worker's states are the
calls of the task handler: begin (age and event checks), gift, invite code,
lookup of the inviter, link, the two invite gifts, settle, report, and the two
deferred failure updates. A crash at any of them leaves the task to asynq, which
redelivers it. `ClearExpiredTaskJob` removes rows. The handler's local reads
(`seen` is `user.Phone`) are variables, because what is read before the
transaction is used in it.

**QuotaLedger.** `Select` is the transaction's plain SELECT, from a snapshot;
`SpendPart` and `SpendAll` are the two UPDATEs of the loop, each of which needs the
row's lock and works on the latest committed value (an update that would take
the unsigned column below zero fails); `Owe` is the row of debt; `Commit` makes
the writes visible and drops the locks; `Fail` is any statement that fails, with
the rollback; `Record` is the usage row, after the commit. `GetUserQuota`,
`GetUserQuotaDetails` and `UserQuota` are what the user is shown; the page of 100
rows is a parameter, and the list counts a row as unexpired at the very moment it
ends, when the sum and `QuotaConsume` do not.

**Identity.** A request is received with its kind and parameters; its states are the
database calls of its handler in order, and the object a handler has loaded is
kept (`inst`) as `Record` has it: the columns as read and as set. All statements
go through the operators of `Record`, so which columns a save writes is computed
the way the generated code computes it. Sign-ins by code, password, WeChat and
Apple, sign-ups, `BindWeChat` (from its own handler and from sign-ins with a
token), password resets, `BindPhone`, `Destroy`, profile changes, and the two
endpoints that tell a client whether an account exists, are kinds. A failing call
ends most requests; a sign-in survives a failed binding and a failed save of its
Apple id. The e-mail claim of a sign-in with Apple is taken as it comes (`auth.go:1220`) and may
be empty (`Asked`). The history variables note which values a write replaced, and whether
the writer had loaded its row before.

**Record.** `StaledKV` is the generated code's comparison of an object with its
original; `ToN` turns a plain struct, which has no NULL, into an object, with the
columns the caller names. `Unique` is the unique indexes of the schema.

**FrozenQuota.** INCRBY, EXPIRE, DECRBY and DEL are a step each. No handler in
this repository calls these methods; the model's callers freeze first and
unfreeze the same amount once, the use the two methods are written for.
`UserQuota` is what the user is told, 0 if the key is missing or cannot be read.

**UserCache.** The row of one user has a version; the cached value is a version
and the key's lifetime. `GetUserByID` reads the key, selects the row and stores
it with SETNX, a step each; a forced reload does not read the key, but selects and
stores all the same, so a row that is still cached stays.
`UpdateAvatar` and `UpdateRealname` write and reload, `BindPhone` writes and
deletes the key, `Destroy` only writes. `ResetPassword` and `BindWeChat` are like
`Destroy`: they write and leave the key.

**SendLimits.** One phone number. The counts of the minute and the day are read, then
the message is queued, then each counter is increased (INCR) and its expiry set
(EXPIRE), a step each. Mail has the minute's counter only (`Windows`). A send is `counted` when
both commands of every counter have done their work on the key it increased, and has `slipped` when
one failed, or when its key was gone before its EXPIRE, whether or not another send's INCR had put a
new key in its place. `MinuteTTL` is what the code gives the counter, 50 seconds, and `Minute` the minute its
comments speak of.

**RateLimit.** redis_rate is external and modelled as `limiter.go` relies on it: GCRA, one
time per key, moved on by every attempt the library allows. `Allow` refuses an attempt after which nothing remains, although
the library counted it. An error of Redis refuses a request, except in the chat
handler (`RateLimit`).

**Codes.** A send is Enqueue, AddRow, Store (SETNX under a new id) and the answer; the
worker drops a message that is too old, sends it once, and acknowledges it, or
dies first and sends it again; a use reads the code and then deletes it.
`Served` is the priority of the queue, the integer quotient in `consumer/provider.go:26`.

**ChatStream.** One request with its attempts 0 and 1. The reading goroutine
(`OpenAIClient.ChatStream`) receives a chunk from the model and offers it, or
drops it when the context is done; the forwarding goroutine (`Chatter.ChatStream`)
takes it, counts it in the shared usage and offers it on; the handler's select
takes a chunk, a tick, a closed channel or the end of the context, and if
several are ready any of them. A chunk is a number, and `said` tells its kind:
text, blank (a text of white space), empty (no text at all) or an error. `go.mod`
says go 1.20, so a `Reset` of the timer does not drain a tick that is already in
its channel: the model has the channel as a variable of its own. Writing to the
client may take time, or fail once the client has gone. `Judge` is the loop of
`ChatController.ChatStream`, `Finish` its summary.

**ContextWindow.** A conversation grows by messages of a few kinds; the invariant is
about every conversation that ends with a question. A text's tokens are its
length; roles count one token. `Prompt` has both lists of `Chatter.ChatStream`: the messages kept, which are counted
again and billed, and what they are converted to and sent as (`Converted`): a model with vision is sent the parts alone,
another the text alone. `InputLimit` is 80 per cent of `max_context`, which `Config.Init` sets to 4000 where it is
missing (`Configured`), so the default of `MaxContextForInput` is never used. The recursion of `ReduceContextByTokens` is a
recursive function over the position of the first message kept.

**Housekeeping.** Servers run one of the two jobs (`job` tells which a run is about):
`TryLock` (SETNX with a lease, or a longer life for the server's own key), the
job's DELETE, `Release` (delete the key if the token is one's own). Beside it,
calls of `CacheRepo.Set` (DELETE and INSERT in one transaction, with InnoDB's row
and gap locks, and the deadlock two of them can run into), or calls of
`QueueRepo.Update` (load, then save what changed). `TaskStatus` is the answer a
polling client gets.

## 3. The runs

Every run checks one or two components on one small instance each. Deadlock is not reported, because
every instance stops when its requests, time and faults are used up; that nothing stops too
early is what the liveness properties say.

| run | instance | states | shows |
|---|---|---|---|
| `rewards_safe` | 3 users (1 registered), 2 phones, 2 requests by phone, WeChat or binding, 1 crash | 2.4 M | gifts are bounded by one per event and crash, have a cause, and a user earns two base gifts only through two bindings that overlap |
| `rewards_live` | 1 request by e-mail, phone, Apple or binding, 1 fault, 2 crashes, fair | 0.12 M | the row tells the truth about the event, the outbox is implemented, queued gifts arrive, tasks leave the queue |
| `ledger` | 2 calls, 2 rows with amounts 1 to 3 and two expiries, 1 fault, fair | 0.79 M | the coins shown are those a call may spend, no overcharge, the exact charge without overlap, the order of spending, calls return |
| `cache` | 2 requests of any kind, 1 fault, lifetime 2, deadline 1, time 5; frozen coins: 3 holders, amounts -1, 1, 2, 1 fault | 0.59 M | no destroyed row is cached, staleness is bounded, a binding is seen; the counter of frozen coins is covered and never stuck |
| `limits` | 3 sends, day limit 2, windows 1 and 2, time 3, or up to time 2 a fourth send or 1 fault; counts 2 to 4 and 7 attempts with 4 kinds of pause, one lost to an error | 1.2 M | the counters' limits hold for sends that do not overlap, counters expire; the GCRA limits admit no more and no less than stated |
| `codes` | 2 sends, 2 uses, 10 workers, 1 fault, fair | 0.46 M | messages arrive in time to be used, a used code serves no later use, queued codes arrive |
| `chat` | 2 chunks in the first attempt and 1 in the second, waits 2 and 1, deadline 3, window 2, time 4, fair; conversations of up to 4 messages of 7 kinds, 3 models, 2 of them with vision, 3 settings | 1.1 M | replies are prefixes of what the model said, one attempt answers, the usage is at most one chunk ahead, silence is real, everything ends; the context is the longest end that fits, and is sent as it was counted where its form suits the model |
| `tables` | `Identity`: 3 ids for rows, 2 users of which one may be destroyed, 2 phones, e-mails (and the empty one), WeChat and Apple ids, 2 requests of any of 13 kinds, 1 fault. `Housekeeping`: 3 servers, lease 1, jobs of up to 2, time 3, 2 Sets of a key or 3 Updates of a task | 1.7 M | no sign-in to a destroyed account, no write undone, links move in known ways, answers agree, only the e-mail of one user with an Apple id is empty; servers overlap only past a lease, the last value set is read, a client is told one report |
| `rewards_two_bindings` | 2 bindings of one user | - | a violation, section 6 |
| `ledger_debt` | 2 calls, 1 row | - | a violation, section 6 |
| `limits_minute` | 2 sends, ticks of 10 seconds: a counter of 5, a minute of 6 | - | a violation, section 6 |
| `chat_vision` | conversations of 2 messages, 1 model with vision | - | a violation, section 6 |

Why the bounds are enough to be of use. Two requests are what it takes for one
overlap, and a third user gives `rewards_safe` an invitation chain with an
inviter who is invited. Two crashes let a task be delivered three times, and one
failing call can hit any call of the run, after which the code takes its error
path to the end. Two rows of coins give a call that empties one and splits the
next, and two calls that meet on either; three amounts give debt, an exact fit
and a rest. In `limits` three sends are one more than the day's limit, and a
fourth is what it takes for one to lose its day's key to another between INCR and EXPIRE, and for two
more to be let through beside it; time is long enough for both windows to close, at 1 and at 2. The times of `cache`, `codes` and
`chat` keep the order of the code's constants: in `chat`, the first wait equals the window for a second attempt (60 s
and 60 s), a gap is half of it (30 s), and the deadline is longer than the
window. Two chunks give the handler one in hand, the forwarder another, and
the reader the end of the stream or an error.

In `tables` two requests are one overlap of any two kinds, and a third row id is
there for a sign-up beside the two users; two ids of each kind let a link be replaced by another
one. Of the servers a third can come while two are inside, and three Updates
are what it takes to mix a status and a result: one to report, and two that
overlap. In `limits` seven attempts exceed twice the largest count less two. The
message sizes of `chat` meet the limit of 1600 tokens of its model with 2000 exactly, and by one more; at 500 a
long question or an image of high detail is too long alone, and at 4000 two long messages fit, but none beside an image
of high detail.

Some properties are deliberately conditional, and the condition is the interesting
part. The code does not prevent a second gift for one user, a charge that is
too small, two sends within the 50 seconds that the counter of the minute lives, or two uses of one code; what it
keeps is that each needs an overlap, a failing call or a crash at a certain point. (Two sends within a minute need
none of these: 50 seconds are enough, section 6.)
`RepeatedGiftNeedsRace`, `ChargedExactly`, `CloseSendsOverlap`,
`ReuseNeedsOverlap`, `RowTellsTruth`, `GiftsBounded`, `SilenceIsReal`,
`LinksMoveKnownWays`, `OverlapNeedsExpiry` and `AnswersAReport` say exactly which.

Facts a reader of the code may not expect, each a case some property had to
name or a state the runs reach:

- A sign-in with Apple that finds one user, by the e-mail, replaces the Apple id that
  user had, also on a destroyed account: the row is saved before its status is looked at
  (`user.go:512-535`). The comment there says that a single match is returned directly.
- The e-mail claim of a sign-in with Apple is not checked (`auth.go:1220`), and of a new user it is stored as it is
  (`user.go:482-494`). The first unknown Apple id with an empty claim gets a row with the e-mail `''`. Every later unknown
  Apple id with an empty claim finds that row by its e-mail, is signed in as its user, and replaces the Apple id, so
  the first owner is in the next moment an unknown Apple id, too. If that user has been destroyed, such sign-ins are
  refused. `OnlyAppleMailIsBlank` says that the empty string gets no further: into no other link, and into one row.
- `BindWeChat` reads who has the WeChat id outside its transaction
  (`user.go:369`); only the unique index keeps one owner. Two overlapping bindings
  of one user can replace a link that was just made, and a name the user chose
  in between is overwritten by the nickname.
- Sign-ins do not fail when the binding of their token does: the error is logged.
- An attempt `Allow` refuses because nothing remains has still used up a place: of a
  limit of five, the fifth of a burst is refused, and a caller who keeps to the
  emission interval may be refused for ever; after a burst, up to twice the count less two
  pass within a period (section 6).
- The counters of `limiter.go` renew their expiry with every send, so the day's window stays
  open for a user who sends now and then: stricter than the comments say, never looser.
- Between INCR and EXPIRE of one send the day's key may expire and be made anew by the INCR of another.
  The EXPIRE then succeeds on a key that has not counted its send, and one message more than the limit
  may be sent within a day.
- A task's status and result can be mixed from two reports only if one Update has finished
  and two others overlap.
- The list of coins shows the newest 100 rows only, so its total may be less than the sum.
- One image of high detail (2064 tokens) fits a model without the setting (4000, of which 3200 are for the input),
  but none whose `max_context` is less than about 2600. Of two answers in a row one may be left in front.
- What is counted depends on the message, what is sent on the model. A model with vision is sent nothing of a
  message without parts, which was counted by its text (section 6); a model without vision is sent the text beside a
  message's parts, where the parts were counted. Only in the second case can more be sent than was billed and fits
  (`SendsWhatItCounted`).

And about `chat.go`:

- `SilentNotRetried`: the first wait is as long as the window for a second
  attempt, so a model that says nothing at all is never asked again. Second
  attempts follow empty streams, blank chunks and errors.
- `SilenceIsReal` has the case `slow`: a response that was handled after its timer had
  run out leaves a tick in the channel, and the next wait may end at once.
- `EverythingEnds` has an exception: a forwarding goroutine that had taken a
  chunk when the handler stopped receiving waits for ever (`chat.go:176` sends without
  looking at the context).

## 4. Fairness

Safety runs use `Spec`; runs with liveness use `FairSpec`. All of it is weak
fairness, of steps that stay enabled until they are taken.

- `Rewards`: handlers and workers go on (goroutines are scheduled, and database
  calls return), and asynq delivers what is queued, again after a crash. Crashes
  and faults are bounded, not fair. Nothing makes a request be sent, or time
  pass.
- `QuotaLedger`: a call that has begun goes on, and MySQL answers each statement.
  A call that waits for a lock is not enabled, so `CallsReturn` also says that locks
  are released: they are taken in the order of the SELECT.
- `Codes`: asynq's workers take what is queued, from queues that have a
  priority. Clients and the clock owe nothing.
- `Identity`, `FrozenQuota`, `SendLimits`, `RateLimit`, `UserCache`, `ContextWindow` and `Housekeeping` have
  safety properties only, and no fairness.
- `ChatStream`: the goroutines go on when they can, calls and writes return, and
  time passes until `MaxTime`, which no deadline of the run exceeds. The model owes
  nothing: only a read whose context is done returns in the end, which is what
  the HTTP client guarantees.

## 5. The proofs

Eight modules hold theorems, for all values of the constants that the modules'
assumptions allow: any number of users, requests, rows, calls and chunks, any
amounts and times.

| module | theorem | says |
|---|---|---|
| `Rewards_proofs` | `TypeCorrect` | `Spec => []TypeOK` |
| | `GiftsAreBounded` | `Spec => []GiftsBounded` |
| | `GiftsAreEarned` | `Spec => []GiftsEarned` |
| | `RepeatsAreRaces` | `Spec => []RepeatedGiftNeedsRace` |
| | `RowsTellTheTruth` | `Spec => []RowTellsTruth` |
| | `RewardsImplementOutbox` | `Spec => ImplementsOutbox`, that is `Outbox!Spec` |
| `Identity_proofs` | `TypeCorrect` | `Spec => []TypeOK` |
| | `DestroyedStayOut` | `Spec => []NoSignInAfterDestroy` |
| | `SavesUndoNothing` | `Spec => []WritesSurvive` |
| | `LinksMoveOnly` | `Spec => []LinksMoveKnownWays` |
| | `BlankIsOneApples` | `Spec => []OnlyAppleMailIsBlank` |
| | `IdsLeadToOneUser` | `Spec => []AnswersAgree` |
| `QuotaLedger_proofs` | `TypeCorrect` | `Spec => []TypeOK`: no remainder passes below zero |
| | `SpendingIsOrdered` | the action property `SpendsInOrder` |
| | `NobodyOvercharged` | `Spec => []NeverOvercharged` |
| | `ChargesAreExact` | `Spec => []ChargedExactly` |
| | `SpendableIsShown` | `Spec => []ShownIsSpendable` |
| | `CounterTypeCorrect`, `NothingStuck`, `NoneFrozenUnheld` | of `FrozenQuota`: `CounterSpec => []CounterTypeOK`, `[]NeverStuck`, `[]FrozenCovered` |
| | `LongestFitIsSent` | of `ContextWindow`: `WindowSpec => []ContextIsLongestFit` |
| `UserCache_proofs` | `TypeCorrect` | `Spec => []TypeOK` |
| | `NoDestroyedRow` | `Spec => []OnlyActiveCached` |
| | `BoundedStaleness` | `Spec => []StalenessBounded` |
| | `BindingIsSeen` | `Spec => []FreshAfterBind` |
| `SendLimits_proofs` | `TypeCorrect` | `Spec => []TypeOK` |
| | `SendsAreApart` | `Spec => []CloseSendsOverlap` |
| | `DayIsLimited` | `Spec => []DailyLimitHolds` |
| | `NothingBlocked` | `Spec => []CountersExpire` |
| | `LimitsBound`, `BelowLimitPasses` | of `RateLimit`: `RateSpec => []LimitIsBounded`, `[]BelowLimitAdmitted` |
| `Codes_proofs` | `TypeCorrect` | `Spec => []TypeOK` |
| | `ArrivesInTime` | `Spec => []ArrivesUsable` |
| | `UsedUpStaysSo` | `Spec => []ReuseNeedsOverlap` |
| `ChatStream_proofs` | `TypeCorrect` | `Spec => []TypeOK` |
| | `OneAnswer` | `Spec => []OneAttemptAnswers` |
| | `ReceivedInOrder` | what the handler has received is 1, 2, 3 ... of what the model said |
| | `SilenceEndsIt` | `Spec => []SilentNotRetried` |
| | `CutOffAfterSilence` | the action property `SilenceIsReal` |
| | `UsageIsHonest` | `Spec => []UsageOneAhead` |
| | `ClientSeesThePrefix` | `Spec => []RepliesArePrefixes` |
| `Housekeeping_proofs` | `TypeCorrect` | `HouseSpec => []HouseTypeOK` |
| | `LeaseExcludes` | `HouseSpec => []OverlapNeedsExpiry` |
| | `LastCommitIsRead` | `HouseSpec => []LastSetIsRead` |
| | `ClientsAreToldAReport` | `HouseSpec => []AnswersAReport` |

The assumptions are the named `ASSUME`s of the component modules
(`ConstantsOK`, `IdentityConstants`, `BlankIsAValue` of `Record`, `LedgerConstants`,
`FrozenConstants`, `CacheConstants`, `LimitConstants`, `RateConstants`, `CodesConstants`,
`ChatConstants`, `WindowConstants`, `HousekeepingConstants`), which TLC evaluates in the runs. They are of types, of
model values that differ from the others, of sets that are finite, and of these facts of the code: the
tables `Identity` starts with satisfy the schema's unique indexes, and have the empty string nowhere but
in the e-mail of one user with an Apple id; a message's age limit is no longer
than a code's life (5 or 15 minutes, and 15); a second attempt begins within a time no longer than the
first wait (60 and 60 seconds) and than the deadline of an attempt (180).

Each proof has the same shape: an inductive invariant, `Init => Inv`, one lemma per action (or per
group of actions that leave the same variables alone), and a temporal step. Where a theorem needs
more than the types and the control, a second invariant is proved on top of the first.

- *Rewards.* `Inv == TypeInv /\ WorkerInv /\ EventInv /\ GiftInv`. `GiftsBounded`
  is not inductive: that a redelivered task does not grant again rests on the
  worker's position. `WorkerInv` ties it to asynq and to the event (a worker
  between the check and the settlement works on a waiting event), `EventInv` ties
  the handler's position to the event and the task, and `GiftInv` says that a
  worker that has not reached a gift yet has at most `repeats[r]` of it behind it.
  `SafeInv` adds three parts. `RowInv`: a row says success only once the event has
  succeeded, or a call has failed. `EarnInv`: a gift that was granted, or that a worker is about
  to grant, has its registered user and its inviter. `PairInv`: an event that gives leaves its user with
  a phone, so a binding that begins later is turned away; one that is not turned away read the user before any such event.
  The refinement maps an event to a promise, the settlement to `Settle` and a
  base gift to `Grant`; every other step stutters.
- *Identity.* `Inv == RowInv /\ DomainInv /\ OverwriteInv` and `HandlerInv(r)` for every
  request. `Path` lists the states each kind of request passes through, so that in a state
  the kind, and with it the parameters, are known. `HandlerInv` says what a request knows of its user
  there: a user past the check of the status was not destroyed when the request began; a
  loaded row has the table's columns, and nothing set; the WeChat id of a row `BindWeChat`
  loaded was empty, unless another request has written it since. A step changes the table in
  one of three ways (`TableStep`), which keep what the other requests know. `Claims` is for
  `AnswersAgree`: a link has one owner (`UniqueInv`), and the user a request has answered with still has the
  id, unless some row's id was replaced, which `overwrites` records, or a save of it failed (`Leads`, `ClaimInv`).
  `Types` is for `TypeOK`: a row is typed column by column (`Of`), so that a save of some columns of an object
  need say nothing of the others, and a new row is the object it was made from, whatever is NULL in it.
- *QuotaLedger.* `Inv == TypeOK /\ LockInv /\ OrderInv`. Locks are exclusive and
  end with the transaction; a row a transaction has read is ahead of it or
  written to zero, and it writes rows in the order of their expiry. At the
  commit this gives `SpendsInOrder`. `AccountInv` adds the sums: what an open transaction
  has taken, owes and still has to take is what was used (`Paid`); it takes no more of a row than is
  there, and exactly that while nothing overlapped (`Takes`, `Apart`); over all rows and calls, what is gone
  from the table and what is owed is at most what the committed calls used (`Balance`).
  The sums are SQL's and the module's `SumFunctionOnSet`; the lemmas at the head of the proofs (the sum of
  a set and of one element more, of a function changed at one point, of two functions) are shown by
  induction over a finite set: the set of its subsets without the property would have a minimal
  member (`MinimalSubset`, from the well-foundedness of strict inclusion).
- *FrozenQuota.* `NeverStuck` is inductive with the types, of which `KeyInv` matters: a key that does
  not exist holds nothing and has no expiry. `Covered` compares the counter with the sum of what
  requests hold, by the same lemmas.
- *ContextWindow.* A conversation without its first message counts for no more than with it (`CountFalls`, by the
  lemmas on sums). `ReduceContextByTokens` calls itself, and is a recursive function of the position it has come to. That
  there is such a function is shown by writing one down (`ReducesExists`), and that any such function, and so the
  code's, stops at the first position from which the rest fits by induction on the distance from the end (`UpInduction`,
  `StopsAtFirstFit`). An answer in front is then dropped, and the first message still is the question's or the end's.
  The conversion leaves a message that suits the model its tokens, and takes some from a message a model with vision is
  sent empty (`ConvertedTokens`); message by message the sums compare (`CountAtMost`), which gives
  `SendsWhatItCounted`.
- *UserCache.* `Inv == TypeOK /\ RowInv /\ FillInv /\ CacheInv`. A call that has
  read the row holds a version that was current at some moment since it began, and
  knows every write whose key was cleared before it began. What it stores has the same
  two properties, from which staleness, the binding and the destroyed row follow.
- *SendLimits.* `Inv == TypeInv /\ CoverInv /\ MinuteInv /\ DayInv /\ CountersExpire`. `CoverInv`: the
  key of a send whose EXPIRE worked lives for the window's length from the send on, whatever
  others do to it. So a send that finds no key comes a counter's lifetime after (`MinuteInv`), and the day's number is
  at least the number of the sends it has counted and that lie in the day (`DayInv`, with the cardinalities
  of `FiniteSetTheorems`). The induction failed for a `slipped` that left out a key made anew by another
  send, before any run with fewer than four sends could show it. `BoundInv` is for `TypeOK`: the number in a key is at
  most the number of sends that are past its INCR (`Past`).
- *RateLimit.* `RateInv`, with time measured in emission intervals (`Spans`). `BurstInv`: since any attempt
  that passed, the stored time has moved on by an interval for each one that passed, so that a period, whose
  end the stored time may be ahead of by a period at most, holds twice the count less two. `BusyInv`: the stored time is
  no further ahead than the attempts since the key was last idle account for. `GapInv`: a caller who is
  below the count in every period leaves an interval's room behind any run of attempts; with `BusyInv`
  the next attempt passes.
- *Codes.* `DeliveryInv` counts deliveries against failures. `TimeInv`: the message arrives within its age,
  and the code is stored after the message was queued. `SpentInv`: a code some use has deleted is gone, and
  its send is past the one step that stores it.
- *ChatStream.* `Inv == TypeOK /\ FlowInv /\ HandlerInv /\ OneAttemptAnswers`.
  `FlowInv` counts an attempt's chunks: those said are those received, the one in the
  forwarder's hands and the one in the reader's, while the reader runs. `HandlerInv` says that the goroutines of an attempt
  are off until its call, and that a handler that writes has something to write.
  `OneAttemptAnswers` itself is inductive on top: only attempt 0 may end in a
  second one, `Judge` looks at what it brought, and nothing of attempt 0 is
  received once `attempt` is 1. `SilentInv`: a silent first attempt ends only when its timer, which is due no earlier than the window's
  end, has run out, or with its context. `TimerInv`: a running timer is due its whole patience after it was
  set, and a tick in the channel means that long a wait, or `slow`. `AnswerInv`: what was written of an attempt
  is 1 to the number received, or to one less while the last is written or once the client has gone
  (`Replied`); the usage is the chunks received that are no errors, and one more while
  the forwarder holds such a chunk (`Used`, `Billed`); a reader that has ended before its context was done
  has handed over everything (`Delivered`).
- *Housekeeping.* The types are inductive by themselves. `LockInv`: a server inside whose lease runs holds the key, and the key is one server's.
  `CacheInv`: the table has the value committed last and no other row, or is empty once that
  value has expired. `TaskInv`: until an Update has saved a row that changed since it was loaded, the
  task's row says what one report said.

Model-checked only: liveness (`CallsReturn`, `QueuedGiftArrives`, `TasksFinish`,
`QueuedCodeArrives`, `EverythingEnds`), which is beyond the prover; and the four
properties of section 6, which TLC finds violated.

## 6. Where the code and its comments disagree

Each is a run whose property states the comment, and which TLC finds violated.

- `OneInitialBinding` (`auth.go:369`): an initial binding is one of a user
  without a phone, but the phone is read at `auth.go:327`, before the
  transaction, and the transaction's update has no condition on it. Two overlapping
  bindings both count as initial, and both give coins.
- `DebtIsUncovered` (`migrate/data/20240221.go:79`): debt is what the coins did not
  cover, but `QuotaConsume` computes it from remainders read without a
  lock (`quota.go:168`) and then sets `rest = 0` (`quota.go:186`). Two overlapping
  calls count the same coins as paid, and the debt is too small.
- `OneAMinute` (`auth.go:506`, `auth.go:607`): each user is sent one mail and one text message a minute, but the
  counter of the minute is given 50 seconds (`auth.go:583`, `671` and `814`, `user.go:286`). Two sends that do not overlap, both
  counted in full, are let through 50 to 60 seconds apart. `CloseSendsOverlap` is what remains: closer than the
  50 seconds they overlap, or one has lost a command.
- `ContentIsConverted` (`chat.go:73`): for a model with vision the content of a message is converted, but `chat.go:75-91`
  converts the parts only and leaves the content out. A question without parts is counted, billed, and sent with
  neither text nor parts.

Three more are consequences of properties that hold:

- The comments at `auth.go:434` and `auth.go:520` allow five attempts an hour. The GCRA limit is of another kind: after a
  pause four of a burst pass, and more as the stored time falls behind, so that up to eight, twice the count less two, pass
  within some hour. `LimitIsBounded` has that bound, which the proof shows for any count and the run
  reaches.
- `OnlyActiveCached` is proved, so the middleware's test of the cached row's
  status (`provider.go:164`) never succeeds: `Destroy` leaves the key, and a destroyed
  user passes until it expires.
- With one to four workers, which the configuration allows, the mail and user queues get
  priority 0 (`consumer/provider.go:26`), and asynq never serves them; `QueuedCodeArrives` is
  checked with ten.

## 7. What is not modelled

- Password checks, tokens, mail, WeChat and Apple clients: their calls succeed
  or fail, nothing else of them matters to the modules above.
- The HTTP layer, routing, metrics, configuration and process start: no shared
  state.
- Of the generated ORM code: scopes, pagination, selected fields and `String`, which nothing
  calls. The models of the tables differ in their columns only, and `Record` stands for all.
- The settings of `user_custom`: the struct is empty, and nothing calls its methods. `CacheRepo`'s
  `Get` and `Set`, `ReduceContextByCount` and `QueueRepo.Remove` have no caller either; the
  first three are modelled all the same.
- Robots, info pages, and the statistics of past days, which this repository only reads.
- A chunk without choices makes an index of -1 (`pkg/chat/chat.go:155`), and the panic ends the process; the model's
  chunks have a choice.
- In `ChatStream`, the encodings of the stream writer and errors of the inner call one by one.
- That one process starts a cron job once at a time is the scheduler library's.

## 8. The plan

All components with state of their own have a module, and every invariant and action property that a
passing run checks has a theorem, as have the type invariants. The comments of section 6 have their
true counterparts among them: `RepeatedGiftNeedsRace`, `ChargedExactly`, `CloseSendsOverlap` and `ContextIsLongestFit`. What could follow are
abstract specifications beside `GiftOutbox`, with their refinements: of the ledger, an account that is charged
once per call; of a chat, a stream of which one prefix is delivered.
