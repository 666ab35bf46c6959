---------------------------- MODULE Housekeeping ----------------------------
(***************************************************************************)
(* The nightly clean-up. Every server with a scheduler starts the same job *)
(* by its own clock; a lock in Redis, leased for a minute, is to let one   *)
(* of them run it, for at most ten minutes. The job deletes rows of a      *)
(* table in use: CacheRepo's, which calls of Set replace, or QueueRepo's,  *)
(* which workers update and clients poll. A run is about one of the two    *)
(* jobs, so only one of the tables is in use.                              *)
(***************************************************************************)
EXTENDS Record, Naturals

CONSTANTS
  Jobs,       \* what a run may be about: "clear-expired-task", "clear-expired-cache"
  Servers,    \* processes with the scheduler enabled; one job run each
  Setters,    \* calls of CacheRepo.Set for one key, each with a value of its own
  Updaters,   \* calls of QueueRepo.Update for one task
  Task,       \* the row id of the task
  Errors,     \* results of a failed task
  Nothing,
  Lease, JobLimit,  \* how long a lock lasts, and a job at most
  Ttl, Keep,        \* how long a cached value is valid, and a row of a task is kept
  Horizon           \* the last moment of a run

ASSUME HousekeepingConstants ==
  /\ Jobs \subseteq {"clear-expired-task", "clear-expired-cache"}
  /\ Lease \in Nat \ {0} /\ JobLimit \in Nat /\ Ttl \in Nat /\ Keep \in Nat /\ Horizon \in Nat
  /\ Nothing \notin Servers \cup Setters /\ Null \notin Errors /\ "EmptyResult" \notin Errors

VARIABLES
  job, now,
  lock,      \* the key in Redis: who set it, and until when it lives
  phase,     \* the run of the job by each server
  started,   \* history: when it got the lock
  cache,     \* the rows of the key, by the call that inserted them
  setting,   \* the state of each call of Set
  until,     \* the valid_until of its INSERT
  last,      \* history: the value committed last, and its end
  tasks,     \* the table of the task
  updating,  \* the state of each call of Update
  taskInst,  \* the row it has loaded
  reported,  \* history: the statuses and results that were stored
  raced      \* history: a row was saved that had changed since it was loaded

scheduler == <<lock, phase, started>>
caching   == <<cache, setting, until, last>>
tasking   == <<tasks, updating, taskInst, reported, raced>>
houseVars == <<job, now, scheduler, caching, tasking>>

CacheCols == {"value", "valid_until"}
TaskCols  == {"status", "result", "created_at"}
Free      == [by |-> Nothing, until |-> 0]

HouseInit ==
  /\ job \in Jobs /\ now = 0
  /\ lock = Free
  /\ phase = [s \in Servers |-> "idle"] /\ started = [s \in Servers |-> 0]
  /\ cache = << >>
  /\ setting = [w \in Setters |-> "idle"] /\ until = [w \in Setters |-> 0]
  /\ last = [value |-> Nothing, until |-> 0]
  /\ tasks = << >>
  /\ updating = [u \in Updaters |-> "idle"] /\ taskInst = [u \in Updaters |-> Nothing]
  /\ reported = {} /\ raced = FALSE

-----------------------------------------------------------------------------
(* The lock and the job.                                                   *)

Held    == lock.by # Nothing /\ now < lock.until
Inside  == {s \in Servers : phase[s] \in {"running", "cleaned"}}

\* TryLock: SETNX of a token only this server has, or a longer life for its own key.
TryLock(s) ==
  /\ phase[s] = "idle"
  /\ IF Held /\ lock.by # s
       THEN /\ phase' = [phase EXCEPT ![s] = "done"]
            /\ UNCHANGED <<lock, started>>
       ELSE /\ lock' = [by |-> s, until |-> now + Lease]
            /\ phase' = [phase EXCEPT ![s] = "running"]
            /\ started' = [started EXCEPT ![s] = now]
  /\ UNCHANGED <<job, now, caching, tasking>>

\* CacheRepo.GC, one DELETE, which waits for the row a Set has locked.
GC ==
  LET expired == {w \in DOMAIN cache : cache[w].valid_until < now} IN
  /\ expired = {} \/ \A w \in Setters : setting[w] \notin {"insert", "waiting"}
  /\ cache' = Delete(cache, expired)
  /\ UNCHANGED tasks

\* QueueRepo.RemoveQueueTasks
RemoveQueueTasks ==
  /\ tasks' = Delete(tasks, {t \in DOMAIN tasks : /\ tasks[t].created_at + Keep < now
                                                  /\ tasks[t].status = "success"})
  /\ UNCHANGED cache

\* The job itself; an error of its statement, or its time-out, is only logged.
Clean(s) ==
  /\ phase[s] = "running"
  /\ \/ job = "clear-expired-cache" /\ GC
     \/ job = "clear-expired-task" /\ RemoveQueueTasks
     \/ UNCHANGED <<cache, tasks>>
  /\ phase' = [phase EXCEPT ![s] = "cleaned"]
  /\ UNCHANGED <<job, now, lock, started, setting, until, last, updating, taskInst, reported, raced>>

\* Mutant: the key is deleted whoever set it.
ReleaseAny(s) ==
  /\ phase[s] = "cleaned"
  /\ lock' = Free
  /\ phase' = [phase EXCEPT ![s] = "done"]
  /\ UNCHANGED <<job, now, started, caching, tasking>>

\* Release deletes the key if the token in it is the server's own.
Release(s) ==
  /\ phase[s] = "cleaned"
  /\ lock' = IF Held /\ lock.by = s THEN Free ELSE lock
  /\ phase' = [phase EXCEPT ![s] = "done"]
  /\ UNCHANGED <<job, now, started, caching, tasking>>

\* The server dies, or Redis does not answer its Release.
Vanish(s) ==
  /\ s \in Inside
  /\ phase' = [phase EXCEPT ![s] = "done"]
  /\ UNCHANGED <<job, now, lock, started, caching, tasking>>

\* Time passes; a job is cut off by its context.
Tick ==
  /\ now < Horizon
  /\ \A s \in Servers : phase[s] = "running" => now < started[s] + JobLimit
  /\ now' = now + 1
  /\ UNCHANGED <<job, scheduler, caching, tasking>>

-----------------------------------------------------------------------------
(* CacheRepo, for one key. DELETE locks the row, or the gap where it would *)
(* be; locks of a gap do not exclude each other, but an INSERT waits for   *)
(* those of others.                                                        *)

\* Calls with a transaction open, which hold a lock.
Open == {w \in Setters : setting[w] \in {"insert", "waiting"}}

\* Mutant: the DELETE is not part of the transaction.
SetDeleteAtOnce(w) ==
  /\ setting[w] = "idle" /\ job = "clear-expired-cache"
  /\ DOMAIN cache # {} => Open = {}
  /\ setting' = [setting EXCEPT ![w] = "insert"]
  /\ cache' = Delete(cache, DOMAIN cache)
  /\ UNCHANGED <<job, now, scheduler, until, last, tasking>>

SetDelete(w) ==
  /\ setting[w] = "idle" /\ job = "clear-expired-cache"
  /\ DOMAIN cache # {} => Open = {}
  /\ setting' = [setting EXCEPT ![w] = "insert"]
  /\ UNCHANGED <<job, now, scheduler, cache, until, last, tasking>>

\* The row is inserted, and the transaction commits.
Commit(w, end) ==
  /\ cache' = Create(Delete(cache, DOMAIN cache), w, CacheCols, [value |-> w, valid_until |-> end])
  /\ setting' = [setting EXCEPT ![w] = "done"]
  /\ last' = [value |-> w, until |-> end]
  /\ UNCHANGED <<job, now, scheduler, until, tasking>>

SetInsert(w) ==
  /\ setting[w] = "insert"
  /\ IF Open = {w}
       THEN Commit(w, now + Ttl)
       ELSE /\ setting' = [setting EXCEPT ![w] = "waiting"]
            /\ until' = [until EXCEPT ![w] = now + Ttl]
            /\ UNCHANGED <<job, now, scheduler, cache, last, tasking>>

SetResume(w) == setting[w] = "waiting" /\ Open = {w} /\ Commit(w, until[w])

\* Of two that wait for each other one is rolled back; or a statement fails.
SetFails(w) ==
  /\ w \in Open
  /\ setting' = [setting EXCEPT ![w] = "failed"]
  /\ UNCHANGED <<job, now, scheduler, cache, until, last, tasking>>

\* The rows of the key that the query of Get is given, each as the table has it.
ValidRows == {w \in DOMAIN cache : Loaded(cache[w]).now.valid_until > now}

\* What Get returns: the value, or Nothing for ErrNotFound.
Get == IF ValidRows = {} THEN Nothing ELSE cache[CHOOSE w \in ValidRows : TRUE].value

-----------------------------------------------------------------------------
(* QueueRepo, for one task.                                                *)

\* What workers report: EmptyResult, or an ErrorResult.
Reports == {[status |-> "success", result |-> "EmptyResult"]}
           \cup {[status |-> "failed", result |-> e] : e \in Errors}

\* QueueRepo.Add
Add ==
  /\ job = "clear-expired-task" /\ reported = {}
  /\ tasks' = Create(tasks, Task, TaskCols, [status |-> "pending", created_at |-> now])
  /\ reported' = {[status |-> "pending", result |-> Null]}
  /\ UNCHANGED <<job, now, scheduler, caching, updating, taskInst, raced>>

\* QueueRepo.Update loads the row, which may not be there yet, or no longer.
UpdateFirst(u) ==
  /\ updating[u] = "idle" /\ job = "clear-expired-task"
  /\ IF Task \in DOMAIN tasks
       THEN /\ updating' = [updating EXCEPT ![u] = "save"]
            /\ taskInst' = [taskInst EXCEPT ![u] = Loaded(tasks[Task])]
       ELSE /\ updating' = [updating EXCEPT ![u] = "failed"]
            /\ UNCHANGED taskInst
  /\ UNCHANGED <<job, now, scheduler, caching, tasks, reported, raced>>

\* Mutant: the result is not among the columns to save.
TaskStaledStatus(loaded, report) ==
  StaledKV([loaded EXCEPT !.now.status = report.status, !.now.result = report.result], {"status"})

\* The columns of the row that the report changes, compared with the row as loaded.
TaskStaled(loaded, report) ==
  StaledKV([loaded EXCEPT !.now.status = report.status, !.now.result = report.result],
           {"status", "result"})

\* Save, by the id; a row that is gone is not missed.
UpdateSave(u) ==
  /\ updating[u] = "save"
  /\ \E report \in Reports :
       /\ tasks' = UpdateFields(tasks, Task, TaskStaled(taskInst[u], report))
       /\ reported' = reported \cup {report}
  /\ raced' = (raced \/ (Task \in DOMAIN tasks /\ tasks[Task] # taskInst[u].orig))
  /\ updating' = [updating EXCEPT ![u] = "done"]
  /\ taskInst' = [taskInst EXCEPT ![u] = Nothing]
  /\ UNCHANGED <<job, now, scheduler, caching>>

\* A database call of Update fails, or its worker dies.
UpdateFails(u) ==
  /\ updating[u] \in {"idle", "save"} /\ job = "clear-expired-task"
  /\ updating' = [updating EXCEPT ![u] = "failed"]
  /\ taskInst' = [taskInst EXCEPT ![u] = Nothing]
  /\ UNCHANGED <<job, now, scheduler, caching, tasks, reported, raced>>

\* What a client is told of a row. A result that is NULL is no JSON: an internal error.
TaskStatus(row) ==
  IF row.status = "pending" THEN [status |-> "pending", errors |-> Nothing]
  ELSE IF row.result = Null THEN [status |-> "internal error", errors |-> Nothing]
  ELSE [status |-> row.status,
        errors |-> IF row.status = "failed" /\ row.result \in Errors THEN row.result ELSE Nothing]

-----------------------------------------------------------------------------
HouseNext ==
  \/ \E s \in Servers : TryLock(s) \/ Clean(s) \/ Release(s) \/ Vanish(s)
  \/ Tick
  \/ \E w \in Setters : SetDelete(w) \/ SetInsert(w) \/ SetResume(w) \/ SetFails(w)
  \/ Add
  \/ \E u \in Updaters : UpdateFirst(u) \/ UpdateSave(u) \/ UpdateFails(u)

HouseSpec == HouseInit /\ [][HouseNext]_houseVars

-----------------------------------------------------------------------------
(* Properties.                                                             *)

TaskRow == [status : {"pending", "success", "failed"},
            result : Errors \cup {"EmptyResult", Null}, created_at : 0..Horizon]

\* Every variable has its type; the key has at most one row. (lock.go, cache.go, queue.go)
HouseTypeOK ==
  /\ job \in Jobs /\ now \in 0..Horizon
  /\ lock \in [by : Servers \cup {Nothing}, until : Nat]
  /\ phase \in [Servers -> {"idle", "running", "cleaned", "done"}]
  /\ started \in [Servers -> 0..Horizon]
  /\ \A w \in DOMAIN cache : DOMAIN cache = {w} /\ cache[w] \in [value : Setters, valid_until : Nat]
  /\ setting \in [Setters -> {"idle", "insert", "waiting", "done", "failed"}]
  /\ until \in [Setters -> Nat]
  /\ last \in [value : Setters \cup {Nothing}, until : Nat]
  /\ DOMAIN tasks \subseteq {Task} /\ tasks \in [DOMAIN tasks -> TaskRow]
  /\ updating \in [Updaters -> {"idle", "save", "done", "failed"}]
  /\ raced \in BOOLEAN

\* Two servers are inside the job together only when the lease of one of them has run out
\* while it was at work; a release by that one does not let in a third. (lock.go:29-75)
OverlapNeedsExpiry ==
  \A s, t \in Inside : s # t => now >= started[s] + Lease \/ now >= started[t] + Lease

\* Until it expires, the value committed last is what Get returns, and afterwards nothing:
\* whatever else is being set, was rolled back, or is cleaned up. (cache.go:26-65)
LastSetIsRead == Get = IF last.until > now THEN last.value ELSE Nothing

\* A client that polls a task is told what one report said, never an internal error, and
\* never the status of one with the errors of another, unless an Update saved a row that had
\* changed since it loaded it. (queue.go:47-64, tasks.go:34-85)
AnswersAReport ==
  \A t \in DOMAIN tasks :
    TaskStatus(tasks[t]) \in {TaskStatus(report) : report \in reported} \/ raced
=============================================================================
