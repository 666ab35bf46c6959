------------------------ MODULE Housekeeping_proofs ------------------------
(***************************************************************************)
(* The lease and the cached value, for any number of servers and of calls  *)
(* of Set, and any lengths of the lease, the job and a value's life.       *)
(***************************************************************************)
EXTENDS Housekeeping, TLAPS

\* A server inside that is within its lease is the one the key in Redis names.
LockInv ==
  /\ now \in Nat /\ started \in [Servers -> Nat]
  /\ phase \in [Servers -> {"idle", "running", "cleaned", "done"}]
  /\ \A s \in Inside : now < started[s] + Lease =>
       lock.by = s /\ lock.until = started[s] + Lease

LEMMA InitLock == HouseInit => LockInv
  BY DEF HouseInit, LockInv, Inside

\* The steps that leave the scheduler alone.
LEMMA OthersLock ==
  ASSUME LockInv, UNCHANGED scheduler, now' = now \/ now' = now + 1 PROVE LockInv'
<1>1. lock' = lock /\ phase' = phase /\ started' = started /\ Inside' = Inside
  BY DEF scheduler, Inside
<1>2. now' \in Nat /\ started' \in [Servers -> Nat]
      /\ phase' \in [Servers -> {"idle", "running", "cleaned", "done"}]
  BY <1>1 DEF LockInv
<1>3. ASSUME NEW s \in Inside, now' < started[s] + Lease
      PROVE lock.by = s /\ lock.until = started[s] + Lease
  <2>1. now \in Nat /\ started[s] \in Nat /\ Lease \in Nat
    BY HousekeepingConstants DEF HousekeepingConstants, LockInv, Inside
  <2>2. now < started[s] + Lease
    BY <1>3, <2>1
  <2> QED BY <2>2 DEF LockInv
<1> QED BY <1>1, <1>2, <1>3 DEF LockInv

LEMMA TryLockLock == ASSUME LockInv, NEW s \in Servers, TryLock(s) PROVE LockInv'
<1> USE HousekeepingConstants DEF HousekeepingConstants
<1>0. now' = now /\ phase[s] = "idle"
  BY DEF TryLock
<1>1. CASE Held /\ lock.by # s
  BY <1>0, <1>1 DEF TryLock, LockInv, Inside
<1>2. CASE ~(Held /\ lock.by # s)
  <2>1. /\ lock' = [by |-> s, until |-> now + Lease]
        /\ phase' = [phase EXCEPT ![s] = "running"]
        /\ started' = [started EXCEPT ![s] = now]
    BY <1>2 DEF TryLock
  \* Another one within its lease would hold the key.
  <2>2. ASSUME NEW t \in Inside, t # s PROVE ~(now < started[t] + Lease)
    BY <1>2, <2>2 DEF LockInv, Inside, Held
  <2>3. ASSUME NEW t \in Inside', now' < started'[t] + Lease
        PROVE lock'.by = t /\ lock'.until = started'[t] + Lease
    <3>1. CASE t = s
      BY <2>1, <3>1 DEF LockInv
    <3>2. CASE t # s
      BY <1>0, <2>1, <2>2, <2>3, <3>2 DEF LockInv, Inside
    <3> QED BY <3>1, <3>2
  <2> QED BY <1>0, <2>1, <2>3 DEF LockInv
<1> QED BY <1>1, <1>2

\* Release deletes no key but the server's own.
LEMMA ReleaseLock == ASSUME LockInv, NEW s \in Servers, Release(s) PROVE LockInv'
<1> USE HousekeepingConstants DEF HousekeepingConstants
<1>1. /\ now' = now /\ started' = started
      /\ phase' = [phase EXCEPT ![s] = "done"]
      /\ lock' = lock \/ lock.by = s
  BY DEF Release
<1>2. ASSUME NEW t \in Inside', now' < started'[t] + Lease
      PROVE lock'.by = t /\ lock'.until = started'[t] + Lease
  <2>1. t \in Inside /\ t # s
    BY <1>1, <1>2 DEF LockInv, Inside
  <2>2. lock.by = t /\ lock.until = started[t] + Lease
    BY <1>1, <1>2, <2>1 DEF LockInv
  <2> QED BY <1>1, <2>1, <2>2
<1> QED BY <1>1, <1>2 DEF LockInv

LEMMA NextLock == LockInv /\ [HouseNext]_houseVars => LockInv'
<1> SUFFICES ASSUME LockInv, [HouseNext]_houseVars PROVE LockInv'
  OBVIOUS
<1> USE HousekeepingConstants DEF HousekeepingConstants
<1>1. CASE UNCHANGED houseVars
  BY <1>1, OthersLock DEF houseVars
<1>2. ASSUME NEW s \in Servers, TryLock(s) PROVE LockInv'
  BY <1>2, TryLockLock
<1>3. ASSUME NEW s \in Servers, Clean(s) PROVE LockInv'
  BY <1>3 DEF Clean, LockInv, Inside
<1>4. ASSUME NEW s \in Servers, Release(s) PROVE LockInv'
  BY <1>4, ReleaseLock
<1>5. ASSUME NEW s \in Servers, Vanish(s) PROVE LockInv'
  BY <1>5 DEF Vanish, LockInv, Inside
<1>6. CASE Tick
  BY <1>6, OthersLock DEF Tick
<1>7. ASSUME NEW w \in Setters,
             SetDelete(w) \/ SetInsert(w) \/ SetResume(w) \/ SetFails(w)
      PROVE LockInv'
  <2>1. UNCHANGED scheduler /\ now' = now
    BY <1>7 DEF SetDelete, SetInsert, SetResume, SetFails, Commit
  <2> QED BY <2>1, OthersLock
<1>8. CASE Add
  BY <1>8, OthersLock DEF Add
<1>9. ASSUME NEW u \in Updaters, UpdateFirst(u) \/ UpdateSave(u) \/ UpdateFails(u)
      PROVE LockInv'
  <2>1. UNCHANGED scheduler /\ now' = now
    BY <1>9 DEF UpdateFirst, UpdateSave, UpdateFails
  <2> QED BY <2>1, OthersLock
<1> QED BY <1>1, <1>2, <1>3, <1>4, <1>5, <1>6, <1>7, <1>8, <1>9 DEF HouseNext

\* Two servers are inside the job together only when the lease of one of them has run out
\* while it was at work, for any number of servers. (lock.go:29-75)
THEOREM LeaseExcludes == HouseSpec => []OverlapNeedsExpiry
<1>1. LockInv => OverlapNeedsExpiry
  <2> SUFFICES ASSUME LockInv, NEW s \in Inside, NEW t \in Inside, s # t
               PROVE now >= started[s] + Lease \/ now >= started[t] + Lease
    BY DEF OverlapNeedsExpiry
  <2>1. now \in Nat /\ started[s] \in Nat /\ started[t] \in Nat /\ Lease \in Nat
    BY HousekeepingConstants DEF HousekeepingConstants, LockInv, Inside
  <2>2. ~(now < started[s] + Lease /\ now < started[t] + Lease)
    BY DEF LockInv
  <2> QED BY <2>1, <2>2
<1> QED BY InitLock, NextLock, <1>1, PTL DEF HouseSpec

-----------------------------------------------------------------------------
(* The cached value.                                                       *)

\* The table has the row committed last, or none if that one has expired.
CacheInv ==
  /\ now \in Nat /\ until \in [Setters -> Nat] /\ last.until \in Nat
  /\ \/ DOMAIN cache = {} /\ last.until <= now
     \/ /\ DOMAIN cache = {last.value}
        /\ cache[last.value].value = last.value
        /\ cache[last.value].valid_until = last.until

LEMMA InitCache == HouseInit => CacheInv
  BY DEF HouseInit, CacheInv

\* The steps that leave the table alone, and the last value.
LEMMA OthersCache ==
  ASSUME CacheInv, cache' = cache, last' = last, until' \in [Setters -> Nat],
         now' = now \/ now' = now + 1
  PROVE CacheInv'
<1>1. now' \in Nat /\ (last.until <= now => last.until <= now')
  BY DEF CacheInv
<1> QED BY <1>1 DEF CacheInv

\* One DELETE takes only rows that have expired.
LEMMA GCCache ==
  ASSUME CacheInv, GC, now' = now, last' = last, until' = until PROVE CacheInv'
<1> DEFINE expired == {w \in DOMAIN cache : cache[w].valid_until < now}
<1>1. cache' = [i \in DOMAIN cache \ expired |-> cache[i]]
  BY DEF GC, Delete
<1> HIDE DEF expired
<1>2. DOMAIN cache' = DOMAIN cache \ expired
  BY <1>1
<1>3. CASE DOMAIN cache = {}
  BY <1>2, <1>3 DEF CacheInv
<1>4. CASE DOMAIN cache # {} /\ last.until < now
  <2>1. expired = DOMAIN cache
    BY <1>4 DEF CacheInv, expired
  <2> QED BY <1>2, <1>4, <2>1 DEF CacheInv
<1>5. CASE DOMAIN cache # {} /\ ~(last.until < now)
  <2>1. expired = {}
    BY <1>5 DEF CacheInv, expired
  <2> QED BY <1>1, <1>2, <1>5, <2>1 DEF CacheInv
<1> QED BY <1>3, <1>4, <1>5

\* A commit replaces the row.
LEMMA CommitCache ==
  ASSUME CacheInv, NEW w \in Setters, NEW end \in Nat, Commit(w, end) PROVE CacheInv'
<1> DEFINE kv == [value |-> w, valid_until |-> end]
<1>1. /\ now' = now /\ until' = until /\ last' = [value |-> w, until |-> end]
      /\ cache' = Create(Delete(cache, DOMAIN cache), w, CacheCols, kv)
  BY DEF Commit, tasking
<1>2. DOMAIN Delete(cache, DOMAIN cache) = {}
  BY DEF Delete
<1>3. cache' = [i \in {w} |-> Object(CacheCols, kv).now]
  BY <1>1, <1>2 DEF Create
<1>4. Object(CacheCols, kv).now.value = w /\ Object(CacheCols, kv).now.valid_until = end
  BY DEF Object, CacheCols
<1> QED BY <1>1, <1>3, <1>4 DEF CacheInv

LEMMA NextCache == CacheInv /\ [HouseNext]_houseVars => CacheInv'
<1> SUFFICES ASSUME CacheInv, [HouseNext]_houseVars PROVE CacheInv'
  OBVIOUS
<1> USE HousekeepingConstants DEF HousekeepingConstants
<1>1. CASE UNCHANGED houseVars
  BY <1>1, OthersCache DEF houseVars, caching, CacheInv
<1>2. ASSUME NEW s \in Servers, TryLock(s) \/ Release(s) \/ Vanish(s) PROVE CacheInv'
  <2>1. UNCHANGED caching /\ now' = now
    BY <1>2 DEF TryLock, Release, Vanish
  <2> QED BY <2>1, OthersCache DEF caching, CacheInv
<1>3. ASSUME NEW s \in Servers, Clean(s) PROVE CacheInv'
  <2>1. now' = now /\ last' = last /\ until' = until /\ (GC \/ cache' = cache)
    BY <1>3 DEF Clean, RemoveQueueTasks
  <2> QED BY <2>1, GCCache, OthersCache DEF CacheInv
<1>4. CASE Tick
  BY <1>4, OthersCache DEF Tick, caching, CacheInv
<1>5. ASSUME NEW w \in Setters, SetDelete(w) \/ SetFails(w) PROVE CacheInv'
  <2>1. cache' = cache /\ last' = last /\ until' = until /\ now' = now
    BY <1>5 DEF SetDelete, SetFails
  <2> QED BY <2>1, OthersCache DEF CacheInv
<1>6. ASSUME NEW w \in Setters, SetInsert(w) PROVE CacheInv'
  <2>1. now + Ttl \in Nat
    <3>1. now \in Nat
      BY DEF CacheInv
    <3>2. Ttl \in Nat
      OBVIOUS
    <3> QED BY ONLY <3>1, <3>2
  <2>2. CASE Open = {w}
    BY <1>6, <2>1, <2>2, CommitCache DEF SetInsert
  <2>3. CASE Open # {w}
    <3>1. /\ cache' = cache /\ last' = last /\ now' = now
          /\ until' = [until EXCEPT ![w] = now + Ttl]
      BY <1>6, <2>3 DEF SetInsert
    <3>2. until' \in [Setters -> Nat]
      BY <2>1, <3>1 DEF CacheInv
    <3> QED BY <3>1, <3>2, OthersCache
  <2> QED BY <2>2, <2>3
<1>7. ASSUME NEW w \in Setters, SetResume(w) PROVE CacheInv'
  <2>1. until[w] \in Nat
    BY DEF CacheInv
  <2> QED BY <1>7, <2>1, CommitCache DEF SetResume
<1>8. CASE Add
  BY <1>8, OthersCache DEF Add, caching, CacheInv
<1>9. ASSUME NEW u \in Updaters, UpdateFirst(u) \/ UpdateSave(u) \/ UpdateFails(u)
      PROVE CacheInv'
  <2>1. UNCHANGED caching /\ now' = now
    BY <1>9 DEF UpdateFirst, UpdateSave, UpdateFails
  <2> QED BY <2>1, OthersCache DEF caching, CacheInv
<1> QED BY <1>1, <1>2, <1>3, <1>4, <1>5, <1>6, <1>7, <1>8, <1>9 DEF HouseNext

\* Until it expires, the value committed last is what Get returns, and afterwards nothing,
\* whatever other calls of Set, deadlocks and clean-ups do, and however many there are.
\* (cache.go:26-65)
THEOREM LastCommitIsRead == HouseSpec => []LastSetIsRead
<1>1. CacheInv => LastSetIsRead
  <2> SUFFICES ASSUME CacheInv PROVE LastSetIsRead
    OBVIOUS
  <2>1. ValidRows = {w \in DOMAIN cache : cache[w].valid_until > now}
    BY DEF ValidRows, Loaded
  <2>2. CASE DOMAIN cache = {}
    BY <2>1, <2>2 DEF CacheInv, LastSetIsRead, Get
  <2>3. CASE DOMAIN cache # {}
    <3>1. /\ DOMAIN cache = {last.value} /\ cache[last.value].value = last.value
          /\ cache[last.value].valid_until = last.until
      BY <2>3 DEF CacheInv
    <3>2. CASE last.until > now
      <4>1. ValidRows = {last.value}
        BY <2>1, <3>1, <3>2
      <4> QED BY <3>1, <3>2, <4>1 DEF LastSetIsRead, Get
    <3>3. CASE ~(last.until > now)
      <4>1. ValidRows = {}
        BY <2>1, <3>1, <3>3
      <4> QED BY <3>3, <4>1 DEF LastSetIsRead, Get
    <3> QED BY <3>2, <3>3
  <2> QED BY <2>2, <2>3
<1> QED BY InitCache, NextCache, <1>1, PTL DEF HouseSpec

-----------------------------------------------------------------------------
(* The row of the task.                                                    *)

Says(row, report) == row.status = report.status /\ row.result = report.result

\* The row says what one report said, and so does an object loaded from it; a save that finds
\* the row as it was loaded leaves it with the report's own status and result.
TaskInv ==
  /\ updating \in [Updaters -> {"idle", "save", "done", "failed"}] /\ DOMAIN taskInst = Updaters
  /\ DOMAIN tasks \subseteq {Task} /\ \A t \in DOMAIN tasks : DOMAIN tasks[t] = TaskCols
  /\ \A u \in Updaters : updating[u] = "save" =>
       taskInst[u] = Loaded(taskInst[u].orig) /\ DOMAIN taskInst[u].orig = TaskCols
  /\ raced \/ \A t \in DOMAIN tasks : \E report \in reported : Says(tasks[t], report)

LEMMA InitTask == HouseInit => TaskInv
  BY DEF HouseInit, TaskInv

\* The steps that leave the table of the task alone, or delete from it.
LEMMA OthersTask ==
  ASSUME TaskInv, UNCHANGED <<updating, taskInst, reported, raced>>,
         tasks' = tasks \/ \E S : tasks' = Delete(tasks, S)
  PROVE TaskInv'
<1>1. DOMAIN tasks' \subseteq DOMAIN tasks /\ \A t \in DOMAIN tasks' : tasks'[t] = tasks[t]
  BY DEF Delete
<1> QED BY <1>1 DEF TaskInv

LEMMA AddTask == ASSUME TaskInv, Add PROVE TaskInv'
<1> DEFINE pending == [status |-> "pending", result |-> Null]
           row == Object(TaskCols, [status |-> "pending", created_at |-> now]).now
<1>1. /\ tasks' = Create(tasks, Task, TaskCols, [status |-> "pending", created_at |-> now])
      /\ reported' = {pending} /\ UNCHANGED <<updating, taskInst, raced>>
  BY DEF Add
<1>2. DOMAIN tasks' = {Task} /\ tasks'[Task] = row
  BY <1>1 DEF Create, TaskInv
<1>3. row = [c \in TaskCols |-> IF c = "status" THEN "pending"
                                ELSE IF c = "created_at" THEN now ELSE Null]
  BY DEF Object
<1>4. DOMAIN row = TaskCols /\ row.status = "pending" /\ row.result = Null
  BY <1>3 DEF TaskCols
<1> HIDE DEF row
<1>5. \E report \in reported' : Says(tasks'[Task], report)
  BY <1>1, <1>2, <1>4 DEF Says
<1> QED BY <1>1, <1>2, <1>4, <1>5 DEF TaskInv

LEMMA FirstTask == ASSUME TaskInv, NEW u \in Updaters, UpdateFirst(u) PROVE TaskInv'
<1>1. UNCHANGED <<tasks, reported, raced>>
  BY DEF UpdateFirst
<1>2. CASE Task \in DOMAIN tasks
  <2>1. /\ updating' = [updating EXCEPT ![u] = "save"]
        /\ taskInst' = [taskInst EXCEPT ![u] = Loaded(tasks[Task])]
    BY <1>2 DEF UpdateFirst
  <2>2. Loaded(tasks[Task]).orig = tasks[Task] /\ DOMAIN tasks[Task] = TaskCols
    BY <1>2 DEF Loaded, TaskInv
  <2> QED BY <1>1, <2>1, <2>2 DEF TaskInv
<1>3. CASE Task \notin DOMAIN tasks
  BY <1>1, <1>3 DEF UpdateFirst, TaskInv
<1> QED BY <1>2, <1>3

\* What is written of a report to a row that is as it was loaded.
LEMMA Reported ==
  ASSUME NEW row, DOMAIN row = TaskCols, NEW report \in Reports,
         NEW new, new = [c \in DOMAIN row |-> IF c \in DOMAIN TaskStaled(Loaded(row), report)
                                               THEN TaskStaled(Loaded(row), report)[c] ELSE row[c]]
  PROVE  Says(new, report)
<1> DEFINE o == [Loaded(row) EXCEPT !.now.status = report.status, !.now.result = report.result]
           kv == TaskStaled(Loaded(row), report)
<1>1. o.orig = row /\ o.now = [row EXCEPT !.status = report.status, !.result = report.result]
  BY DEF Loaded
<1>2. kv = [c \in {k \in DOMAIN o.now : k \in {"status", "result"} /\ o.now[k] # o.orig[k]}
              |-> o.now[c]]
  BY DEF TaskStaled, StaledKV
<1> HIDE DEF o
<1>3. /\ "status" \in DOMAIN kv <=> report.status # row.status
      /\ "result" \in DOMAIN kv <=> report.result # row.result
      /\ "status" \in DOMAIN kv => kv.status = report.status
      /\ "result" \in DOMAIN kv => kv.result = report.result
  BY <1>1, <1>2 DEF TaskCols
<1> HIDE DEF kv
<1>4. new = [c \in TaskCols |-> IF c \in DOMAIN kv THEN kv[c] ELSE row[c]]
  BY DEF kv
<1> QED BY <1>3, <1>4 DEF Says, TaskCols

LEMMA SaveTask == ASSUME TaskInv, NEW u \in Updaters, UpdateSave(u) PROVE TaskInv'
<1>1. PICK report \in Reports :
        /\ tasks' = UpdateFields(tasks, Task, TaskStaled(taskInst[u], report))
        /\ reported' = reported \cup {report}
  BY DEF UpdateSave
<1>2. /\ updating[u] = "save"
      /\ updating' = [updating EXCEPT ![u] = "done"] /\ taskInst' = [taskInst EXCEPT ![u] = Nothing]
      /\ raced' = (raced \/ (Task \in DOMAIN tasks /\ tasks[Task] # taskInst[u].orig))
  BY DEF UpdateSave
<1>3. DOMAIN tasks' = DOMAIN tasks /\ \A t \in DOMAIN tasks : DOMAIN tasks'[t] = DOMAIN tasks[t]
  BY <1>1 DEF UpdateFields
<1>4. ASSUME ~raced', NEW t \in DOMAIN tasks
      PROVE  Says(tasks'[t], report)
  <2>1. t = Task /\ tasks[Task] = taskInst[u].orig /\ DOMAIN tasks[Task] = TaskCols
    BY <1>2, <1>4 DEF TaskInv
  <2>2. taskInst[u] = Loaded(tasks[Task])
    BY <1>2, <2>1 DEF TaskInv
  <2>3. tasks'[Task] = [c \in DOMAIN tasks[Task] |->
                          IF c \in DOMAIN TaskStaled(Loaded(tasks[Task]), report)
                          THEN TaskStaled(Loaded(tasks[Task]), report)[c] ELSE tasks[Task][c]]
    BY <1>1, <1>4, <2>1, <2>2 DEF UpdateFields
  <2> QED BY <2>1, <2>3, Reported
<1>5. raced' \/ \A t \in DOMAIN tasks' : \E said \in reported' : Says(tasks'[t], said)
  BY <1>1, <1>3, <1>4
<1>6. /\ updating' \in [Updaters -> {"idle", "save", "done", "failed"}]
      /\ DOMAIN taskInst' = Updaters
      /\ \A v \in Updaters : updating'[v] = "save" => updating[v] = "save" /\ taskInst'[v] = taskInst[v]
  BY <1>2 DEF TaskInv
<1>7. \A v \in Updaters : updating'[v] = "save" =>
        taskInst'[v] = Loaded(taskInst'[v].orig) /\ DOMAIN taskInst'[v].orig = TaskCols
  BY <1>6 DEF TaskInv
<1>8. DOMAIN tasks' \subseteq {Task} /\ \A t \in DOMAIN tasks' : DOMAIN tasks'[t] = TaskCols
  BY <1>3 DEF TaskInv
<1> QED BY <1>5, <1>6, <1>7, <1>8 DEF TaskInv

LEMMA NextTask == TaskInv /\ [HouseNext]_houseVars => TaskInv'
<1> SUFFICES ASSUME TaskInv, [HouseNext]_houseVars PROVE TaskInv'
  OBVIOUS
<1>1. CASE UNCHANGED houseVars
  BY <1>1, OthersTask DEF houseVars, tasking
<1>2. ASSUME NEW s \in Servers, TryLock(s) \/ Clean(s) \/ Release(s) \/ Vanish(s) PROVE TaskInv'
  <2>1. UNCHANGED <<updating, taskInst, reported, raced>>
    BY <1>2 DEF TryLock, Clean, Release, Vanish, tasking
  <2>2. tasks' = tasks \/ \E S : tasks' = Delete(tasks, S)
    BY <1>2 DEF TryLock, Clean, GC, RemoveQueueTasks, Release, Vanish, tasking
  <2> QED BY <2>1, <2>2, OthersTask
<1>3. CASE Tick
  BY <1>3, OthersTask DEF Tick, tasking
<1>4. ASSUME NEW w \in Setters,
             SetDelete(w) \/ SetInsert(w) \/ SetResume(w) \/ SetFails(w)
      PROVE TaskInv'
  <2>1. UNCHANGED tasking
    BY <1>4 DEF SetDelete, SetInsert, SetResume, SetFails, Commit
  <2> QED BY <2>1, OthersTask DEF tasking
<1>5. ASSUME NEW u \in Updaters, UpdateFails(u) PROVE TaskInv'
  BY <1>5 DEF UpdateFails, TaskInv
<1> QED BY <1>1, <1>2, <1>3, <1>4, <1>5, AddTask, FirstTask, SaveTask DEF HouseNext

\* A client that polls a task is told what one report said, unless an Update saved a row that
\* had changed since it loaded it; for any number of calls of Update. (queue.go:47-64)
THEOREM ClientsAreToldAReport == HouseSpec => []AnswersAReport
<1>1. TaskInv => AnswersAReport
  <2>1. \A row, report : Says(row, report) => TaskStatus(row) = TaskStatus(report)
    BY DEF Says, TaskStatus
  <2> QED BY <2>1 DEF TaskInv, AnswersAReport
<1> QED BY InitTask, NextTask, <1>1, PTL DEF HouseSpec

-----------------------------------------------------------------------------
(* Types.                                                                  *)

SchedulerType ==
  /\ job \in Jobs /\ now \in 0..Horizon
  /\ lock \in [by : Servers \cup {Nothing}, until : Nat]
  /\ phase \in [Servers -> {"idle", "running", "cleaned", "done"}]
  /\ started \in [Servers -> 0..Horizon]

CachingType ==
  /\ \A w \in DOMAIN cache : DOMAIN cache = {w} /\ cache[w] \in [value : Setters, valid_until : Nat]
  /\ setting \in [Setters -> {"idle", "insert", "waiting", "done", "failed"}]
  /\ until \in [Setters -> Nat]
  /\ last \in [value : Setters \cup {Nothing}, until : Nat]

\* An object loaded from a row has its types, until it is saved.
TaskingType ==
  /\ DOMAIN tasks \subseteq {Task} /\ tasks \in [DOMAIN tasks -> TaskRow]
  /\ updating \in [Updaters -> {"idle", "save", "done", "failed"}] /\ DOMAIN taskInst = Updaters
  /\ \A u \in Updaters : updating[u] = "save" =>
       taskInst[u].now \in TaskRow /\ taskInst[u].orig \in TaskRow /\ taskInst[u] = Loaded(taskInst[u].orig)
  /\ raced \in BOOLEAN

TypeInv == SchedulerType /\ CachingType /\ TaskingType

LEMMA Clock == ASSUME SchedulerType PROVE now \in Nat /\ now + Ttl \in Nat /\ now + Lease \in Nat
BY HousekeepingConstants DEF HousekeepingConstants, SchedulerType

LEMMA NextScheduler == SchedulerType /\ [HouseNext]_houseVars => SchedulerType'
<1> SUFFICES ASSUME SchedulerType, [HouseNext]_houseVars PROVE SchedulerType'
  OBVIOUS
<1> USE DEF SchedulerType
<1>1. CASE UNCHANGED <<job, now, scheduler>>
  BY <1>1 DEF scheduler
<1>2. ASSUME NEW s \in Servers, TryLock(s) PROVE SchedulerType'
  <2>1. CASE Held /\ lock.by # s
    BY <1>2, <2>1 DEF TryLock
  <2>2. CASE ~(Held /\ lock.by # s)
    <3>1. /\ lock' = [by |-> s, until |-> now + Lease] /\ now' = now /\ job' = job
          /\ phase' = [phase EXCEPT ![s] = "running"] /\ started' = [started EXCEPT ![s] = now]
      BY <1>2, <2>2 DEF TryLock
    <3> QED BY <3>1, Clock
  <2> QED BY <2>1, <2>2
<1>3. ASSUME NEW s \in Servers, Clean(s) \/ Vanish(s) PROVE SchedulerType'
  BY <1>3 DEF Clean, Vanish
<1>4. ASSUME NEW s \in Servers, Release(s) PROVE SchedulerType'
  <2>1. Free \in [by : Servers \cup {Nothing}, until : Nat]
    BY DEF Free
  <2> QED BY <1>4, <2>1 DEF Release
<1>5. CASE Tick
  <2>1. now' \in 0..Horizon /\ UNCHANGED <<job, lock, phase, started>>
    BY <1>5, HousekeepingConstants DEF HousekeepingConstants, Tick, scheduler
  <2> QED BY <2>1
<1>6. ASSUME NEW w \in Setters, SetDelete(w) \/ SetInsert(w) \/ SetResume(w) \/ SetFails(w)
      PROVE UNCHANGED <<job, now, scheduler>>
  BY <1>6 DEF SetDelete, SetInsert, SetResume, SetFails, Commit
<1>7. ASSUME NEW u \in Updaters, UpdateFirst(u) \/ UpdateSave(u) \/ UpdateFails(u)
      PROVE UNCHANGED <<job, now, scheduler>>
  BY <1>7 DEF UpdateFirst, UpdateSave, UpdateFails
<1>8. Add => UNCHANGED <<job, now, scheduler>>
  BY DEF Add
<1>9. UNCHANGED houseVars => UNCHANGED <<job, now, scheduler>>
  BY DEF houseVars
<1> QED BY <1>1, <1>2, <1>3, <1>4, <1>5, <1>6, <1>7, <1>8, <1>9 DEF HouseNext

LEMMA CommitType ==
  ASSUME CachingType, NEW w \in Setters, NEW end \in Nat, Commit(w, end) PROVE CachingType'
<1> DEFINE kv == [value |-> w, valid_until |-> end]
<1>1. /\ until' = until /\ last' = [value |-> w, until |-> end]
      /\ setting' = [setting EXCEPT ![w] = "done"]
      /\ cache' = Create(Delete(cache, DOMAIN cache), w, CacheCols, kv)
  BY DEF Commit
<1>2. DOMAIN Delete(cache, DOMAIN cache) = {}
  BY DEF Delete
<1>3. DOMAIN cache' = {w} /\ cache'[w] = Object(CacheCols, kv).now
  BY <1>1, <1>2 DEF Create
<1>4. Object(CacheCols, kv).now = [value |-> w, valid_until |-> end]
  BY DEF Object, CacheCols
<1>5. \A v \in DOMAIN cache' : DOMAIN cache' = {v} /\ cache'[v] \in [value : Setters, valid_until : Nat]
  BY <1>3, <1>4
<1> HIDE DEF kv
<1>6. /\ setting' \in [Setters -> {"idle", "insert", "waiting", "done", "failed"}]
      /\ until' \in [Setters -> Nat] /\ last' \in [value : Setters \cup {Nothing}, until : Nat]
  BY <1>1 DEF CachingType
<1> QED BY <1>5, <1>6 DEF CachingType

LEMMA NextCaching == SchedulerType /\ CachingType /\ [HouseNext]_houseVars => CachingType'
<1> SUFFICES ASSUME SchedulerType, CachingType, [HouseNext]_houseVars PROVE CachingType'
  OBVIOUS
<1>1. CASE UNCHANGED caching
  BY <1>1 DEF caching, CachingType
<1>2. ASSUME NEW s \in Servers, Clean(s) PROVE CachingType'
  <2>1. /\ UNCHANGED <<setting, until, last>>
        /\ cache' = cache \/ \E S : cache' = Delete(cache, S)
    BY <1>2 DEF Clean, GC, RemoveQueueTasks
  <2>2. DOMAIN cache' \subseteq DOMAIN cache /\ \A w \in DOMAIN cache' : cache'[w] = cache[w]
    BY <2>1 DEF Delete
  <2> QED BY <2>1, <2>2 DEF CachingType
<1>3. ASSUME NEW w \in Setters, SetDelete(w) \/ SetFails(w) PROVE CachingType'
  BY <1>3 DEF SetDelete, SetFails, CachingType
<1>4. ASSUME NEW w \in Setters, SetInsert(w) PROVE CachingType'
  <2>1. CASE Open = {w}
    BY <1>4, <2>1, Clock, CommitType DEF SetInsert
  <2>2. CASE Open # {w}
    <3>1. /\ UNCHANGED <<cache, last>> /\ setting' = [setting EXCEPT ![w] = "waiting"]
          /\ until' = [until EXCEPT ![w] = now + Ttl]
      BY <1>4, <2>2 DEF SetInsert
    <3> QED BY <3>1, Clock DEF CachingType
  <2> QED BY <2>1, <2>2
<1>5. ASSUME NEW w \in Setters, SetResume(w) PROVE CachingType'
  <2>1. until[w] \in Nat
    BY DEF CachingType
  <2> QED BY <1>5, <2>1, CommitType DEF SetResume
<1>6. ASSUME NEW s \in Servers, TryLock(s) \/ Release(s) \/ Vanish(s) PROVE UNCHANGED caching
  BY <1>6 DEF TryLock, Release, Vanish
<1>7. Tick \/ Add => UNCHANGED caching
  BY DEF Tick, Add
<1>8. ASSUME NEW u \in Updaters, UpdateFirst(u) \/ UpdateSave(u) \/ UpdateFails(u)
      PROVE UNCHANGED caching
  BY <1>8 DEF UpdateFirst, UpdateSave, UpdateFails
<1>9. UNCHANGED houseVars => UNCHANGED caching
  BY DEF houseVars
<1> QED BY <1>1, <1>2, <1>3, <1>4, <1>5, <1>6, <1>7, <1>8, <1>9 DEF HouseNext

LEMMA ReportType ==
  ASSUME NEW report \in Reports
  PROVE  report.status \in {"success", "failed"} /\ report.result \in Errors \cup {"EmptyResult"}
BY DEF Reports

\* A saved row keeps its columns and their types.
LEMMA SavedRow ==
  ASSUME NEW row \in TaskRow, NEW loaded \in TaskRow, NEW report \in Reports,
         NEW kv, kv = TaskStaled(Loaded(loaded), report)
  PROVE  [c \in DOMAIN row |-> IF c \in DOMAIN kv THEN kv[c] ELSE row[c]] \in TaskRow
<1> DEFINE o == [Loaded(loaded) EXCEPT !.now.status = report.status, !.now.result = report.result]
           new == [c \in DOMAIN row |-> IF c \in DOMAIN kv THEN kv[c] ELSE row[c]]
<1>1. o.now = [loaded EXCEPT !.status = report.status, !.result = report.result]
  BY DEF Loaded
<1>2. kv = [c \in {k \in DOMAIN o.now : k \in {"status", "result"} /\ o.now[k] # o.orig[k]}
              |-> o.now[c]]
  BY DEF TaskStaled, StaledKV
<1> HIDE DEF o
<1>3. /\ DOMAIN kv \subseteq {"status", "result"}
      /\ "status" \in DOMAIN kv => kv["status"] = report.status
      /\ "result" \in DOMAIN kv => kv["result"] = report.result
  BY <1>1, <1>2 DEF TaskRow
<1>4. /\ DOMAIN row = {"status", "result", "created_at"}
      /\ row.status \in {"pending", "success", "failed"}
      /\ row.result \in Errors \cup {"EmptyResult", Null} /\ row.created_at \in 0..Horizon
  BY DEF TaskRow
<1>5. /\ new["status"] \in {"pending", "success", "failed"}
      /\ new["result"] \in Errors \cup {"EmptyResult", Null} /\ new["created_at"] \in 0..Horizon
  BY <1>3, <1>4, ReportType
<1>6. new = [status |-> new["status"], result |-> new["result"], created_at |-> new["created_at"]]
  BY <1>4
<1> HIDE DEF new
<1>7. new \in TaskRow
  BY <1>5, <1>6 DEF TaskRow
<1> QED BY <1>7 DEF new

LEMMA NextTasking == SchedulerType /\ TaskingType /\ [HouseNext]_houseVars => TaskingType'
<1> SUFFICES ASSUME SchedulerType, TaskingType, [HouseNext]_houseVars PROVE TaskingType'
  OBVIOUS
<1>1. CASE UNCHANGED tasking
  BY <1>1 DEF tasking, TaskingType
<1>2. ASSUME NEW s \in Servers, Clean(s) PROVE TaskingType'
  <2>1. /\ UNCHANGED <<updating, taskInst, raced>>
        /\ tasks' = tasks \/ \E S : tasks' = Delete(tasks, S)
    BY <1>2 DEF Clean, GC, RemoveQueueTasks
  <2>2. /\ DOMAIN tasks' \subseteq DOMAIN tasks /\ tasks' = [t \in DOMAIN tasks' |-> tasks[t]]
    BY <2>1 DEF Delete, TaskingType
  <2> QED BY <2>1, <2>2 DEF TaskingType
<1>3. CASE Add
  <2> DEFINE kv == [status |-> "pending", created_at |-> now]
  <2>1. /\ UNCHANGED <<updating, taskInst, raced>>
        /\ tasks' = Create(tasks, Task, TaskCols, kv)
    BY <1>3 DEF Add
  <2>2. Object(TaskCols, kv).now = [status |-> "pending", result |-> Null, created_at |-> now]
    BY DEF Object, TaskCols
  <2>3. Object(TaskCols, kv).now \in TaskRow
    BY <2>2 DEF TaskRow, SchedulerType
  <2>4. DOMAIN tasks \cup {Task} = {Task}
    BY DEF TaskingType
  <2>5. tasks' = [i \in {Task} |-> Object(TaskCols, kv).now]
    BY <2>1, <2>4 DEF Create
  <2> HIDE DEF kv
  <2>6. DOMAIN tasks' = {Task} /\ tasks' \in [{Task} -> TaskRow]
    BY <2>3, <2>5
  <2> QED BY <2>1, <2>6 DEF TaskingType
<1>4. ASSUME NEW u \in Updaters, UpdateFirst(u) PROVE TaskingType'
  <2>1. CASE Task \in DOMAIN tasks
    <3>1. /\ updating' = [updating EXCEPT ![u] = "save"] /\ UNCHANGED <<tasks, raced>>
          /\ taskInst' = [taskInst EXCEPT ![u] = Loaded(tasks[Task])]
      BY <1>4, <2>1 DEF UpdateFirst
    <3>2. tasks[Task] \in TaskRow /\ Loaded(tasks[Task]).now = tasks[Task]
          /\ Loaded(tasks[Task]).orig = tasks[Task]
      BY <2>1 DEF TaskingType, Loaded
    <3> QED BY <3>1, <3>2 DEF TaskingType
  <2>2. CASE Task \notin DOMAIN tasks
    BY <1>4, <2>2 DEF UpdateFirst, TaskingType
  <2> QED BY <2>1, <2>2
<1>5. ASSUME NEW u \in Updaters, UpdateSave(u) PROVE TaskingType'
  <2>1. PICK report \in Reports : tasks' = UpdateFields(tasks, Task, TaskStaled(taskInst[u], report))
    BY <1>5 DEF UpdateSave
  <2>2. /\ updating[u] = "save" /\ updating' = [updating EXCEPT ![u] = "done"]
        /\ taskInst' = [taskInst EXCEPT ![u] = Nothing] /\ raced' \in BOOLEAN
    BY <1>5 DEF UpdateSave, TaskingType
  <2>3. taskInst[u] = Loaded(taskInst[u].orig) /\ taskInst[u].orig \in TaskRow
    BY <2>2 DEF TaskingType
  <2> DEFINE kv == TaskStaled(taskInst[u], report)
             new(t) == [c \in DOMAIN tasks[t] |-> IF c \in DOMAIN kv THEN kv[c] ELSE tasks[t][c]]
  <2>4. tasks' = [t \in DOMAIN tasks |-> IF t = Task THEN new(t) ELSE tasks[t]]
    BY <2>1 DEF UpdateFields
  <2>5. \A t \in DOMAIN tasks : tasks[t] \in TaskRow
    BY DEF TaskingType
  <2>6. kv = TaskStaled(Loaded(taskInst[u].orig), report)
    BY <2>3
  <2> HIDE DEF kv
  <2>7. \A t \in DOMAIN tasks : new(t) \in TaskRow
    BY <2>3, <2>5, <2>6, SavedRow
  <2> HIDE DEF new
  <2>8. DOMAIN tasks' = DOMAIN tasks /\ tasks' \in [DOMAIN tasks -> TaskRow]
    BY <2>4, <2>5, <2>7
  <2> QED BY <2>2, <2>8 DEF TaskingType
<1>6. ASSUME NEW u \in Updaters, UpdateFails(u) PROVE TaskingType'
  BY <1>6 DEF UpdateFails, TaskingType
<1>7. ASSUME NEW s \in Servers, TryLock(s) \/ Release(s) \/ Vanish(s) PROVE UNCHANGED tasking
  BY <1>7 DEF TryLock, Release, Vanish
<1>8. ASSUME NEW w \in Setters, SetDelete(w) \/ SetInsert(w) \/ SetResume(w) \/ SetFails(w)
      PROVE UNCHANGED tasking
  BY <1>8 DEF SetDelete, SetInsert, SetResume, SetFails, Commit
<1>9. Tick \/ UNCHANGED houseVars => UNCHANGED tasking
  BY DEF Tick, houseVars
<1> QED BY <1>1, <1>2, <1>3, <1>4, <1>5, <1>6, <1>7, <1>8, <1>9 DEF HouseNext

\* Every variable keeps its type, for any number of servers and calls: the cached key has one
\* row at most, and a saved task only columns and values of its table. (lock.go, cache.go, queue.go)
THEOREM TypeCorrect == HouseSpec => []HouseTypeOK
<1>1. HouseInit => TypeInv
  <2> SUFFICES ASSUME HouseInit PROVE TypeInv
    OBVIOUS
  <2> USE DEF HouseInit
  <2>1. SchedulerType
    BY HousekeepingConstants DEF HousekeepingConstants, SchedulerType, Free
  <2>2. CachingType
    BY DEF CachingType
  <2>3. tasks \in [DOMAIN tasks -> TaskRow] /\ DOMAIN tasks = {}
    OBVIOUS
  <2>4. TaskingType
    BY <2>3 DEF TaskingType
  <2> QED BY <2>1, <2>2, <2>4 DEF TypeInv
<1>2. TypeInv /\ [HouseNext]_houseVars => TypeInv'
  BY NextScheduler, NextCaching, NextTasking DEF TypeInv
<1>3. TypeInv => HouseTypeOK
  BY DEF TypeInv, SchedulerType, CachingType, TaskingType, HouseTypeOK
<1> QED BY <1>1, <1>2, <1>3, PTL DEF HouseSpec
=============================================================================
