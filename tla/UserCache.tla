----------------------------- MODULE UserCache -----------------------------
(***************************************************************************)
(* One user, read through a cache: UserService.GetUserByID keeps the row   *)
(* of users in Redis for TTL, the auth middleware admits requests with     *)
(* what it returns, and the handlers behind it change the row.  Only       *)
(* BindPhone clears the key; a forced update reads past it, and its SETNX  *)
(* leaves what is there.                                                   *)
(***************************************************************************)
EXTENDS Naturals, Sequences

CONSTANTS
  Requests,
  Kinds,     \* what requests are for: view, update, bind, destroy
  TTL,       \* lifetime of a cached row, 10 minutes in the code
  Deadline,  \* of the context the middleware reads with, 5 seconds
  MaxTime,   \* the clock stops here
  MaxFaults, \* Redis commands that fail during the run
  None

Cached == [ver : Nat, since : Nat, at : Nat, by : Requests, auth : BOOLEAN]

ASSUME CacheConstants ==
  /\ TTL \in Nat /\ Deadline \in Nat /\ MaxTime \in Nat /\ MaxFaults \in Nat
  /\ None \notin Cached
  /\ Kinds \subseteq {"view", "update", "bind", "destroy"}

VARIABLES
  writes,     \* history: when the row was written; its version is their number
  destroyed,  \* the version that set users.status to deleted, 0 if none did
  cache,      \* the key user:<id>:info: a version, and who filled it and when
  now,
  pc,         \* where the request is
  kind,       \* what it is for
  since,      \* when its current GetUserByID began
  held,       \* the version that call read
  wrote,      \* the version it wrote, 0 before it does
  filling,    \* history: requests between SELECT and SETNX at that time
  cleared,    \* requests whose DEL succeeded
  faults

row     == <<writes, destroyed>>
history == <<wrote, filling>>
vars == <<row, cache, now, pc, kind, since, held, history, cleared, faults>>

States == {"idle", "load", "fill", "handle", "reload", "refill", "bind", "clear", "done", "refused"}

ver     == Len(writes)
Deleted == destroyed > 0
Valid   == cache # None /\ now < cache.at + TTL

TypeOK ==
  /\ writes \in Seq(Nat) /\ destroyed \in Nat
  /\ cache \in Cached \cup {None} /\ (cache # None => cache.at <= now)
  /\ now \in 0..MaxTime
  /\ pc \in [Requests -> States] /\ kind \in [Requests -> Kinds]
  /\ since \in [Requests -> Nat] /\ held \in [Requests -> Nat]
  /\ wrote \in [Requests -> Nat] /\ filling \in [Requests -> SUBSET Requests]
  /\ cleared \subseteq Requests
  /\ faults \in 0..MaxFaults

Init ==
  /\ writes = << >> /\ destroyed = 0
  /\ cache = None /\ now = 0
  /\ pc = [r \in Requests |-> "idle"] /\ kind \in [Requests -> Kinds]
  /\ since = [r \in Requests |-> 0] /\ held = [r \in Requests |-> 0]
  /\ wrote = [r \in Requests |-> 0] /\ filling = [r \in Requests |-> {}]
  /\ cleared = {} /\ faults = 0

Goes(r, from, to) == pc[r] = from /\ pc' = [pc EXCEPT ![r] = to]
Fault == faults < MaxFaults /\ faults' = faults + 1
InTime(r) == now <= since[r] + Deadline

----------------------------------------------------------------------------
\* GetUserByID

\* The middleware looks the user up: the cached row admits the request; none,
\* or an error of Redis, sends it to the database.
Get(r) ==
  /\ since' = [since EXCEPT ![r] = now]
  /\ \/ Valid /\ Goes(r, "idle", "handle") /\ UNCHANGED faults
     \/ ~Valid /\ Goes(r, "idle", "load") /\ UNCHANGED faults
     \/ Fault /\ Goes(r, "idle", "load")
  /\ UNCHANGED <<row, cache, now, kind, held, history, cleared>>

\* Mutant: the status of the row is not looked at.
SelectAny(r, from, to, onError) ==
  /\ held' = [held EXCEPT ![r] = ver] /\ Goes(r, from, to)
  /\ UNCHANGED <<row, cache, now, kind, since, history, cleared, faults>>

\* repo.GetUserByID: the SELECT; a deleted user is an error.
Select(r, from, to, onError) ==
  /\ IF Deleted THEN Goes(r, from, onError) /\ UNCHANGED held
     ELSE held' = [held EXCEPT ![r] = ver] /\ Goes(r, from, to)
  /\ UNCHANGED <<row, cache, now, kind, since, history, cleared, faults>>

\* Mutant: a row that is still cached gets a new expiry.
StoreRenewing(r, auth) ==
  cache' = IF Valid THEN [cache EXCEPT !.at = now]
           ELSE [ver |-> held[r], since |-> since[r], at |-> now, by |-> r, auth |-> auth]

\* SETNX: a row that is still cached stays, even if this one is newer.
Store(r, auth) ==
  cache' = IF Valid THEN cache
           ELSE [ver |-> held[r], since |-> since[r], at |-> now, by |-> r, auth |-> auth]

Fill(r, from, to, onError, auth) ==
  /\ \/ Store(r, auth) /\ Goes(r, from, to) /\ UNCHANGED faults
     \/ Fault /\ Goes(r, from, onError) /\ UNCHANGED cache
  /\ UNCHANGED <<row, now, kind, since, held, history, cleared>>

\* The middleware's context is over: whatever it waits for fails.
GiveUp(r) ==
  /\ ~InTime(r)
  /\ Goes(r, "load", "refused") \/ Goes(r, "fill", "refused")
  /\ UNCHANGED <<row, cache, now, kind, since, held, history, cleared, faults>>

Admit(r) ==
  \/ InTime(r) /\ Select(r, "load", "fill", "refused")
  \/ InTime(r) /\ Fill(r, "fill", "handle", "refused", TRUE)
  \/ GiveUp(r)

----------------------------------------------------------------------------
\* The handlers

\* A statement writes the row.
Writes(r) ==
  /\ writes' = Append(writes, now)
  /\ wrote' = [wrote EXCEPT ![r] = ver + 1]
  /\ filling' = [filling EXCEPT ![r] = {q \in Requests : pc[q] \in {"fill", "refill"}}]
  /\ UNCHANGED <<cache, now, kind, since, held, cleared, faults>>

\* CurrentUser reads again, past the cache; most handlers do not.
View(r) ==
  /\ kind[r] = "view"
  /\ \/ Goes(r, "handle", "done") /\ UNCHANGED since
     \/ Goes(r, "handle", "reload") /\ since' = [since EXCEPT ![r] = now]
  /\ UNCHANGED <<row, cache, now, kind, held, history, cleared, faults>>

\* UpdateAvatar, UpdateRealname.
Update(r) ==
  /\ kind[r] = "update" /\ Goes(r, "handle", "reload")
  /\ Writes(r) /\ UNCHANGED destroyed

\* Destroy leaves the cached row alone.
Destroy(r) ==
  /\ kind[r] = "destroy" /\ Goes(r, "handle", "done")
  /\ Writes(r) /\ destroyed' = IF Deleted THEN destroyed ELSE ver + 1

\* BindPhone reads the user from the database before it writes.
CheckBind(r) ==
  /\ kind[r] = "bind"
  /\ Goes(r, "handle", IF Deleted THEN "refused" ELSE "bind")
  /\ UNCHANGED <<row, cache, now, kind, since, held, history, cleared, faults>>

Bind(r) == Goes(r, "bind", "clear") /\ Writes(r) /\ UNCHANGED destroyed

\* Mutant: another key is deleted.
ClearOther(r) ==
  /\ Goes(r, "clear", "done") /\ cleared' = cleared \cup {r}
  /\ UNCHANGED <<row, cache, now, kind, since, held, history, faults>>

\* ... and then deletes the key; an error is ignored.
Clear(r) ==
  /\ Goes(r, "clear", "done")
  /\ \/ cache' = None /\ cleared' = cleared \cup {r} /\ UNCHANGED faults
     \/ Fault /\ UNCHANGED <<cache, cleared>>
  /\ UNCHANGED <<row, now, kind, since, held, history>>

\* The forced GetUserByID of a handler has the request's context, which has no
\* deadline.
Reload(r) ==
  \/ Select(r, "reload", "refill", "done")
  \/ Fill(r, "refill", "done", "done", FALSE)

Tick ==
  /\ now < MaxTime /\ now' = now + 1
  /\ UNCHANGED <<row, cache, pc, kind, since, held, history, cleared, faults>>

Handle(r) == View(r) \/ Update(r) \/ Destroy(r) \/ CheckBind(r) \/ Bind(r) \/ Clear(r)
Next == Tick \/ \E r \in Requests : Get(r) \/ Admit(r) \/ Handle(r) \/ Reload(r)
Spec == Init /\ [][Next]_vars

----------------------------------------------------------------------------
\* Properties

\* GetUserByID never returns a destroyed row: it is cached from before Destroy,
\* if at all, so the middleware's own test of the status never succeeds.
OnlyActiveCached == Valid /\ Deleted => cache.ver < destroyed

\* A cached row was the current one at some moment of the call that cached it;
\* one the middleware cached is out of date for TTL and its deadline at most.
StalenessBounded ==
  Valid /\ cache.ver < ver =>
    /\ cache.since <= writes[cache.ver + 1]
    /\ cache.auth => now < writes[cache.ver + 1] + TTL + Deadline

\* What is cached after BindPhone cleared the key knows of the binding, unless
\* it was read before the binding by a call that had not stored it yet.
FreshAfterBind == \A r \in cleared :
  Valid /\ cache.ver < wrote[r] => cache.by \in filling[r]

=============================================================================
