-------------------------- MODULE UserCache_proofs --------------------------
(***************************************************************************)
(* What the user cache may hold, for any number of requests and any TTL.   *)
(* A call between its SELECT and its SETNX, and the cached row, satisfy    *)
(* the same bounds; a write can only end the time a version was current    *)
(* at, or after, the moment it is committed.                               *)
(***************************************************************************)
EXTENDS UserCache, TLAPS

Filling(q) == pc[q] \in {"fill", "refill"}

\* A version read by a call that began at s is current, or was overwritten
\* when the call had begun; and it is older than the destruction.
CurrentSince(v, s) ==
  /\ v <= ver
  /\ v < ver => s <= writes[v + 1]
  /\ Deleted => v < destroyed

\* A version a request overwrote is known only to those who read it before.
KnownTo(v, q, R) == \A r \in R : v < wrote[r] => q \in filling[r]

RowInv ==
  /\ destroyed <= ver
  /\ \A i \in 1..ver : writes[i] <= now
  /\ \A r \in Requests : wrote[r] <= ver /\ since[r] <= now
  /\ \A r \in cleared : pc[r] = "done"

FillInv == \A q \in Requests :
  Filling(q) => CurrentSince(held[q], since[q]) /\ KnownTo(held[q], q, Requests)

CacheInv == cache # None =>
  /\ CurrentSince(cache.ver, cache.since)
  /\ KnownTo(cache.ver, cache.by, cleared)
  /\ cache.auth => cache.at <= cache.since + Deadline
  /\ cache.since <= now

Inv == TypeOK /\ RowInv /\ FillInv /\ CacheInv

----------------------------------------------------------------------------
\* The initial state.
LEMMA Initially == Init => Inv
  <1> SUFFICES ASSUME Init PROVE Inv  OBVIOUS
  <1>1. TypeOK  BY CacheConstants DEF Init, TypeOK, States
  <1>2. RowInv  BY DEF Init, RowInv, ver
  <1>3. FillInv  BY DEF Init, FillInv, Filling
  <1>4. CacheInv  BY DEF Init, CacheInv
  <1> QED  BY <1>1, <1>2, <1>3, <1>4 DEF Inv

\* A step that leaves the row, the cache and what was read alone, and starts no
\* call between SELECT and SETNX.
LEMMA Untouched ==
  ASSUME Inv, TypeOK', UNCHANGED <<row, cache, now, held, history, cleared>>,
         NEW r \in Requests, since' = since \/ since' = [since EXCEPT ![r] = now],
         \A q \in Requests : Filling(q)' => Filling(q) /\ since'[q] = since[q],
         \A q \in Requests : pc[q] = "done" => pc'[q] = "done"
  PROVE  Inv'
  <1> USE DEF row, history
  <1>1. RowInv'
    <2>0. now \in Nat  BY CacheConstants DEF Inv, TypeOK
    <2>1. \A q \in Requests : since[q] <= now /\ since \in [Requests -> Nat]
      BY DEF Inv, TypeOK, RowInv
    <2>2. \A q \in Requests : since'[q] <= now  BY <2>0, <2>1
    <2> QED  BY <2>2 DEF Inv, TypeOK, RowInv, ver
  <1>2. FillInv'
    <2> SUFFICES ASSUME NEW q \in Requests, Filling(q)'
                 PROVE  CurrentSince(held[q], since[q])' /\ KnownTo(held[q], q, Requests)'
      BY DEF FillInv
    <2>1. Filling(q) /\ since'[q] = since[q]  OBVIOUS
    <2>2. CurrentSince(held[q], since[q]) /\ KnownTo(held[q], q, Requests)
      BY <2>1 DEF Inv, FillInv
    <2> QED  BY <2>1, <2>2 DEF CurrentSince, KnownTo, ver, Deleted
  <1>3. CacheInv'  BY DEF Inv, CacheInv, CurrentSince, KnownTo, ver, Deleted
  <1> QED  BY <1>1, <1>2, <1>3 DEF Inv

LEMMA GetStep == ASSUME Inv, NEW r \in Requests, Get(r) PROVE Inv'
  <1>1. PICK p \in {"handle", "load"} : pc[r] = "idle" /\ pc' = [pc EXCEPT ![r] = p]
    BY DEF Get, Goes
  <1>2. TypeOK'
    <2>1. faults' \in 0..MaxFaults  BY CacheConstants DEF Inv, TypeOK, Get, Fault
    <2> QED  BY <1>1, <2>1 DEF Inv, TypeOK, States, Get, row, history
  <1> QED  BY <1>1, <1>2, Untouched DEF Get, Filling, Inv, TypeOK

LEMMA GiveUpStep == ASSUME Inv, NEW r \in Requests, GiveUp(r) PROVE Inv'
  <1>1. pc' = [pc EXCEPT ![r] = "refused"] /\ pc[r] \in {"load", "fill"}
    BY DEF GiveUp, Goes
  <1>2. TypeOK'  BY <1>1 DEF Inv, TypeOK, States, GiveUp, row, history
  <1> QED  BY <1>1, <1>2, Untouched DEF GiveUp, Filling, Inv, TypeOK

LEMMA ViewStep == ASSUME Inv, NEW r \in Requests, View(r) PROVE Inv'
  <1>1. PICK p \in {"done", "reload"} : pc[r] = "handle" /\ pc' = [pc EXCEPT ![r] = p]
    BY DEF View, Goes
  <1>2. since' \in [Requests -> Nat]
    <2>1. now \in Nat /\ since \in [Requests -> Nat]  BY DEF Inv, TypeOK
    <2>2. since' = since \/ since' = [since EXCEPT ![r] = now]  BY DEF View
    <2> QED  BY <2>1, <2>2
  <1>3. TypeOK'  BY <1>1, <1>2 DEF Inv, TypeOK, States, View, row, history
  <1> QED  BY <1>1, <1>3, Untouched DEF View, Filling, Inv, TypeOK

LEMMA CheckBindStep == ASSUME Inv, NEW r \in Requests, CheckBind(r) PROVE Inv'
  <1>1. PICK p \in {"refused", "bind"} : pc[r] = "handle" /\ pc' = [pc EXCEPT ![r] = p]
    BY DEF CheckBind, Goes
  <1>2. TypeOK'  BY <1>1 DEF Inv, TypeOK, States, CheckBind, row, history
  <1> QED  BY <1>1, <1>2, Untouched DEF CheckBind, Filling, Inv, TypeOK

\* What a SELECT reads is the current version.
LEMMA SelectStep ==
  ASSUME Inv, NEW r \in Requests,
         NEW from, NEW to \in {"fill", "refill"}, NEW onError \in {"refused", "done"},
         from # "done", ~Filling(r) \/ pc[r] # from, Select(r, from, to, onError)
  PROVE  Inv'
  <1> USE DEF row, history
  <1>1. PICK p \in {to, onError} : pc[r] = from /\ pc' = [pc EXCEPT ![r] = p]
    BY DEF Select, Goes
  <1>2. TypeOK'
    <2>1. held' \in [Requests -> Nat]  BY DEF Inv, TypeOK, Select, ver
    <2> QED  BY <1>1, <2>1 DEF Inv, TypeOK, States, Select
  <1>3. RowInv'  BY <1>1 DEF Inv, TypeOK, RowInv, Select, ver
  <1>4. FillInv'
    <2> SUFFICES ASSUME NEW q \in Requests, Filling(q)'
                 PROVE  CurrentSince(held[q], since[q])' /\ KnownTo(held[q], q, Requests)'
      BY DEF FillInv
    <2>1. CASE q = r
      <3>1. ~Deleted /\ held'[q] = ver /\ ver \in Nat
        BY <1>1, <2>1 DEF Select, Filling, Inv, TypeOK, ver, Goes
      <3>2. CurrentSince(held[q], since[q])'
        BY <3>1 DEF CurrentSince, Select, ver, Deleted
      <3>3. \A x \in Requests : wrote[x] \in Nat /\ wrote[x] <= ver
        BY DEF Inv, TypeOK, RowInv
      <3>4. KnownTo(held[q], q, Requests)'
        BY <3>1, <3>3 DEF KnownTo, Select
      <3> QED  BY <3>2, <3>4
    <2>2. CASE q # r
      <3>1. Filling(q) /\ held'[q] = held[q]
        BY <1>1, <2>2 DEF Filling, Inv, TypeOK, Select
      <3>2. CurrentSince(held[q], since[q]) /\ KnownTo(held[q], q, Requests)
        BY <3>1 DEF Inv, FillInv
      <3> QED  BY <3>1, <3>2 DEF CurrentSince, KnownTo, Select, ver, Deleted
    <2> QED  BY <2>1, <2>2
  <1>5. CacheInv'  BY DEF Inv, CacheInv, Select, CurrentSince, KnownTo, ver, Deleted
  <1> QED  BY <1>2, <1>3, <1>4, <1>5 DEF Inv

\* SETNX stores what the call read, within the deadline if it has one.
LEMMA FillStep ==
  ASSUME Inv, NEW r \in Requests, NEW from \in {"fill", "refill"},
         NEW to \in {"handle", "done"}, NEW onError \in {"refused", "done"},
         NEW auth \in BOOLEAN, auth => InTime(r), Fill(r, from, to, onError, auth)
  PROVE  Inv'
  <1> USE DEF row, history
  <1>1. PICK p \in {to, onError} : pc[r] = from /\ pc' = [pc EXCEPT ![r] = p]
    BY DEF Fill, Goes
  <1> DEFINE New == [ver |-> held[r], since |-> since[r], at |-> now, by |-> r, auth |-> auth]
  <1>2. cache' = cache \/ cache' = New  BY DEF Fill, Store
  <1>3. New \in Cached  BY DEF Inv, TypeOK, Cached
  <1>4. TypeOK'
    <2>1. faults' \in 0..MaxFaults  BY CacheConstants DEF Inv, TypeOK, Fill, Fault
    <2>2. cache' \in Cached \cup {None} /\ (cache' # None => cache'.at <= now)
      BY <1>2, <1>3 DEF Inv, TypeOK
    <2> QED  BY <1>1, <2>1, <2>2 DEF Inv, TypeOK, States, Fill
  <1>5. RowInv'  BY <1>1 DEF Inv, TypeOK, RowInv, Fill, ver
  <1>6. FillInv'
    <2> SUFFICES ASSUME NEW q \in Requests, Filling(q)'
                 PROVE  CurrentSince(held[q], since[q])' /\ KnownTo(held[q], q, Requests)'
      BY DEF FillInv
    <2>1. Filling(q)  BY <1>1 DEF Filling, Inv, TypeOK
    <2>2. CurrentSince(held[q], since[q]) /\ KnownTo(held[q], q, Requests)
      BY <2>1 DEF Inv, FillInv
    <2> QED  BY <2>2 DEF CurrentSince, KnownTo, Fill, ver, Deleted
  <1>7. CacheInv'
    <2>1. CASE cache' = cache
      BY <2>1 DEF Inv, CacheInv, Fill, CurrentSince, KnownTo, ver, Deleted
    <2>2. CASE cache' = New
      <3>1. CurrentSince(held[r], since[r]) /\ KnownTo(held[r], r, Requests)
        BY <1>1 DEF Inv, FillInv, Filling
      <3>2. cache'.ver = held[r] /\ cache'.since = since[r] /\ cache'.by = r
            /\ cache'.at = now /\ cache'.auth = auth
        BY <2>2
      <3>3. CurrentSince(cache.ver, cache.since)'
        BY <3>1, <3>2 DEF Fill, CurrentSince, ver, Deleted
      <3>4. KnownTo(cache.ver, cache.by, cleared)'
        BY <3>1, <3>2 DEF Fill, KnownTo, Inv, TypeOK
      <3>5. (cache.auth => cache.at <= cache.since + Deadline)'
        BY <3>2 DEF InTime
      <3>6. (cache.since <= now)'  BY <3>2 DEF Inv, RowInv, Fill
      <3> QED  BY <3>3, <3>4, <3>5, <3>6 DEF CacheInv
    <2> QED  BY <1>2, <2>1, <2>2
  <1> QED  BY <1>4, <1>5, <1>6, <1>7 DEF Inv

\* A version that was current stays so or is overwritten now, after any call
\* that read it began.
LEMMA CurrentOrOverwritten ==
  ASSUME Inv, NEW v \in Nat, NEW s \in Nat, s <= now, CurrentSince(v, s),
         writes' = Append(writes, now), destroyed' \in {destroyed, ver + 1},
         Deleted => destroyed' = destroyed
  PROVE  CurrentSince(v, s)'
  <1>0. writes \in Seq(Nat) /\ now \in Nat /\ destroyed \in Nat
    BY CacheConstants DEF Inv, TypeOK
  <1>1. ver' = ver + 1 /\ ver \in Nat  BY <1>0 DEF ver
  <1>2. \A i \in 1..ver : writes'[i] = writes[i]  BY <1>0 DEF ver
  <1>3. writes'[ver + 1] = now  BY <1>0 DEF ver
  <1>4. v <= ver /\ (v < ver => s <= writes[v + 1])  BY DEF CurrentSince
  <1>5. v < ver' => s <= writes'[v + 1]
    <2>1. CASE v = ver  BY <2>1, <1>3
    <2>2. CASE v < ver
      <3>1. v + 1 \in 1..ver /\ s <= writes[v + 1]  BY <2>2, <1>1, <1>4
      <3> QED  BY <3>1, <1>2
    <2> QED  BY <1>0, <1>1, <1>4, <2>1, <2>2 DEF ver
  <1>6. Deleted' => v < destroyed'
    BY <1>0, <1>1, <1>4 DEF CurrentSince, Deleted
  <1>7. v <= ver'  BY <1>1, <1>4
  <1> QED  BY <1>5, <1>6, <1>7 DEF CurrentSince

LEMMA WriteStep ==
  ASSUME Inv, NEW r \in Requests, NEW from \in {"handle", "bind"},
         NEW to \in {"reload", "done", "clear"}, Goes(r, from, to), Writes(r),
         destroyed' \in {destroyed, ver + 1}, Deleted => destroyed' = destroyed
  PROVE  Inv'
  <1>1. pc[r] = from /\ pc' = [pc EXCEPT ![r] = to]  BY DEF Goes
  <1>2. ver' = ver + 1 /\ ver \in Nat /\ now \in Nat
    BY CacheConstants DEF Inv, TypeOK, ver, Writes
  <1>3. TypeOK'
    <2>1. writes' \in Seq(Nat)  BY <1>2 DEF Inv, TypeOK, Writes
    <2>2. destroyed' \in Nat  BY <1>2 DEF Inv, TypeOK
    <2>3. wrote' \in [Requests -> Nat]  BY <1>2 DEF Inv, TypeOK, Writes
    <2> QED  BY <1>1, <2>1, <2>2, <2>3 DEF Inv, TypeOK, States, Writes
  <1>4. RowInv'
    <2>1. destroyed' <= ver'  BY <1>2 DEF Inv, TypeOK, RowInv
    <2>2. \A i \in 1..ver' : writes'[i] <= now
      BY <1>2 DEF Inv, TypeOK, RowInv, Writes, ver
    <2>3. \A q \in Requests : wrote'[q] <= ver'
      BY <1>2 DEF Inv, TypeOK, RowInv, Writes
    <2>4. \A q \in cleared : pc'[q] = "done"  BY <1>1 DEF Inv, TypeOK, RowInv
    <2> QED  BY <2>1, <2>2, <2>3, <2>4 DEF Inv, RowInv, Writes
  <1>5. FillInv'
    <2> SUFFICES ASSUME NEW q \in Requests, Filling(q)'
                 PROVE  CurrentSince(held[q], since[q])' /\ KnownTo(held[q], q, Requests)'
      BY DEF FillInv
    <2>1. Filling(q)  BY <1>1 DEF Filling, Inv, TypeOK
    <2>2. CurrentSince(held[q], since[q]) /\ KnownTo(held[q], q, Requests)
      BY <2>1 DEF Inv, FillInv
    <2>3. held[q] \in Nat /\ since[q] \in Nat /\ since[q] <= now
      BY DEF Inv, TypeOK, RowInv
    <2>4. CurrentSince(held[q], since[q])'
      BY <2>2, <2>3, CurrentOrOverwritten DEF Writes, CurrentSince, Deleted, ver
    <2>5. KnownTo(held[q], q, Requests)'
      BY <2>1, <2>2 DEF KnownTo, Writes, Filling, Inv, TypeOK
    <2> QED  BY <2>4, <2>5
  <1>6. CacheInv'
    <2> SUFFICES ASSUME cache # None PROVE CacheInv'  BY DEF CacheInv, Writes
    <2>1. cache \in Cached /\ cache' = cache  BY DEF Inv, TypeOK, Writes
    <2>2. /\ CurrentSince(cache.ver, cache.since) /\ KnownTo(cache.ver, cache.by, cleared)
          /\ cache.auth => cache.at <= cache.since + Deadline
          /\ cache.since <= now
      BY DEF Inv, CacheInv
    <2>3. cache.ver \in Nat /\ cache.since \in Nat  BY <2>1 DEF Cached
    <2>4. CurrentSince(cache.ver, cache.since)'
      BY <2>1, <2>2, <2>3, CurrentOrOverwritten DEF Writes, CurrentSince, Deleted, ver
    <2>5. KnownTo(cache.ver, cache.by, cleared)'
      BY <1>1, <2>1, <2>2 DEF KnownTo, Writes, Inv, TypeOK, RowInv
    <2> QED  BY <2>1, <2>2, <2>4, <2>5 DEF CacheInv, Writes
  <1> QED  BY <1>3, <1>4, <1>5, <1>6 DEF Inv

LEMMA ClearStep == ASSUME Inv, NEW r \in Requests, Clear(r) PROVE Inv'
  <1> USE DEF row, history
  <1>1. pc[r] = "clear" /\ pc' = [pc EXCEPT ![r] = "done"]  BY DEF Clear, Goes
  <1>2. TypeOK'
    <2>1. faults' \in 0..MaxFaults  BY CacheConstants DEF Inv, TypeOK, Clear, Fault
    <2> QED  BY <1>1, <2>1 DEF Inv, TypeOK, States, Clear
  <1>3. RowInv'  BY <1>1 DEF Inv, TypeOK, RowInv, Clear, ver
  <1>4. FillInv'
    <2> SUFFICES ASSUME NEW q \in Requests, Filling(q)'
                 PROVE  CurrentSince(held[q], since[q])' /\ KnownTo(held[q], q, Requests)'
      BY DEF FillInv
    <2>1. Filling(q)  BY <1>1 DEF Filling, Inv, TypeOK
    <2>2. CurrentSince(held[q], since[q]) /\ KnownTo(held[q], q, Requests)
      BY <2>1 DEF Inv, FillInv
    <2> QED  BY <2>2 DEF CurrentSince, KnownTo, Clear, ver, Deleted
  <1>5. CacheInv'  BY DEF Inv, CacheInv, Clear, CurrentSince, KnownTo, ver, Deleted
  <1> QED  BY <1>2, <1>3, <1>4, <1>5 DEF Inv

LEMMA TickStep == ASSUME Inv, Tick PROVE Inv'
  <1> USE DEF row, history
  <1>0. now \in Nat /\ now' \in 0..MaxTime /\ now <= now'
    BY CacheConstants DEF Inv, TypeOK, Tick
  <1>1. TypeOK'
    <2>1. cache # None => cache.at <= now'  BY <1>0 DEF Inv, TypeOK, Cached
    <2> QED  BY <1>0, <2>1 DEF Inv, TypeOK, Tick
  <1>2. RowInv'
    <2>1. \A i \in 1..ver : writes[i] <= now'  BY <1>0 DEF Inv, TypeOK, RowInv, ver
    <2>2. \A q \in Requests : since[q] <= now'  BY <1>0 DEF Inv, TypeOK, RowInv
    <2> QED  BY <2>1, <2>2 DEF Inv, RowInv, Tick, ver
  <1>3. FillInv'  BY DEF Inv, FillInv, Filling, CurrentSince, KnownTo, Tick, ver, Deleted
  <1>4. CacheInv'
    <2>1. cache # None => cache.since \in Nat  BY DEF Inv, TypeOK, Cached
    <2>2. cache # None => cache.since <= now'  BY <1>0, <2>1 DEF Inv, CacheInv
    <2> QED  BY <2>2 DEF Inv, CacheInv, CurrentSince, KnownTo, Tick, ver, Deleted
  <1> QED  BY <1>1, <1>2, <1>3, <1>4 DEF Inv

LEMMA NextStep == Inv /\ [Next]_vars => Inv'
  <1> SUFFICES ASSUME Inv, [Next]_vars PROVE Inv'  OBVIOUS
  <1>1. CASE Tick  BY <1>1, TickStep
  <1>2. ASSUME NEW r \in Requests, Get(r) PROVE Inv'  BY <1>2, GetStep
  <1>3. ASSUME NEW r \in Requests, Admit(r) PROVE Inv'
    <2>1. CASE Select(r, "load", "fill", "refused")
      <3>1. ~Filling(r) \/ pc[r] # "load"  BY DEF Filling
      <3> QED  BY <2>1, <3>1, SelectStep
    <2>2. CASE InTime(r) /\ Fill(r, "fill", "handle", "refused", TRUE)
      BY <2>2, FillStep
    <2>3. CASE GiveUp(r)  BY <2>3, GiveUpStep
    <2> QED  BY <1>3, <2>1, <2>2, <2>3 DEF Admit
  <1>4. ASSUME NEW r \in Requests, Reload(r) PROVE Inv'
    <2>1. CASE Select(r, "reload", "refill", "done")
      <3>1. ~Filling(r) \/ pc[r] # "reload"  BY DEF Filling
      <3> QED  BY <2>1, <3>1, SelectStep
    <2>2. CASE Fill(r, "refill", "done", "done", FALSE)  BY <2>2, FillStep
    <2> QED  BY <1>4, <2>1, <2>2 DEF Reload
  <1>5. ASSUME NEW r \in Requests, Handle(r) PROVE Inv'
    <2>1. CASE View(r)  BY <2>1, ViewStep
    <2>2. CASE Update(r)  BY <2>2, WriteStep DEF Update
    <2>3. CASE Destroy(r)  BY <2>3, WriteStep DEF Destroy
    <2>4. CASE CheckBind(r)  BY <2>4, CheckBindStep
    <2>5. CASE Bind(r)  BY <2>5, WriteStep DEF Bind
    <2>6. CASE Clear(r)  BY <2>6, ClearStep
    <2> QED  BY <1>5, <2>1, <2>2, <2>3, <2>4, <2>5, <2>6 DEF Handle
  <1>6. CASE UNCHANGED vars
    BY <1>6 DEF vars, row, history, Inv, TypeOK, RowInv, FillInv, CacheInv,
       CurrentSince, KnownTo, Filling, ver, Deleted
  <1> QED  BY <1>1, <1>2, <1>3, <1>4, <1>5, <1>6 DEF Next

LEMMA InvHolds == Spec => []Inv
  <1> QED  BY Initially, NextStep, PTL DEF Spec

\* For any requests, lifetime and deadline, every variable keeps its type.
THEOREM TypeCorrect == Spec => []TypeOK
  <1> QED  BY InvHolds, PTL DEF Inv

\* A destroyed row is never cached: the status the middleware tests in
\* provider.go:164 is never "deleted".
THEOREM NoDestroyedRow == Spec => []OnlyActiveCached
  <1>1. Inv => OnlyActiveCached
    BY DEF Inv, CacheInv, CurrentSince, OnlyActiveCached, Valid
  <1> QED  BY <1>1, InvHolds, PTL

\* A row the middleware cached is out of date for the lifetime of the key and
\* the deadline of the call at most, whatever overlaps or fails.
THEOREM BoundedStaleness == Spec => []StalenessBounded
  <1>1. Inv => StalenessBounded
    <2> SUFFICES ASSUME Inv, Valid, cache.ver < ver
                 PROVE  /\ cache.since <= writes[cache.ver + 1]
                        /\ cache.auth => now < writes[cache.ver + 1] + TTL + Deadline
      BY DEF StalenessBounded
    <2>1. cache \in Cached /\ now < cache.at + TTL  BY DEF Inv, TypeOK, Valid
    <2>2. cache.since <= writes[cache.ver + 1]
      BY DEF Inv, CacheInv, CurrentSince, Valid
    <2>3. cache.auth => cache.at <= cache.since + Deadline
      BY DEF Inv, CacheInv, Valid
    <2>4. now \in Nat /\ TTL \in Nat /\ Deadline \in Nat
      BY CacheConstants DEF Inv, TypeOK
    <2>5. writes[cache.ver + 1] \in Nat /\ cache.at \in Nat /\ cache.since \in Nat
      BY <2>1 DEF Inv, TypeOK, Cached, ver
    <2> QED  BY <2>1, <2>2, <2>3, <2>4, <2>5
  <1> QED  BY <1>1, InvHolds, PTL

\* After BindPhone cleared the key, only a call that had read the user before
\* the binding can bring the old row back.
THEOREM BindingIsSeen == Spec => []FreshAfterBind
  <1>1. Inv => FreshAfterBind
    BY DEF Inv, TypeOK, CacheInv, KnownTo, FreshAfterBind, Valid
  <1> QED  BY <1>1, InvHolds, PTL
=============================================================================
