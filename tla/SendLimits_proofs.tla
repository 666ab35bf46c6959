-------------------------- MODULE SendLimits_proofs --------------------------
(***************************************************************************)
(* The limits of the counters, for any number of sends, any length of the  *)
(* windows, any day's limit and any number of failures; and, further down, *)
(* those of redis_rate, for every count and interval.                      *)
(***************************************************************************)
EXTENDS SendLimits, RateLimit, FiniteSetTheorems, TLAPS

TypeInv ==
  /\ now \in Nat /\ faults \in Nat
  /\ counter \in [Windows -> Counter]
  /\ pc \in [Sends -> Steps]
  /\ "day" \notin Windows => \A s \in Sends : pc[s] \notin {"day", "dayIncr", "dayExpire"}
  /\ sent \subseteq Sends /\ counted \subseteq sent /\ slipped \subseteq Sends
  /\ \A s \in counted : pc[s] = "done"
  /\ \A s \in sent : pc[s] \notin {"idle", "day", "send"}
  /\ \A s \in Sends \ sent : pc[s] \in {"idle", "day", "send", "refused", "failed"}
  /\ sentAt \in [Sends -> Nat] /\ \A s \in Sends : sentAt[s] <= now
  /\ before \in [Sends -> SUBSET Sends] /\ \A s \in Sends : before[s] \subseteq counted
  /\ lookedAt \in [Sends -> Nat] /\ \A s \in Sends : lookedAt[s] <= now

\* The window's key covers the send: it lives for the window's length from the send on.
Covers(w, q) ==
  \/ now >= sentAt[q] + TTL(w)
  \/ counter[w].n > 0 /\ (counter[w].exp # Never => counter[w].exp >= sentAt[q] + TTL(w))

\* Sends that have renewed the expiry of a window's key.
Renewed(w) ==
  counted \cup {q \in Sends \ slipped : w = "minute" /\ pc[q] \in {"dayIncr", "dayExpire"}}

CoverInv == \A w \in Windows : \A q \in Renewed(w) : Covers(w, q)

\* Sends that have passed a window.
LetBy(w) ==
  sent \cup {s \in Sends : pc[s] = "send" \/ (w = "minute" /\ pc[s] = "day")}

MinuteInv ==
  \A s \in LetBy("minute") : \A q \in before[s] : lookedAt[s] >= sentAt[q] + MinuteTTL

\* The sends the day's key has counted: they may still have to renew it.
InDay(s) == {q \in before[s] : lookedAt[s] < sentAt[q] + DayTTL}
OfDay == {q \in Sends : \/ q \in counted /\ now < sentAt[q] + DayTTL
                        \/ q \notin slipped /\ pc[q] = "dayExpire"}

DayInv ==
  "day" \in Windows =>
    /\ Cardinality(OfDay) <= counter["day"].n
    /\ \A s \in LetBy("day") : Cardinality(InDay(s)) < DayMax

Inv == TypeInv /\ CoverInv /\ MinuteInv /\ DayInv /\ CountersExpire

-----------------------------------------------------------------------------
(* The three things OperationIncr may do, for either window.               *)

IncrOf(w)   == IF w = "minute" THEN "minuteIncr" ELSE "dayIncr"
ExpireOf(w) == IF w = "minute" THEN "minuteExpire" ELSE "dayExpire"
After(w)    == IF w = "minute" /\ "day" \in Windows THEN "dayIncr" ELSE "done"

Counts(s, w) ==
  /\ Goes(s, IncrOf(w), ExpireOf(w)) /\ Incr(w)
  /\ slipped' = slipped \cup {q \in Sends : ~Live(w) /\ pc[q] = ExpireOf(w)}
  /\ counted' = counted
  /\ UNCHANGED <<now, sent, sentAt, before, lookedAt, faults>>

Renews(s, w) ==
  /\ Goes(s, ExpireOf(w), After(w)) /\ Expire(w)
  /\ slipped' = IF Live(w) THEN slipped ELSE slipped \cup {s}
  /\ counted' = IF After(w) = "done" /\ s \notin slipped' THEN counted \cup {s} ELSE counted
  /\ UNCHANGED <<now, sent, sentAt, before, lookedAt, faults>>

Slips(s, w) ==
  /\ Goes(s, IncrOf(w), After(w)) \/ Goes(s, ExpireOf(w), After(w))
  /\ Fault /\ slipped' = slipped \cup {s}
  /\ UNCHANGED <<now, counter, sent, sentAt, counted, before, lookedAt>>

LEMMA WindowIs == \A w \in Windows : w = "minute" \/ w = "day"
BY LimitConstants DEF LimitConstants

LEMMA Operations ==
  ASSUME TypeInv, NEW s \in Sends, IncrMinute(s) \/ IncrDay(s)
  PROVE  \E w \in Windows : Counts(s, w) \/ Renews(s, w) \/ Slips(s, w)
<1>1. PICK w \in Windows : OperationIncr(s, w, IncrOf(w), ExpireOf(w), After(w))
  <2>1. CASE IncrMinute(s)
    <3>1. OperationIncr(s, "minute", IncrOf("minute"), ExpireOf("minute"), After("minute"))
      BY <2>1 DEF IncrMinute, IncrOf, ExpireOf, After
    <3> QED BY <3>1, LimitConstants DEF LimitConstants
  <2>2. CASE IncrDay(s)
    <3>1. pc[s] \in {"dayIncr", "dayExpire"}
      BY <2>2 DEF IncrDay, OperationIncr, Goes
    <3>2. "day" \in Windows
      BY <3>1 DEF TypeInv
    <3>3. OperationIncr(s, "day", IncrOf("day"), ExpireOf("day"), After("day"))
      BY <2>2 DEF IncrDay, IncrOf, ExpireOf, After
    <3> QED BY <3>2, <3>3
  <2> QED BY <2>1, <2>2
<1>2. UNCHANGED <<now, sent, sentAt, before, lookedAt>>
      /\ counted' = counted \cup {q \in {s} \ slipped' : pc'[q] = "done"}
  BY <1>1 DEF OperationIncr, history
<1>3. DOMAIN pc = Sends
  BY DEF TypeInv
<1>4. CASE Goes(s, IncrOf(w), ExpireOf(w)) /\ Incr(w) /\ UNCHANGED faults
           /\ slipped' = slipped \cup {q \in Sends : ~Live(w) /\ pc[q] = ExpireOf(w)}
  <2>1. pc'[s] # "done"
    BY <1>3, <1>4 DEF Goes, ExpireOf
  <2> QED BY <1>2, <1>4, <2>1 DEF Counts
<1>5. CASE Goes(s, ExpireOf(w), After(w)) /\ Expire(w) /\ UNCHANGED faults
           /\ slipped' = (IF Live(w) THEN slipped ELSE slipped \cup {s})
  <2>1. pc'[s] = After(w)
    BY <1>3, <1>5 DEF Goes
  <2> QED BY <1>2, <1>5, <2>1 DEF Renews
<1>6. CASE (Goes(s, IncrOf(w), After(w)) \/ Goes(s, ExpireOf(w), After(w)))
           /\ Fault /\ slipped' = slipped \cup {s} /\ UNCHANGED counter
  <2>1. counted' = counted
    BY <1>2, <1>6
  <2> QED BY <1>2, <1>6, <2>1 DEF Slips
<1> QED BY <1>1, <1>4, <1>5, <1>6 DEF OperationIncr

\* What the two reads have in common.
Looks(s, w) ==
  /\ lookedAt' = [lookedAt EXCEPT ![s] = now]
  /\ UNCHANGED <<now, counter, sent, sentAt, counted, slipped>>
  /\ faults' = faults \/ Fault

LEMMA LooksIs ==
  ASSUME NEW s, NEW w, NEW from, NEW to, Passes(s, w, from, to)
  PROVE  /\ Looks(s, w)
         /\ \/ OperationCount(w) < Limit(w) /\ Goes(s, from, to)
            \/ Goes(s, from, "refused") \/ Goes(s, from, "failed")
BY DEF Passes, Looks

LEMMA Times == MinuteTTL \in Nat /\ DayTTL \in Nat /\ DayMax \in Nat /\ \A w : TTL(w) \in Nat
BY LimitConstants DEF LimitConstants, TTL

LEMMA FaultCounts == ASSUME TypeInv, Fault PROVE faults' \in Nat /\ faults' > 0
BY DEF TypeInv, Fault

\* The window's key after each command.
LEMMA KeyKept ==
  ASSUME TypeInv, NEW w \in Windows, Incr(w) \/ Expire(w)
  PROVE  /\ counter' \in [Windows -> Counter]
         /\ \A v \in Windows \ {w} : counter'[v] = counter[v]
<1>1. counter[w] \in Counter /\ counter[w].n \in Nat /\ now + TTL(w) \in Nat
  BY Times DEF TypeInv, Counter
<1>2. CASE Incr(w)
  <2>1. [counter[w] EXCEPT !.n = counter[w].n + 1] \in Counter /\ [n |-> 1, exp |-> Never] \in Counter
    BY <1>1 DEF Counter
  <2>2. \E k \in Counter : counter' = [counter EXCEPT ![w] = k]
    BY <1>2, <2>1 DEF Incr, TypeInv
  <2> QED BY <2>2 DEF TypeInv
<1>3. CASE Expire(w)
  <2>1. [counter[w] EXCEPT !.exp = now + TTL(w)] \in Counter
    BY <1>1 DEF Counter
  <2>2. \E k \in Counter : counter' = [counter EXCEPT ![w] = k]
    BY <1>1, <1>3, <2>1 DEF Expire, TypeInv
  <2> QED BY <2>2 DEF TypeInv
<1> QED BY <1>2, <1>3

LEMMA InitInv == Init => Inv
<1> SUFFICES ASSUME Init PROVE Inv
  OBVIOUS
<1> USE LimitConstants DEF LimitConstants, Init
<1>1. TypeInv
  BY DEF TypeInv, Counter, Absent, Steps
<1>2. CoverInv /\ MinuteInv /\ CountersExpire
  BY DEF CoverInv, Renewed, MinuteInv, LetBy, CountersExpire, Absent
<1>3. DayInv
  <2>1. OfDay = {} /\ LetBy("day") = {} /\ ("day" \in Windows => counter["day"].n = 0)
    BY DEF OfDay, LetBy, Absent
  <2>2. Cardinality(OfDay) = 0
    BY <2>1, FS_EmptySet
  <2> QED BY <2>1, <2>2 DEF DayInv
<1> QED BY <1>1, <1>2, <1>3 DEF Inv

-----------------------------------------------------------------------------
(* Types.                                                                  *)

\* What every step but a queued message and a look keeps of the messages and the looks.
Still == UNCHANGED <<sent, sentAt, before, lookedAt>>

LEMMA CountingType ==
  ASSUME TypeInv, NEW s \in Sends, NEW w \in Windows, Counts(s, w) \/ Renews(s, w) \/ Slips(s, w)
  PROVE  TypeInv'
<1>1. /\ now' = now /\ Still /\ faults' \in Nat
      /\ counter' \in [Windows -> Counter]
  BY KeyKept, FaultCounts DEF Counts, Renews, Slips, Still, TypeInv
<1>2. PICK from \in {IncrOf(w), ExpireOf(w)}, to \in {ExpireOf(w), After(w)} : Goes(s, from, to)
  BY DEF Counts, Renews, Slips
<1>3. /\ pc[s] \in {"minuteIncr", "minuteExpire", "dayIncr", "dayExpire"}
      /\ pc' = [pc EXCEPT ![s] = to]
      /\ to \in {"minuteExpire", "dayIncr", "dayExpire", "done"}
      /\ to \in {"dayIncr", "dayExpire"} => "day" \in Windows
  BY <1>2, WindowIs DEF Goes, IncrOf, ExpireOf, After
<1>4. s \in sent /\ s \notin counted
  BY <1>3 DEF TypeInv
<1>5. pc' \in [Sends -> Steps] /\ pc'[s] = to /\ \A q \in Sends \ {s} : pc'[q] = pc[q]
  BY <1>3 DEF TypeInv, Steps
<1>6. /\ slipped' \subseteq Sends
      /\ counted' = counted \/ (counted' = counted \cup {s} /\ to = "done")
  BY <1>2, <1>3, <1>5 DEF Counts, Renews, Slips, TypeInv, Goes
<1> QED BY <1>1, <1>3, <1>4, <1>5, <1>6 DEF TypeInv, Still

LEMMA NextType == TypeInv /\ [Next]_vars => TypeInv'
<1> SUFFICES ASSUME TypeInv, [Next]_vars PROVE TypeInv'
  OBVIOUS
<1> USE DEF TypeInv
<1>1. CASE UNCHANGED vars
  BY <1>1 DEF vars, history
<1>2. CASE Tick
  BY <1>2 DEF Tick, history
<1>3. ASSUME NEW s \in Sends, CountMinute(s) PROVE TypeInv'
  <2>1. /\ Looks(s, "minute") /\ before' = [before EXCEPT ![s] = counted]
        /\ \/ Goes(s, "idle", IF "day" \in Windows THEN "day" ELSE "send")
           \/ Goes(s, "idle", "refused") \/ Goes(s, "idle", "failed")
    BY <1>3, LooksIs DEF CountMinute
  <2>2. faults' \in Nat
    BY <2>1, FaultCounts DEF Looks
  <2> QED BY <2>1, <2>2 DEF Looks, Goes, Steps
<1>4. ASSUME NEW s \in Sends, CountDay(s) PROVE TypeInv'
  <2>1. /\ Looks(s, "day") /\ before' = before
        /\ Goes(s, "day", "send") \/ Goes(s, "day", "refused") \/ Goes(s, "day", "failed")
    BY <1>4, LooksIs DEF CountDay
  <2>2. faults' \in Nat
    BY <2>1, FaultCounts DEF Looks
  <2> QED BY <2>1, <2>2 DEF Looks, Goes, Steps
<1>5. ASSUME NEW s \in Sends, Queue(s) PROVE TypeInv'
  <2>1. faults' \in Nat
    BY <1>5, FaultCounts DEF Queue
  <2> QED BY <1>5, <2>1 DEF Queue, history, Goes, Steps
<1>6. ASSUME NEW s \in Sends, IncrMinute(s) \/ IncrDay(s) PROVE TypeInv'
  BY <1>6, Operations, CountingType
<1>7. ASSUME NEW s \in Sends, Die(s) PROVE TypeInv'
  <2>1. faults' \in Nat
    BY <1>7, FaultCounts DEF Die
  <2> QED BY <1>7, <2>1 DEF Die, history, Goes, Running, Steps
<1> QED BY <1>1, <1>2, <1>3, <1>4, <1>5, <1>6, <1>7 DEF Next, Step

-----------------------------------------------------------------------------
(* A key covers the sends that renewed it.                                 *)

LEMMA CommandCovers ==
  ASSUME TypeInv, NEW w \in Windows, Incr(w) \/ Expire(w), UNCHANGED <<now, sentAt>>,
         NEW v \in Windows, NEW q \in Sends, Covers(v, q)
  PROVE  Covers(v, q)'
<1>1. CASE v # w
  BY <1>1, KeyKept DEF Covers
<1>2. CASE v = w
  <2>1. /\ counter[w].n \in Nat /\ (counter[w].exp # Never => counter[w].exp \in Nat)
        /\ now \in Nat /\ sentAt[q] \in Nat /\ TTL(w) \in Nat /\ now >= sentAt[q]
    BY Times DEF TypeInv, Counter
  <2>2. CASE ~Live(w)
    BY <1>2, <2>1, <2>2 DEF Covers, Live
  <2>3. CASE Live(w) /\ Incr(w)
    <3>1. counter'[w].n = counter[w].n + 1 /\ counter'[w].exp = counter[w].exp
      BY <2>3 DEF Incr, TypeInv, Counter
    <3> QED BY <1>2, <2>1, <3>1 DEF Covers
  <2>4. CASE Live(w) /\ Expire(w)
    <3>1. counter'[w].n = counter[w].n /\ counter'[w].exp = now + TTL(w)
      BY <2>4 DEF Expire, TypeInv, Counter
    <3> QED BY <1>2, <2>1, <2>4, <3>1 DEF Covers, Live
  <2> QED BY <2>2, <2>3, <2>4
<1> QED BY <1>1, <1>2

\* Steps that leave the keys alone, and renew for no further send.
LEMMA OthersCover ==
  ASSUME TypeInv, CoverInv, counter' = counter, now' >= now, now' \in Nat,
         \A w \in Windows : Renewed(w)' \subseteq Renewed(w),
         \A w \in Windows : \A q \in Renewed(w) : sentAt'[q] = sentAt[q]
  PROVE  CoverInv'
<1> SUFFICES ASSUME NEW w \in Windows, NEW q \in Renewed(w)' PROVE Covers(w, q)'
  BY DEF CoverInv
<1>1. q \in Renewed(w) /\ Covers(w, q) /\ sentAt'[q] = sentAt[q] /\ q \in Sends
  BY DEF CoverInv, Renewed, TypeInv
<1>2. sentAt[q] \in Nat /\ TTL(w) \in Nat /\ now \in Nat
  BY <1>1, Times DEF TypeInv
<1> QED BY <1>1, <1>2 DEF Covers, TTL

LEMMA CountingCovers ==
  ASSUME TypeInv, CoverInv, NEW s \in Sends, NEW w \in Windows,
         Counts(s, w) \/ Renews(s, w) \/ Slips(s, w)
  PROVE  CoverInv'
<1>0. w = "minute" \/ w = "day"
  BY WindowIs
<1>1. CASE Counts(s, w)
  <2>2. ASSUME NEW v \in Windows, NEW q \in Renewed(v)' PROVE q \in Renewed(v)
    BY <1>0, <1>1, <2>2 DEF Counts, Renewed, Goes, TypeInv, IncrOf, ExpireOf
  <2>3. ASSUME NEW v \in Windows, NEW q \in Renewed(v)' PROVE Covers(v, q)'
    <3>1. q \in Sends /\ Covers(v, q)
      BY <2>2, <2>3 DEF CoverInv, Renewed, TypeInv
    <3> QED BY <1>1, <3>1, CommandCovers DEF Counts
  <2> QED BY <2>3 DEF CoverInv
<1>2. CASE Renews(s, w)
  <2>1. ASSUME NEW v \in Windows, NEW q \in Renewed(v)', q # s PROVE q \in Renewed(v)
    BY <1>2, <2>1 DEF Renews, Renewed, Goes, TypeInv
  <2>2. ASSUME NEW v \in Windows, s \in Renewed(v)' PROVE s \in Renewed(v) \/ (v = w /\ Live(w))
    <3>1. /\ pc[s] = ExpireOf(w) /\ pc'[s] = After(w) /\ s \notin counted
      BY <1>2 DEF Renews, Goes, TypeInv, ExpireOf
    <3>2. s \notin slipped'
      BY <1>2, <2>2, <3>1 DEF Renews, Renewed
    <3>3. s \notin slipped /\ Live(w)
      BY <1>2, <3>2 DEF Renews
    <3>4. CASE v # w
      \* The minute's key was renewed when the day's turn came.
      <4>1. CASE w = "day"
        BY <1>0, <3>1, <3>3, <3>4, <4>1, WindowIs DEF Renewed, ExpireOf
      <4>2. CASE w = "minute"
        <5>1. v = "day" /\ After(w) = "dayIncr"
          BY <3>4, <4>2, WindowIs DEF After
        <5>2. counted' = counted
          BY <1>2, <5>1 DEF Renews
        <5> QED BY <2>2, <3>1, <5>1, <5>2 DEF Renewed
      <4> QED BY <1>0, <4>1, <4>2
    <3> QED BY <3>3, <3>4
  <2>3. ASSUME NEW v \in Windows, NEW q \in Renewed(v)' PROVE Covers(v, q)'
    <3>1. CASE q \in Renewed(v)
      <4>1. q \in Sends /\ Covers(v, q)
        BY <3>1 DEF CoverInv, Renewed, TypeInv
      <4> QED BY <1>2, <4>1, CommandCovers DEF Renews
    <3>2. CASE q \notin Renewed(v)
      <4>1. q = s /\ v = w /\ Live(w)
        BY <2>1, <2>2, <2>3, <3>2
      <4>2. counter'[w].n = counter[w].n /\ counter'[w].exp = now + TTL(w)
        BY <1>2, <4>1 DEF Renews, Expire, TypeInv, Counter
      <4>3. /\ now' = now /\ sentAt' = sentAt /\ sentAt[s] \in Nat /\ now >= sentAt[s]
            /\ now \in Nat /\ TTL(w) \in Nat /\ counter[w].n > 0
        BY <1>2, <4>1, Times DEF Renews, TypeInv, Live
      <4> QED BY <4>1, <4>2, <4>3 DEF Covers, TTL
    <3> QED BY <3>1, <3>2
  <2> QED BY <2>3 DEF CoverInv
<1>3. CASE Slips(s, w)
  <2>1. \A v \in Windows : Renewed(v)' \subseteq Renewed(v)
    BY <1>3 DEF Slips, Renewed, Goes, TypeInv
  <2> QED BY <1>3, <2>1, OthersCover DEF Slips, TypeInv
<1> QED BY <1>1, <1>2, <1>3

LEMMA NextCover == TypeInv /\ CoverInv /\ [Next]_vars => CoverInv'
<1> SUFFICES ASSUME TypeInv, CoverInv, [Next]_vars PROVE CoverInv'
  OBVIOUS
<1>1. CASE UNCHANGED vars
  BY <1>1, OthersCover DEF vars, TypeInv, Renewed
<1>2. CASE Tick
  BY <1>2, OthersCover DEF Tick, history, TypeInv, Renewed
<1>3. ASSUME NEW s \in Sends, CountMinute(s) \/ CountDay(s) PROVE CoverInv'
  <2>1. PICK from \in {"idle", "day"}, to \in {"day", "send", "refused", "failed"} :
          Goes(s, from, to)
    BY <1>3, LooksIs DEF CountMinute, CountDay
  <2>2. UNCHANGED <<now, counter, sentAt, counted, slipped>>
    BY <1>3, LooksIs DEF CountMinute, CountDay, Looks
  <2>3. \A w : Renewed(w)' \subseteq Renewed(w)
    BY <2>1, <2>2 DEF Renewed, Goes, TypeInv
  <2> QED BY <2>2, <2>3, OthersCover DEF TypeInv
<1>4. ASSUME NEW s \in Sends, Queue(s) PROVE CoverInv'
  <2>1. /\ pc[s] = "send" /\ UNCHANGED <<now, counter, counted, slipped>>
        /\ \A q \in Sends \ {s} : sentAt'[q] = sentAt[q]
        /\ \E to \in {"refused", "failed", "minuteIncr"} : pc' = [pc EXCEPT ![s] = to]
    BY <1>4 DEF Queue, Goes, TypeInv
  <2>2. \A w : Renewed(w)' \subseteq Renewed(w)
    BY <2>1 DEF Renewed, TypeInv
  <2>3. \A w : s \notin Renewed(w) /\ Renewed(w) \subseteq Sends
    BY <2>1 DEF Renewed, TypeInv
  <2> QED BY <2>1, <2>2, <2>3, OthersCover DEF TypeInv
<1>5. ASSUME NEW s \in Sends, IncrMinute(s) \/ IncrDay(s) PROVE CoverInv'
  BY <1>5, Operations, CountingCovers
<1>6. ASSUME NEW s \in Sends, Die(s) PROVE CoverInv'
  <2>1. UNCHANGED <<now, counter, sentAt, counted, slipped>> /\ pc' = [pc EXCEPT ![s] = "failed"]
    BY <1>6 DEF Die, history, Goes
  <2>2. \A w : Renewed(w)' \subseteq Renewed(w)
    BY <2>1 DEF Renewed, TypeInv
  <2> QED BY <2>1, <2>2, OthersCover DEF TypeInv
<1> QED BY <1>1, <1>2, <1>3, <1>4, <1>5, <1>6 DEF Next, Step

-----------------------------------------------------------------------------
(* The sends a window let through.                                         *)

\* A window that lets a send through has a key with fewer sends than the limit, or none.
LEMMA LetThrough ==
  ASSUME TypeInv, NEW w \in Windows, OperationCount(w) < Limit(w)
  PROVE  (Live(w) => counter[w].n < Limit(w)) /\ 0 < Limit(w)
<1>1. counter[w].n \in Nat /\ Limit(w) \in Nat
  BY Times DEF TypeInv, Counter, Limit
<1> QED BY <1>1 DEF OperationCount, Live

\* Without a key nothing that renewed it is within the window.
LEMMA NoKeyNoSend ==
  ASSUME TypeInv, CoverInv, NEW w \in Windows, ~Live(w), NEW q \in Renewed(w)
  PROVE  now >= sentAt[q] + TTL(w)
<1>1. q \in Sends /\ Covers(w, q)
  BY DEF Renewed, TypeInv, CoverInv
<1>2. /\ now \in Nat /\ sentAt[q] \in Nat /\ TTL(w) \in Nat /\ counter[w].n \in Nat
      /\ counter[w].exp # Never => counter[w].exp \in Nat
  BY <1>1, Times DEF TypeInv, Counter
<1> QED BY <1>1, <1>2 DEF Covers, Live

\* Whoever is let through keeps what it has seen.
LEMMA SameMinute ==
  ASSUME TypeInv, MinuteInv, LetBy("minute")' \subseteq LetBy("minute"),
         UNCHANGED <<sentAt, before, lookedAt>>
  PROVE  MinuteInv'
BY DEF MinuteInv, TypeInv

LEMMA NextMinute == TypeInv /\ CoverInv /\ MinuteInv /\ [Next]_vars => MinuteInv'
<1> SUFFICES ASSUME TypeInv, CoverInv, MinuteInv, [Next]_vars PROVE MinuteInv'
  OBVIOUS
<1>1. CASE UNCHANGED vars
  BY <1>1, SameMinute DEF vars, history, LetBy
<1>2. CASE Tick
  BY <1>2, SameMinute DEF Tick, history, LetBy
<1>3. ASSUME NEW s \in Sends, CountMinute(s) PROVE MinuteInv'
  <2>1. /\ Looks(s, "minute") /\ before' = [before EXCEPT ![s] = counted]
        /\ \/ /\ OperationCount("minute") < Limit("minute")
              /\ Goes(s, "idle", IF "day" \in Windows THEN "day" ELSE "send")
           \/ Goes(s, "idle", "refused") \/ Goes(s, "idle", "failed")
    BY <1>3, LooksIs DEF CountMinute
  <2>2. pc[s] = "idle" /\ s \notin sent
    BY <2>1 DEF Goes, TypeInv
  <2>3. ASSUME NEW p \in LetBy("minute")', p # s, NEW q \in before'[p]
        PROVE  lookedAt'[p] >= sentAt'[q] + MinuteTTL
    <3>1. p \in LetBy("minute") /\ before'[p] = before[p] /\ lookedAt'[p] = lookedAt[p]
      BY <2>1, <2>3 DEF LetBy, Looks, Goes, TypeInv
    <3> QED BY <2>1, <2>3, <3>1 DEF MinuteInv, Looks
  <2>4. ASSUME s \in LetBy("minute")', NEW q \in before'[s]
        PROVE  lookedAt'[s] >= sentAt'[q] + MinuteTTL
    <3>1. pc'[s] \in {"day", "send"}
      BY <2>1, <2>2, <2>4 DEF LetBy, Looks
    <3>2. OperationCount("minute") < Limit("minute")
      BY <2>1, <3>1 DEF Goes, TypeInv
    <3>3. ~Live("minute") /\ "minute" \in Windows
      <4>1. "minute" \in Windows /\ counter["minute"].n \in Nat
        BY LimitConstants DEF LimitConstants, TypeInv, Counter
      <4> QED BY <3>2, <4>1, LetThrough DEF Limit, Live
    <3>4. q \in Renewed("minute")
      BY <2>1, <2>4 DEF Renewed, TypeInv
    <3>5. now >= sentAt[q] + TTL("minute")
      BY <3>3, <3>4, NoKeyNoSend
    <3> QED BY <2>1, <3>5 DEF Looks, TypeInv, TTL
  <2> QED BY <2>3, <2>4 DEF MinuteInv
<1>4. ASSUME NEW s \in Sends, CountDay(s) PROVE MinuteInv'
  <2>1. /\ Looks(s, "day") /\ before' = before
        /\ \E to \in {"send", "refused", "failed"} : Goes(s, "day", to)
    BY <1>4, LooksIs DEF CountDay
  <2>2. s \in LetBy("minute") /\ LetBy("minute")' \subseteq LetBy("minute")
    BY <2>1 DEF LetBy, Looks, Goes, TypeInv
  <2>3. ASSUME NEW p \in LetBy("minute")', NEW q \in before'[p]
        PROVE  lookedAt'[p] >= sentAt'[q] + MinuteTTL
    <3>1. p \in Sends /\ q \in Sends /\ lookedAt[p] >= sentAt[q] + MinuteTTL
      BY <2>1, <2>2, <2>3 DEF MinuteInv, LetBy, TypeInv
    <3>2. /\ lookedAt[p] \in Nat /\ sentAt[q] \in Nat /\ now \in Nat /\ lookedAt[p] <= now
          /\ sentAt' = sentAt /\ (lookedAt'[p] = lookedAt[p] \/ lookedAt'[p] = now)
      BY <2>1, <3>1 DEF TypeInv, Looks
    <3> QED BY <3>1, <3>2, Times
  <2> QED BY <2>3 DEF MinuteInv
<1>5. ASSUME NEW s \in Sends, Queue(s) PROVE MinuteInv'
  <2>1. /\ pc[s] = "send" /\ UNCHANGED <<before, lookedAt>>
        /\ \A q \in Sends \ {s} : sentAt'[q] = sentAt[q]
        /\ \E to \in {"refused", "failed", "minuteIncr"} : pc' = [pc EXCEPT ![s] = to]
        /\ sent' \subseteq sent \cup {s}
    BY <1>5 DEF Queue, Goes, TypeInv, history
  <2>2. LetBy("minute")' \subseteq LetBy("minute") /\ LetBy("minute") \subseteq Sends
    BY <2>1 DEF LetBy, TypeInv
  <2>3. \A p \in Sends : before[p] \subseteq Sends \ {s}
    BY <2>1 DEF TypeInv
  <2> QED BY <2>1, <2>2, <2>3 DEF MinuteInv
<1>6. ASSUME NEW s \in Sends, IncrMinute(s) \/ IncrDay(s) PROVE MinuteInv'
  <2>1. PICK w \in Windows : Counts(s, w) \/ Renews(s, w) \/ Slips(s, w)
    BY <1>6, Operations
  <2>2. Still
    BY <2>1 DEF Counts, Renews, Slips, Still
  <2>3. \E to \in {"minuteExpire", "dayIncr", "dayExpire", "done"} : pc' = [pc EXCEPT ![s] = to]
    BY <2>1, WindowIs DEF Counts, Renews, Slips, Goes, ExpireOf, After
  <2>4. LetBy("minute")' \subseteq LetBy("minute")
    BY <2>2, <2>3 DEF LetBy, Still, TypeInv
  <2> QED BY <2>2, <2>4, SameMinute DEF Still
<1>7. ASSUME NEW s \in Sends, Die(s) PROVE MinuteInv'
  <2>1. UNCHANGED <<sent, sentAt, before, lookedAt>> /\ pc' = [pc EXCEPT ![s] = "failed"]
    BY <1>7 DEF Die, history, Goes
  <2>2. LetBy("minute")' \subseteq LetBy("minute")
    BY <2>1 DEF LetBy, TypeInv
  <2> QED BY <2>1, <2>2, SameMinute
<1> QED BY <1>1, <1>2, <1>3, <1>4, <1>5, <1>6, <1>7 DEF Next, Step

-----------------------------------------------------------------------------
(* A key without expiry.                                                   *)

\* Steps that leave the keys alone, and take nobody past an EXPIRE without a failure.
LEMMA SameExpiry ==
  ASSUME TypeInv, CountersExpire, counter' = counter, faults' \in Nat, faults' >= faults,
         \/ faults' > 0
         \/ \A q \in Sends : pc[q] \in {"minuteExpire", "dayExpire"} => pc'[q] = pc[q]
  PROVE  CountersExpire'
<1>1. faults \in Nat
  BY DEF TypeInv
<1> QED BY <1>1 DEF CountersExpire

LEMMA NextExpiry == TypeInv /\ CountersExpire /\ [Next]_vars => CountersExpire'
<1> SUFFICES ASSUME TypeInv, CountersExpire, [Next]_vars PROVE CountersExpire'
  OBVIOUS
<1>1. faults \in Nat /\ TypeInv'
  BY NextType DEF TypeInv
<1>2. Fault => faults' \in Nat /\ faults' > 0 /\ faults' >= faults
  BY <1>1 DEF Fault
<1>3. CASE UNCHANGED vars
  BY <1>1, <1>3, SameExpiry DEF vars
<1>4. CASE Tick
  BY <1>1, <1>4, SameExpiry DEF Tick
<1>5. ASSUME NEW s \in Sends, CountMinute(s) \/ CountDay(s) PROVE CountersExpire'
  <2>1. /\ counter' = counter /\ (faults' = faults \/ Fault)
        /\ \E from \in {"idle", "day"}, to \in {"day", "send", "refused", "failed"} :
             Goes(s, from, to)
    BY <1>5, LooksIs DEF CountMinute, CountDay, Looks
  <2>2. \A q \in Sends : pc[q] \in {"minuteExpire", "dayExpire"} => pc'[q] = pc[q]
    BY <2>1 DEF Goes, TypeInv
  <2> QED BY <1>1, <1>2, <2>1, <2>2, SameExpiry
<1>6. ASSUME NEW s \in Sends, Queue(s) PROVE CountersExpire'
  <2>1. /\ pc[s] = "send" /\ counter' = counter /\ (faults' = faults \/ Fault)
        /\ \E to \in {"refused", "failed", "minuteIncr"} : pc' = [pc EXCEPT ![s] = to]
    BY <1>6 DEF Queue, Goes
  <2>2. \A q \in Sends : pc[q] \in {"minuteExpire", "dayExpire"} => pc'[q] = pc[q]
    BY <2>1 DEF TypeInv
  <2> QED BY <1>1, <1>2, <2>1, <2>2, SameExpiry
<1>7. ASSUME NEW s \in Sends, IncrMinute(s) \/ IncrDay(s) PROVE CountersExpire'
  <2>1. PICK w \in Windows : Counts(s, w) \/ Renews(s, w) \/ Slips(s, w)
    BY <1>7, Operations
  <2>2. CASE Slips(s, w)
    BY <1>1, <1>2, <2>2, SameExpiry DEF Slips
  <2>3. CASE Counts(s, w)
    \* The sender itself has the key to renew.
    <3>1. /\ pc'[s] = ExpireOf(w) /\ faults' = faults
          /\ \A q \in Sends \ {s} : pc'[q] = pc[q]
          /\ pc[s] = IncrOf(w)
      BY <2>3 DEF Counts, Goes, TypeInv
    <3>2. \A v \in Windows \ {w} : counter'[v] = counter[v]
      BY <2>3, KeyKept DEF Counts
    <3>3. pc[s] \notin {"minuteExpire", "dayExpire"}
      BY <3>1, WindowIs DEF IncrOf
    <3> QED BY <3>1, <3>2, <3>3 DEF CountersExpire, ExpireOf
  <2>4. CASE Renews(s, w)
    <3>1. /\ pc[s] = ExpireOf(w) /\ faults' = faults
          /\ \A q \in Sends \ {s} : pc'[q] = pc[q]
      BY <2>4 DEF Renews, Goes, TypeInv
    <3>2. \A v \in Windows \ {w} : counter'[v] = counter[v]
      BY <2>4, KeyKept DEF Renews
    <3>3. ~(counter'[w].n > 0 /\ counter'[w].exp = Never)
      <4>1. now + TTL(w) \in Nat /\ Never \notin Nat
        BY Times, LimitConstants DEF LimitConstants, TypeInv
      <4>2. CASE Live(w)
        <5>1. counter'[w].exp = now + TTL(w)
          BY <2>4, <4>2 DEF Renews, Expire, TypeInv, Counter
        <5> QED BY <4>1, <5>1
      <4>3. CASE ~Live(w)
        BY <2>4, <4>3 DEF Renews, Expire, Live
      <4> QED BY <4>2, <4>3
    <3>4. ASSUME NEW v \in Windows, v # w, counter'[v].n > 0, counter'[v].exp = Never
          PROVE  \/ faults' > 0
                 \/ \E q \in Sends :
                      pc'[q] = IF v = "minute" THEN "minuteExpire" ELSE "dayExpire"
      <4>1. \/ faults > 0
            \/ \E q \in Sends : pc[q] = IF v = "minute" THEN "minuteExpire" ELSE "dayExpire"
        BY <3>2, <3>4 DEF CountersExpire
      <4>2. ExpireOf(w) # IF v = "minute" THEN "minuteExpire" ELSE "dayExpire"
        BY <3>4, WindowIs DEF ExpireOf
      <4> QED BY <3>1, <4>1, <4>2
    <3> QED BY <3>3, <3>4 DEF CountersExpire
  <2> QED BY <2>1, <2>2, <2>3, <2>4
<1>8. ASSUME NEW s \in Sends, Die(s) PROVE CountersExpire'
  BY <1>1, <1>2, <1>8, SameExpiry DEF Die
<1> QED BY <1>3, <1>4, <1>5, <1>6, <1>7, <1>8 DEF Next, Step

-----------------------------------------------------------------------------
(* The day's limit: the key has counted every send of the day that has     *)
(* renewed it, or still will.                                              *)

LEMMA Finite ==
  ASSUME NEW S, NEW T, T \subseteq S, S \subseteq Sends
  PROVE  /\ IsFiniteSet(S) /\ IsFiniteSet(T)
         /\ Cardinality(S) \in Nat /\ Cardinality(T) \in Nat /\ Cardinality(T) <= Cardinality(S)
<1>1. IsFiniteSet(S)
  BY LimitConstants, FS_Subset DEF LimitConstants
<1>2. IsFiniteSet(T) /\ Cardinality(T) <= Cardinality(S)
  BY <1>1, FS_Subset
<1> QED BY <1>1, <1>2, FS_CardinalityType

\* Steps that leave the day's count alone.
LEMMA SameDay ==
  ASSUME TypeInv, DayInv,
         "day" \in Windows => counter'["day"].n = counter["day"].n /\ OfDay' \subseteq OfDay,
         "day" \in Windows => LetBy("day")' \subseteq LetBy("day"),
         \A s \in LetBy("day") : /\ before'[s] = before[s] /\ lookedAt'[s] = lookedAt[s]
                                 /\ \A q \in before[s] : sentAt'[q] = sentAt[q]
  PROVE  DayInv'
<1> SUFFICES ASSUME "day" \in Windows
             PROVE  /\ Cardinality(OfDay') <= counter'["day"].n
                    /\ \A s \in LetBy("day")' : Cardinality(InDay(s)') < DayMax
  BY DEF DayInv
<1>1. OfDay \subseteq Sends /\ counter["day"].n \in Nat
  BY DEF OfDay, TypeInv, Counter
<1>2. Cardinality(OfDay') <= counter'["day"].n
  BY <1>1, Finite DEF DayInv
<1>3. ASSUME NEW s \in LetBy("day")' PROVE Cardinality(InDay(s)') < DayMax
  <2>1. InDay(s)' = InDay(s) /\ s \in LetBy("day")
    BY DEF InDay
  <2>2. Cardinality(InDay(s)) < DayMax
    BY <2>1 DEF DayInv
  <2> QED BY <2>1, <2>2
<1> QED BY <1>2, <1>3

\* INCR of the day's key counts the sender.
LEMMA CountsDay ==
  ASSUME TypeInv, CoverInv, DayInv, "day" \in Windows, NEW s \in Sends, Counts(s, "day")
  PROVE  Cardinality(OfDay') <= counter'["day"].n
<1>1. /\ pc' = [pc EXCEPT ![s] = "dayExpire"] /\ counted' = counted /\ Incr("day")
      /\ slipped' = slipped \cup {q \in Sends : ~Live("day") /\ pc[q] = "dayExpire"}
      /\ now' = now /\ sentAt' = sentAt /\ s \notin counted
  BY DEF Counts, Goes, IncrOf, ExpireOf, TypeInv
<1>2. OfDay \subseteq Sends /\ counter["day"].n \in Nat /\ counter["day"] \in Counter
  BY DEF OfDay, TypeInv, Counter
<1>3. CASE Live("day")
  <2>1. OfDay' \subseteq OfDay \cup {s}
    BY <1>1, <1>3 DEF OfDay, TypeInv
  <2>2. Cardinality(OfDay \cup {s}) <= Cardinality(OfDay) + 1
    BY <1>2, Finite, FS_AddElement
  <2>3. counter'["day"].n = counter["day"].n + 1
    BY <1>1, <1>3 DEF Incr, TypeInv, Counter
  <2>4. Cardinality(OfDay') <= Cardinality(OfDay \cup {s})
        /\ Cardinality(OfDay') \in Nat /\ Cardinality(OfDay) \in Nat
        /\ Cardinality(OfDay \cup {s}) \in Nat
    BY <1>2, <2>1, Finite
  <2> QED BY <1>2, <2>2, <2>3, <2>4 DEF DayInv
<1>4. CASE ~Live("day")
  \* A new key: what the old one had counted is out of the day, or has lost it.
  <2>1. ASSUME NEW q \in counted PROVE ~(now < sentAt[q] + DayTTL)
    <3>1. q \in Renewed("day") /\ q \in Sends
      BY DEF Renewed, TypeInv
    <3>2. now >= sentAt[q] + TTL("day")
      BY <1>4, <3>1, NoKeyNoSend
    <3>3. now \in Nat /\ sentAt[q] \in Nat /\ DayTTL \in Nat /\ TTL("day") = DayTTL
      BY <3>1, Times DEF TypeInv, TTL
    <3> QED BY <3>2, <3>3
  <2>2. OfDay' \subseteq {s}
    BY <1>1, <1>4, <2>1 DEF OfDay, TypeInv
  <2>3. Cardinality({s}) = 1 /\ Cardinality(OfDay') <= Cardinality({s})
    BY <2>2, Finite, FS_Singleton
  <2>4. counter'["day"].n = 1
    BY <1>1, <1>4 DEF Incr, TypeInv, Counter
  <2> QED BY <2>3, <2>4
<1> QED BY <1>3, <1>4

LEMMA CountingDay ==
  ASSUME TypeInv, CoverInv, DayInv, NEW s \in Sends, NEW w \in Windows,
         Counts(s, w) \/ Renews(s, w) \/ Slips(s, w)
  PROVE  DayInv'
<1>0. (w = "minute" \/ w = "day") /\ UNCHANGED <<now, sent, sentAt, before, lookedAt>>
  BY WindowIs DEF Counts, Renews, Slips
<1>1. \E to \in {"minuteExpire", "dayIncr", "dayExpire", "done"} : pc' = [pc EXCEPT ![s] = to]
  BY <1>0 DEF Counts, Renews, Slips, Goes, ExpireOf, After
<1>2. LetBy("day")' \subseteq LetBy("day")
  BY <1>0, <1>1 DEF LetBy, TypeInv
<1>3. CASE w = "minute" /\ (Counts(s, w) \/ Renews(s, w) \/ Slips(s, w))
  <2>1. "day" \in Windows => counter'["day"].n = counter["day"].n
    BY <1>3, KeyKept DEF Counts, Renews, Slips
  <2>2. "day" \in Windows => OfDay' \subseteq OfDay
    <3>1. /\ pc[s] \in {"minuteIncr", "minuteExpire"} /\ slipped \subseteq slipped'
          /\ \E to \in {"minuteExpire", After("minute")} : pc' = [pc EXCEPT ![s] = to]
      BY <1>3 DEF Counts, Renews, Slips, Goes, IncrOf, ExpireOf
    <3>2. "day" \in Windows => counted' = counted
      BY <1>3 DEF Counts, Renews, Slips, After
    <3> QED BY <1>0, <3>1, <3>2 DEF OfDay, TypeInv, After
  <2> QED BY <1>0, <1>2, <2>1, <2>2, SameDay
<1>4. CASE w = "day" /\ (Renews(s, w) \/ Slips(s, w))
  <2>1. counter'["day"].n = counter["day"].n
    BY <1>4 DEF Renews, Slips, Expire, TypeInv, Counter
  <2>2. OfDay' \subseteq OfDay
    <3>1. /\ slipped \subseteq slipped' /\ pc' = [pc EXCEPT ![s] = "done"]
      BY <1>4 DEF Renews, Slips, Goes, After
    <3>2. counted' = counted \/ (/\ counted' = counted \cup {s} /\ s \notin slipped'
                                 /\ pc[s] = "dayExpire")
      BY <1>4 DEF Renews, Slips, Goes, ExpireOf
    <3> QED BY <1>0, <3>1, <3>2 DEF OfDay, TypeInv
  <2> QED BY <1>0, <1>2, <2>1, <2>2, SameDay
<1>5. CASE w = "day" /\ Counts(s, w)
  <2>1. Cardinality(OfDay') <= counter'["day"].n
    BY <1>5, CountsDay
  <2>2. ASSUME NEW p \in LetBy("day")' PROVE Cardinality(InDay(p)') < DayMax
    <3>1. InDay(p)' = InDay(p) /\ p \in LetBy("day")
      BY <1>0, <1>2 DEF InDay
    <3> QED BY <1>5, <3>1 DEF DayInv
  <2> QED BY <2>1, <2>2 DEF DayInv
<1> QED BY <1>0, <1>3, <1>4, <1>5

LEMMA NextDay == TypeInv /\ CoverInv /\ DayInv /\ [Next]_vars => DayInv'
<1> SUFFICES ASSUME TypeInv, CoverInv, DayInv, [Next]_vars PROVE DayInv'
  OBVIOUS
<1>1. CASE UNCHANGED vars
  BY <1>1, SameDay DEF vars, history, LetBy, OfDay
<1>2. CASE Tick
  <2>1. OfDay' \subseteq OfDay
    BY <1>2, Times DEF Tick, history, OfDay, TypeInv
  <2> QED BY <1>2, <2>1, SameDay DEF Tick, history, LetBy
<1>3. ASSUME NEW s \in Sends, CountMinute(s) PROVE DayInv'
  <2>1. /\ Looks(s, "minute") /\ before' = [before EXCEPT ![s] = counted]
        /\ \/ Goes(s, "idle", IF "day" \in Windows THEN "day" ELSE "send")
           \/ Goes(s, "idle", "refused") \/ Goes(s, "idle", "failed")
    BY <1>3, LooksIs DEF CountMinute
  <2>2. s \notin LetBy("day") /\ LetBy("day") \subseteq Sends
    BY <2>1 DEF LetBy, Goes, TypeInv
  <2>3. "day" \in Windows => LetBy("day")' \subseteq LetBy("day")
    BY <2>1 DEF LetBy, Goes, Looks, TypeInv
  <2>4. OfDay' \subseteq OfDay
    BY <2>1 DEF OfDay, Goes, Looks, TypeInv
  <2>5. \A p \in LetBy("day") : before'[p] = before[p] /\ lookedAt'[p] = lookedAt[p]
    BY <2>1, <2>2 DEF Looks, TypeInv
  <2> QED BY <2>1, <2>3, <2>4, <2>5, SameDay DEF Looks
<1>4. ASSUME NEW s \in Sends, CountDay(s) PROVE DayInv'
  <2>1. /\ Looks(s, "day") /\ before' = before
        /\ \/ OperationCount("day") < Limit("day") /\ Goes(s, "day", "send")
           \/ Goes(s, "day", "refused") \/ Goes(s, "day", "failed")
    BY <1>4, LooksIs DEF CountDay
  <2>2. "day" \in Windows /\ s \notin LetBy("day") /\ LetBy("day") \subseteq Sends
    BY <2>1 DEF Goes, LetBy, TypeInv
  <2>3. OfDay' \subseteq OfDay /\ counter' = counter
    BY <2>1 DEF OfDay, Goes, Looks, TypeInv
  <2>4. Cardinality(OfDay') <= counter'["day"].n
    <3>1. OfDay \subseteq Sends /\ counter["day"].n \in Nat
      BY <2>2 DEF OfDay, TypeInv, Counter
    <3> QED BY <2>2, <2>3, <3>1, Finite DEF DayInv
  <2>5. ASSUME NEW p \in LetBy("day")', p # s PROVE Cardinality(InDay(p)') < DayMax
    <3>1. p \in LetBy("day") /\ InDay(p)' = InDay(p)
      BY <2>1, <2>5 DEF LetBy, InDay, Goes, Looks, TypeInv
    <3> QED BY <2>2, <3>1 DEF DayInv
  <2>6. ASSUME s \in LetBy("day")' PROVE Cardinality(InDay(s)') < DayMax
    <3>1. OperationCount("day") < Limit("day")
      BY <2>1, <2>2, <2>6 DEF LetBy, Goes, Looks, TypeInv
    <3>2. (Live("day") => counter["day"].n < DayMax) /\ 0 < DayMax
      BY <2>2, <3>1, LetThrough DEF Limit
    <3>3. InDay(s)' = {q \in before[s] : now < sentAt[q] + DayTTL}
      BY <2>1 DEF InDay, Looks, TypeInv
    <3>4. before[s] \subseteq counted /\ counted \subseteq Sends
      BY DEF TypeInv
    <3>5. CASE Live("day")
      <4>1. InDay(s)' \subseteq OfDay /\ OfDay \subseteq Sends
        BY <3>3, <3>4 DEF OfDay
      <4>2. counter["day"].n \in Nat /\ Cardinality(OfDay) <= counter["day"].n
        BY <2>2 DEF DayInv, TypeInv, Counter
      <4>3. Cardinality(InDay(s)') <= Cardinality(OfDay)
            /\ Cardinality(InDay(s)') \in Nat /\ Cardinality(OfDay) \in Nat
        BY <4>1, Finite
      <4> QED BY <3>2, <3>5, <4>2, <4>3, Times
    <3>6. CASE ~Live("day")
      <4>1. ASSUME NEW q \in before[s] PROVE ~(now < sentAt[q] + DayTTL)
        <5>1. q \in Renewed("day") /\ q \in Sends
          BY <3>4 DEF Renewed
        <5>2. now >= sentAt[q] + TTL("day")
          BY <2>2, <3>6, <5>1, NoKeyNoSend
        <5>3. now \in Nat /\ sentAt[q] \in Nat /\ DayTTL \in Nat /\ TTL("day") = DayTTL
          BY <5>1, Times DEF TypeInv, TTL
        <5> QED BY <5>2, <5>3
      <4>2. InDay(s)' = {}
        BY <3>3, <4>1
      <4> QED BY <3>2, <4>2, FS_EmptySet
    <3> QED BY <3>5, <3>6
  <2> QED BY <2>4, <2>5, <2>6 DEF DayInv
<1>5. ASSUME NEW s \in Sends, Queue(s) PROVE DayInv'
  <2>1. /\ pc[s] = "send" /\ UNCHANGED <<now, counter, counted, slipped, before, lookedAt>>
        /\ \A q \in Sends \ {s} : sentAt'[q] = sentAt[q]
        /\ \E to \in {"refused", "failed", "minuteIncr"} : pc' = [pc EXCEPT ![s] = to]
        /\ sent' \subseteq sent \cup {s}
    BY <1>5 DEF Queue, Goes, TypeInv, history
  <2>2. LetBy("day")' \subseteq LetBy("day") /\ LetBy("day") \subseteq Sends
    BY <2>1 DEF LetBy, TypeInv
  <2>3. s \notin counted /\ \A p \in Sends : before[p] \subseteq Sends \ {s}
    BY <2>1 DEF TypeInv
  <2>4. OfDay' \subseteq OfDay
    BY <2>1, <2>3 DEF OfDay, TypeInv
  <2> QED BY <2>1, <2>2, <2>3, <2>4, SameDay
<1>6. ASSUME NEW s \in Sends, IncrMinute(s) \/ IncrDay(s) PROVE DayInv'
  BY <1>6, Operations, CountingDay
<1>7. ASSUME NEW s \in Sends, Die(s) PROVE DayInv'
  <2>1. /\ UNCHANGED <<now, counter, sent, sentAt, counted, slipped, before, lookedAt>>
        /\ pc' = [pc EXCEPT ![s] = "failed"]
    BY <1>7 DEF Die, history, Goes
  <2>2. LetBy("day")' \subseteq LetBy("day") /\ OfDay' \subseteq OfDay
    BY <2>1 DEF LetBy, OfDay, TypeInv
  <2> QED BY <2>1, <2>2, SameDay
<1> QED BY <1>1, <1>2, <1>3, <1>4, <1>5, <1>6, <1>7 DEF Next, Step

-----------------------------------------------------------------------------
(* Bounds: a counter counts a send once.                                   *)

\* Sends that are past the INCR of a window's counter.
Past(w) == {s \in sent : pc[s] \notin
              IF w = "minute" THEN {"minuteIncr"} ELSE {"minuteIncr", "minuteExpire", "dayIncr"}}

BoundInv ==
  /\ now <= MaxTime /\ faults <= MaxFaults /\ slipped \subseteq sent
  /\ \A w \in Windows : counter[w].n <= Cardinality(Past(w))

\* Every step leaves what is past past; and a send is queued before it slips.
LEMMA StepBounds ==
  ASSUME TypeInv, BoundInv, Next
  PROVE  /\ now' <= MaxTime /\ faults' <= MaxFaults /\ slipped' \subseteq sent'
         /\ \A w \in Windows : Past(w) \subseteq Past(w)'
<1> USE DEF TypeInv
<1>0. /\ now \in Nat /\ faults \in Nat /\ MaxTime \in Nat /\ MaxFaults \in Nat
      /\ now <= MaxTime /\ faults <= MaxFaults /\ slipped \subseteq sent
      /\ Fault => faults' <= MaxFaults
  BY LimitConstants DEF LimitConstants, BoundInv, Fault
<1>1. CASE Tick
  <2>1. now' <= MaxTime
    BY <1>0, <1>1 DEF Tick
  <2> QED BY <1>0, <1>1, <2>1 DEF Tick, Past, history
<1>2. ASSUME NEW s \in Sends, CountMinute(s) \/ CountDay(s)
      PROVE  /\ now' <= MaxTime /\ faults' <= MaxFaults /\ slipped' \subseteq sent'
             /\ \A w \in Windows : Past(w) \subseteq Past(w)'
  <2>1. PICK w \in {"minute", "day"} : Looks(s, w)
    BY <1>2, LooksIs DEF CountMinute, CountDay
  <2>2. \E from \in {"idle", "day"}, to \in {"day", "send", "refused", "failed"} : Goes(s, from, to)
    BY <1>2, LooksIs DEF CountMinute, CountDay
  <2>3. s \notin sent
    BY <2>2 DEF Goes
  <2>4. sent' = sent /\ \A q \in sent : pc'[q] = pc[q]
    BY <2>1, <2>2, <2>3 DEF Looks, Goes
  <2>5. now' <= MaxTime /\ faults' <= MaxFaults /\ slipped' \subseteq sent'
    BY <1>0, <2>1 DEF Looks
  <2> QED BY <2>4, <2>5 DEF Past
<1>3. ASSUME NEW s \in Sends, Queue(s)
      PROVE  /\ now' <= MaxTime /\ faults' <= MaxFaults /\ slipped' \subseteq sent'
             /\ \A w \in Windows : Past(w) \subseteq Past(w)'
  <2>1. s \notin sent /\ sent \subseteq sent' /\ \A q \in sent : pc'[q] = pc[q]
    BY <1>3 DEF Queue, Goes
  <2>2. now' <= MaxTime /\ faults' <= MaxFaults /\ slipped' \subseteq sent'
    BY <1>0, <1>3, <2>1 DEF Queue
  <2> QED BY <2>1, <2>2 DEF Past
<1>4. ASSUME NEW s \in Sends, IncrMinute(s) \/ IncrDay(s)
      PROVE  /\ now' <= MaxTime /\ faults' <= MaxFaults /\ slipped' \subseteq sent'
             /\ \A w \in Windows : Past(w) \subseteq Past(w)'
  <2>1. PICK v \in Windows : Counts(s, v) \/ Renews(s, v) \/ Slips(s, v)
    BY <1>4, Operations
  <2>2. PICK from \in {IncrOf(v), ExpireOf(v)}, to \in {ExpireOf(v), After(v)} :
          Goes(s, from, to) /\ (to = After(v) \/ from = IncrOf(v))
    BY <2>1 DEF Counts, Renews, Slips
  <2>3. s \in sent
    BY <2>2, WindowIs DEF Goes, IncrOf, ExpireOf
  <2>4. now' <= MaxTime /\ faults' <= MaxFaults /\ sent' = sent
    BY <1>0, <2>1 DEF Counts, Renews, Slips
  <2>5. slipped' \subseteq sent'
    <3>1. \A q \in Sends : pc[q] = ExpireOf(v) => q \in sent
      BY DEF ExpireOf
    <3> QED BY <1>0, <2>1, <2>3, <2>4, <3>1 DEF Counts, Renews, Slips
  <2>6. ASSUME NEW w \in Windows, NEW q \in Past(w) PROVE q \in Past(w)'
    <3>1. CASE q # s
      BY <2>2, <2>4, <2>6, <3>1 DEF Past, Goes
    <3>2. CASE q = s
      <4>1. pc[s] = from /\ pc'[s] = to
        BY <2>2 DEF Goes
      <4>2. CASE v = "minute"
        BY <2>2, <2>4, <2>6, <3>2, <4>1, <4>2, WindowIs DEF Past, IncrOf, ExpireOf, After
      <4>3. CASE v = "day"
        BY <2>2, <2>4, <2>6, <3>2, <4>1, <4>3, WindowIs DEF Past, IncrOf, ExpireOf, After
      <4> QED BY <4>2, <4>3, WindowIs
    <3> QED BY <3>1, <3>2
  <2> QED BY <2>4, <2>5, <2>6
<1>5. ASSUME NEW s \in Sends, Die(s)
      PROVE  /\ now' <= MaxTime /\ faults' <= MaxFaults /\ slipped' \subseteq sent'
             /\ \A w \in Windows : Past(w) \subseteq Past(w)'
  <2>1. sent' = sent /\ \A q \in sent : pc'[q] = pc[q] \/ pc'[q] = "failed"
    BY <1>5 DEF Die, Goes
  <2>2. now' <= MaxTime /\ faults' <= MaxFaults /\ slipped' \subseteq sent'
    BY <1>0, <1>5 DEF Die
  <2> QED BY <2>1, <2>2 DEF Past
<1> QED BY <1>1, <1>2, <1>3, <1>4, <1>5 DEF Next, Step

\* A command on a window's key adds one to its number at most, and then for a send that
\* was not past the window before.
LEMMA NumberKept ==
  ASSUME TypeInv, BoundInv, Next, NEW w \in Windows
  PROVE  \/ counter'[w].n = counter[w].n
         \/ /\ counter'[w].n <= counter[w].n + 1
            /\ \E s \in sent : s \notin Past(w) /\ s \in Past(w)'
<1>1. CASE counter' = counter
  BY <1>1
<1>2. CASE counter' # counter
  <2>1. PICK s \in Sends : IncrMinute(s) \/ IncrDay(s)
    BY <1>2 DEF Next, Step, Tick, CountMinute, CountDay, Passes, Queue, Die
  <2>2. PICK v \in Windows : Counts(s, v) \/ Renews(s, v)
    BY <1>2, <2>1, Operations DEF Slips
  <2>3. CASE v # w
    <3>1. Incr(v) \/ Expire(v)
      BY <2>2 DEF Counts, Renews
    <3>2. counter'[w] = counter[w]
      BY <2>3, <3>1, KeyKept
    <3> QED BY <3>2
  <2>4. CASE v = w /\ Renews(s, v)
    BY <2>4 DEF Renews, Expire, TypeInv, Counter
  <2>5. CASE v = w /\ Counts(s, v)
    <3>1. pc[s] = IncrOf(w) /\ pc'[s] = ExpireOf(w) /\ sent' = sent
      BY <2>5 DEF Counts, Goes, TypeInv
    <3>2. s \in sent
      BY <3>1 DEF TypeInv, IncrOf
    <3>3. s \notin Past(w) /\ s \in Past(w)'
      BY <3>1, <3>2 DEF Past, IncrOf, ExpireOf
    <3>4. counter[w] \in Counter /\ counter[w].n \in Nat
      BY DEF TypeInv, Counter
    <3>5. counter'[w].n = counter[w].n + 1 \/ counter'[w].n = 1
      BY <2>5, <3>4 DEF Counts, Incr, TypeInv, Counter
    <3>6. counter'[w].n <= counter[w].n + 1
      BY <3>4, <3>5
    <3> QED BY <3>2, <3>3, <3>6
  <2> QED BY <2>2, <2>3, <2>4, <2>5
<1> QED BY <1>1, <1>2

LEMMA NextBound == TypeInv /\ BoundInv /\ [Next]_vars => BoundInv'
<1> SUFFICES ASSUME TypeInv, BoundInv, [Next]_vars PROVE BoundInv'
  OBVIOUS
<1>1. CASE UNCHANGED vars
  BY <1>1 DEF vars, history, BoundInv, Past
<1>2. CASE Next
  <2>1. /\ now' <= MaxTime /\ faults' <= MaxFaults /\ slipped' \subseteq sent'
        /\ \A w \in Windows : Past(w) \subseteq Past(w)'
    BY <1>2, StepBounds
  <2>2. TypeInv'
    BY NextType
  <2>3. ASSUME NEW w \in Windows PROVE counter'[w].n <= Cardinality(Past(w)')
    <3>1. IsFiniteSet(Past(w)') /\ IsFiniteSet(Past(w)) /\ Past(w)' \subseteq Sends
      <4>1. Past(w)' \subseteq Sends /\ Past(w) \subseteq Sends /\ IsFiniteSet(Sends)
        BY <2>2, LimitConstants DEF TypeInv, Past, LimitConstants
      <4> QED BY <4>1, FS_Subset
    <3>2. /\ Cardinality(Past(w)) \in Nat /\ Cardinality(Past(w)') \in Nat
          /\ Cardinality(Past(w)) <= Cardinality(Past(w)')
      BY <2>1, <3>1, FS_Subset, FS_CardinalityType
    <3>3. counter[w].n \in Nat /\ counter'[w].n \in Nat
      BY <2>2 DEF TypeInv, Counter
    <3>4. counter[w].n <= Cardinality(Past(w))
      BY DEF BoundInv
    <3>5. CASE counter'[w].n = counter[w].n
      BY <3>2, <3>3, <3>4, <3>5
    <3>6. CASE /\ counter'[w].n <= counter[w].n + 1
               /\ \E s \in sent : s \notin Past(w) /\ s \in Past(w)'
      <4>1. PICK s \in Past(w)' : s \notin Past(w)
        BY <3>6
      <4>2. Cardinality(Past(w) \cup {s}) = Cardinality(Past(w)) + 1
        BY <3>1, <4>1, FS_AddElement
      <4>3. Past(w) \cup {s} \subseteq Past(w)'
        BY <2>1, <4>1
      <4>4. Cardinality(Past(w) \cup {s}) <= Cardinality(Past(w)')
        BY <3>1, <4>3, FS_Subset
      <4> HIDE DEF Past
      <4> QED BY <3>2, <3>3, <3>4, <3>6, <4>2, <4>4
    <3> QED BY <1>2, <3>5, <3>6, NumberKept
  <2> QED BY <2>1, <2>3 DEF BoundInv
<1> QED BY <1>1, <1>2

-----------------------------------------------------------------------------
(* The theorems.                                                           *)

LEMMA Always == Spec => []Inv
<1>1. Inv /\ [Next]_vars => Inv'
  BY NextType, NextCover, NextMinute, NextDay, NextExpiry DEF Inv
<1> QED BY InitInv, <1>1, PTL DEF Spec

\* Every variable keeps its type, for any number of sends; a counter is never above the number
\* of the messages that were queued. (limiter.go:47-74)
THEOREM TypeCorrect == Spec => []TypeOK
<1>1. Init => BoundInv
  <2> SUFFICES ASSUME Init PROVE BoundInv
    OBVIOUS
  <2>1. \A w \in Windows : Past(w) = {} /\ counter[w].n = 0
    BY DEF Init, Past, Absent
  <2>2. Cardinality({}) = 0
    BY FS_EmptySet
  <2>3. \A w \in Windows : counter[w].n <= Cardinality(Past(w))
    BY <2>1, <2>2
  <2> QED BY <2>3, LimitConstants DEF Init, BoundInv, LimitConstants
<1>2. TypeInv /\ BoundInv => TypeOK
  <2> SUFFICES ASSUME TypeInv, BoundInv PROVE TypeOK
    OBVIOUS
  <2>1. MaxTime \in Nat /\ MaxFaults \in Nat /\ IsFiniteSet(Sends)
    BY LimitConstants DEF LimitConstants
  <2>2. now \in 0..MaxTime /\ faults \in 0..MaxFaults
    BY <2>1 DEF TypeInv, BoundInv
  <2>3. sentAt \in [Sends -> 0..MaxTime] /\ lookedAt \in [Sends -> 0..MaxTime]
    <3>1. \A s \in Sends : sentAt[s] \in 0..MaxTime /\ lookedAt[s] \in 0..MaxTime
      BY <2>1, <2>2 DEF TypeInv
    <3> QED BY <3>1 DEF TypeInv
  <2>4. ASSUME NEW w \in Windows PROVE counter[w].n <= Cardinality(sent)
    <3>1. IsFiniteSet(sent) /\ Past(w) \subseteq sent
      BY <2>1, FS_Subset DEF TypeInv, Past
    <3>2. /\ Cardinality(Past(w)) \in Nat /\ Cardinality(sent) \in Nat
          /\ Cardinality(Past(w)) <= Cardinality(sent) /\ IsFiniteSet(Past(w))
      BY <3>1, FS_Subset, FS_CardinalityType
    <3>3. counter[w].n \in Nat /\ counter[w].n <= Cardinality(Past(w))
      BY DEF TypeInv, BoundInv, Counter
    <3> QED BY <3>2, <3>3
  <2>5. before \in [Sends -> SUBSET Sends]
    BY DEF TypeInv
  <2> QED BY <2>2, <2>3, <2>4, <2>5 DEF TypeInv, BoundInv, TypeOK
<1>3. Init => TypeInv
  BY InitInv DEF Inv
<1>4. TypeInv /\ BoundInv /\ [Next]_vars => TypeInv' /\ BoundInv'
  BY NextType, NextBound
<1> QED BY <1>1, <1>2, <1>3, <1>4, PTL DEF Spec

\* Sends that do not overlap are the minute's window apart, whatever other sends do, and
\* whichever commands fail. (limiter.go:47-74)
THEOREM SendsAreApart == Spec => []CloseSendsOverlap
<1>1. Inv => CloseSendsOverlap
  BY DEF Inv, MinuteInv, LetBy, CloseSendsOverlap
<1> QED BY <1>1, Always, PTL

\* The day's limit holds for the sends that were counted in full before. (limiter.go:47-74)
THEOREM DayIsLimited == Spec => []DailyLimitHolds
<1>1. Inv => DailyLimitHolds
  BY DEF Inv, DayInv, LetBy, InDay, DailyLimitHolds
<1> QED BY <1>1, Always, PTL

\* A counter without an expiry has a send about to set it, or a failure behind it.
\* (limiter.go:65-74)
THEOREM NothingBlocked == Spec => []CountersExpire
<1>1. Inv => CountersExpire
  BY DEF Inv
<1> QED BY <1>1, Always, PTL

-----------------------------------------------------------------------------
(* The limits of redis_rate, for every count, interval and pause between   *)
(* attempts, and any number of them. Time is measured in intervals: the    *)
(* period of a limit is as many of them as it has requests.                *)

Spans(n) == n * Interval

Later(a, b) == IF a > b THEN a ELSE b

LEMMA SpansStep ==
  ASSUME NEW m \in Int
  PROVE  /\ Spans(m) \in Int /\ Spans(m + 1) = Spans(m) + Interval
         /\ Spans(2 * m) = Spans(m) + Spans(m)
<1>1. Interval \in Nat
  BY RateConstants
<1> QED
  BY <1>1, SMT DEF Spans

LEMMA SpansOne == Spans(0) = 0 /\ Spans(1) = Interval
  BY RateConstants, SMT DEF Spans

LEMMA SpansSum ==
  ASSUME NEW m \in Int, NEW n \in Int
  PROVE  Spans(m + n) = Spans(m) + Spans(n)
<1>1. Interval \in Nat
  BY RateConstants
<1> QED
  BY <1>1, SMT DEF Spans

LEMMA SpansOrder ==
  ASSUME NEW m \in Int, NEW n \in Int
  PROVE  m <= n <=> Spans(m) <= Spans(n)
<1>1. Interval \in Nat /\ Interval > 0
  BY RateConstants
<1>2. ASSUME NEW a \in Int, NEW b \in Int, a <= b PROVE a * Interval <= b * Interval
  <2>1. b - a \in Nat /\ (b - a) * Interval >= 0
    BY <1>1, <1>2, SMT
  <2>2. (b - a) * Interval = b * Interval - a * Interval
    BY <1>1, SMT
  <2> QED
    BY <1>1, <2>1, <2>2, SMT
<1>3. m <= n => Spans(m) <= Spans(n)
  BY <1>2 DEF Spans
<1>4. ASSUME n + 1 <= m PROVE Spans(n) < Spans(m)
  <2>1. (n + 1) * Interval <= m * Interval
    BY <1>2, <1>4
  <2>2. (n + 1) * Interval = n * Interval + Interval
    BY <1>1, SMT
  <2> QED
    BY <1>1, <2>1, <2>2, SMT DEF Spans
<1>5. Spans(m) \in Int /\ Spans(n) \in Int
  BY SpansStep
<1> QED
  BY <1>3, <1>4, <1>5

LEMMA QuotientFacts ==
  ASSUME NEW n \in Nat \ {0}, NEW d \in Nat \ {0}, NEW x \in Nat
  PROVE  /\ (n * d) \div n = d
         /\ x \div d > 0 <=> x >= d
<1>1. (n * d) \div n = d
  BY SMT
<1>2. x \div d > 0 <=> x >= d
  BY SMT
<1> QED
  BY <1>1, <1>2

LEMMA LimitsType ==
  ASSUME NEW l \in Limits
  PROVE  /\ l.rate \in Nat \ {0} /\ l.burst = l.rate
         /\ l.period = Spans(l.rate) /\ l.period \in Nat /\ l.period >= Interval
         /\ l.period \div l.rate = Interval
         /\ l.burst * Interval = l.period
         /\ Interval \in Nat \ {0}
<1>1. PICK n \in Rates : l = MaxRequestsInPeriod(n, n * Interval)
  BY DEF Limits
<1>2. n \in Nat \ {0} /\ Interval \in Nat \ {0}
  BY RateConstants
<1>3. l.rate = n /\ l.burst = n /\ l.period = n * Interval
  BY <1>1 DEF MaxRequestsInPeriod
<1>4. n * Interval \in Nat /\ n * Interval >= Interval
  <2>1. Spans(1) <= Spans(n) /\ Spans(1) = Interval
    BY <1>2, SpansOne, SpansOrder
  <2> QED
    BY <1>2, <2>1, SMT DEF Spans
<1>5. (n * Interval) \div n = Interval
  BY <1>2, <1>4, QuotientFacts
<1> QED
  BY <1>2, <1>3, <1>4, <1>5 DEF Spans

\* What the script answers: the emission is the interval, and the burst of them the period.
LEMMA ScriptFacts ==
  ASSUME NEW l \in Limits, NEW old \in Nat, NEW t \in Nat
  PROVE  LET new == Later(old, t) + Interval
         IN /\ Script(old, t, l).tat = IF new > t + l.period THEN old ELSE new
            /\ Allow(old, t, l) <=> new + Interval <= t + l.period
<1> DEFINE new == Later(old, t) + Interval
           P == l.period
<1>1. P \in Nat /\ l.period \div l.rate = Interval /\ l.burst * Interval = P /\ Interval \in Nat \ {0}
  BY LimitsType
<1>2. Script(old, t, l) = IF new > t + P THEN [tat |-> old, remaining |-> 0]
                          ELSE [tat |-> new, remaining |-> (t + P - new) \div Interval]
  BY <1>1 DEF Script, Later
<1>3. new \in Nat
  BY <1>1 DEF Later
<1> HIDE DEF new, P
<1>4. CASE new > t + P
  BY <1>1, <1>2, <1>3, <1>4 DEF Allow, new, P
<1>5. CASE ~(new > t + P)
  <2>1. t + P - new \in Nat
    BY <1>1, <1>3, <1>5
  <2>2. (t + P - new) \div Interval > 0 <=> t + P - new >= Interval
    BY <1>1, <2>1, QuotientFacts
  <2>3. Allow(old, t, l) <=> (t + P - new) \div Interval > 0
    BY <1>2, <1>5 DEF Allow
  <2>4. Script(old, t, l).tat = new
    BY <1>2, <1>5
  <2>5. Allow(old, t, l) <=> new + Interval <= t + P
    BY <1>1, <1>3, <2>2, <2>3
  <2> QED
    BY <1>5, <2>4, <2>5 DEF new, P
<1> QED
  BY <1>4, <1>5

Tried == [at : Nat, passed : BOOLEAN, lost : BOOLEAN]

RateType ==
  /\ limit \in Limits /\ tat \in Nat /\ tries \in Seq(Tried)
  /\ \A i, j \in DOMAIN tries : i <= j => tries[i].at <= tries[j].at

\* One more attempt is noted, at time t; Redis answers it unless it is lost.
NextTry(t, passed, lost) ==
  /\ t \in Nat /\ passed \in BOOLEAN /\ lost \in BOOLEAN
  /\ limit' = limit /\ tat' \in Nat
  /\ Len(tries) \in Nat /\ DOMAIN tries = 1..Len(tries) /\ DOMAIN tries' = 1..(Len(tries) + 1)
  /\ Len(tries') = Len(tries) + 1
  /\ \A i \in DOMAIN tries : tries'[i] = tries[i] /\ tries[i] \in Tried /\ tries[i].at <= t
  /\ tries'[Len(tries) + 1] = [at |-> t, passed |-> passed, lost |-> lost]
  /\ lost => passed /\ tat' = tat
  /\ ~lost =>
       LET new == Later(tat, t) + Interval
       IN /\ tat' = IF new > t + limit.period THEN tat ELSE new
          /\ passed <=> new + Interval <= t + limit.period

LEMMA NotedFacts ==
  ASSUME tries \in Seq(Tried), NEW t \in Nat, NEW passed \in BOOLEAN, NEW lost \in BOOLEAN,
         Noted(t, passed, lost)
  PROVE  /\ Len(tries) \in Nat /\ DOMAIN tries = 1..Len(tries)
         /\ DOMAIN tries' = 1..(Len(tries) + 1) /\ Len(tries') = Len(tries) + 1
         /\ tries' \in Seq(Tried)
         /\ \A i \in DOMAIN tries : tries'[i] = tries[i] /\ tries[i] \in Tried
         /\ tries'[Len(tries) + 1] = [at |-> t, passed |-> passed, lost |-> lost]
<1> DEFINE e == [at |-> t, passed |-> passed, lost |-> lost]
<1>1. e \in Tried
  BY DEF Tried
<1>2. tries' = Append(tries, e)
  BY DEF Noted
<1> HIDE DEF e
<1>3. /\ Len(tries) \in Nat /\ DOMAIN tries = 1..Len(tries)
      /\ tries' \in Seq(Tried) /\ Len(tries') = Len(tries) + 1
      /\ \A i \in DOMAIN tries : tries'[i] = tries[i] /\ tries[i] \in Tried
      /\ tries'[Len(tries) + 1] = e
  BY <1>1, <1>2
<1>4. DOMAIN tries' = 1..(Len(tries) + 1)
  BY <1>3
<1> QED
  BY <1>3, <1>4 DEF e

LEMMA MomentFacts ==
  ASSUME RateType, NEW t \in Moments
  PROVE  t \in Nat /\ \A i \in DOMAIN tries : tries[i].at <= t
<1>1. CASE tries = << >>
  BY <1>1 DEF Moments
<1>2. CASE tries # << >>
  <2>1. tries \in Seq(Tried) /\ Len(tries) \in Nat /\ DOMAIN tries = 1..Len(tries)
    BY DEF RateType
  <2>2. Len(tries) \in DOMAIN tries /\ tries[Len(tries)] \in Tried
    BY <1>2, <2>1
  <2>3. tries[Len(tries)].at \in Nat
    BY <2>2 DEF Tried
  <2>4. PICK pause \in Pauses : t = tries[Len(tries)].at + pause
    BY <1>2 DEF Moments
  <2>5. pause \in Nat
    BY RateConstants
  <2>6. t \in Nat /\ tries[Len(tries)].at <= t
    BY <2>3, <2>4, <2>5
  <2>7. ASSUME NEW i \in DOMAIN tries PROVE tries[i].at <= t
    <3>1. i <= Len(tries)
      BY <2>1
    <3>2. tries[i].at <= tries[Len(tries)].at
      BY <2>2, <3>1 DEF RateType
    <3>3. tries[i] \in Tried
      BY <2>1
    <3>4. tries[i].at \in Nat
      BY <3>3 DEF Tried
    <3> QED
      BY <2>3, <2>6, <3>2, <3>4
  <2> QED
    BY <2>6, <2>7
<1> QED
  BY <1>1, <1>2

LEMMA RateSteps ==
  ASSUME RateType, RateNext
  PROVE  \E t, passed, lost : NextTry(t, passed, lost)
<1>1. tries \in Seq(Tried) /\ tat \in Nat /\ limit \in Limits
  BY DEF RateType
<1>2. limit.period \in Nat /\ Interval \in Nat
  BY <1>1, LimitsType
<1>3. CASE Attempt
  <2>1. PICK t \in Moments :
                 /\ tat' = Script(tat, t, limit).tat
                 /\ Noted(t, Allow(tat, t, limit), FALSE)
                 /\ limit' = limit
    BY <1>3 DEF Attempt
  <2>2. t \in Nat /\ \A i \in DOMAIN tries : tries[i].at <= t
    BY <2>1, MomentFacts
  <2> DEFINE new == Later(tat, t) + Interval
             p == Allow(tat, t, limit)
  <2>3. /\ Script(tat, t, limit).tat = IF new > t + limit.period THEN tat ELSE new
        /\ p <=> new + Interval <= t + limit.period
    BY <1>1, <2>2, ScriptFacts
  <2>4. new \in Nat
    BY <1>1, <1>2, <2>2 DEF Later
  <2>5. tat' \in Nat /\ tat' = IF new > t + limit.period THEN tat ELSE new
    BY <1>1, <2>1, <2>3, <2>4
  <2>6. p \in BOOLEAN
    BY DEF Allow
  <2>7. Noted(t, p, FALSE) /\ limit' = limit
    BY <2>1
  <2> HIDE DEF new, p
  <2>8. /\ Len(tries) \in Nat /\ DOMAIN tries = 1..Len(tries)
        /\ DOMAIN tries' = 1..(Len(tries) + 1) /\ Len(tries') = Len(tries) + 1
        /\ \A i \in DOMAIN tries : tries'[i] = tries[i] /\ tries[i] \in Tried
        /\ tries'[Len(tries) + 1] = [at |-> t, passed |-> p, lost |-> FALSE]
    BY <1>1, <2>2, <2>6, <2>7, NotedFacts
  <2>9. NextTry(t, p, FALSE)
    BY <2>2, <2>3, <2>5, <2>8, <2>6, <2>7 DEF NextTry, new
  <2> QED
    BY <2>9
<1>4. CASE RateLimit
  <2>1. PICK t \in Moments : Noted(t, TRUE, TRUE) /\ limit' = limit /\ tat' = tat
    BY <1>4 DEF RateLimit
  <2>2. t \in Nat /\ \A i \in DOMAIN tries : tries[i].at <= t
    BY <2>1, MomentFacts
  <2>3. /\ Len(tries) \in Nat /\ DOMAIN tries = 1..Len(tries)
        /\ DOMAIN tries' = 1..(Len(tries) + 1) /\ Len(tries') = Len(tries) + 1
        /\ \A i \in DOMAIN tries : tries'[i] = tries[i] /\ tries[i] \in Tried
        /\ tries'[Len(tries) + 1] = [at |-> t, passed |-> TRUE, lost |-> TRUE]
    BY <1>1, <2>1, <2>2, NotedFacts
  <2>4. NextTry(t, TRUE, TRUE)
    BY <1>1, <2>1, <2>2, <2>3 DEF NextTry
  <2> QED
    BY <2>4
<1> QED
  BY <1>3, <1>4 DEF RateNext

LEMMA RateTypeKept ==
  ASSUME RateType, RateNext
  PROVE  RateType'
<1>1. PICK t, passed, lost : NextTry(t, passed, lost)
  BY RateSteps
<1>2. limit' \in Limits /\ tat' \in Nat
  BY <1>1 DEF NextTry, RateType
<1>3. tries' \in Seq(Tried)
  <2>1. \E u \in Nat, p \in BOOLEAN, q \in BOOLEAN : Noted(u, p, q)
    <3>1. CASE Attempt
      <4>1. PICK u \in Moments : Noted(u, Allow(tat, u, limit), FALSE)
        BY <3>1 DEF Attempt
      <4>2. u \in Nat /\ Allow(tat, u, limit) \in BOOLEAN
        BY <4>1, MomentFacts DEF Allow
      <4> QED
        BY <4>1, <4>2
    <3>2. CASE RateLimit
      <4>1. PICK u \in Moments : Noted(u, TRUE, TRUE)
        BY <3>2 DEF RateLimit
      <4>2. u \in Nat
        BY <4>1, MomentFacts
      <4> QED
        BY <4>1, <4>2
    <3> QED
      BY <3>1, <3>2 DEF RateNext
  <2> QED
    BY <2>1, NotedFacts DEF RateType
<1>4. ASSUME NEW i \in DOMAIN tries', NEW j \in DOMAIN tries', i <= j
      PROVE  tries'[i].at <= tries'[j].at
  <2>1. CASE j \in DOMAIN tries
    BY <1>1, <1>4, <2>1 DEF NextTry, RateType
  <2>2. CASE j \notin DOMAIN tries
    <3>1. j = Len(tries) + 1 /\ tries'[j].at = t /\ t \in Nat
      BY <1>1, <2>2 DEF NextTry
    <3>2. CASE i \in DOMAIN tries
      BY <1>1, <3>1, <3>2 DEF NextTry
    <3>3. CASE i \notin DOMAIN tries
      BY <1>1, <3>1, <3>3 DEF NextTry
    <3> QED
      BY <3>2, <3>3
  <2> QED
    BY <2>1, <2>2
<1> QED
  BY <1>2, <1>3, <1>4 DEF RateType

\* The attempts Redis let through, and how many of them there were from attempt i on: each has
\* moved the time on by an interval.
Answered    == Passed \ Lost
Since(S, i) == {k \in S : k >= i}

\* The sets of the two properties, of attempts ts and a period of length p.
From(S, ts, p, i) == {j \in S : j >= i /\ ts[j].at < ts[i].at + p}
Upto(S, ts, p, i) == {j \in S : j <= i /\ ts[j].at + p > ts[i].at}

Bounded(S, ts, l, x, i) ==
  /\ Since(S, i) # {} => x >= ts[i].at + Spans(Cardinality(Since(S, i)))
  /\ Cardinality(From(S, ts, l.period, i)) <= 2 * (l.rate - 1)

BurstInv == \A i \in DOMAIN tries : Bounded(Answered, tries, limit, tat, i)

\* The time is not beyond the attempts since the key was last idle.
BusyInv ==
  \/ tat = 0
  \/ \E k \in DOMAIN tries : tat <= tries[k].at + Spans(Len(tries) - k + 1)

\* Of a caller who has been below the count in every period so far: the attempts since
\* any earlier one leave room for the next interval.
BelowSoFar(ts, l, i) == \A j \in 1..i : Cardinality(Upto(DOMAIN ts, ts, l.period, j)) < l.rate
Room(ts, l, j) == \A k \in 1..j : ts[k].at + Spans(j - k + 2) <= ts[j].at + l.period

GapInv == \A j \in DOMAIN tries : BelowSoFar(tries, limit, j) => Room(tries, limit, j)

RateInv == RateType /\ BurstInv /\ BusyInv /\ GapInv /\ BelowLimitAdmitted

LEMMA SinceFacts ==
  ASSUME NEW n \in Nat, NEW S, S \subseteq 1..n, NEW i, NEW ts, NEW p
  PROVE  /\ IsFiniteSet(Since(S, i)) /\ Cardinality(Since(S, i)) \in Nat
         /\ Cardinality(From(S, ts, p, i)) \in Nat
         /\ Cardinality(From(S, ts, p, i)) <= Cardinality(Since(S, i))
<1>1. Since(S, i) \subseteq 1..n /\ From(S, ts, p, i) \subseteq Since(S, i)
  BY DEF Since, From
<1>2. IsFiniteSet(1..n)
  BY FS_Interval
<1>3. IsFiniteSet(Since(S, i))
  BY <1>1, <1>2, FS_Subset
<1>4. IsFiniteSet(From(S, ts, p, i)) /\ Cardinality(From(S, ts, p, i)) <= Cardinality(Since(S, i))
  BY <1>1, <1>3, FS_Subset
<1> QED
  BY <1>3, <1>4, FS_CardinalityType

\* What one more attempt makes of the sets the invariant counts.
LEMMA AnsweredSteps ==
  ASSUME RateType, NEW t, NEW passed, NEW lost, NextTry(t, passed, lost)
  PROVE  LET n == Len(tries) + 1
             more == IF passed /\ ~lost THEN {n} ELSE {}
         IN /\ Answered' = Answered \cup more
            /\ n \notin Answered
            /\ \A i \in DOMAIN tries' :
                 Since(Answered', i) = (IF i = n THEN {} ELSE Since(Answered, i)) \cup more
            /\ \A i \in DOMAIN tries :
                 From(Answered', tries', limit'.period, i) = From(Answered, tries, limit.period, i) \cup
                   {k \in more : t < tries[i].at + limit.period}
<1> DEFINE n == Len(tries) + 1
           more == IF passed /\ ~lost THEN {n} ELSE {}
<1>1. /\ Len(tries) \in Nat /\ DOMAIN tries = 1..Len(tries) /\ DOMAIN tries' = 1..n
      /\ \A i \in DOMAIN tries : tries'[i] = tries[i]
      /\ tries'[n].at = t /\ tries'[n].passed = passed /\ tries'[n].lost = lost
      /\ passed \in BOOLEAN /\ lost \in BOOLEAN /\ limit' = limit
  BY DEF NextTry
<1>2. Answered' = Answered \cup more /\ n \notin Answered
  BY <1>1 DEF Answered, Passed, Lost
<1>3. Answered \subseteq 1..Len(tries)
  BY <1>1 DEF Answered, Passed
<1>4. ASSUME NEW i \in DOMAIN tries'
      PROVE  Since(Answered', i) = (IF i = n THEN {} ELSE Since(Answered, i)) \cup more
  <2>1. Since(Answered', i) = {k \in Answered' : k >= i}
    BY DEF Since
  <2>2. \A k \in more : k = n /\ k >= i
    BY <1>1
  <2>3. i = n => \A k \in Answered : ~(k >= i)
    BY <1>1, <1>3
  <2> HIDE DEF more
  <2> QED
    BY <1>2, <2>1, <2>2, <2>3 DEF Since
<1>5. ASSUME NEW i \in DOMAIN tries
      PROVE  From(Answered', tries', limit'.period, i) = From(Answered, tries, limit.period, i) \cup
               {k \in more : t < tries[i].at + limit.period}
  <2>1. From(Answered', tries', limit'.period, i) =
          {j \in Answered' : j >= i /\ tries'[j].at < tries'[i].at + limit'.period}
    BY DEF From
  <2>2. \A j \in Answered : tries'[j] = tries[j]
    BY <1>1, <1>3
  <2>3. \A j \in more : j = n /\ j >= i /\ tries'[j].at = t
    BY <1>1
  <2> QED
    BY <1>1, <1>2, <2>1, <2>2, <2>3 DEF From
<1> QED
  BY <1>2, <1>4, <1>5

LEMMA BurstKept ==
  ASSUME RateInv, RateNext
  PROVE  BurstInv'
<1> DEFINE n == Len(tries) + 1
           P == limit.period
           I == Interval
<1>1. PICK t, passed, lost : NextTry(t, passed, lost)
  BY RateSteps DEF RateInv
<1>2. RateType /\ RateType' /\ BurstInv
  BY RateTypeKept DEF RateInv
<1> DEFINE more == IF passed /\ ~lost THEN {n} ELSE {}
<1>3. /\ limit.rate \in Nat \ {0} /\ P = Spans(limit.rate) /\ P \in Nat /\ P >= I /\ I \in Nat \ {0}
  BY <1>2, LimitsType DEF RateType
<1>4. /\ t \in Nat /\ tat \in Nat /\ tat' \in Nat /\ limit' = limit
      /\ Len(tries) \in Nat /\ DOMAIN tries = 1..Len(tries) /\ DOMAIN tries' = 1..n
      /\ \A i \in DOMAIN tries : tries'[i] = tries[i] /\ tries[i] \in Tried /\ tries[i].at <= t
      /\ tries'[n].at = t
  BY <1>1, <1>2 DEF NextTry, RateType
<1>5. \A i \in DOMAIN tries : tries[i].at \in Nat
  BY <1>4 DEF Tried
<1>6. \A i \in DOMAIN tries' : tries'[i].at \in Nat /\ tries'[i].at <= t
  BY <1>4, <1>5
<1>7. /\ Answered' = Answered \cup more /\ n \notin Answered
      /\ \A i \in DOMAIN tries' :
           Since(Answered', i) = (IF i = n THEN {} ELSE Since(Answered, i)) \cup more
      /\ \A i \in DOMAIN tries :
           From(Answered', tries', limit'.period, i) =
             From(Answered, tries, limit.period, i) \cup {k \in more : t < tries[i].at + P}
  BY <1>1, <1>2, AnsweredSteps
<1>8. tat' >= tat
  BY <1>1, <1>3, <1>4 DEF NextTry, Later
<1>9. Answered \subseteq 1..Len(tries) /\ Answered' \subseteq 1..n /\ n \in Nat
  BY <1>4, <1>7 DEF Answered, Passed
<1>10. CASE more = {}
  <2>1. ASSUME NEW i \in DOMAIN tries
        PROVE  Bounded(Answered', tries', limit', tat', i)
    <3>1. /\ Since(Answered', i) = Since(Answered, i)
          /\ From(Answered', tries', limit'.period, i) = From(Answered, tries, limit.period, i)
      BY <1>4, <1>7, <1>10, <2>1
    <3>2. Cardinality(From(Answered, tries, limit.period, i)) <= 2 * (limit.rate - 1)
          /\ (Since(Answered, i) # {} => tat >= tries[i].at + Spans(Cardinality(Since(Answered, i))))
      BY <1>2 DEF BurstInv, Bounded
    <3>3. Spans(Cardinality(Since(Answered, i))) \in Int
      <4>1. Cardinality(Since(Answered, i)) \in Nat
        BY <1>4, <1>9, SinceFacts
      <4>2. Cardinality(Since(Answered, i)) \in Int
        BY <4>1
      <4> QED
        BY <4>2, SpansStep
    <3>4. tries'[i].at = tries[i].at /\ tries[i].at \in Nat
      BY <1>4, <1>5
    <3> HIDE DEF more
    <3> QED
      BY <1>4, <1>8, <3>1, <3>2, <3>3, <3>4 DEF Bounded
  <2>2. Since(Answered', n) = {} /\ From(Answered', tries', limit'.period, n) = {}
    <3>1. Since(Answered', n) = {}
      <4>1. n \in DOMAIN tries'
        BY <1>4
      <4> HIDE DEF n, more
      <4> QED
        BY <1>7, <1>10, <4>1
    <3>2. From(Answered', tries', limit'.period, n) \subseteq Since(Answered', n)
      BY DEF From, Since
    <3> QED
      BY <3>1, <3>2
  <2>3. Cardinality({}) = 0 /\ 0 <= 2 * (limit.rate - 1)
    BY <1>3, FS_EmptySet
  <2>4. Bounded(Answered', tries', limit', tat', n)
    BY <1>4, <2>2, <2>3 DEF Bounded
  <2>5. \A i \in DOMAIN tries' : i \in DOMAIN tries \/ i = n
    BY <1>4
  <2> QED
    BY <2>1, <2>4, <2>5 DEF BurstInv
<1>11. CASE passed /\ ~lost
  <2>1. tat' = Later(tat, t) + I /\ tat' + I <= t + P
    BY <1>1, <1>3, <1>4, <1>11 DEF NextTry, Later
  <2>2. ASSUME NEW i \in DOMAIN tries'
        PROVE  /\ Cardinality(Since(Answered', i)) \in Nat
               /\ tat' >= tries'[i].at + Spans(Cardinality(Since(Answered', i)))
    <3>1. CASE i = n \/ Since(Answered, i) = {}
      <4>1. Since(Answered', i) = {n}
        BY <1>7, <1>11, <3>1
      <4>2. Cardinality(Since(Answered', i)) = 1 /\ Spans(1) = I
        BY <4>1, FS_Singleton, SpansOne
      <4> QED
        BY <1>3, <1>4, <1>6, <2>1, <4>2 DEF Later
    <3>2. CASE i # n /\ Since(Answered, i) # {}
      <4>1. i \in DOMAIN tries
        BY <1>4, <3>2
      <4>2. /\ IsFiniteSet(Since(Answered, i)) /\ Cardinality(Since(Answered, i)) \in Nat
            /\ n \notin Since(Answered, i)
        <5>1. IsFiniteSet(Since(Answered, i)) /\ Cardinality(Since(Answered, i)) \in Nat
          BY <1>4, <1>9, SinceFacts
        <5> QED
          BY <1>7, <5>1 DEF Since
      <4>3. Since(Answered', i) = Since(Answered, i) \cup {n}
        BY <1>7, <1>11, <3>2
      <4>4. Cardinality(Since(Answered', i)) = Cardinality(Since(Answered, i)) + 1
        BY <4>2, <4>3, FS_AddElement
      <4>5. /\ Spans(Cardinality(Since(Answered, i)) + 1) = Spans(Cardinality(Since(Answered, i))) + I
            /\ Spans(Cardinality(Since(Answered, i))) \in Int
        <5>1. Cardinality(Since(Answered, i)) \in Int
          BY <4>2
        <5> QED
          BY <5>1, SpansStep
      <4>6. tat >= tries[i].at + Spans(Cardinality(Since(Answered, i)))
        BY <1>2, <3>2, <4>1 DEF BurstInv, Bounded
      <4>7. tries'[i].at = tries[i].at /\ tries[i].at \in Nat
        BY <1>4, <1>5, <4>1
      <4>8. tat' >= tries'[i].at + Spans(Cardinality(Since(Answered, i)) + 1)
        <5> DEFINE a == tries[i].at
                   y == Spans(Cardinality(Since(Answered, i)))
        <5>1. tat' >= tat + I
          BY <1>3, <1>4, <2>1 DEF Later
        <5>2. a \in Nat /\ y \in Int /\ I \in Nat /\ tat >= a + y
          BY <1>3, <4>5, <4>6, <4>7
        <5> HIDE DEF a, y, I
        <5>3. tat' >= a + (y + I)
          BY <1>4, <5>1, <5>2
        <5> QED
          BY <4>5, <4>7, <5>3 DEF a, y, I
      <4> QED
        BY <4>2, <4>4, <4>8
    <3> QED
      BY <3>1, <3>2
  <2>3. ASSUME NEW i \in DOMAIN tries', t < tries'[i].at + P
        PROVE  Cardinality(From(Answered', tries', limit'.period, i)) <= 2 * (limit'.rate - 1)
    <3> DEFINE c == Cardinality(Since(Answered', i))
               w == Cardinality(From(Answered', tries', limit'.period, i))
    <3>1. w \in Nat /\ w <= c /\ c \in Nat
      BY <1>9, SinceFacts
    <3>2. tat' >= tries'[i].at + Spans(c)
      BY <2>2
    <3> HIDE DEF c, w
    <3>3. c \in Int
      BY <3>1
    <3>4. Spans(c + 1) = Spans(c) + I /\ Spans(c) \in Int
      BY <3>3, SpansStep
    <3>5. Spans(2 * limit.rate) = P + P /\ 2 * limit.rate \in Int
      <4>1. limit.rate \in Int /\ 2 * limit.rate \in Int
        BY <1>3
      <4>2. Spans(2 * limit.rate) = Spans(limit.rate) + Spans(limit.rate)
        BY <4>1, SpansStep
      <4> QED
        BY <1>3, <4>1, <4>2
    <3>6. tries'[i].at \in Nat
      BY <1>6
    <3>7. tat' + I <= t + P
      BY <2>1
    <3>8. Spans(c) + I < P + P
      <4> DEFINE a == tries'[i].at
                 x == tat'
                 y == Spans(c)
      <4>1. a \in Nat /\ x \in Nat /\ y \in Int /\ t \in Nat /\ P \in Nat /\ I \in Nat
        BY <1>3, <1>4, <3>4, <3>6
      <4>2. x + I <= t + P /\ t < a + P /\ x >= a + y
        BY <2>3, <3>2, <3>7
      <4> HIDE DEF a, x, y, P, I
      <4>3. y + I < P + P
        BY <4>1, <4>2
      <4> QED
        BY <4>3 DEF y
    <3>9. ~(2 * limit.rate <= c + 1)
      <4>1. ~(Spans(2 * limit.rate) <= Spans(c + 1))
        BY <1>3, <3>4, <3>5, <3>8
      <4> QED
        BY <3>1, <3>5, <4>1, SpansOrder
    <3>10. w <= 2 * (limit.rate - 1)
      BY <1>3, <3>1, <3>9
    <3> QED
      BY <1>4, <3>10 DEF w
  <2>4. ASSUME NEW i \in DOMAIN tries', ~(t < tries'[i].at + P)
        PROVE  Cardinality(From(Answered', tries', limit'.period, i)) <= 2 * (limit'.rate - 1)
    <3>1. i \in DOMAIN tries
      BY <1>3, <1>4, <2>4
    <3>2. From(Answered', tries', limit'.period, i) = From(Answered, tries, limit.period, i)
      BY <1>4, <1>7, <2>4, <3>1
    <3> QED
      BY <1>2, <1>4, <3>1, <3>2 DEF BurstInv, Bounded
  <2> QED
    BY <2>2, <2>3, <2>4 DEF BurstInv, Bounded
<1> QED
  BY <1>1, <1>10, <1>11 DEF NextTry

LEMMA RoomFollows ==
  ASSUME NEW l \in Limits, NEW ts \in Seq(Tried),
         \A i, j \in DOMAIN ts : i <= j => ts[i].at <= ts[j].at,
         NEW j \in DOMAIN ts, BelowSoFar(ts, l, j),
         \A m \in 1..(j - 1) : Room(ts, l, m)
  PROVE  Room(ts, l, j)
<1> DEFINE n == l.rate
           P == l.period
           m == j - n + 1
<1>1. n \in Nat /\ n > 0 /\ P = Spans(n) /\ P \in Nat /\ P > 0
  BY LimitsType
<1>2. j \in Nat /\ j >= 1 /\ Len(ts) \in Nat /\ DOMAIN ts = 1..Len(ts) /\ j <= Len(ts)
  OBVIOUS
<1>3. \A q \in 1..j : q \in DOMAIN ts /\ ts[q].at \in Nat /\ ts[q].at <= ts[j].at
  <2> TAKE q \in 1..j
  <2>1. q \in DOMAIN ts /\ q <= j
    BY <1>2
  <2>2. ts[q] \in Tried
    BY <2>1
  <2> QED
    BY <2>1, <2>2 DEF Tried
<1>4. SUFFICES ASSUME NEW k \in 1..j PROVE ts[k].at + Spans(j - k + 2) <= ts[j].at + P
  BY DEF Room
<1>5. /\ ts[k].at \in Nat /\ ts[j].at \in Nat /\ ts[k].at <= ts[j].at
      /\ k \in Nat /\ k >= 1 /\ k <= j
  BY <1>2, <1>3
<1> HIDE DEF n, P
<1>6. CASE j - k + 2 <= n
  <2>1. j - k + 2 \in Int /\ n \in Int
    BY <1>1, <1>2, <1>5
  <2>2. Spans(j - k + 2) <= P /\ Spans(j - k + 2) \in Int
    BY <1>1, <1>6, <2>1, SpansOrder, SpansStep
  <2> QED
    BY <1>1, <1>5, <2>2
<1>7. CASE ~(j - k + 2 <= n)
  <2>1. m \in 1..j /\ k <= m /\ m \in Nat
    BY <1>1, <1>2, <1>5, <1>7
  <2>2. ts[m].at \in Nat
    BY <1>3, <2>1
  <2>3. ts[m].at + P <= ts[j].at
    <3> DEFINE U == Upto(DOMAIN ts, ts, P, j)
    <3>1. SUFFICES ASSUME ts[m].at + P > ts[j].at PROVE FALSE
      BY <1>1, <1>5, <2>2
    <3>2. \A q \in m..j : q \in U
      <4> TAKE q \in m..j
      <4>1. q \in 1..j /\ q <= j /\ m <= q
        BY <1>2, <2>1
      <4>2. ts[m].at <= ts[q].at /\ ts[q].at \in Nat
        BY <1>3, <2>1, <4>1
      <4>3. ts[q].at + P > ts[j].at
        <5> DEFINE a == ts[m].at
                   b == ts[q].at
                   c == ts[j].at
        <5>1. a \in Nat /\ b \in Nat /\ c \in Nat /\ P \in Nat
          BY <1>1, <1>5, <2>2, <4>2
        <5>2. a <= b /\ a + P > c
          BY <3>1, <4>2
        <5> HIDE DEF a, b, c, m
        <5>3. b + P > c
          BY <5>1, <5>2
        <5> QED
          BY <5>3 DEF b, c
      <4> QED
        BY <1>3, <4>1, <4>3 DEF Upto
    <3>3. U \subseteq 1..Len(ts)
      BY <1>2 DEF Upto
    <3>4. IsFiniteSet(1..Len(ts))
      BY <1>2, FS_Interval
    <3>5. Cardinality(U) < n
      BY <1>2 DEF BelowSoFar, n, P
    <3>6. Cardinality(m..j) = j - m + 1
      BY <1>2, <2>1, FS_Interval
    <3> HIDE DEF U
    <3>7. IsFiniteSet(U)
      BY <3>3, <3>4, FS_Subset
    <3>8. Cardinality(m..j) <= Cardinality(U) /\ Cardinality(U) \in Nat
      BY <3>2, <3>7, FS_Subset, FS_CardinalityType
    <3>9. j - m + 1 = n
      BY <1>1, <1>2
    <3> QED
      BY <1>1, <3>5, <3>6, <3>8, <3>9
  <2>4. m \in 1..(j - 1)
    <3>1. m # j
      BY <1>1, <2>2, <2>3
    <3> QED
      BY <1>2, <2>1, <3>1
  <2>5. ts[k].at + Spans(m - k + 2) <= ts[m].at + P
    <3>1. k \in 1..m
      BY <1>5, <2>1
    <3>2. Room(ts, l, m)
      BY <2>4
    <3> HIDE DEF m
    <3> QED
      BY <3>1, <3>2 DEF Room, P
  <2>6. m - k + 2 \in Int /\ n - 1 \in Int /\ n \in Int /\ j - k + 2 = (m - k + 2) + (n - 1)
    BY <1>1, <1>2, <1>5, <2>1
  <2> HIDE DEF m
  <2>7. Spans((m - k + 2) + (n - 1)) = Spans(m - k + 2) + Spans(n - 1)
    BY <2>6, SpansSum
  <2>8. Spans(n - 1) <= P
    BY <1>1, <2>6, SpansOrder
  <2>9. Spans(n - 1) \in Int /\ Spans(m - k + 2) \in Int
    BY <2>6, SpansStep
  <2> DEFINE x == Spans(m - k + 2)
             y == Spans(n - 1)
  <2>10. Spans(j - k + 2) = x + y
    BY <2>6, <2>7
  <2> DEFINE a == ts[k].at
             b == ts[m].at
             c == ts[j].at
  <2>11. /\ x \in Int /\ y \in Int /\ a \in Nat /\ b \in Nat /\ c \in Nat
         /\ y <= P /\ a + x <= b + P /\ b + P <= c
    BY <1>5, <2>2, <2>3, <2>5, <2>8, <2>9
  <2> HIDE DEF a, b, c, x, y
  <2>12. a + (x + y) <= c + P
    BY <1>1, <2>11
  <2> QED
    BY <2>10, <2>12 DEF a, c
<1> QED
  BY <1>6, <1>7

LEMMA GapSteps ==
  ASSUME RateInv, RateNext, NEW t, NEW passed, NEW lost, NextTry(t, passed, lost)
  PROVE  /\ GapInv'
         /\ \A i \in DOMAIN tries : BelowSoFar(tries', limit', i) => BelowSoFar(tries, limit, i)
<1> DEFINE n == Len(tries) + 1
<1>1. /\ limit' = limit /\ tries' \in Seq(Tried) /\ limit \in Limits /\ limit' \in Limits
      /\ Len(tries) \in Nat /\ DOMAIN tries = 1..Len(tries) /\ DOMAIN tries' = 1..n
      /\ \A i \in DOMAIN tries : tries'[i] = tries[i]
      /\ \A i, j \in DOMAIN tries' : i <= j => tries'[i].at <= tries'[j].at
  BY RateTypeKept DEF RateInv, RateType, NextTry
<1>2. ASSUME NEW i \in DOMAIN tries
      PROVE  Upto(DOMAIN tries', tries', limit'.period, i) = Upto(DOMAIN tries, tries, limit.period, i)
  <2>1. \A k : k \in DOMAIN tries' /\ k <= i <=> k \in DOMAIN tries /\ k <= i
    BY <1>1
  <2> QED
    BY <1>1, <2>1 DEF Upto
<1>3. ASSUME NEW i \in DOMAIN tries, BelowSoFar(tries', limit', i)
      PROVE  BelowSoFar(tries, limit, i)
  <2>1. \A j \in 1..i : j \in DOMAIN tries
    BY <1>1
  <2> QED
    BY <1>1, <1>2, <1>3, <2>1 DEF BelowSoFar
<1>4. ASSUME NEW i \in DOMAIN tries, BelowSoFar(tries', limit', i)
      PROVE  Room(tries', limit', i)
  <2>1. Room(tries, limit, i)
    BY <1>3, <1>4 DEF RateInv, GapInv
  <2>2. \A k \in 1..i : k \in DOMAIN tries /\ tries'[k] = tries[k]
    BY <1>1
  <2> QED
    BY <1>1, <2>1, <2>2 DEF Room
<1>5. ASSUME NEW i \in DOMAIN tries', BelowSoFar(tries', limit', i)
      PROVE  Room(tries', limit', i)
  <2>1. \A m \in 1..(i - 1) : Room(tries', limit', m)
    <3> TAKE m \in 1..(i - 1)
    <3>1. m \in DOMAIN tries /\ 1..m \subseteq 1..i
      BY <1>1
    <3>2. BelowSoFar(tries', limit', m)
      BY <1>5, <3>1 DEF BelowSoFar
    <3> QED
      BY <1>4, <3>1, <3>2
  <2> QED
    BY <1>1, <1>5, <2>1, RoomFollows
<1> QED
  BY <1>3, <1>5 DEF GapInv

\* The time a new attempt finds is not beyond the attempts from some attempt k on, the new
\* one included.
LEMMA BusyBefore ==
  ASSUME RateInv, RateNext, NEW t, NEW passed, NEW lost, NextTry(t, passed, lost)
  PROVE  LET n == Len(tries) + 1
         IN \E k \in 1..n : Later(tat, t) <= tries'[k].at + Spans(n - k)
<1> DEFINE n == Len(tries) + 1
<1>1. /\ t \in Nat /\ tat \in Nat /\ Len(tries) \in Nat /\ n \in Nat
      /\ DOMAIN tries = 1..Len(tries) /\ tries'[n].at = t
      /\ \A i \in DOMAIN tries : tries'[i] = tries[i]
  BY DEF RateInv, RateType, NextTry
<1>2. CASE tat <= t
  <2>1. Later(tat, t) = t /\ n - n = 0 /\ n \in 1..n
    BY <1>1, <1>2 DEF Later
  <2>2. Spans(n - n) = 0
    BY <1>1, SpansOne
  <2>3. Later(tat, t) <= tries'[n].at + Spans(n - n)
    BY <1>1, <2>1, <2>2
  <2> QED
    BY <2>1, <2>3
<1>3. CASE ~(tat <= t)
  <2>1. Later(tat, t) = tat /\ tat # 0
    BY <1>1, <1>3 DEF Later
  <2>2. PICK k \in DOMAIN tries : tat <= tries[k].at + Spans(Len(tries) - k + 1)
    BY <2>1 DEF RateInv, BusyInv
  <2>3. k \in 1..n /\ Len(tries) - k + 1 = n - k /\ tries'[k] = tries[k]
    BY <1>1
  <2> QED
    BY <2>1, <2>2, <2>3
<1> QED
  BY <1>2, <1>3

LEMMA BusyKept ==
  ASSUME RateInv, RateNext
  PROVE  BusyInv'
<1> DEFINE n == Len(tries) + 1
<1>1. PICK t, passed, lost : NextTry(t, passed, lost)
  BY RateSteps DEF RateInv
<1>2. /\ t \in Nat /\ tat \in Nat /\ tat' \in Nat /\ Len(tries) \in Nat /\ n \in Nat
      /\ Len(tries') = n /\ DOMAIN tries' = 1..n /\ Interval \in Nat
      /\ RateType'
  BY <1>1, RateTypeKept, RateConstants DEF RateInv, RateType, NextTry
<1>3. PICK k \in 1..n : Later(tat, t) <= tries'[k].at + Spans(n - k)
  BY <1>1, BusyBefore
<1>4. tat' <= Later(tat, t) + Interval
  BY <1>1, <1>2 DEF NextTry, Later
<1>5. n - k \in Int /\ Len(tries') - k + 1 = (n - k) + 1
  BY <1>2
<1>6. Spans((n - k) + 1) = Spans(n - k) + Interval /\ Spans(n - k) \in Int
  BY <1>5, SpansStep
<1>7. tries'[k].at \in Nat
  <2>1. tries' \in Seq(Tried) /\ k \in DOMAIN tries'
    BY <1>2 DEF RateType
  <2>2. tries'[k] \in Tried
    BY <2>1
  <2> QED
    BY <2>2 DEF Tried
<1>8. Later(tat, t) \in Nat
  BY <1>2 DEF Later
<1> DEFINE a == tries'[k].at
           x == Spans(n - k)
           y == Later(tat, t)
<1>9. a \in Nat /\ x \in Int /\ y \in Nat /\ y <= a + x /\ tat' <= y + Interval
  BY <1>3, <1>4, <1>6, <1>7, <1>8
<1> HIDE DEF a, x, y, n
<1>10. tat' <= a + (x + Interval)
  BY <1>2, <1>9
<1>11. tat' <= tries'[k].at + Spans(Len(tries') - k + 1)
  BY <1>5, <1>6, <1>10 DEF a, x
<1> QED
  BY <1>2, <1>11 DEF BusyInv

LEMMA AdmittedKept ==
  ASSUME RateInv, RateNext
  PROVE  BelowLimitAdmitted'
<1> DEFINE n == Len(tries) + 1
<1>1. PICK t, passed, lost : NextTry(t, passed, lost)
  BY RateSteps DEF RateInv
<1>2. /\ t \in Nat /\ tat \in Nat /\ Len(tries) \in Nat /\ n \in Nat /\ limit' = limit
      /\ DOMAIN tries = 1..Len(tries) /\ DOMAIN tries' = 1..n
      /\ \A i \in DOMAIN tries : tries'[i] = tries[i]
      /\ tries'[n].passed = passed /\ tries'[n].at = t /\ Interval \in Nat
      /\ limit \in Limits
  BY <1>1, RateConstants DEF RateInv, RateType, NextTry
<1>3. limit.period \in Nat
  BY <1>2, LimitsType
<1>4. GapInv' /\ \A i \in DOMAIN tries : BelowSoFar(tries', limit', i) => BelowSoFar(tries, limit, i)
  BY <1>1, GapSteps
<1>5. ASSUME NEW i \in DOMAIN tries, BelowSoFar(tries', limit', i)
      PROVE  tries'[i].passed
  <2>1. BelowSoFar(tries, limit, i)
    BY <1>4, <1>5
  <2>2. \A j \in 1..i : Cardinality(Until(DOMAIN tries, j)) < limit.rate
    BY <2>1 DEF BelowSoFar, Upto, Until
  <2>3. i \in Passed
    BY <2>2 DEF RateInv, BelowLimitAdmitted
  <2> QED
    BY <1>2, <2>3 DEF Passed
<1>6. ASSUME BelowSoFar(tries', limit', n)
      PROVE  passed
  <2>1. Room(tries', limit', n)
    BY <1>2, <1>4, <1>6 DEF GapInv
  <2>2. PICK k \in 1..n : Later(tat, t) <= tries'[k].at + Spans(n - k)
    BY <1>1, BusyBefore
  <2>3. tries'[k].at + Spans(n - k + 2) <= t + limit.period
    BY <1>2, <2>1, <2>2 DEF Room
  <2>4. n - k \in Int /\ (n - k) + 1 \in Int /\ n - k + 2 = ((n - k) + 1) + 1
    BY <1>2
  <2>5. /\ Spans(((n - k) + 1) + 1) = Spans((n - k) + 1) + Interval
        /\ Spans((n - k) + 1) = Spans(n - k) + Interval /\ Spans(n - k) \in Int
    BY <2>4, SpansStep
  <2>6. tries'[k].at \in Nat
    <3>1. RateType'
      BY RateTypeKept DEF RateInv
    <3>2. tries' \in Seq(Tried) /\ k \in DOMAIN tries'
      BY <1>2, <3>1 DEF RateType
    <3>3. tries'[k] \in Tried
      BY <3>2
    <3> QED
      BY <3>3 DEF Tried
  <2>7. Later(tat, t) \in Nat
    BY <1>2 DEF Later
  <2> DEFINE a == tries'[k].at
             x == Spans(n - k)
             y == Later(tat, t)
             P == limit.period
  <2>8. a \in Nat /\ x \in Int /\ y \in Nat /\ y <= a + x /\ a + (x + Interval + Interval) <= t + P
    BY <2>2, <2>3, <2>4, <2>5, <2>6, <2>7
  <2>9. P \in Nat
    BY <1>3
  <2> HIDE DEF a, x, y, P
  <2>10. y + Interval + Interval <= t + P
    BY <1>2, <2>8, <2>9
  <2> QED
    BY <1>1, <2>10 DEF NextTry, y, P
<1>7. ASSUME NEW i \in DOMAIN tries',
             \A j \in 1..i : Cardinality(Until(DOMAIN tries, j)') < limit'.rate
      PROVE  i \in Passed'
  <2>1. BelowSoFar(tries', limit', i)
    BY <1>7 DEF BelowSoFar, Upto, Until
  <2>2. CASE i \in DOMAIN tries
    BY <1>5, <1>7, <2>1, <2>2 DEF Passed
  <2>3. CASE i \notin DOMAIN tries
    <3>1. i = n
      BY <1>2, <2>3
    <3>2. passed
      BY <1>6, <2>1, <3>1
    <3> QED
      BY <1>2, <3>1, <3>2 DEF Passed
  <2> QED
    BY <2>2, <2>3
<1> QED
  BY <1>7 DEF BelowLimitAdmitted, Until

LEMMA RateInductive == RateSpec => []RateInv
<1>1. RateInit => RateInv
  <2> SUFFICES ASSUME RateInit PROVE RateInv
    OBVIOUS
  <2>1. limit \in Limits /\ tat = 0 /\ tries = << >> /\ DOMAIN tries = {}
    BY DEF RateInit
  <2> QED
    BY <2>1 DEF RateInv, RateType, BurstInv, BusyInv, GapInv, BelowLimitAdmitted
<1>2. RateInv /\ [RateNext]_rateVars => RateInv'
  <2>1. ASSUME RateInv, RateNext PROVE RateInv'
    <3>1. PICK t, passed, lost : NextTry(t, passed, lost)
      BY <2>1, RateSteps DEF RateInv
    <3>2. GapInv'
      BY <2>1, <3>1, GapSteps
    <3>3. RateType'
      BY <2>1, RateTypeKept DEF RateInv
    <3> QED
      BY <2>1, <3>2, <3>3, BurstKept, BusyKept, AdmittedKept DEF RateInv
  <2>2. ASSUME RateInv, UNCHANGED rateVars PROVE RateInv'
    BY <2>2 DEF RateInv, RateType, BurstInv, BusyInv, GapInv, BelowLimitAdmitted, rateVars,
                Bounded, Since, From, Answered, Passed, Lost, Until, BelowSoFar, Room, Upto
  <2> QED
    BY <2>1, <2>2
<1> QED
  BY <1>1, <1>2, PTL DEF RateSpec

LEMMA BurstsAreBounded == RateInv => LimitIsBounded
<1> SUFFICES ASSUME RateInv, NEW i \in Passed
             PROVE  Cardinality(Within(Passed, i)) <= 2 * (limit.rate - 1) + Cardinality(Lost)
  BY DEF LimitIsBounded
<1>1. /\ i \in DOMAIN tries /\ Len(tries) \in Nat /\ DOMAIN tries = 1..Len(tries)
      /\ limit.rate \in Nat
  <2>1. limit \in Limits /\ tries \in Seq(Tried)
    BY DEF RateInv, RateType
  <2> QED
    BY <2>1, LimitsType DEF Passed
<1>2. Cardinality(From(Answered, tries, limit.period, i)) <= 2 * (limit.rate - 1)
  BY <1>1 DEF RateInv, BurstInv, Bounded
<1> DEFINE F == From(Answered, tries, limit.period, i)
           W == Within(Passed, i)
<1>3. W \subseteq F \cup Lost
  BY DEF Within, From, Answered
<1>4. F \subseteq 1..Len(tries) /\ Lost \subseteq 1..Len(tries)
  BY <1>1 DEF From, Answered, Passed, Lost
<1>5. IsFiniteSet(1..Len(tries))
  BY <1>1, FS_Interval
<1> HIDE DEF F, W
<1>6. IsFiniteSet(F) /\ IsFiniteSet(Lost)
  BY <1>4, <1>5, FS_Subset
<1>7. IsFiniteSet(F \cup Lost) /\ Cardinality(F \cup Lost) <= Cardinality(F) + Cardinality(Lost)
  <2>1. /\ IsFiniteSet(F \cup Lost) /\ IsFiniteSet(F \cap Lost)
        /\ Cardinality(F \cup Lost) = Cardinality(F) + Cardinality(Lost) - Cardinality(F \cap Lost)
    BY <1>6, FS_Union, FS_Intersection
  <2>2. Cardinality(F) \in Nat /\ Cardinality(Lost) \in Nat /\ Cardinality(F \cap Lost) \in Nat
    BY <1>6, <2>1, FS_CardinalityType
  <2> QED
    BY <2>1, <2>2
<1>8. Cardinality(W) <= Cardinality(F \cup Lost)
  BY <1>3, <1>7, FS_Subset
<1>9. IsFiniteSet(W)
  BY <1>3, <1>7, FS_Subset
<1>10. /\ Cardinality(F) \in Nat /\ Cardinality(Lost) \in Nat /\ Cardinality(W) \in Nat
       /\ Cardinality(F \cup Lost) \in Nat
  BY <1>6, <1>7, <1>9, FS_CardinalityType
<1> QED
  BY <1>1, <1>2, <1>7, <1>8, <1>10 DEF F, W

\* In no period are more than twice the count less two let through, whatever the count, the
\* interval and the pauses, and however many attempts are made.
THEOREM LimitsBound == RateSpec => []LimitIsBounded
BY RateInductive, BurstsAreBounded, PTL

\* Who stays below the count in every period is never refused.
THEOREM BelowLimitPasses == RateSpec => []BelowLimitAdmitted
<1>1. RateInv => BelowLimitAdmitted
  BY DEF RateInv
<1> QED
  BY <1>1, RateInductive, PTL
=============================================================================
