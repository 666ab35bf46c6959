----------------------------- MODULE SendLimits -----------------------------
(***************************************************************************)
(* How often a verification code is sent to one phone number or mail       *)
(* address.  sendSMSCode, and its likes, read two counters of Redis before *)
(* they send and increase them after, with an expiry set by a command of   *)
(* its own.  Mail has the minute's counter only.  What is sent is Codes'.  *)
(***************************************************************************)
EXTENDS Naturals, FiniteSets

CONSTANTS
  Sends,      \* requests for a code
  Windows,    \* {"minute", "day"} for text messages, {"minute"} for mail
  Minute,     \* the minute the code's comments speak of
  MinuteTTL,  \* how long its counter lives: 50 seconds in the code
  DayTTL,     \* 24 hours
  DayMax,     \* 5
  MaxTime,    \* the clock stops here
  MaxFaults,  \* failing commands and dying processes during the run
  Never       \* the expiry of a key without one

ASSUME LimitConstants ==
  /\ Minute \in Nat /\ MinuteTTL \in Nat /\ DayTTL \in Nat /\ DayMax \in Nat
  /\ MaxTime \in Nat /\ MaxFaults \in Nat
  /\ "minute" \in Windows /\ Windows \subseteq {"minute", "day"}
  /\ Never \notin Nat /\ IsFiniteSet(Sends)

VARIABLES
  now,
  counter,   \* the keys of OperationCount: a number and its expiry
  pc,        \* where the send is
  sent,      \* sends whose message was queued
  sentAt,    \* and when
  counted,   \* sends that ended with both commands of every counter done
  slipped,   \* sends one of whose commands failed, or lost its key: expired, or replaced
  before,    \* history: what was counted when the send began
  lookedAt,  \* history: when it read its last counter
  faults

history == <<before, lookedAt>>
vars == <<now, counter, pc, sent, sentAt, counted, slipped, history, faults>>

Counter == [n : Nat, exp : Nat \cup {Never}]
Absent  == [n |-> 0, exp |-> Never]
Steps   == {"idle", "day", "send", "minuteIncr", "minuteExpire",
            "dayIncr", "dayExpire", "done", "refused", "failed"}

TypeOK ==
  /\ now \in 0..MaxTime
  /\ counter \in [Windows -> Counter]
  /\ \A w \in Windows : counter[w].n <= Cardinality(sent)
  /\ pc \in [Sends -> Steps]
  /\ sent \subseteq Sends /\ sentAt \in [Sends -> 0..MaxTime]
  /\ counted \subseteq sent /\ slipped \subseteq sent
  /\ before \in [Sends -> SUBSET Sends] /\ lookedAt \in [Sends -> 0..MaxTime]
  /\ faults \in 0..MaxFaults

Init ==
  /\ now = 0 /\ counter = [w \in Windows |-> Absent]
  /\ pc = [s \in Sends |-> "idle"]
  /\ sent = {} /\ sentAt = [s \in Sends |-> 0]
  /\ counted = {} /\ slipped = {}
  /\ before = [s \in Sends |-> {}] /\ lookedAt = [s \in Sends |-> 0]
  /\ faults = 0

Goes(s, from, to) == pc[s] = from /\ pc' = [pc EXCEPT ![s] = to]
Fault == faults < MaxFaults /\ faults' = faults + 1

----------------------------------------------------------------------------
\* rate.Limiter's counters

TTL(w)   == IF w = "minute" THEN MinuteTTL ELSE DayTTL
Limit(w) == IF w = "minute" THEN 1 ELSE DayMax
Live(w)  == counter[w].n > 0 /\ (counter[w].exp # Never => now < counter[w].exp)

\* GET; a missing key counts as 0.
OperationCount(w) == IF Live(w) THEN counter[w].n ELSE 0

\* INCR keeps the expiry of a key, and creates a missing one without expiry.
Incr(w) == counter' =
  IF Live(w) THEN [counter EXCEPT ![w].n = @ + 1]
             ELSE [counter EXCEPT ![w] = [n |-> 1, exp |-> Never]]

\* Mutants: the expiry comes a tick early, or is set by repeated sends only.
ExpireShort(w) == counter' =
  IF Live(w) THEN [counter EXCEPT ![w].exp = now + TTL(w) - 1] ELSE counter
ExpireRepeated(w) == counter' =
  IF Live(w) /\ counter[w].n > 1 THEN [counter EXCEPT ![w].exp = now + TTL(w)] ELSE counter

\* EXPIRE, renewed by every send.
Expire(w) == counter' =
  IF Live(w) THEN [counter EXCEPT ![w].exp = now + TTL(w)] ELSE counter

----------------------------------------------------------------------------
\* sendSMSCode, SendEmailCode, SignUpSendEmailCode, SendResetPasswordSMSCode

\* Mutant: one more is let through.
PassesOneMore(s, w, from, to) ==
  /\ lookedAt' = [lookedAt EXCEPT ![s] = now]
  /\ OperationCount(w) <= Limit(w) /\ Goes(s, from, to)
  /\ UNCHANGED <<now, counter, sent, sentAt, counted, slipped, faults>>

\* A window lets the send through or refuses it; an error ends it.
Passes(s, w, from, to) ==
  /\ lookedAt' = [lookedAt EXCEPT ![s] = now]
  /\ \/ OperationCount(w) < Limit(w) /\ Goes(s, from, to) /\ UNCHANGED faults
     \/ /\ OperationCount(w) >= Limit(w) /\ Goes(s, from, "refused")
        /\ UNCHANGED faults
     \/ Goes(s, from, "failed") /\ Fault
  /\ UNCHANGED <<now, counter, sent, sentAt, counted, slipped>>

CountMinute(s) ==
  /\ Passes(s, "minute", "idle", IF "day" \in Windows THEN "day" ELSE "send")
  /\ before' = [before EXCEPT ![s] = counted]
CountDay(s) == Passes(s, "day", "day", "send") /\ UNCHANGED before

\* The callback refuses the phone, or the message is queued; a failure after
\* that (the task's row, the code) ends the request, and nothing is counted.
Queue(s) ==
  /\ \/ Goes(s, "send", "refused") /\ UNCHANGED <<sent, sentAt, faults>>
     \/ Goes(s, "send", "failed") /\ Fault /\ UNCHANGED <<sent, sentAt>>
     \/ /\ \/ Goes(s, "send", "minuteIncr") /\ UNCHANGED faults
           \/ Goes(s, "send", "failed") /\ Fault
        /\ sent' = sent \cup {s} /\ sentAt' = [sentAt EXCEPT ![s] = now]
  /\ UNCHANGED <<now, counter, counted, slipped, history>>

\* OperationIncr; an error of either command is logged, and ends the method.
\* The key may expire between them: EXPIRE then does nothing, and says so in
\* the result the code drops, or renews the key of a later INCR.
OperationIncr(s, w, incr, expire, to) ==
  /\ \/ /\ Goes(s, incr, expire) /\ Incr(w)
        /\ slipped' = slipped \cup {q \in Sends : ~Live(w) /\ pc[q] = expire}
        /\ UNCHANGED faults
     \/ /\ Goes(s, expire, to) /\ Expire(w)
        /\ slipped' = IF Live(w) THEN slipped ELSE slipped \cup {s}
        /\ UNCHANGED faults
     \/ /\ Goes(s, incr, to) \/ Goes(s, expire, to)
        /\ Fault /\ slipped' = slipped \cup {s} /\ UNCHANGED counter
  /\ counted' = counted \cup {q \in {s} \ slipped' : pc'[q] = "done"}
  /\ UNCHANGED <<now, sent, sentAt, history>>

IncrMinute(s) == OperationIncr(s, "minute", "minuteIncr", "minuteExpire",
                               IF "day" \in Windows THEN "dayIncr" ELSE "done")

IncrDay(s) == OperationIncr(s, "day", "dayIncr", "dayExpire", "done")

Running == {"day", "send", "minuteIncr", "minuteExpire", "dayIncr", "dayExpire"}

\* The process dies.
Die(s) ==
  /\ \E p \in Running : Goes(s, p, "failed")
  /\ Fault
  /\ UNCHANGED <<now, counter, sent, sentAt, counted, slipped, history>>

Tick ==
  /\ now < MaxTime /\ now' = now + 1
  /\ UNCHANGED <<counter, pc, sent, sentAt, counted, slipped, history, faults>>

Step(s) == CountMinute(s) \/ CountDay(s) \/ Queue(s) \/ IncrMinute(s) \/ IncrDay(s)
Next == Tick \/ \E s \in Sends : Step(s) \/ Die(s)
Spec == Init /\ [][Next]_vars

----------------------------------------------------------------------------
\* Properties

\* A send that began after another was counted in full is let through the
\* minute's window no sooner than the counter's lifetime after it: only sends
\* that overlap, or lose a command, come closer. The lifetime is 50 seconds, ten
\* short of the minute that OneAMinute asks for.
CloseSendsOverlap == \A s \in sent : \A q \in before[s] :
  lookedAt[s] >= sentAt[q] + MinuteTTL

\* The comments above the two readings of the counter: each user is sent one
\* text message, and one mail, a minute. Not even sends that do not overlap and
\* are counted in full keep to it: their counter is gone ten seconds early.
OneAMinute == \A s \in sent : \A q \in before[s] : sentAt[s] >= sentAt[q] + Minute

\* Of the sends counted in full before a send began, fewer than the day's limit
\* fall into the day that ends with its own look at the counter.
DailyLimitHolds == "day" \in Windows => \A s \in sent :
  Cardinality({q \in before[s] : lookedAt[s] < sentAt[q] + DayTTL}) < DayMax

\* A counter without expiry would block the phone for good: there is one only
\* between INCR and EXPIRE, unless a command failed or a process died.
CountersExpire == \A w \in Windows :
  counter[w].n > 0 /\ counter[w].exp = Never =>
    \/ faults > 0
    \/ \E s \in Sends : pc[s] = IF w = "minute" THEN "minuteExpire" ELSE "dayExpire"
=============================================================================
