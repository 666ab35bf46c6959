----------------------------- MODULE RateLimit -----------------------------
(***************************************************************************)
(* Limiter.Allow over redis_rate, which keeps one time for a key: the      *)
(* theoretical arrival time (tat) of GCRA. An attempt the library allows   *)
(* moves it on by an emission interval, also when nothing remains after it *)
(* and Allow therefore refuses. Sign-ins (5 in 10 minutes), new passwords  *)
(* (5 in 60), chats (10 in one) and addresses (30 in 10 seconds) have keys.*)
(***************************************************************************)
EXTENDS Naturals, Sequences, FiniteSets

CONSTANTS
  Rates,     \* the counts limits are made with
  Interval,  \* the period divided by the count, in ticks of the clock
  Pauses,    \* between two attempts
  Tries      \* attempts at one key

ASSUME RateConstants ==
  Rates \subseteq Nat \ {0} /\ Interval \in Nat \ {0} /\ Pauses \subseteq Nat /\ Tries \in Nat

VARIABLES
  limit,  \* of the key
  tat,    \* what Redis holds for it
  tries   \* history: the attempts, when each was made and whether it got through

rateVars == <<limit, tat, tries>>

\* Mutant: the burst is not the count.
MaxRequestsTwice(count, period) == [rate |-> count, burst |-> 2 * count, period |-> period]

MaxRequestsInPeriod(count, period) == [rate |-> count, burst |-> count, period |-> period]

\* redis_rate's script: what remains at time t, and the new time, for a key that holds old.
Script(old, t, l) ==
  LET emission == l.period \div l.rate
      new      == (IF old > t THEN old ELSE t) + emission
      latest   == t + l.burst * emission
  IN IF new > latest THEN [tat |-> old, remaining |-> 0]
                     ELSE [tat |-> new, remaining |-> (latest - new) \div emission]

\* Mutant: an attempt is refused unless something remains beside the next one.
AllowSpare(old, t, l) == Script(old, t, l).remaining > 1

\* Allow: an attempt that leaves nothing is refused.
Allow(old, t, l) == Script(old, t, l).remaining > 0

-----------------------------------------------------------------------------
Limits == {MaxRequestsInPeriod(n, n * Interval) : n \in Rates}

RateInit == limit \in Limits /\ tat = 0 /\ tries = << >>

\* When the next attempt may be made.
Moments == IF tries = << >> THEN {0} ELSE {tries[Len(tries)].at + pause : pause \in Pauses}

Noted(t, passed, lost) ==
  /\ Len(tries) < Tries
  /\ tries' = Append(tries, [at |-> t, passed |-> passed, lost |-> lost])

\* Redis answers, and the request goes on or is refused.
Attempt == \E t \in Moments :
  /\ tat' = Script(tat, t, limit).tat
  /\ Noted(t, Allow(tat, t, limit), FALSE)
  /\ UNCHANGED limit

\* An error of Redis does not stop the chat handler; the other handlers refuse.
RateLimit == \E t \in Moments :
  /\ \A i \in DOMAIN tries : ~tries[i].lost
  /\ Noted(t, TRUE, TRUE)
  /\ UNCHANGED <<limit, tat>>

RateNext == Attempt \/ RateLimit
RateSpec == RateInit /\ [][RateNext]_rateVars

-----------------------------------------------------------------------------
\* Properties

Passed == {i \in DOMAIN tries : tries[i].passed}
Lost   == {i \in DOMAIN tries : tries[i].lost}

\* The attempts of S in the period that begins with attempt i, or ends with it.
Within(S, i) == {j \in S : j >= i /\ tries[j].at < tries[i].at + limit.period}
Until(S, i)  == {j \in S : j <= i /\ tries[j].at + limit.period > tries[i].at}

\* In no period are more than twice the count less two let through: a burst of one below the
\* count, and one at each interval after it; chats beside them only by an error.
\* (limiter.go:20-45, chat.go:138-148)
LimitIsBounded ==
  \A i \in Passed :
    Cardinality(Within(Passed, i)) <= 2 * (limit.rate - 1) + Cardinality(Lost)

\* A caller who has not tried as often as the count in any period so far is admitted.
\* (limiter.go:40: the attempt that reaches the count is not)
BelowLimitAdmitted ==
  \A i \in DOMAIN tries :
    (\A j \in 1..i : Cardinality(Until(DOMAIN tries, j)) < limit.rate) => i \in Passed
=============================================================================
