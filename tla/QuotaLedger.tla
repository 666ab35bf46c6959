---------------------------- MODULE QuotaLedger ----------------------------
(***************************************************************************)
(* The coins of one user: rows of quota with a remainder and an expiry,    *)
(* and calls of QuotaConsume that spend them in one transaction each.      *)
(*                                                                         *)
(* MySQL at REPEATABLE READ: the SELECT of a transaction answers from a    *)
(* snapshot, an UPDATE locks the row until the transaction ends and works  *)
(* on its latest committed value, other transactions see a write after the *)
(* commit.                                                                 *)
(***************************************************************************)
EXTENDS Naturals, FiniteSets, FiniteSetsExt

CONSTANTS
  Calls,     \* calls of QuotaConsume, each made at most once
  MaxRows,   \* rows of quota; their ids are given in order
  Amounts,   \* coins of a row or of a call
  Periods,   \* how long the coins of a row last
  MaxTime,   \* the clock stops here
  MaxFaults  \* statements that fail during the run

Rows == 1..MaxRows

ASSUME LedgerConstants ==
  /\ MaxRows \in Nat /\ MaxTime \in Nat /\ MaxFaults \in Nat
  /\ Amounts \subseteq Nat \ {0} /\ Periods \subseteq Nat \ {0}
  /\ IsFiniteSet(Calls)

VARIABLES
  quota, rest, ends,  \* the table; a row that was not inserted has quota 0
  now,
  pc,      \* idle, spend, commit, record, done, failed
  used,    \* the argument of the call
  toVisit, \* rows the SELECT returned and the loop has not reached
  snap,    \* quota.Rest of the rows as the SELECT returned them
  left,    \* usedVar
  parts,   \* relatedQuotaIds
  debt,    \* debt
  locks,   \* rows the open transaction updated, and holds until it ends
  draft,   \* their new remainders
  owed,    \* rows of the debt table, by call
  usage,   \* calls with a quota_usage row
  faults,
  overlapped \* history: calls that were in a transaction at the same time as another

table   == <<quota, rest, ends>>
locals  == <<used, toVisit, snap, left, parts, debt>>
writes  == <<locks, draft>>
vars    == <<table, now, pc, locals, writes, owed, usage, faults, overlapped>>

Inserted == {q \in Rows : quota[q] > 0}
Open(c)  == pc[c] \in {"spend", "commit"}
Locked(q) == \E d \in Calls : q \in locks[d]

TypeOK ==
  /\ quota \in [Rows -> Nat] /\ rest \in [Rows -> Nat] /\ ends \in [Rows -> Nat]
  /\ now \in 0..MaxTime
  /\ pc \in [Calls -> {"idle", "spend", "commit", "record", "done", "failed"}]
  /\ used \in [Calls -> Nat] /\ left \in [Calls -> Nat] /\ debt \in [Calls -> Nat]
  /\ snap \in [Calls -> [Rows -> Nat]] /\ parts \in [Calls -> [Rows -> Nat]]
  /\ toVisit \in [Calls -> SUBSET Rows]
  /\ locks \in [Calls -> SUBSET Rows] /\ draft \in [Calls -> [Rows -> Nat]]
  /\ owed \in [Calls -> Nat] /\ usage \subseteq Calls /\ overlapped \subseteq Calls
  /\ faults \in 0..MaxFaults

Zeros == [q \in Rows |-> 0]

Init ==
  /\ quota = Zeros /\ rest = Zeros /\ ends = Zeros
  /\ now = 0
  /\ pc = [c \in Calls |-> "idle"]
  /\ used = [c \in Calls |-> 0]
  /\ toVisit = [c \in Calls |-> {}]
  /\ snap = [c \in Calls |-> Zeros]
  /\ left = [c \in Calls |-> 0]
  /\ parts = [c \in Calls |-> Zeros]
  /\ debt = [c \in Calls |-> 0]
  /\ locks = [c \in Calls |-> {}]
  /\ draft = [c \in Calls |-> Zeros]
  /\ owed = [c \in Calls |-> 0]
  /\ usage = {} /\ faults = 0 /\ overlapped = {}

----------------------------------------------------------------------------
\* AddUserQuota: one autocommitted INSERT.
AddUserQuota ==
  \E q \in Rows, n \in Amounts, p \in Periods :
    /\ q \notin Inserted /\ 1..(q - 1) \subseteq Inserted
    /\ quota' = [quota EXCEPT ![q] = n]
    /\ rest' = [rest EXCEPT ![q] = n]
    /\ ends' = [ends EXCEPT ![q] = now + p]
    /\ UNCHANGED <<now, pc, locals, writes, owed, usage, faults, overlapped>>

Tick ==
  /\ now < MaxTime
  /\ now' = now + 1
  /\ UNCHANGED <<table, pc, locals, writes, owed, usage, faults, overlapped>>

\* The rows QuotaConsume may spend.
Spendable == {q \in Inserted : rest[q] > 0 /\ ends[q] > now}

\* ORDER BY period_end_at; the index gives rows that expire together by id.
Before(p, q) == ends[p] < ends[q] \/ (ends[p] = ends[q] /\ p < q)

\* The transaction begins and selects the rows.
Select(c) ==
  /\ pc[c] = "idle"
  /\ pc' = [pc EXCEPT ![c] = "spend"]
  /\ \E n \in Amounts : /\ used' = [used EXCEPT ![c] = n]
                        /\ left' = [left EXCEPT ![c] = n]
  /\ toVisit' = [toVisit EXCEPT ![c] = Spendable]
  /\ snap' = [snap EXCEPT ![c] = [q \in Rows |-> IF q \in Spendable THEN rest[q] ELSE 0]]
  /\ overlapped' = LET others == {d \in Calls : Open(d)}
                   IN IF others = {} THEN overlapped ELSE overlapped \cup others \cup {c}
  /\ UNCHANGED <<table, now, parts, debt, writes, owed, usage, faults>>

\* A rollback drops the locks and the writes.
RollsBack(c) ==
  /\ pc' = [pc EXCEPT ![c] = "failed"]
  /\ locks' = [locks EXCEPT ![c] = {}]
  /\ draft' = [draft EXCEPT ![c] = Zeros]
  /\ UNCHANGED locals

\* Mutant: the SELECT has no ORDER BY.
VisitsAny(c, q) ==
  /\ pc[c] = "spend" /\ q \in toVisit[c]
  /\ ~Locked(q)
  /\ UNCHANGED <<table, now, used, snap, debt, owed, usage, faults, overlapped>>

\* The loop reaches row q, and its UPDATE gets the lock.
Visits(c, q) ==
  /\ pc[c] = "spend" /\ q \in toVisit[c]
  /\ \A p \in toVisit[c] \ {q} : Before(q, p)
  /\ ~Locked(q)
  /\ UNCHANGED <<table, now, used, snap, debt, owed, usage, faults, overlapped>>

Writes(c, q, n) ==
  /\ locks' = [locks EXCEPT ![c] = @ \cup {q}]
  /\ draft' = [draft EXCEPT ![c][q] = n]

\* Mutant: rest is a signed column, and its value may pass below zero.
SpendPartSigned(c) == \E q \in Rows :
  /\ Visits(c, q) /\ snap[c][q] >= left[c]
  /\ parts' = [parts EXCEPT ![c][q] = left[c]]
  /\ Writes(c, q, rest[q] - left[c])
  /\ pc' = [pc EXCEPT ![c] = "commit"]
  /\ UNCHANGED <<left, toVisit>>

\* The row had enough when it was read: rest = rest - usedVar, and the loop
\* ends.  The column is unsigned, so the statement fails if rest is smaller now.
SpendPart(c) == \E q \in Rows :
  /\ Visits(c, q) /\ snap[c][q] >= left[c]
  /\ IF rest[q] >= left[c]
     THEN /\ parts' = [parts EXCEPT ![c][q] = left[c]]
          /\ Writes(c, q, rest[q] - left[c])
          /\ pc' = [pc EXCEPT ![c] = "commit"]
          /\ UNCHANGED <<left, toVisit>>
     ELSE RollsBack(c)

\* The row had less than what is left: rest = 0, whatever it holds now, and
\* the loop goes on with the remainder the SELECT saw taken off.
SpendAll(c) == \E q \in Rows :
  /\ Visits(c, q) /\ snap[c][q] < left[c]
  /\ parts' = [parts EXCEPT ![c][q] = snap[c][q]]
  /\ Writes(c, q, 0)
  /\ left' = [left EXCEPT ![c] = @ - snap[c][q]]
  /\ toVisit' = [toVisit EXCEPT ![c] = @ \ {q}]
  /\ UNCHANGED pc

\* Mutant: the debt is the whole amount.
OweAll(c) ==
  /\ pc[c] = "spend" /\ toVisit[c] = {}
  /\ pc' = [pc EXCEPT ![c] = "commit"]
  /\ debt' = [debt EXCEPT ![c] = used[c]]
  /\ UNCHANGED <<table, now, used, toVisit, snap, left, parts, writes, owed, usage, faults,
                 overlapped>>

\* No row is left: what could not be paid becomes a row of debt.
Owe(c) ==
  /\ pc[c] = "spend" /\ toVisit[c] = {}
  /\ pc' = [pc EXCEPT ![c] = "commit"]
  /\ debt' = [debt EXCEPT ![c] = left[c]]
  /\ UNCHANGED <<table, now, used, toVisit, snap, left, parts, writes, owed, usage, faults,
                 overlapped>>

Written(c) == [q \in Rows |-> IF q \in locks[c] THEN draft[c][q] ELSE rest[q]]

Commit(c) ==
  /\ pc[c] = "commit"
  /\ pc' = [pc EXCEPT ![c] = "record"]
  /\ rest' = Written(c)
  /\ locks' = [locks EXCEPT ![c] = {}]
  /\ draft' = [draft EXCEPT ![c] = Zeros]
  /\ owed' = [owed EXCEPT ![c] = debt[c]]
  /\ UNCHANGED <<quota, ends, now, locals, usage, faults, overlapped>>

\* Mutant: the updates do not run in the transaction.
FailKeeps(c) ==
  /\ Open(c)
  /\ faults < MaxFaults /\ faults' = faults + 1
  /\ rest' = Written(c)
  /\ RollsBack(c)
  /\ UNCHANGED <<quota, ends, now, owed, usage, overlapped>>

\* A statement or the commit fails, or the process dies.
Fail(c) ==
  /\ Open(c)
  /\ faults < MaxFaults /\ faults' = faults + 1
  /\ RollsBack(c)
  /\ UNCHANGED <<table, now, owed, usage, overlapped>>

\* The quota_usage row is saved after the commit; a failure is only logged.
Record(c) ==
  /\ pc[c] = "record"
  /\ pc' = [pc EXCEPT ![c] = "done"]
  /\ \/ usage' = usage \cup {c} /\ UNCHANGED faults
     \/ faults < MaxFaults /\ faults' = faults + 1 /\ UNCHANGED usage
  /\ UNCHANGED <<table, now, locals, writes, owed, overlapped>>

QuotaConsume(c) ==
  Select(c) \/ SpendPart(c) \/ SpendAll(c) \/ Owe(c) \/ Commit(c) \/ Record(c) \/ Fail(c)

Next == AddUserQuota \/ Tick \/ \E c \in Calls : QuotaConsume(c)

Spec == Init /\ [][Next]_vars

\* A call that has begun goes on; the database answers every statement.
Fairness == \A c \in Calls :
  WF_vars(SpendPart(c) \/ SpendAll(c) \/ Owe(c) \/ Commit(c) \/ Record(c))
FairSpec == Spec /\ Fairness

-----------------------------------------------------------------------------
\* What the user is shown.

RestOf(S) == SumFunctionOnSet(rest, S)

\* GetUserQuota: the sums over the rows that have not ended.
GetUserQuota ==
  LET rows  == {q \in Inserted : ends[q] > now}
      coins == SumFunctionOnSet(quota, rows)
  IN [quota |-> coins, rest |-> RestOf(rows), used |-> coins - RestOf(rows)]

\* GetUserQuotaDetails, by id: the newest rows, a page of them, none that ended a
\* month ago.  A row that ends this very moment is not marked as expired.
GetUserQuotaDetails(page, month) ==
  [q \in {p \in Inserted : /\ ends[p] + month > now
                           /\ Cardinality({o \in Inserted : o > p}) < page}
     |-> [rest |-> rest[q], expired |-> ends[q] < now]]

\* UserQuota's total: what remains in the rows of the page.
UserQuota(page, month) ==
  LET details == GetUserQuotaDetails(page, month)
      counted == {q \in DOMAIN details : ~details[q].expired /\ details[q].rest > 0}
  IN SumFunctionOnSet([q \in counted |-> details[q].rest], counted)

----------------------------------------------------------------------------
\* Properties

Committed == {c \in Calls : pc[c] \in {"record", "done"}}
Used    == SumFunctionOnSet(used, Committed)
Owed    == SumFunctionOnSet(owed, Calls)
Charged == SumFunctionOnSet([q \in Rows |-> quota[q] - rest[q]], Rows)

\* However its calls overlap, a user is never charged more than the calls used:
\* an UPDATE works on a value its transaction has not read.
NeverOvercharged == Charged + Owed <= Used

\* ... and exactly that as long as no two transactions overlapped: failed and
\* rolled back calls leave nothing behind, coins or debt.
ChargedExactly == overlapped = {} => Charged + Owed = Used

\* The coins shown are those a call may spend: the summary counts just the rows
\* QuotaConsume selects, the list of rows adds what ends this very moment and
\* leaves out what its page leaves out, and no one is shown a negative use.  A call
\* owes what the summary it began with did not hold.  (quota.go:75-135, 161-206)
ShownIsSpendable ==
  /\ GetUserQuota.rest = RestOf(Spendable)
  /\ GetUserQuota.used >= 0
  /\ \A page \in 0..MaxRows, month \in 1..(MaxTime + 1) :
       UserQuota(page, month) =
         RestOf({q \in Inserted : ends[q] >= now /\ Cardinality(Inserted) - q < page})
  /\ \A c \in Calls : pc[c] = "commit" =>
       LET shown == SumFunctionOnSet(snap[c], Rows)
       IN debt[c] = IF used[c] > shown THEN used[c] - shown ELSE 0

\* A commit that touches a row leaves nothing in the rows it read that expire
\* earlier, and one that owes leaves nothing in any row it read.
SpendsInOrder ==
  [][\A c \in Calls : pc[c] = "commit" /\ pc'[c] = "record" =>
       \A p \in Rows :
         /\ snap[c][p] > 0
         /\ owed'[c] > 0 \/ \E q \in locks[c] : Before(p, q)
         => rest'[p] = 0]_vars

\* Every call returns: rows are locked in the order of the SELECT, so no two
\* calls wait for each other.
CallsReturn == \A c \in Calls : pc[c] = "spend" ~> pc[c] \in {"done", "failed"}

\* migrate/data/20240221.go:79 "the debt the quota did not cover".
DebtIsUncovered == Owed = Used - Charged
=============================================================================
