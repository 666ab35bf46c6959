---------------------------- MODULE FrozenQuota ----------------------------
(***************************************************************************)
(* The coins a user's running requests hold back: FreezeUserQuota adds to  *)
(* a counter in Redis and renews its expiry, UnfreezeUserQuota subtracts   *)
(* and deletes a counter that reached zero.  Each Redis command is atomic, *)
(* a method is not.                                                        *)
(***************************************************************************)
EXTENDS Integers, FiniteSets, FiniteSetsExt

CONSTANTS
  Holders,     \* requests that freeze an amount and unfreeze it later
  Asked,       \* what they ask for; not positive means nothing
  MaxFailures  \* commands that fail, and requests that die, during the run

ASSUME FrozenConstants ==
  /\ Asked \subseteq Int /\ MaxFailures \in Nat
  /\ IsFiniteSet(Holders)

VARIABLES
  exists, frozen, \* the key user:<id>:quota:frozen and its value
  ttl,            \* it has an expiry
  stage,          \* idle, expire, held, drop (DecrBy gave 0 or less), done, dead
  share,          \* what the request has frozen and not subtracted
  failures

counterVars == <<exists, frozen, ttl, stage, share, failures>>

CounterTypeOK ==
  /\ exists \in BOOLEAN /\ ttl \in BOOLEAN /\ (ttl => exists)
  /\ frozen \in Int /\ (~exists => frozen = 0)
  /\ stage \in [Holders -> {"idle", "expire", "held", "drop", "done", "dead"}]
  /\ share \in [Holders -> Nat]
  /\ failures \in 0..MaxFailures

CounterInit ==
  /\ exists = FALSE /\ frozen = 0 /\ ttl = FALSE
  /\ stage = [h \in Holders |-> "idle"]
  /\ share = [h \in Holders |-> 0]
  /\ failures = 0

Moves(h, from, to) == stage[h] = from /\ stage' = [stage EXCEPT ![h] = to]
Fails == failures < MaxFailures /\ failures' = failures + 1

\* FreezeUserQuota: INCRBY creates a missing key, without expiry.  An amount
\* that is not positive is neither frozen nor given back.
FreezeUserQuota(h) ==
  /\ Moves(h, "idle", "expire")
  /\ \E n \in Asked : /\ n > 0
                      /\ share' = [share EXCEPT ![h] = n]
                      /\ frozen' = frozen + n
  /\ exists' = TRUE
  /\ UNCHANGED <<ttl, failures>>

\* Mutant: the error of EXPIRE is returned, and the caller holds nothing.
RenewOrReturn(h) ==
  \/ /\ Moves(h, "expire", "held") /\ ttl' = exists
     /\ UNCHANGED <<exists, frozen, share, failures>>
  \/ /\ Moves(h, "expire", "done") /\ Fails
     /\ share' = [share EXCEPT ![h] = 0]
     /\ UNCHANGED <<exists, frozen, ttl>>

\* ... EXPIRE, five minutes; a failure is only logged.
RenewExpiry(h) ==
  /\ Moves(h, "expire", "held")
  /\ \/ ttl' = exists /\ UNCHANGED failures
     \/ Fails /\ UNCHANGED ttl
  /\ UNCHANGED <<exists, frozen, share>>

Subtracts(h) ==
  /\ frozen' = frozen - share[h]
  /\ exists' = TRUE
  /\ share' = [share EXCEPT ![h] = 0]
  /\ UNCHANGED <<ttl, failures>>

\* Mutant: the key is deleted at zero only.
UnfreezeAtZero(h) ==
  Subtracts(h) /\ Moves(h, "held", IF frozen = share[h] THEN "drop" ELSE "done")

\* UnfreezeUserQuota: DECRBY, which creates a missing key as well.
UnfreezeUserQuota(h) ==
  Subtracts(h) /\ Moves(h, "held", IF frozen <= share[h] THEN "drop" ELSE "done")

\* ... DEL, if the value DECRBY returned was not positive; by now the counter
\* may be another one.
DropCounter(h) ==
  /\ Moves(h, "drop", "done")
  /\ \/ /\ exists' = FALSE /\ frozen' = 0 /\ ttl' = FALSE
        /\ UNCHANGED failures
     \/ Fails /\ UNCHANGED <<exists, frozen, ttl>>
  /\ UNCHANGED share

\* Five minutes pass without a renewal.
ExpireCounter ==
  /\ exists /\ ttl
  /\ exists' = FALSE /\ frozen' = 0 /\ ttl' = FALSE
  /\ UNCHANGED <<stage, share, failures>>

\* The process dies, or the call to unfreeze fails.
Die(h) ==
  /\ stage[h] \in {"expire", "held", "drop"}
  /\ stage' = [stage EXCEPT ![h] = "dead"]
  /\ Fails
  /\ UNCHANGED <<exists, frozen, ttl, share>>

\* UserQuota's answer: a missing key is 0, and so is one that cannot be read.
FrozenShown == {0, IF exists THEN frozen ELSE 0}

CounterStep(h) == RenewExpiry(h) \/ UnfreezeUserQuota(h) \/ DropCounter(h)
CounterNext == ExpireCounter \/ \E h \in Holders : FreezeUserQuota(h) \/ CounterStep(h) \/ Die(h)
CounterSpec == CounterInit /\ [][CounterNext]_counterVars

----------------------------------------------------------------------------
\* Properties

\* UserQuota never reports more coins as frozen than requests hold, whatever
\* expires, fails or overlaps.
FrozenCovered == \A n \in FrozenShown : n <= SumFunctionOnSet(share, Holders)

\* A counter that no expiry will clear is one some request is about to renew or
\* delete, unless a command failed or a request died.
NeverStuck == exists /\ ~ttl => failures > 0 \/ \E h \in Holders : stage[h] \in {"expire", "drop"}

=============================================================================
