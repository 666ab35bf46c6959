------------------------- MODULE QuotaLedger_proofs -------------------------
(***************************************************************************)
(* For any calls, rows, amounts and periods: remainders never pass below   *)
(* zero, the coins that expire first are spent first, nobody is charged    *)
(* more than was used, and the coins shown are those that can be spent.    *)
(* All rest on the row locks: an inserted row has one writer at a time.    *)
(* Then the counter of frozen coins, for any number of requests, and the   *)
(* context that is sent to a model and billed, for any conversation: what  *)
(* they have in common is the sums.                                        *)
(***************************************************************************)
EXTENDS QuotaLedger, FrozenQuota, ContextWindow, Integers, FiniteSetTheorems, SequenceTheorems,
        WellFoundedInduction, TLAPS

(***************************************************************************)
(* What the proofs need to know of SumFunctionOnSet, SQL's SUM over the    *)
(* rows of a finite set, and the loops of token.go.  Induction over a      *)
(* finite set comes from the fact that its subsets are well-founded: a set *)
(* of subsets has a minimal one.                                           *)
(***************************************************************************)

LEMMA MinimalSubset ==
  ASSUME NEW S, IsFiniteSet(S), NEW T \in SUBSET SUBSET S, T # {}
  PROVE  \E m \in T : \A x \in T : x \subseteq m => x = m
<1>1. IsWellFoundedOn(StrictSubsetOrdering(S), FiniteSubsetsOf(S))
  BY FS_StrictSubsetOrderingWellFounded
<1>2. T \subseteq FiniteSubsetsOf(S)
  BY FS_Subset DEF FiniteSubsetsOf
<1>3. PICK m \in T : \A x \in T : ~(<<x, m>> \in StrictSubsetOrdering(S))
  BY <1>1, <1>2, WFMin
<1> QED BY <1>3 DEF StrictSubsetOrdering

\* What a set has whenever its proper subsets have it, every subset has.
LEMMA SubsetInduction ==
  ASSUME NEW S, IsFiniteSet(S), NEW B \in SUBSET SUBSET S,
         \A T \in SUBSET S : (\A U \in SUBSET T : U # T => U \in B) => T \in B
  PROVE  \A T \in SUBSET S : T \in B
<1> SUFFICES ASSUME (SUBSET S) \ B # {} PROVE FALSE
  OBVIOUS
<1>1. PICK bad \in SUBSET SUBSET S : bad = (SUBSET S) \ B
  OBVIOUS
<1>2. PICK m \in bad : \A x \in bad : x \subseteq m => x = m
  BY <1>1, MinimalSubset
<1> QED BY <1>1, <1>2

\* What the empty set has, and an added element keeps, the set has.
LEMMA ElementInduction ==
  ASSUME NEW S, IsFiniteSet(S), NEW B \in SUBSET SUBSET S, {} \in B,
         \A T \in SUBSET S : \A x \in T : T \ {x} \in B => T \in B
  PROVE  S \in B
<1>1. ASSUME NEW T \in SUBSET S, \A U \in SUBSET T : U # T => U \in B PROVE T \in B
  <2>1. ASSUME NEW x \in T PROVE T \in B
    <3>1. T \ {x} \in B
      BY <1>1, <2>1
    <3> QED BY <3>1
  <2> QED BY <2>1
<1>2. \A T \in SUBSET S : (\A U \in SUBSET T : U # T => U \in B) => T \in B
  BY <1>1
<1> QED BY <1>2, SubsetInduction

----------------------------------------------------------------------------
\* The equation behind the operator.

AnyOf(s) == CHOOSE x \in s : TRUE
SumBy(h, g, s) == IF s = {} THEN 0 ELSE g[AnyOf(s)] + h[s \ {AnyOf(s)}]
Unfolds(h, g, S) == h = [s \in SUBSET S |-> SumBy(h, g, s)]

LEMMA AnyIn == \A s : s # {} => AnyOf(s) \in s
BY DEF AnyOf

\* On the subsets they share, two solutions of the equation agree.
LEMMA UnfoldsOnce ==
  ASSUME NEW S, IsFiniteSet(S), NEW g, NEW T \in SUBSET S, NEW U \in SUBSET S,
         NEW h, NEW k, Unfolds(h, g, T), Unfolds(k, g, U)
  PROVE  \A s \in SUBSET (T \cap U) : h[s] = k[s]
<1> DEFINE B == {s \in SUBSET S : s \subseteq T \cap U => h[s] = k[s]}
<1>1. ASSUME NEW s \in SUBSET S, \A t \in SUBSET s : t # s => t \in B,
             s \subseteq T \cap U
      PROVE  h[s] = k[s]
  <2>1. h[s] = SumBy(h, g, s) /\ k[s] = SumBy(k, g, s)
    BY <1>1 DEF Unfolds
  <2>2. CASE s = {}
    BY <2>1, <2>2 DEF SumBy
  <2>3. CASE s # {}
    <3>1. s \ {AnyOf(s)} \in B /\ s \ {AnyOf(s)} \subseteq T \cap U
      BY <1>1, <2>3, AnyIn
    <3> QED BY <2>1, <2>3, <3>1 DEF SumBy
  <2> QED BY <2>2, <2>3
<1>2. \A s \in SUBSET S : (\A t \in SUBSET s : t # s => t \in B) => s \in B
  BY <1>1
<1>3. B \in SUBSET SUBSET S
  OBVIOUS
<1> HIDE DEF B
<1>4. \A s \in SUBSET S : s \in B
  BY <1>2, <1>3, SubsetInduction
<1> QED BY <1>4 DEF B

LEMMA UnfoldsExists ==
  ASSUME NEW S, IsFiniteSet(S), NEW g
  PROVE  \E h : Unfolds(h, g, S)
<1> DEFINE B == {T \in SUBSET S : \E h : Unfolds(h, g, T)}
<1>1. ASSUME NEW T \in SUBSET S, \A U \in SUBSET T : U # T => U \in B PROVE T \in B
  <2> DEFINE of(U) == CHOOSE h : Unfolds(h, g, U)
             v(s) == of(s)[s]
             h == [s \in SUBSET T |-> IF s = {} THEN 0 ELSE g[AnyOf(s)] + v(s \ {AnyOf(s)})]
  <2>1. \A U \in SUBSET T : U # T => Unfolds(of(U), g, U)
    BY <1>1
  <2>2. ASSUME NEW s \in SUBSET T, s # T PROVE v(s) = h[s]
    <3>1. v(s) = SumBy(of(s), g, s)
      BY <2>1, <2>2 DEF Unfolds
    <3>2. CASE s = {}
      BY <3>1, <3>2 DEF SumBy
    <3>3. CASE s # {}
      <4> DEFINE t == s \ {AnyOf(s)}
      <4>1. t \in SUBSET T /\ t # T /\ t \subseteq s
        BY <2>2, <3>3, AnyIn
      <4>2. of(s)[t] = of(t)[t]
        BY <2>1, <2>2, <4>1, UnfoldsOnce
      <4> QED BY <3>1, <3>3, <4>2 DEF SumBy
    <3> QED BY <3>2, <3>3
  <2> HIDE DEF v
  <2>3. \A s \in SUBSET T : s # {} => s \ {AnyOf(s)} \in SUBSET T /\ s \ {AnyOf(s)} # T
    BY AnyIn
  <2>4. \A s \in SUBSET T : h[s] = SumBy(h, g, s)
    BY <2>2, <2>3 DEF SumBy
  <2>5. Unfolds(h, g, T)
    BY <2>4 DEF Unfolds
  <2> QED BY <2>5
<1> HIDE DEF B
<1>2. B \in SUBSET SUBSET S
  BY DEF B
<1>3. \A T \in SUBSET S : (\A U \in SUBSET T : U # T => U \in B) => T \in B
  BY <1>1
<1>4. S \in B
  BY <1>2, <1>3, SubsetInduction
<1> QED BY <1>4 DEF B

LEMMA SumUnfolded ==
  ASSUME NEW S, IsFiniteSet(S), NEW g, NEW T \in SUBSET S, NEW h, Unfolds(h, g, S)
  PROVE  SumFunctionOnSet(g, T) = h[T]
<1>1. SumFunctionOnSet(g, T) = (CHOOSE k : Unfolds(k, g, T))[T]
  BY DEF SumFunctionOnSet, FoldFunctionOnSet, MapThenFoldSet, Unfolds, SumBy, AnyOf
<1>2. IsFiniteSet(T)
  BY FS_Subset
<1>3. Unfolds(CHOOSE k : Unfolds(k, g, T), g, T)
  BY <1>2, UnfoldsExists
<1> QED BY <1>1, <1>3, UnfoldsOnce

LEMMA SumStep ==
  ASSUME NEW S, IsFiniteSet(S), NEW g
  PROVE  SumFunctionOnSet(g, S) =
           IF S = {} THEN 0 ELSE g[AnyOf(S)] + SumFunctionOnSet(g, S \ {AnyOf(S)})
<1>1. PICK h : Unfolds(h, g, S)
  BY UnfoldsExists
<1>2. \A T \in SUBSET S : SumFunctionOnSet(g, T) = h[T]
  BY <1>1, SumUnfolded
<1>3. h[S] = SumBy(h, g, S)
  BY <1>1 DEF Unfolds
<1> QED BY <1>2, <1>3 DEF SumBy

----------------------------------------------------------------------------
\* What the sums of the specifications are reasoned about with.

LEMMA SumEmpty == \A g : SumFunctionOnSet(g, {}) = 0
BY SumStep, FS_EmptySet

LEMMA SumType ==
  ASSUME NEW S, IsFiniteSet(S), NEW g, \A x \in S : g[x] \in Int
  PROVE  SumFunctionOnSet(g, S) \in Int
<1> DEFINE B == {T \in SUBSET S : SumFunctionOnSet(g, T) \in Int}
<1>1. ASSUME NEW T \in SUBSET S, \A U \in SUBSET T : U # T => U \in B PROVE T \in B
  <2>1. IsFiniteSet(T)
    BY FS_Subset
  <2>2. CASE T = {}
    BY <2>2, SumEmpty
  <2>3. CASE T # {}
    <3>1. T \ {AnyOf(T)} \in B /\ AnyOf(T) \in S
      BY <1>1, <2>3, AnyIn
    <3>2. g[AnyOf(T)] \in Int /\ SumFunctionOnSet(g, T \ {AnyOf(T)}) \in Int
      BY <3>1
    <3>3. SumFunctionOnSet(g, T) = g[AnyOf(T)] + SumFunctionOnSet(g, T \ {AnyOf(T)})
      BY <2>1, <2>3, SumStep
    <3>4. SumFunctionOnSet(g, T) \in Int
      BY <3>2, <3>3
    <3> QED BY <3>4
  <2> QED BY <2>2, <2>3
<1> HIDE DEF B
<1>2. B \in SUBSET SUBSET S
  BY DEF B
<1>3. \A T \in SUBSET S : (\A U \in SUBSET T : U # T => U \in B) => T \in B
  BY <1>1
<1>4. S \in B
  BY <1>2, <1>3, SubsetInduction
<1> QED BY <1>4 DEF B

\* Any element can be taken out.
LEMMA SumWithout ==
  ASSUME NEW S, IsFiniteSet(S), NEW g, \A y \in S : g[y] \in Int, NEW x \in S
  PROVE  SumFunctionOnSet(g, S) = g[x] + SumFunctionOnSet(g, S \ {x})
<1> DEFINE B == {T \in SUBSET S :
                   \A y \in T : SumFunctionOnSet(g, T) = g[y] + SumFunctionOnSet(g, T \ {y})}
<1>1. ASSUME NEW T \in SUBSET S, \A U \in SUBSET T : U # T => U \in B,
             NEW y \in T
      PROVE  SumFunctionOnSet(g, T) = g[y] + SumFunctionOnSet(g, T \ {y})
  <2>1. \A U \in SUBSET T : IsFiniteSet(U)
    BY FS_Subset
  <2>2. AnyOf(T) \in T /\ SumFunctionOnSet(g, T) = g[AnyOf(T)] + SumFunctionOnSet(g, T \ {AnyOf(T)})
    BY <2>1, AnyIn, SumStep
  <2>3. PICK c \in T : SumFunctionOnSet(g, T) = g[c] + SumFunctionOnSet(g, T \ {c})
    BY <2>2
  <2>4. CASE y = c
    BY <2>3, <2>4
  <2>5. CASE y # c
    <3>1. SumFunctionOnSet(g, T \ {c}) = g[y] + SumFunctionOnSet(g, (T \ {c}) \ {y})
      <4>1. T \ {c} \in B /\ y \in T \ {c}
        BY <1>1, <2>5
      <4> QED BY <4>1
    <3>2. SumFunctionOnSet(g, T \ {y}) = g[c] + SumFunctionOnSet(g, (T \ {c}) \ {y})
      <4>1. T \ {y} \in B /\ c \in T \ {y} /\ (T \ {y}) \ {c} = (T \ {c}) \ {y}
        BY <1>1, <2>5
      <4> QED BY <4>1
    <3>3. SumFunctionOnSet(g, (T \ {c}) \ {y}) \in Int /\ g[c] \in Int /\ g[y] \in Int
      BY <2>1, SumType
    <3> HIDE DEF B
    <3> QED BY <2>3, <3>1, <3>2, <3>3
  <2> QED BY <2>4, <2>5
<1>2. \A T \in SUBSET S : (\A U \in SUBSET T : U # T => U \in B) => T \in B
  BY <1>1
<1>3. B \in SUBSET SUBSET S
  OBVIOUS
<1> HIDE DEF B
<1>4. S \in B
  BY <1>2, <1>3, SubsetInduction
<1> QED BY <1>4 DEF B

\* A sum of sums.
LEMMA SumPlus ==
  ASSUME NEW S, IsFiniteSet(S), NEW f, NEW g, NEW h,
         \A x \in S : g[x] \in Int /\ h[x] \in Int /\ f[x] = g[x] + h[x]
  PROVE  SumFunctionOnSet(f, S) = SumFunctionOnSet(g, S) + SumFunctionOnSet(h, S)
<1> DEFINE B == {T \in SUBSET S :
        SumFunctionOnSet(f, T) = SumFunctionOnSet(g, T) + SumFunctionOnSet(h, T)}
<1>1. ASSUME NEW T \in SUBSET S, NEW x \in T, T \ {x} \in B
      PROVE  SumFunctionOnSet(f, T) = SumFunctionOnSet(g, T) + SumFunctionOnSet(h, T)
  <2>1. IsFiniteSet(T) /\ IsFiniteSet(T \ {x})
    BY FS_Subset
  <2>2. /\ SumFunctionOnSet(f, T) = f[x] + SumFunctionOnSet(f, T \ {x})
        /\ SumFunctionOnSet(g, T) = g[x] + SumFunctionOnSet(g, T \ {x})
        /\ SumFunctionOnSet(h, T) = h[x] + SumFunctionOnSet(h, T \ {x})
    <3>1. \A y \in S : f[y] \in Int
      OBVIOUS
    <3> QED BY <2>1, <3>1, SumWithout
  <2>3. /\ SumFunctionOnSet(g, T \ {x}) \in Int /\ g[x] \in Int
        /\ SumFunctionOnSet(h, T \ {x}) \in Int /\ h[x] \in Int /\ f[x] = g[x] + h[x]
    BY <2>1, SumType
  <2>4. SumFunctionOnSet(f, T \ {x}) =
          SumFunctionOnSet(g, T \ {x}) + SumFunctionOnSet(h, T \ {x})
    BY <1>1
  <2> HIDE DEF B
  <2> QED BY <2>2, <2>3, <2>4
<1>2. {} \in B
  BY SumEmpty
<1>3. \A T \in SUBSET S : \A x \in T : T \ {x} \in B => T \in B
  BY <1>1
<1>4. B \in SUBSET SUBSET S
  OBVIOUS
<1> HIDE DEF B
<1>5. S \in B
  BY <1>2, <1>3, <1>4, ElementInduction
<1> QED BY <1>5 DEF B

LEMMA SumAtMost ==
  ASSUME NEW S, IsFiniteSet(S), NEW f, NEW g,
         \A x \in S : f[x] \in Int /\ g[x] \in Int /\ f[x] <= g[x]
  PROVE  SumFunctionOnSet(f, S) <= SumFunctionOnSet(g, S)
<1> DEFINE B == {T \in SUBSET S : SumFunctionOnSet(f, T) <= SumFunctionOnSet(g, T)}
<1>1. ASSUME NEW T \in SUBSET S, NEW x \in T, T \ {x} \in B
      PROVE  SumFunctionOnSet(f, T) <= SumFunctionOnSet(g, T)
  <2>1. IsFiniteSet(T) /\ IsFiniteSet(T \ {x})
    BY FS_Subset
  <2>2. /\ SumFunctionOnSet(f, T) = f[x] + SumFunctionOnSet(f, T \ {x})
        /\ SumFunctionOnSet(g, T) = g[x] + SumFunctionOnSet(g, T \ {x})
    BY <2>1, SumWithout
  <2>3. /\ SumFunctionOnSet(f, T \ {x}) \in Int /\ SumFunctionOnSet(g, T \ {x}) \in Int
        /\ f[x] \in Int /\ g[x] \in Int /\ f[x] <= g[x]
    BY <2>1, SumType
  <2>4. SumFunctionOnSet(f, T \ {x}) <= SumFunctionOnSet(g, T \ {x})
    BY <1>1
  <2> HIDE DEF B
  <2> QED BY <2>2, <2>3, <2>4
<1>2. {} \in B
  <2>1. SumFunctionOnSet(f, {}) = 0 /\ SumFunctionOnSet(g, {}) = 0
    BY SumEmpty
  <2> QED BY <2>1
<1>3. \A T \in SUBSET S : \A x \in T : T \ {x} \in B => T \in B
  BY <1>1
<1>4. B \in SUBSET SUBSET S
  OBVIOUS
<1> HIDE DEF B
<1>5. S \in B
  BY <1>2, <1>3, <1>4, ElementInduction
<1> QED BY <1>5 DEF B

LEMMA SumSame ==
  ASSUME NEW S, IsFiniteSet(S), NEW f, NEW g, \A x \in S : f[x] \in Int /\ f[x] = g[x]
  PROVE  SumFunctionOnSet(f, S) = SumFunctionOnSet(g, S)
<1>1. \A x \in S : f[x] \in Int /\ g[x] \in Int /\ f[x] <= g[x] /\ g[x] <= f[x]
  OBVIOUS
<1>2. SumFunctionOnSet(f, S) \in Int /\ SumFunctionOnSet(g, S) \in Int
  BY <1>1, SumType
<1>3. SumFunctionOnSet(f, S) <= SumFunctionOnSet(g, S)
  BY <1>1, SumAtMost
<1>4. SumFunctionOnSet(g, S) <= SumFunctionOnSet(f, S)
  BY <1>1, SumAtMost
<1> QED BY <1>2, <1>3, <1>4

\* What is zero does not count.
LEMMA SumNonzero ==
  ASSUME NEW S, IsFiniteSet(S), NEW f, \A x \in S : f[x] \in Int,
         NEW T \in SUBSET S, \A x \in S \ T : f[x] = 0
  PROVE  SumFunctionOnSet(f, S) = SumFunctionOnSet(f, T)
<1> DEFINE B == {U \in SUBSET S : SumFunctionOnSet(f, U) = SumFunctionOnSet(f, U \cap T)}
<1>1. ASSUME NEW U \in SUBSET S, NEW x \in U, U \ {x} \in B
      PROVE  SumFunctionOnSet(f, U) = SumFunctionOnSet(f, U \cap T)
  <2>1. IsFiniteSet(U) /\ IsFiniteSet(U \cap T) /\ IsFiniteSet(U \ {x})
    BY FS_Subset
  <2>2. SumFunctionOnSet(f, U) = f[x] + SumFunctionOnSet(f, U \ {x})
    BY <2>1, SumWithout
  <2>3. SumFunctionOnSet(f, U \ {x}) = SumFunctionOnSet(f, (U \ {x}) \cap T)
    BY <1>1
  <2>4. CASE x \in T
    <3>1. (U \ {x}) \cap T = (U \cap T) \ {x} /\ x \in U \cap T
      BY <2>4
    <3>2. SumFunctionOnSet(f, U \cap T) = f[x] + SumFunctionOnSet(f, (U \cap T) \ {x})
      BY <2>1, <3>1, SumWithout
    <3> QED BY <2>2, <2>3, <3>1, <3>2
  <2>5. CASE x \notin T
    <3>1. (U \ {x}) \cap T = U \cap T /\ f[x] = 0
      BY <2>5
    <3>2. SumFunctionOnSet(f, U \ {x}) \in Int
      BY <2>1, SumType
    <3>3. SumFunctionOnSet(f, U) = SumFunctionOnSet(f, U \ {x})
      BY <2>2, <3>1, <3>2
    <3> QED BY <2>3, <3>1, <3>3
  <2> QED BY <2>4, <2>5
<1>2. {} \in B
  OBVIOUS
<1>3. \A U \in SUBSET S : \A x \in U : U \ {x} \in B => U \in B
  BY <1>1
<1>4. B \in SUBSET SUBSET S
  OBVIOUS
<1> HIDE DEF B
<1>5. S \in B
  BY <1>2, <1>3, <1>4, ElementInduction
<1>6. S \cap T = T
  OBVIOUS
<1> QED BY <1>5, <1>6 DEF B

LEMMA SumPositive ==
  ASSUME NEW S, IsFiniteSet(S), NEW f, \A x \in S : f[x] \in Int /\ f[x] >= 0
  PROVE  SumFunctionOnSet(f, S) >= 0
<1> DEFINE zero == [x \in S |-> 0]
<1>1. \A x \in S : zero[x] \in Int /\ zero[x] <= f[x] /\ zero[x] = 0
  OBVIOUS
<1> HIDE DEF zero
<1>2. SumFunctionOnSet(zero, S) = SumFunctionOnSet(zero, {})
  BY <1>1, SumNonzero
<1>3. SumFunctionOnSet(zero, S) = 0
  BY <1>2, SumEmpty
<1>4. SumFunctionOnSet(f, S) \in Int
  BY SumType
<1>5. SumFunctionOnSet(zero, S) <= SumFunctionOnSet(f, S)
  BY <1>1, SumAtMost
<1> QED BY <1>3, <1>4, <1>5

\* A function changed at one point.
LEMMA SumChanged ==
  ASSUME NEW S, IsFiniteSet(S), NEW f, NEW g,
         \A y \in S : f[y] \in Int /\ g[y] \in Int
  PROVE  \A x \in S : (\A y \in S \ {x} : f[y] = g[y]) =>
           SumFunctionOnSet(f, S) = SumFunctionOnSet(g, S) + (f[x] - g[x])
<1> SUFFICES ASSUME NEW x \in S, \A y \in S \ {x} : f[y] = g[y]
             PROVE  SumFunctionOnSet(f, S) = SumFunctionOnSet(g, S) + (f[x] - g[x])
  OBVIOUS
<1>1. IsFiniteSet(S \ {x})
  BY FS_Subset
<1>2. SumFunctionOnSet(f, S \ {x}) = SumFunctionOnSet(g, S \ {x})
  BY <1>1, SumSame
<1>3. SumFunctionOnSet(f, S) = f[x] + SumFunctionOnSet(f, S \ {x})
  BY SumWithout
<1>4. SumFunctionOnSet(g, S) = g[x] + SumFunctionOnSet(g, S \ {x})
  BY SumWithout
<1>5. SumFunctionOnSet(g, S \ {x}) \in Int
  BY <1>1, SumType
<1> QED BY <1>2, <1>3, <1>4, <1>5

----------------------------------------------------------------------------
(* The ledger                                                              *)

\* What a transaction has read or locked is in the table, and locked once.
LockInv == \A c \in Calls :
  /\ locks[c] \subseteq Inserted /\ toVisit[c] \subseteq Inserted
  /\ \A q \in Rows : snap[c][q] > 0 => q \in Inserted
  /\ ~Open(c) => locks[c] = {}
  /\ \A d \in Calls \ {c} : locks[c] \cap locks[d] = {}

\* A row a transaction read is ahead of it or written to zero, and it writes
\* the rows in order: no row but its last keeps anything.
OrderInv == \A c \in Calls :
  /\ pc[c] \in {"idle", "spend"} => debt[c] = 0
  /\ pc[c] = "spend" =>
       /\ \A p \in Rows : snap[c][p] > 0 => p \in toVisit[c] \/ (p \in locks[c] /\ draft[c][p] = 0)
       /\ \A p \in toVisit[c], q \in locks[c] : Before(q, p)
  /\ pc[c] = "commit" =>
       \A p \in Rows :
         snap[c][p] > 0 /\ (debt[c] > 0 \/ \E q \in locks[c] : Before(p, q))
           => p \in locks[c] /\ draft[c][p] = 0

Inv == TypeOK /\ LockInv /\ OrderInv

LEMMA InitInv == Init => Inv
<1> SUFFICES ASSUME Init PROVE Inv
  OBVIOUS
<1>1. TypeOK
  BY LedgerConstants DEF Init, TypeOK, Zeros
<1>2. LockInv /\ OrderInv
  BY DEF Init, LockInv, OrderInv, Zeros, Open, Rows
<1> QED BY <1>1, <1>2 DEF Inv

\* Steps that leave the transactions alone, and the rows they know.
LEMMA TransactionsUntouched ==
  ASSUME LockInv, OrderInv,
         \A q \in Inserted : q \in Inserted' /\ ends'[q] = ends[q],
         \A c \in Calls : Open(c)' = Open(c) /\ (pc'[c] = pc[c] \/ ~Open(c)'),
         \A c \in Calls : pc'[c] \in {"idle", "spend"} => pc[c] \in {"idle", "spend"},
         UNCHANGED <<toVisit, snap, debt, writes>>
  PROVE  LockInv' /\ OrderInv'
<1>1. LockInv'
  BY DEF LockInv, writes
<1>2. OrderInv'
  BY DEF LockInv, OrderInv, writes, Open, Before, Inserted, Rows
<1> QED BY <1>1, <1>2

\* A new row is none that a transaction knows.
LEMMA AddPreserves ==
  ASSUME Inv, AddUserQuota
  PROVE  Inv'
<1>1. PICK q \in Rows, n \in Amounts, p \in Periods :
        /\ q \notin Inserted
        /\ quota' = [quota EXCEPT ![q] = n]
        /\ rest' = [rest EXCEPT ![q] = n]
        /\ ends' = [ends EXCEPT ![q] = now + p]
        /\ UNCHANGED <<now, pc, locals, writes, owed, usage, faults, overlapped>>
  BY DEF AddUserQuota
<1>2. TypeOK'
  BY <1>1, LedgerConstants DEF Inv, TypeOK, locals, writes
<1>3. \A r \in Inserted : r \in Inserted' /\ ends'[r] = ends[r]
  BY <1>1, LedgerConstants DEF Inv, TypeOK, Inserted
<1>4. LockInv' /\ OrderInv'
  BY <1>1, <1>3, TransactionsUntouched DEF Inv, locals, Open
<1> QED BY <1>2, <1>4 DEF Inv

\* A transaction starts with nothing locked and everything it read ahead.
LEMMA SelectPreserves ==
  ASSUME Inv, NEW c \in Calls, Select(c)
  PROVE  Inv'
<1> USE LedgerConstants DEF Inv, Select, table, writes
<1>1. PICK n \in Amounts : used' = [used EXCEPT ![c] = n] /\ left' = [left EXCEPT ![c] = n]
  OBVIOUS
<1>2. overlapped' \subseteq Calls
  BY DEF TypeOK
<1>3. Spendable \subseteq Rows
  BY DEF Spendable, Inserted
<1>4. TypeOK'
  BY <1>1, <1>2, <1>3 DEF TypeOK
<1>5. LockInv'
  BY <1>3 DEF TypeOK, LockInv, Open, Spendable, Inserted
<1>6. OrderInv'
  <2>1. locks[c] = {} /\ debt[c] = 0
    BY DEF LockInv, OrderInv, Open
  <2>2. \A p \in Rows : snap'[c][p] > 0 => p \in toVisit'[c]
    BY <1>3 DEF TypeOK
  <2>3. \A d \in Calls \ {c} : /\ pc'[d] = pc[d] /\ snap'[d] = snap[d]
                               /\ toVisit'[d] = toVisit[d]
    BY DEF TypeOK
  <2>4. pc'[c] = "spend"
    BY DEF TypeOK
  <2> QED BY <2>1, <2>2, <2>3, <2>4 DEF OrderInv, Before
<1> QED BY <1>4, <1>5, <1>6

\* Taking a free row keeps the locks apart.
LEMMA WriteLocks ==
  ASSUME Inv, NEW c \in Calls, NEW q \in Rows, NEW n \in Nat,
         Visits(c, q), Writes(c, q, n), Open(c)',
         pc' \in [Calls -> {"idle", "spend", "commit", "record", "done", "failed"}],
         \A d \in Calls \ {c} : pc'[d] = pc[d],
         \A d \in Calls : toVisit'[d] \subseteq toVisit[d]
  PROVE  LockInv' /\ draft' \in [Calls -> [Rows -> Nat]] /\ locks' \in [Calls -> SUBSET Rows]
<1>1. \A d \in Calls : q \notin locks[d]
  BY DEF Visits, Locked
<1>2. /\ locks'[c] = locks[c] \cup {q}
      /\ \A d \in Calls \ {c} : locks'[d] = locks[d]
  BY DEF Inv, TypeOK, Writes
<1>3. Inserted' = Inserted /\ snap' = snap /\ q \in Inserted
  BY DEF Visits, table, Inserted, Inv, LockInv
<1>4. LockInv'
  BY <1>1, <1>2, <1>3 DEF Inv, LockInv, Open
<1>5. draft' \in [Calls -> [Rows -> Nat]] /\ locks' \in [Calls -> SUBSET Rows]
  BY DEF Inv, TypeOK, Writes
<1> QED BY <1>4, <1>5

\* A rollback frees what the transaction held.
LEMMA RollbackPreserves ==
  ASSUME Inv, NEW c \in Calls, Open(c), RollsBack(c), faults' \in 0..MaxFaults,
         UNCHANGED <<table, now, owed, usage, overlapped>>
  PROVE  Inv'
<1> USE DEF Inv, RollsBack, table, locals
<1>1. TypeOK'
  BY DEF TypeOK, Zeros
<1>2. LockInv'
  BY DEF TypeOK, LockInv, Open, Inserted
<1>3. OrderInv'
  <2>1. pc'[c] = "failed"
    BY DEF TypeOK
  <2>2. \A d \in Calls \ {c} : /\ pc'[d] = pc[d] /\ locks'[d] = locks[d]
                               /\ draft'[d] = draft[d]
    BY DEF TypeOK
  <2> QED BY <2>1, <2>2 DEF OrderInv, Before
<1> QED BY <1>1, <1>2, <1>3

LEMMA SpendPartPreserves ==
  ASSUME Inv, NEW c \in Calls, SpendPart(c)
  PROVE  Inv'
<1>1. PICK q \in Rows : /\ Visits(c, q) /\ snap[c][q] >= left[c]
                        /\ \/ /\ rest[q] >= left[c]
                              /\ parts' = [parts EXCEPT ![c][q] = left[c]]
                              /\ Writes(c, q, rest[q] - left[c])
                              /\ pc' = [pc EXCEPT ![c] = "commit"]
                              /\ UNCHANGED <<left, toVisit>>
                           \/ RollsBack(c)
  BY DEF SpendPart
<1>2. CASE RollsBack(c)
  BY <1>1, <1>2, RollbackPreserves DEF Visits, Open, Inv, TypeOK
<1>3. CASE /\ rest[q] >= left[c]
           /\ parts' = [parts EXCEPT ![c][q] = left[c]]
           /\ Writes(c, q, rest[q] - left[c])
           /\ pc' = [pc EXCEPT ![c] = "commit"]
           /\ UNCHANGED <<left, toVisit>>
  <2>1. rest[q] - left[c] \in Nat
    BY <1>3 DEF Inv, TypeOK
  <2>2. /\ pc' \in [Calls -> {"idle", "spend", "commit", "record", "done", "failed"}]
        /\ pc'[c] = "commit" /\ \A d \in Calls \ {c} : pc'[d] = pc[d]
    BY <1>3 DEF Inv, TypeOK
  <2>3. LockInv' /\ draft' \in [Calls -> [Rows -> Nat]] /\ locks' \in [Calls -> SUBSET Rows]
    BY <1>1, <1>3, <2>1, <2>2, WriteLocks DEF Open
  <2>4. parts' \in [Calls -> [Rows -> Nat]]
    BY <1>3 DEF Inv, TypeOK
  <2>5. TypeOK'
    BY <1>1, <1>3, <2>2, <2>3, <2>4 DEF Inv, TypeOK, Visits, table
  <2>6. /\ locks'[c] = locks[c] \cup {q}
        /\ \A p \in Rows \ {q} : draft'[c][p] = draft[c][p]
        /\ \A d \in Calls \ {c} : locks'[d] = locks[d] /\ draft'[d] = draft[d]
    BY <1>3 DEF Inv, TypeOK, Writes
  <2>7. ends' = ends /\ snap' = snap /\ debt' = debt /\ pc[c] = "spend"
    BY <1>1 DEF Visits, table
  <2>8. ASSUME NEW p \in Rows, snap[c][p] > 0, NEW r \in locks'[c], Before(p, r)
        PROVE  p \in locks'[c] /\ draft'[c][p] = 0
    <3>1. q \notin locks[c] /\ \A s \in toVisit[c] \ {q} : Before(q, s)
      BY <1>1 DEF Visits, Locked
    <3>2. p \notin toVisit[c]
      <4>1. \A s \in Rows, t \in Rows : Before(s, t) => ~Before(t, s)
        <5>1. ends \in [Rows -> Nat] /\ Rows \subseteq Int
          BY LedgerConstants DEF Inv, TypeOK, Rows
        <5> QED BY <5>1 DEF Before
      <4>2. \A s \in toVisit[c], t \in locks[c] : Before(t, s)
        BY <2>7 DEF Inv, OrderInv
      <4> QED BY <2>6, <2>8, <3>1, <4>1, <4>2 DEF Inv, TypeOK
    <3>3. p \in locks[c] /\ draft[c][p] = 0
      BY <2>7, <2>8, <3>2 DEF Inv, OrderInv
    <3> QED BY <2>6, <3>1, <3>3
  <2>9. OrderInv'
    <3>1. ASSUME NEW d \in Calls \ {c}
          PROVE  /\ pc'[d] = pc[d] /\ locks'[d] = locks[d] /\ draft'[d] = draft[d]
                 /\ toVisit'[d] = toVisit[d]
      BY <1>3, <2>2, <2>6
    <3>2. debt'[c] = 0
      BY <2>7 DEF Inv, OrderInv
    <3>3. \A p, r \in Rows : Before(p, r)' = Before(p, r)
      BY <2>7 DEF Before
    <3>4. locks' \in [Calls -> SUBSET Rows]
      BY <2>3
    <3> QED BY <2>2, <2>7, <2>8, <3>1, <3>2, <3>3, <3>4 DEF Inv, OrderInv, Before
  <2> QED BY <2>3, <2>5, <2>9 DEF Inv
<1> QED BY <1>1, <1>2, <1>3

LEMMA SpendAllPreserves ==
  ASSUME Inv, NEW c \in Calls, SpendAll(c)
  PROVE  Inv'
<1>1. PICK q \in Rows : /\ Visits(c, q) /\ snap[c][q] < left[c]
                        /\ parts' = [parts EXCEPT ![c][q] = snap[c][q]]
                        /\ Writes(c, q, 0)
                        /\ left' = [left EXCEPT ![c] = @ - snap[c][q]]
                        /\ toVisit' = [toVisit EXCEPT ![c] = @ \ {q}]
                        /\ UNCHANGED pc
  BY DEF SpendAll
<1>2. pc[c] = "spend" /\ pc' = pc /\ ends' = ends /\ snap' = snap /\ debt' = debt
  BY <1>1 DEF Visits, table
<1>3. \A d \in Calls : toVisit'[d] \subseteq toVisit[d]
  BY <1>1 DEF Inv, TypeOK
<1>4. LockInv' /\ draft' \in [Calls -> [Rows -> Nat]] /\ locks' \in [Calls -> SUBSET Rows]
  BY <1>1, <1>2, <1>3, WriteLocks DEF Open, Inv, TypeOK
<1>5. TypeOK'
  <2>1. left[c] - snap[c][q] \in Nat
    BY <1>1 DEF Inv, TypeOK
  <2>2. parts' \in [Calls -> [Rows -> Nat]] /\ left' \in [Calls -> Nat]
    BY <1>1, <2>1 DEF Inv, TypeOK
  <2>3. toVisit' \in [Calls -> SUBSET Rows]
    BY <1>1 DEF Inv, TypeOK
  <2> QED BY <1>1, <1>4, <2>2, <2>3 DEF Inv, TypeOK, Visits, table
<1>6. /\ locks'[c] = locks[c] \cup {q} /\ draft'[c][q] = 0
      /\ \A p \in Rows \ {q} : draft'[c][p] = draft[c][p]
      /\ toVisit'[c] = toVisit[c] \ {q}
      /\ \A d \in Calls \ {c} : /\ locks'[d] = locks[d] /\ draft'[d] = draft[d]
                                /\ toVisit'[d] = toVisit[d]
  BY <1>1 DEF Inv, TypeOK, Writes
<1>7. OrderInv'
  <2>1. \A p \in Rows : snap[c][p] > 0 =>
          p \in toVisit'[c] \/ (p \in locks'[c] /\ draft'[c][p] = 0)
    BY <1>2, <1>6 DEF Inv, OrderInv
  <2>2. \A p \in toVisit'[c], r \in locks'[c] : Before(r, p)
    BY <1>1, <1>2, <1>6 DEF Inv, OrderInv, Visits
  <2>3. \A p, r : Before(p, r)' = Before(p, r)
    BY <1>2 DEF Before
  <2> QED BY <1>2, <1>6, <2>1, <2>2, <2>3 DEF Inv, OrderInv
<1> QED BY <1>4, <1>5, <1>7 DEF Inv

\* With no row ahead, everything the transaction read is written to zero.
LEMMA OwePreserves ==
  ASSUME Inv, NEW c \in Calls, Owe(c)
  PROVE  Inv'
<1> USE DEF Inv, Owe, table, writes
<1>1. TypeOK'
  BY DEF TypeOK
<1>2. LockInv'
  BY DEF TypeOK, LockInv, Open, Inserted
<1>3. OrderInv'
  <2>1. /\ pc'[c] = "commit"
        /\ \A d \in Calls \ {c} : pc'[d] = pc[d] /\ debt'[d] = debt[d]
    BY DEF TypeOK
  <2>2. \A p \in Rows : snap[c][p] > 0 => p \in locks[c] /\ draft[c][p] = 0
    BY DEF OrderInv
  <2> QED BY <2>1, <2>2 DEF OrderInv, Before
<1> QED BY <1>1, <1>2, <1>3

LEMMA CommitPreserves ==
  ASSUME Inv, NEW c \in Calls, Commit(c)
  PROVE  Inv'
<1> USE DEF Inv, Commit, locals
<1>1. TypeOK'
  <2>1. Written(c) \in [Rows -> Nat]
    BY DEF Written, TypeOK
  <2> QED BY <2>1 DEF TypeOK, Zeros
<1>2. LockInv'
  BY DEF TypeOK, LockInv, Open, Inserted
<1>3. OrderInv'
  <2>1. pc'[c] = "record"
    BY DEF TypeOK
  <2>2. \A d \in Calls \ {c} : /\ pc'[d] = pc[d] /\ locks'[d] = locks[d]
                               /\ draft'[d] = draft[d]
    BY DEF TypeOK
  <2> QED BY <2>1, <2>2 DEF OrderInv, Before
<1> QED BY <1>1, <1>2, <1>3

LEMMA RecordPreserves ==
  ASSUME Inv, NEW c \in Calls, Record(c)
  PROVE  Inv'
<1> USE DEF Inv, Record, table, locals
<1>1. TypeOK'
  BY LedgerConstants DEF TypeOK, writes
<1>2. /\ \A d \in Calls \ {c} : pc'[d] = pc[d]
      /\ pc[c] = "record" /\ pc'[c] = "done"
  BY DEF TypeOK
<1>3. LockInv' /\ OrderInv'
  BY <1>2, TransactionsUntouched DEF Open, Inserted
<1> QED BY <1>1, <1>3

LEMMA FailPreserves ==
  ASSUME Inv, NEW c \in Calls, Fail(c)
  PROVE  Inv'
<1>1. faults' \in 0..MaxFaults
  BY LedgerConstants DEF Inv, TypeOK, Fail
<1> QED BY <1>1, RollbackPreserves DEF Fail

LEMMA NextPreserves == Inv /\ [Next]_vars => Inv'
<1> SUFFICES ASSUME Inv, [Next]_vars PROVE Inv'
  OBVIOUS
<1>1. CASE AddUserQuota
  BY <1>1, AddPreserves
<1>2. CASE Tick
  <2>1. TypeOK'
    BY <1>2, LedgerConstants DEF Tick, Inv, TypeOK, table, locals, writes
  <2>2. LockInv' /\ OrderInv'
    BY <1>2, TransactionsUntouched DEF Tick, Inv, Open, Inserted, table, locals
  <2> QED BY <2>1, <2>2 DEF Inv
<1>3. ASSUME NEW c \in Calls, QuotaConsume(c) PROVE Inv'
  BY <1>3, SelectPreserves, SpendPartPreserves, SpendAllPreserves, OwePreserves,
     CommitPreserves, RecordPreserves, FailPreserves DEF QuotaConsume
<1>4. CASE UNCHANGED vars
  BY <1>4 DEF vars, table, locals, writes, Inv, TypeOK, LockInv, OrderInv, Open, Inserted, Before
<1> QED BY <1>1, <1>2, <1>3, <1>4 DEF Next

THEOREM InvHolds == Spec => []Inv
<1> QED BY InitInv, NextPreserves, PTL DEF Spec

\* Every variable keeps its type: rest is never negative, though statements
\* subtract from values that have changed since they were read.
THEOREM TypeCorrect == Spec => []TypeOK
<1>1. Inv => TypeOK
  BY DEF Inv
<1> QED BY <1>1, InvHolds, PTL

\* Coins that expire first are spent first, and debt is owed only when the rows
\* that were read are used up.
THEOREM SpendingIsOrdered == Spec => SpendsInOrder
<1> DEFINE A == \A c \in Calls : pc[c] = "commit" /\ pc'[c] = "record" =>
       \A p \in Rows :
         /\ snap[c][p] > 0
         /\ owed'[c] > 0 \/ \E q \in locks[c] : Before(p, q)
         => rest'[p] = 0
<1>1. Inv /\ [Next]_vars => [A]_vars
  <2> SUFFICES ASSUME Inv, Next, NEW c \in Calls, pc[c] = "commit", pc'[c] = "record",
                      NEW p \in Rows, snap[c][p] > 0,
                      owed'[c] > 0 \/ \E q \in locks[c] : Before(p, q)
               PROVE  rest'[p] = 0
    OBVIOUS
  <2>1. Commit(c)
    <3>1. ASSUME NEW d \in Calls, QuotaConsume(d) PROVE d = c /\ Commit(d)
      <4>1. PICK s \in {"spend", "commit", "done", "failed", "record"} :
              pc' = [pc EXCEPT ![d] = s] \/ pc' = pc
        BY <3>1 DEF QuotaConsume, Select, SpendPart, SpendAll, Owe, Commit, Record, Fail, RollsBack
      <4>2. d = c
        BY <4>1 DEF Inv, TypeOK
      <4> QED BY <3>1, <4>2 DEF QuotaConsume, Select, SpendPart, SpendAll, Owe, Record, Fail,
                   RollsBack, Visits, Inv, TypeOK
    <3> QED BY <3>1 DEF Next, AddUserQuota, Tick
  <2>2. owed'[c] = debt[c]
    BY <2>1 DEF Commit, Inv, TypeOK
  <2>3. p \in locks[c] /\ draft[c][p] = 0
    BY <2>2 DEF Inv, OrderInv
  <2> QED BY <2>1, <2>3 DEF Commit, Written
<1>2. Spec => [][A]_vars
  BY <1>1, InvHolds, PTL DEF Spec
<1> QED BY <1>2 DEF SpendsInOrder

----------------------------------------------------------------------------
\* The account: what calls have paid, row by row.

\* Rows are numbered as they are inserted, and only lose coins.
TableInv ==
  /\ \E n \in 0..MaxRows : Inserted = 1..n
  /\ \A q \in Rows : rest[q] <= quota[q]

\* What a call used is what it has taken from rows and what is left to pay; what
\* it owes is what the rows it read did not hold.
Paid(c) ==
  /\ pc[c] \notin {"record", "done"} => owed[c] = 0
  /\ pc[c] = "idle" => \A q \in Rows : parts[c][q] = 0
  /\ pc[c] = "spend" =>
       /\ left[c] > 0
       /\ used[c] = left[c] + SumFunctionOnSet(parts[c], Rows)
       /\ \A q \in Rows : parts[c][q] = IF q \in toVisit[c] THEN 0 ELSE snap[c][q]
  /\ pc[c] = "commit" =>
       /\ used[c] = debt[c] + SumFunctionOnSet(parts[c], Rows)
       /\ LET shown == SumFunctionOnSet(snap[c], Rows)
          IN debt[c] = IF used[c] > shown THEN used[c] - shown ELSE 0

\* A row holds no more than when it was read, and as much while no transactions
\* overlap; so a write takes no more than the part the call counts.
Takes(c) == Open(c) => \A q \in Rows :
  /\ q \in toVisit[c] => rest[q] <= snap[c][q] /\ (overlapped = {} => rest[q] = snap[c][q])
  /\ q \in locks[c] => /\ draft[c][q] <= rest[q]
                       /\ rest[q] - draft[c][q] <= parts[c][q]
                       /\ overlapped = {} => rest[q] - draft[c][q] = parts[c][q]
  /\ q \notin locks[c] => parts[c][q] = 0

Apart == overlapped = {} => \A c, d \in Calls : Open(c) /\ Open(d) => c = d

CallInv == (\A c \in Calls : Paid(c) /\ Takes(c)) /\ Apart

Balance == NeverOvercharged /\ ChargedExactly

AccountInv == Inv /\ TableInv /\ CallInv /\ Balance

LEMMA Finite == IsFiniteSet(Rows) /\ IsFiniteSet(Calls) /\ IsFiniteSet(Committed)
BY LedgerConstants, FS_Interval, FS_Subset DEF Rows, Committed

LEMMA PartsType ==
  ASSUME TypeOK, NEW c \in Calls
  PROVE  SumFunctionOnSet(parts[c], Rows) \in Int /\ SumFunctionOnSet(snap[c], Rows) \in Int
BY Finite, SumType DEF TypeOK

LEMMA InitAccount == Init => TableInv /\ CallInv /\ Balance
<1> SUFFICES ASSUME Init PROVE TableInv /\ CallInv /\ Balance
  OBVIOUS
<1>1. TableInv
  <2>1. Inserted = 1..0
    BY LedgerConstants DEF Init, Inserted, Zeros, Rows
  <2>2. \E n \in 0..MaxRows : Inserted = 1..n
    BY <2>1, LedgerConstants
  <2>3. \A q \in Rows : rest[q] <= quota[q]
    BY DEF Init, Zeros
  <2> QED BY <2>2, <2>3 DEF TableInv
<1>2. CallInv
  BY DEF Init, CallInv, Paid, Takes, Apart, Open, Zeros
<1>3. Balance
  <2>1. Committed = {}
    BY DEF Init, Committed
  <2>2. Charged = 0
    <3> DEFINE f == [q \in Rows |-> quota[q] - rest[q]]
    <3>1. \A q \in Rows : f[q] \in Int /\ f[q] = 0
      BY DEF Init, Zeros
    <3> HIDE DEF f
    <3>2. SumFunctionOnSet(f, Rows) = SumFunctionOnSet(f, {})
      BY <3>1, Finite, SumNonzero
    <3> QED BY <3>2, SumEmpty DEF f, Charged
  <2>3. Owed = 0
    <3>1. \A c \in Calls : owed[c] \in Int /\ owed[c] = 0
      BY DEF Init
    <3>2. SumFunctionOnSet(owed, Calls) = SumFunctionOnSet(owed, {})
      BY <3>1, Finite, SumNonzero
    <3> QED BY <3>2, SumEmpty DEF Owed
  <2>4. Used = 0
    BY <2>1, SumEmpty DEF Used
  <2> QED BY <2>2, <2>3, <2>4 DEF Balance, NeverOvercharged, ChargedExactly
<1> QED BY <1>1, <1>2, <1>3

\* A call that takes no step keeps its account if its locked rows keep their coins
\* and those it has yet to visit gain none.
LEMMA CallKept ==
  ASSUME TypeOK, TypeOK', NEW d \in Calls, Paid(d), Takes(d),
         /\ pc'[d] = pc[d] /\ used'[d] = used[d] /\ left'[d] = left[d] /\ debt'[d] = debt[d]
         /\ owed'[d] = owed[d] /\ toVisit'[d] = toVisit[d] /\ snap'[d] = snap[d]
         /\ parts'[d] = parts[d] /\ locks'[d] = locks[d] /\ draft'[d] = draft[d],
         overlapped' = {} => overlapped = {},
         Open(d) => \A q \in Rows :
           /\ q \in toVisit[d] => rest'[q] <= rest[q] /\ (overlapped' = {} => rest'[q] = rest[q])
           /\ q \in locks[d] => rest'[q] = rest[q]
  PROVE  Paid(d)' /\ Takes(d)'
<1>1. Paid(d)'
  BY DEF Paid
<1>2. ASSUME Open(d)', NEW q \in Rows
      PROVE  /\ q \in toVisit'[d] =>
                  rest'[q] <= snap'[d][q] /\ (overlapped' = {} => rest'[q] = snap'[d][q])
             /\ q \in locks'[d] => /\ draft'[d][q] <= rest'[q]
                                   /\ rest'[q] - draft'[d][q] <= parts'[d][q]
                                   /\ overlapped' = {} => rest'[q] - draft'[d][q] = parts'[d][q]
             /\ q \notin locks'[d] => parts'[d][q] = 0
  <2>1. Open(d)
    BY <1>2 DEF Open
  <2>2. rest[q] \in Int /\ rest'[q] \in Int /\ snap[d][q] \in Int
    BY DEF TypeOK
  <2> QED BY <2>1, <2>2 DEF Takes
<1> QED BY <1>1, <1>2 DEF Takes

\* What the balance adds up is the same.
LEMMA BalanceKept ==
  ASSUME TypeOK, TypeOK', Balance,
         \A q \in Rows : quota'[q] - rest'[q] = quota[q] - rest[q],
         UNCHANGED owed, Committed' = Committed,
         \A c \in Committed : used'[c] = used[c],
         overlapped' = {} => overlapped = {}
  PROVE  Balance'
<1>1. Charged' = Charged
  <2> DEFINE f == [q \in Rows |-> quota[q] - rest[q]]
             g == [q \in Rows |-> quota'[q] - rest'[q]]
  <2>1. \A q \in Rows : g[q] \in Int /\ g[q] = f[q]
    BY DEF TypeOK
  <2> HIDE DEF f, g
  <2>2. SumFunctionOnSet(g, Rows) = SumFunctionOnSet(f, Rows)
    BY <2>1, Finite, SumSame
  <2> QED BY <2>2 DEF f, g, Charged
<1>2. Used' = Used
  <2>1. \A c \in Committed : used'[c] \in Int /\ used'[c] = used[c]
    BY DEF TypeOK, Committed
  <2>2. SumFunctionOnSet(used', Committed) = SumFunctionOnSet(used, Committed)
    BY <2>1, Finite, SumSame
  <2> QED BY <2>2 DEF Used
<1>3. Owed' = Owed
  BY DEF Owed
<1> QED BY <1>1, <1>2, <1>3 DEF Balance, NeverOvercharged, ChargedExactly

LEMMA AddAccount ==
  ASSUME AccountInv, TypeOK', AddUserQuota
  PROVE  TableInv' /\ CallInv' /\ Balance'
<1> USE DEF AccountInv, Inv
<1>1. PICK q \in Rows, n \in Amounts, p \in Periods :
        /\ q \notin Inserted /\ 1..(q - 1) \subseteq Inserted
        /\ quota' = [quota EXCEPT ![q] = n]
        /\ rest' = [rest EXCEPT ![q] = n]
        /\ UNCHANGED <<now, pc, locals, writes, owed, usage, faults, overlapped>>
  BY DEF AddUserQuota
<1>2. quota[q] = 0 /\ rest[q] = 0
  BY <1>1 DEF TypeOK, TableInv, Inserted
<1>3. /\ quota'[q] = n /\ rest'[q] = n /\ n \in Nat \ {0}
      /\ \A r \in Rows \ {q} : quota'[r] = quota[r] /\ rest'[r] = rest[r]
  BY <1>1, LedgerConstants DEF TypeOK
<1>4. TableInv'
  <2>1. PICK m \in 0..MaxRows : Inserted = 1..m
    BY DEF TableInv
  <2>2. q = m + 1 /\ m + 1 \in 0..MaxRows
    BY <1>1, <2>1, LedgerConstants DEF Rows
  <2>3. Inserted' = Inserted \cup {q}
    BY <1>3 DEF Inserted
  <2>4. Inserted' = 1..(m + 1)
    BY <2>1, <2>2, <2>3
  <2>5. \A r \in Rows : rest'[r] <= quota'[r]
    BY <1>3 DEF TableInv
  <2> QED BY <2>2, <2>4, <2>5 DEF TableInv
<1>5. ASSUME NEW d \in Calls PROVE Paid(d)' /\ Takes(d)'
  <2>1. Open(d) => \A r \in Rows : r \in toVisit[d] \/ r \in locks[d] => rest'[r] = rest[r]
    BY <1>1, <1>3 DEF LockInv
  <2>2. \A r \in Rows : rest'[r] \in Int
    BY DEF TypeOK
  <2> QED BY <1>1, <2>1, <2>2, CallKept DEF CallInv, locals, writes
<1>6. Apart'
  BY <1>1 DEF CallInv, Apart, Open
<1>7. Balance'
  <2>1. \A r \in Rows : quota'[r] - rest'[r] = quota[r] - rest[r]
    BY <1>2, <1>3
  <2> QED BY <1>1, <2>1, BalanceKept DEF Committed, locals
<1> QED BY <1>4, <1>5, <1>6, <1>7 DEF CallInv

OthersUntouched(c) == \A d \in Calls \ {c} :
  /\ pc'[d] = pc[d] /\ used'[d] = used[d] /\ left'[d] = left[d] /\ debt'[d] = debt[d]
  /\ owed'[d] = owed[d] /\ toVisit'[d] = toVisit[d] /\ snap'[d] = snap[d]
  /\ parts'[d] = parts[d] /\ locks'[d] = locks[d] /\ draft'[d] = draft[d]

\* Steps within a transaction change the account of their own call only.
LEMMA StepInside ==
  ASSUME AccountInv, TypeOK', NEW c \in Calls, OthersUntouched(c),
         UNCHANGED <<table, owed>>, overlapped' = {} => overlapped = {},
         pc[c] \notin {"record", "done"}, pc'[c] \notin {"record", "done"},
         Paid(c)' /\ Takes(c)', Apart'
  PROVE  TableInv' /\ CallInv' /\ Balance'
<1> USE DEF AccountInv, Inv
<1>1. TableInv'
  BY DEF TableInv, Inserted, table
<1>2. ASSUME NEW d \in Calls \ {c} PROVE Paid(d)' /\ Takes(d)'
  <2>1. rest' = rest /\ \A q \in Rows : rest[q] \in Int
    BY DEF table, TypeOK
  <2> QED BY <2>1, CallKept DEF CallInv, OthersUntouched
<1>3. Balance'
  <2>1. Committed' = Committed /\ \A d \in Committed : used'[d] = used[d]
    BY DEF Committed, OthersUntouched
  <2>2. \A q \in Rows : quota'[q] - rest'[q] = quota[q] - rest[q]
    BY DEF table
  <2> QED BY <2>1, <2>2, BalanceKept
<1> QED BY <1>1, <1>2, <1>3 DEF CallInv

LEMMA SelectAccount ==
  ASSUME AccountInv, TypeOK', NEW c \in Calls, Select(c)
  PROVE  TableInv' /\ CallInv' /\ Balance'
<1> USE DEF AccountInv, Inv
<1>1. PICK n \in Amounts : used' = [used EXCEPT ![c] = n] /\ left' = [left EXCEPT ![c] = n]
  BY DEF Select
<1>2. /\ pc[c] = "idle" /\ pc'[c] = "spend" /\ used'[c] = n /\ left'[c] = n
      /\ toVisit'[c] = Spendable
      /\ snap'[c] = [q \in Rows |-> IF q \in Spendable THEN rest[q] ELSE 0]
      /\ UNCHANGED <<table, parts, locks, owed>>
  BY <1>1 DEF Select, TypeOK, writes
<1>3. OthersUntouched(c)
  BY <1>1 DEF Select, TypeOK, writes, OthersUntouched
<1>4. Paid(c)'
  <2>1. n \in Nat \ {0}
    BY LedgerConstants
  <2>2. \A q \in Rows : parts[c][q] \in Int /\ parts[c][q] = 0
    BY <1>2 DEF CallInv, Paid
  <2>3. SumFunctionOnSet(parts[c], Rows) = SumFunctionOnSet(parts[c], {})
    BY <2>2, Finite, SumNonzero
  <2>4. SumFunctionOnSet(parts[c], Rows) = 0
    BY <2>3, SumEmpty
  <2>5. used'[c] = left'[c] + SumFunctionOnSet(parts'[c], Rows)
    BY <1>2, <2>1, <2>4
  <2>6. \A q \in Rows : parts'[c][q] = IF q \in toVisit'[c] THEN 0 ELSE snap'[c][q]
    BY <1>2, <2>2
  <2>7. owed'[c] = 0
    BY <1>2 DEF CallInv, Paid
  <2> QED BY <1>2, <2>1, <2>5, <2>6, <2>7 DEF Paid
<1>5. Takes(c)'
  <2>1. locks[c] = {}
    BY <1>2 DEF LockInv, Open
  <2>2. \A q \in Rows : parts[c][q] = 0 /\ rest[q] \in Int
    BY <1>2 DEF CallInv, Paid, TypeOK
  <2>3. \A q \in Rows : q \in Spendable => snap'[c][q] = rest'[q]
    BY <1>2 DEF table
  <2> QED BY <1>2, <2>1, <2>2, <2>3 DEF Takes, table
\* With another call open the two count as overlapping.
<1>6. (overlapped' = {} => overlapped = {}) /\ Apart'
  <2>1. overlapped' = {} => overlapped = {} /\ \A d \in Calls : ~Open(d)
    BY DEF Select
  <2>2. \A d \in Calls \ {c} : Open(d)' = Open(d)
    BY <1>3 DEF OthersUntouched, Open
  <2> QED BY <2>1, <2>2 DEF Apart
<1> QED BY <1>2, <1>3, <1>4, <1>5, <1>6, StepInside

LEMMA RollbackAccount ==
  ASSUME AccountInv, TypeOK', NEW c \in Calls, Open(c), RollsBack(c),
         UNCHANGED <<table, owed, overlapped>>
  PROVE  TableInv' /\ CallInv' /\ Balance'
<1> USE DEF AccountInv, Inv
<1>1. pc'[c] = "failed" /\ pc[c] \notin {"record", "done"}
  BY DEF RollsBack, TypeOK, Open
<1>2. OthersUntouched(c)
  BY DEF RollsBack, TypeOK, OthersUntouched, locals
<1>3. Paid(c)' /\ Takes(c)'
  BY <1>1 DEF CallInv, Paid, Takes, Open
<1>4. Apart'
  <2>1. \A d \in Calls : Open(d)' => Open(d)
    BY <1>1, <1>2 DEF OthersUntouched, Open
  <2> QED BY <2>1 DEF CallInv, Apart
<1> QED BY <1>1, <1>2, <1>3, <1>4, StepInside

\* What SpendPart and SpendAll have in common: the row was read by this call
\* only, and the part joins the others.
LEMMA VisitAccount ==
  ASSUME AccountInv, TypeOK', NEW c \in Calls, NEW q \in Rows, Visits(c, q),
         NEW n \in Nat, Writes(c, q, n), n <= rest[q],
         NEW m \in Nat, parts' = [parts EXCEPT ![c][q] = m],
         rest[q] - n <= m, overlapped = {} => rest[q] - n = m,
         \A d \in Calls \ {c} : pc'[d] = pc[d] /\ left'[d] = left[d] /\ toVisit'[d] = toVisit[d],
         toVisit'[c] \subseteq toVisit[c], Open(c)',
         Paid(c)'
  PROVE  TableInv' /\ CallInv' /\ Balance'
<1> USE DEF AccountInv, Inv
<1>1. /\ pc[c] = "spend" /\ q \in toVisit[c] /\ rest' = rest
      /\ UNCHANGED <<table, used, snap, debt, owed, overlapped>>
  BY DEF Visits, table
<1>2. /\ locks'[c] = locks[c] \cup {q} /\ draft'[c][q] = n
      /\ \A p \in Rows \ {q} : draft'[c][p] = draft[c][p]
      /\ parts'[c][q] = m
      /\ \A p \in Rows \ {q} : parts'[c][p] = parts[c][p]
  BY DEF Writes, TypeOK
<1>3. OthersUntouched(c)
  BY <1>1 DEF Writes, TypeOK, OthersUntouched
<1>4. Takes(c)'
  <2>1. Takes(c) /\ Open(c)
    BY <1>1 DEF CallInv, Open
  <2>2. ASSUME NEW p \in Rows
        PROVE  /\ p \in toVisit'[c] =>
                    rest'[p] <= snap'[c][p] /\ (overlapped' = {} => rest'[p] = snap'[c][p])
               /\ p \in locks'[c] => /\ draft'[c][p] <= rest'[p]
                                     /\ rest'[p] - draft'[c][p] <= parts'[c][p]
                                     /\ overlapped' = {} => rest'[p] - draft'[c][p] = parts'[c][p]
               /\ p \notin locks'[c] => parts'[c][p] = 0
    <3>1. CASE p = q
      BY <1>1, <1>2, <2>1, <3>1 DEF Takes
    <3>2. CASE p # q
      BY <1>1, <1>2, <2>1, <3>2 DEF Takes
    <3> QED BY <3>1, <3>2
  <2> QED BY <2>2 DEF Takes
<1>5. Apart'
  <2>1. \A d \in Calls : Open(d)' = Open(d)
    BY <1>1, <1>3 DEF OthersUntouched, Open
  <2> QED BY <1>1, <2>1 DEF CallInv, Apart
<1>6. pc[c] \notin {"record", "done"} /\ pc'[c] \notin {"record", "done"}
  BY <1>1 DEF Open
<1> QED BY <1>1, <1>3, <1>4, <1>5, <1>6, StepInside

LEMMA SpendPartAccount ==
  ASSUME AccountInv, TypeOK', NEW c \in Calls, SpendPart(c)
  PROVE  TableInv' /\ CallInv' /\ Balance'
<1> USE DEF AccountInv, Inv
<1>1. PICK q \in Rows : /\ Visits(c, q) /\ snap[c][q] >= left[c]
                        /\ \/ /\ rest[q] >= left[c]
                              /\ parts' = [parts EXCEPT ![c][q] = left[c]]
                              /\ Writes(c, q, rest[q] - left[c])
                              /\ pc' = [pc EXCEPT ![c] = "commit"]
                              /\ UNCHANGED <<left, toVisit>>
                           \/ RollsBack(c)
  BY DEF SpendPart
<1>2. CASE RollsBack(c)
  BY <1>1, <1>2, RollbackAccount DEF Visits, Open
<1>3. CASE /\ rest[q] >= left[c]
           /\ parts' = [parts EXCEPT ![c][q] = left[c]]
           /\ Writes(c, q, rest[q] - left[c])
           /\ pc' = [pc EXCEPT ![c] = "commit"]
           /\ UNCHANGED <<left, toVisit>>
  <2>1. /\ pc[c] = "spend" /\ pc'[c] = "commit" /\ q \in toVisit[c]
        /\ debt'[c] = 0 /\ used'[c] = used[c] /\ owed'[c] = owed[c] /\ snap'[c] = snap[c]
        /\ parts'[c][q] = left[c] /\ \A p \in Rows \ {q} : parts'[c][p] = parts[c][p]
    BY <1>1, <1>3 DEF Visits, TypeOK, OrderInv
  <2>2. /\ used[c] = left[c] + SumFunctionOnSet(parts[c], Rows) /\ owed[c] = 0
        /\ \A p \in Rows : parts[c][p] = IF p \in toVisit[c] THEN 0 ELSE snap[c][p]
    BY <2>1 DEF CallInv, Paid
  <2>3. \A p \in Rows : parts[c][p] \in Int /\ parts'[c][p] \in Int /\ snap[c][p] \in Nat
    BY DEF TypeOK
  <2>4. SumFunctionOnSet(parts'[c], Rows) = SumFunctionOnSet(parts[c], Rows) + (left[c] - 0)
    <3>1. SumFunctionOnSet(parts'[c], Rows)
            = SumFunctionOnSet(parts[c], Rows) + (parts'[c][q] - parts[c][q])
      <4>1. \A p \in Rows : parts'[c][p] \in Int /\ parts[c][p] \in Int
        BY <2>3
      <4>2. \A p \in Rows \ {q} : parts'[c][p] = parts[c][p]
        BY <2>1
      <4> HIDE DEF AccountInv, Inv
      <4> QED BY <4>1, <4>2, Finite, SumChanged
    <3> QED BY <2>1, <2>2, <3>1
  <2>5. SumFunctionOnSet(parts'[c], Rows) <= SumFunctionOnSet(snap[c], Rows)
    <3>1. \A p \in Rows : parts'[c][p] <= snap[c][p]
      BY <1>1, <2>1, <2>2, <2>3
    <3> QED BY <2>3, <3>1, Finite, SumAtMost
  <2>6. /\ SumFunctionOnSet(parts[c], Rows) \in Int /\ SumFunctionOnSet(snap[c], Rows) \in Int
        /\ left[c] \in Nat /\ used[c] \in Nat /\ rest[q] \in Nat
    BY PartsType DEF TypeOK
  <2>7. used[c] = 0 + SumFunctionOnSet(parts'[c], Rows)
        /\ ~(used[c] > SumFunctionOnSet(snap[c], Rows))
    BY <2>2, <2>4, <2>5, <2>6
  <2>8. Paid(c)'
    BY <2>1, <2>2, <2>7 DEF Paid
  <2>9. /\ rest[q] - left[c] \in Nat /\ rest[q] - left[c] <= rest[q]
        /\ rest[q] - (rest[q] - left[c]) = left[c] /\ left[c] <= left[c]
    BY <1>3, <2>6
  <2>10. \A d \in Calls \ {c} : pc'[d] = pc[d] /\ left'[d] = left[d] /\ toVisit'[d] = toVisit[d]
    BY <1>3 DEF TypeOK
  <2> QED BY <1>1, <1>3, <2>1, <2>6, <2>8, <2>9, <2>10, VisitAccount DEF Open
<1> QED BY <1>1, <1>2, <1>3

LEMMA SpendAllAccount ==
  ASSUME AccountInv, TypeOK', NEW c \in Calls, SpendAll(c)
  PROVE  TableInv' /\ CallInv' /\ Balance'
<1> USE DEF AccountInv, Inv
<1>1. PICK q \in Rows : /\ Visits(c, q) /\ snap[c][q] < left[c]
                        /\ parts' = [parts EXCEPT ![c][q] = snap[c][q]]
                        /\ Writes(c, q, 0)
                        /\ left' = [left EXCEPT ![c] = @ - snap[c][q]]
                        /\ toVisit' = [toVisit EXCEPT ![c] = @ \ {q}]
                        /\ UNCHANGED pc
  BY DEF SpendAll
<1>2. /\ pc[c] = "spend" /\ q \in toVisit[c] /\ used'[c] = used[c] /\ owed'[c] = owed[c]
      /\ snap'[c] = snap[c] /\ pc'[c] = "spend"
      /\ left'[c] = left[c] - snap[c][q] /\ toVisit'[c] = toVisit[c] \ {q}
      /\ parts'[c][q] = snap[c][q] /\ \A p \in Rows \ {q} : parts'[c][p] = parts[c][p]
  BY <1>1 DEF Visits, TypeOK
<1>3. /\ used[c] = left[c] + SumFunctionOnSet(parts[c], Rows) /\ owed[c] = 0
      /\ \A p \in Rows : parts[c][p] = IF p \in toVisit[c] THEN 0 ELSE snap[c][p]
  BY <1>2 DEF CallInv, Paid
<1>4. \A p \in Rows : parts[c][p] \in Int /\ parts'[c][p] \in Int /\ snap[c][p] \in Nat
  BY DEF TypeOK
<1>5. SumFunctionOnSet(parts'[c], Rows) = SumFunctionOnSet(parts[c], Rows) + (snap[c][q] - 0)
  <2>1. SumFunctionOnSet(parts'[c], Rows)
          = SumFunctionOnSet(parts[c], Rows) + (parts'[c][q] - parts[c][q])
    <3>1. \A p \in Rows : parts'[c][p] \in Int /\ parts[c][p] \in Int
      BY <1>4
    <3>2. \A p \in Rows \ {q} : parts'[c][p] = parts[c][p]
      BY <1>2
    <3> HIDE DEF AccountInv, Inv
    <3> QED BY <3>1, <3>2, Finite, SumChanged
  <2> QED BY <1>2, <1>3, <2>1
<1>6. SumFunctionOnSet(parts[c], Rows) \in Int /\ left[c] \in Nat /\ rest[q] \in Nat
  BY PartsType DEF TypeOK
<1>7. left'[c] > 0 /\ used'[c] = left'[c] + SumFunctionOnSet(parts'[c], Rows)
  BY <1>1, <1>2, <1>3, <1>4, <1>5, <1>6
<1>8. \A p \in Rows : parts'[c][p] = IF p \in toVisit'[c] THEN 0 ELSE snap'[c][p]
  BY <1>2, <1>3
<1>9. Paid(c)'
  BY <1>2, <1>3, <1>7, <1>8 DEF Paid
<1>10. rest[q] <= snap[c][q] /\ (overlapped = {} => rest[q] = snap[c][q])
  BY <1>2 DEF CallInv, Takes, Open
<1>11. /\ 0 <= rest[q] /\ rest[q] - 0 <= snap[c][q]
       /\ overlapped = {} => rest[q] - 0 = snap[c][q]
  BY <1>4, <1>6, <1>10
<1>12. \A d \in Calls \ {c} : pc'[d] = pc[d] /\ left'[d] = left[d] /\ toVisit'[d] = toVisit[d]
  BY <1>1 DEF TypeOK
<1> QED BY <1>1, <1>2, <1>4, <1>9, <1>11, <1>12, VisitAccount DEF Open

\* All that was read has been taken, so what is left is what it lacked.
LEMMA OweAccount ==
  ASSUME AccountInv, TypeOK', NEW c \in Calls, Owe(c)
  PROVE  TableInv' /\ CallInv' /\ Balance'
<1> USE DEF AccountInv, Inv
<1>1. /\ pc[c] = "spend" /\ pc'[c] = "commit" /\ toVisit[c] = {} /\ debt'[c] = left[c]
      /\ UNCHANGED <<table, used, snap, toVisit, parts, locks, draft, owed, overlapped>>
  BY DEF Owe, TypeOK, writes
<1>2. OthersUntouched(c)
  BY DEF Owe, TypeOK, OthersUntouched, writes
<1>3. /\ left[c] > 0 /\ used[c] = left[c] + SumFunctionOnSet(parts[c], Rows) /\ owed[c] = 0
      /\ \A p \in Rows : parts[c][p] = snap[c][p]
  BY <1>1 DEF CallInv, Paid
<1>4. \A p \in Rows : parts[c][p] \in Int
  BY DEF TypeOK
<1>5. SumFunctionOnSet(parts[c], Rows) = SumFunctionOnSet(snap[c], Rows)
  BY <1>3, <1>4, Finite, SumSame
<1>6. SumFunctionOnSet(snap[c], Rows) \in Int /\ left[c] \in Nat /\ used[c] \in Nat
  BY PartsType DEF TypeOK
<1>7. /\ used[c] > SumFunctionOnSet(snap[c], Rows)
      /\ left[c] = used[c] - SumFunctionOnSet(snap[c], Rows)
  BY <1>3, <1>5, <1>6
<1>8. Paid(c)'
  BY <1>1, <1>3, <1>7 DEF Paid
<1>9. Takes(c)'
  <2>1. rest' = rest /\ Open(c)
    BY <1>1 DEF table, Open
  <2> QED BY <1>1, <2>1 DEF CallInv, Takes
<1>10. Apart'
  <2>1. \A d \in Calls : Open(d)' = Open(d)
    BY <1>1, <1>2 DEF OthersUntouched, Open
  <2> QED BY <1>1, <2>1 DEF CallInv, Apart
<1> QED BY <1>1, <1>2, <1>8, <1>9, <1>10, StepInside

\* The commit takes from the table, and from the balance, what the call has
\* counted as its parts or less, and adds its debt.
LEMMA CommitAccount ==
  ASSUME AccountInv, TypeOK', NEW c \in Calls, Commit(c)
  PROVE  TableInv' /\ CallInv' /\ Balance'
<1> USE DEF AccountInv, Inv
<1>1. /\ pc[c] = "commit" /\ pc'[c] = "record" /\ rest' = Written(c)
      /\ UNCHANGED <<quota, used, overlapped>>
      /\ owed' = [owed EXCEPT ![c] = debt[c]]
  BY DEF Commit, TypeOK, locals
<1>2. OthersUntouched(c)
  BY DEF Commit, TypeOK, OthersUntouched, locals
<1>3. /\ Paid(c) /\ Takes(c) /\ Open(c) /\ owed[c] = 0
      /\ used[c] = debt[c] + SumFunctionOnSet(parts[c], Rows)
  BY <1>1 DEF CallInv, Open, Paid
<1>4. \A q \in Rows : /\ rest[q] \in Nat /\ rest'[q] \in Nat /\ quota[q] \in Nat
                      /\ draft[c][q] \in Nat /\ parts[c][q] \in Nat
  BY DEF TypeOK
<1>5. \A q \in Rows : /\ rest'[q] <= rest[q]
                      /\ rest[q] - rest'[q] <= parts[c][q]
                      /\ overlapped = {} => rest[q] - rest'[q] = parts[c][q]
                      /\ q \notin locks[c] => rest'[q] = rest[q]
  BY <1>1, <1>3, <1>4 DEF Written, Takes
<1>6. TableInv'
  <2>1. Inserted' = Inserted
    BY <1>1 DEF Inserted
  <2>2. \A q \in Rows : rest'[q] <= quota'[q]
    BY <1>1, <1>4, <1>5 DEF TableInv
  <2> QED BY <2>1, <2>2 DEF TableInv
<1>7. CallInv'
  <2>1. Paid(c)' /\ Takes(c)'
    BY <1>1 DEF Paid, Takes, Open
  <2>2. ASSUME NEW d \in Calls \ {c} PROVE Paid(d)' /\ Takes(d)'
    <3>1. Open(d) => \A q \in Rows : q \in toVisit[d] =>
             rest'[q] <= rest[q] /\ (overlapped' = {} => rest'[q] = rest[q])
      BY <1>1, <1>3, <1>5 DEF CallInv, Apart
    <3>2. Open(d) => \A q \in Rows : q \in locks[d] => rest'[q] = rest[q]
      BY <1>5 DEF LockInv
    <3> QED BY <1>1, <1>2, <3>1, <3>2, CallKept DEF CallInv, OthersUntouched
  <2>3. Apart'
    <3>1. \A d \in Calls : Open(d)' => Open(d)
      BY <1>1, <1>2 DEF OthersUntouched, Open
    <3> QED BY <1>1, <3>1 DEF CallInv, Apart
  <2> QED BY <2>1, <2>2, <2>3 DEF CallInv
<1>8. Balance'
  <2> DEFINE before == [q \in Rows |-> quota[q] - rest[q]]
             after  == [q \in Rows |-> quota'[q] - rest'[q]]
             taken  == [q \in Rows |-> rest[q] - rest'[q]]
  <2>1. \A q \in Rows : /\ before[q] \in Int /\ taken[q] \in Int /\ parts[c][q] \in Int
                        /\ after[q] = before[q] + taken[q]
                        /\ taken[q] <= parts[c][q]
                        /\ overlapped = {} => taken[q] = parts[c][q]
    BY <1>1, <1>4, <1>5
  <2>2. Charged = SumFunctionOnSet(before, Rows) /\ Charged' = SumFunctionOnSet(after, Rows)
    BY DEF Charged
  <2> HIDE DEF before, after, taken
  <2>3. Charged' = Charged + SumFunctionOnSet(taken, Rows)
    BY <2>1, <2>2, Finite, SumPlus
  <2>4. SumFunctionOnSet(taken, Rows) <= SumFunctionOnSet(parts[c], Rows)
    BY <2>1, Finite, SumAtMost
  <2>5. overlapped = {} => SumFunctionOnSet(taken, Rows) = SumFunctionOnSet(parts[c], Rows)
    BY <2>1, Finite, SumSame
  <2>6. Owed' = Owed + debt[c]
    <3>1. \A d \in Calls : owed[d] \in Int /\ owed'[d] \in Int
      BY DEF TypeOK
    <3>2. owed'[c] = debt[c] /\ \A d \in Calls \ {c} : owed'[d] = owed[d]
      BY <1>1 DEF TypeOK
    <3>3. SumFunctionOnSet(owed', Calls) = SumFunctionOnSet(owed, Calls) + (owed'[c] - owed[c])
      BY <3>1, <3>2, Finite, SumChanged
    <3>4. debt[c] \in Int
      BY DEF TypeOK
    <3> QED BY <1>3, <3>2, <3>3, <3>4 DEF Owed
  <2>7. Used' = used[c] + Used
    <3>1. Committed' = Committed \cup {c} /\ c \notin Committed
      BY <1>1, <1>2 DEF OthersUntouched, Committed
    <3>2. Committed' \ {c} = Committed /\ c \in Committed'
      BY <3>1
    <3>3. IsFiniteSet(Committed') /\ \A d \in Committed' : used[d] \in Int
      <4>1. IsFiniteSet(Committed \cup {c})
        BY Finite, FS_AddElement
      <4>2. \A d \in Calls : used[d] \in Int
        BY DEF TypeOK
      <4>3. Committed' \subseteq Calls
        BY DEF Committed
      <4> QED BY <3>1, <4>1, <4>2, <4>3
    <3>4. SumFunctionOnSet(used, Committed') = used[c] + SumFunctionOnSet(used, Committed)
      BY <3>2, <3>3, SumWithout
    <3> QED BY <1>1, <3>4 DEF Used
  <2>8. /\ Charged \in Int /\ Owed \in Int /\ Used \in Int /\ debt[c] \in Int
        /\ SumFunctionOnSet(taken, Rows) \in Int /\ SumFunctionOnSet(parts[c], Rows) \in Int
    <3>1. Charged \in Int /\ SumFunctionOnSet(taken, Rows) \in Int
      BY <2>1, <2>2, Finite, SumType
    <3>2. Owed \in Int /\ Used \in Int
      BY Finite, SumType DEF TypeOK, Owed, Used, Committed
    <3> QED BY <3>1, <3>2, PartsType DEF TypeOK
  <2> QED BY <1>1, <1>3, <2>3, <2>4, <2>5, <2>6, <2>7, <2>8
          DEF Balance, NeverOvercharged, ChargedExactly
<1> QED BY <1>6, <1>7, <1>8

LEMMA RecordAccount ==
  ASSUME AccountInv, TypeOK', NEW c \in Calls, Record(c)
  PROVE  TableInv' /\ CallInv' /\ Balance'
<1> USE DEF AccountInv, Inv
<1>1. /\ pc[c] = "record" /\ pc'[c] = "done" /\ \A d \in Calls \ {c} : pc'[d] = pc[d]
      /\ UNCHANGED <<table, locals, writes, owed, overlapped>>
  BY DEF Record, TypeOK
<1>2. TableInv'
  BY <1>1 DEF TableInv, Inserted, table
<1>3. CallInv'
  <2>1. Paid(c)' /\ Takes(c)'
    BY <1>1 DEF Paid, Takes, Open
  <2>2. ASSUME NEW d \in Calls \ {c} PROVE Paid(d)' /\ Takes(d)'
    <3>1. rest' = rest /\ \A q \in Rows : rest[q] \in Int
      BY <1>1 DEF table, TypeOK
    <3> QED BY <1>1, <3>1, CallKept DEF CallInv, locals, writes
  <2>3. Apart'
    BY <1>1 DEF CallInv, Apart, Open
  <2> QED BY <2>1, <2>2, <2>3 DEF CallInv
<1>4. Balance'
  <2>1. Committed' = Committed
    BY <1>1 DEF Committed
  <2>2. /\ \A q \in Rows : quota'[q] - rest'[q] = quota[q] - rest[q]
        /\ used' = used
    BY <1>1 DEF table, locals
  <2> QED BY <1>1, <2>1, <2>2, BalanceKept
<1> QED BY <1>2, <1>3, <1>4

LEMMA NextAccount == AccountInv /\ [Next]_vars => AccountInv'
<1> SUFFICES ASSUME AccountInv, [Next]_vars PROVE AccountInv'
  OBVIOUS
<1> USE DEF AccountInv
<1>1. Inv'
  BY NextPreserves
<1>2. TypeOK /\ TypeOK'
  BY <1>1 DEF Inv
<1>3. CASE AddUserQuota
  BY <1>1, <1>2, <1>3, AddAccount
<1>4. CASE Tick \/ UNCHANGED vars
  <2>1. UNCHANGED <<table, pc, locals, writes, owed, overlapped>>
    BY <1>4 DEF Tick, vars
  <2>2. TableInv'
    BY <2>1 DEF TableInv, Inserted, table
  <2>3. CallInv'
    BY <2>1 DEF CallInv, Paid, Takes, Apart, Open, table, locals, writes
  <2>4. Balance'
    BY <1>2, <2>1, BalanceKept DEF Committed, table, locals
  <2> QED BY <1>1, <2>2, <2>3, <2>4
<1>5. ASSUME NEW c \in Calls, QuotaConsume(c) PROVE AccountInv'
  <2>1. ASSUME Fail(c) PROVE TableInv' /\ CallInv' /\ Balance'
    BY <1>2, <2>1, RollbackAccount DEF Fail
  <2> QED BY <1>1, <1>2, <1>5, <2>1, SelectAccount, SpendPartAccount, SpendAllAccount,
             OweAccount, CommitAccount, RecordAccount DEF QuotaConsume
<1> QED BY <1>3, <1>4, <1>5 DEF Next

THEOREM AccountHolds == Spec => []AccountInv
<1>1. Init => AccountInv
  BY InitInv, InitAccount DEF AccountInv
<1> QED BY <1>1, NextAccount, PTL DEF Spec

\* However many calls overlap, and whichever fail, a user is never charged more
\* than the committed calls used. (quota.go:154-235)
THEOREM NobodyOvercharged == Spec => []NeverOvercharged
<1>1. AccountInv => NeverOvercharged
  BY DEF AccountInv, Balance
<1> QED BY <1>1, AccountHolds, PTL

\* ... and exactly that while no two transactions have overlapped.
THEOREM ChargesAreExact == Spec => []ChargedExactly
<1>1. AccountInv => ChargedExactly
  BY DEF AccountInv, Balance
<1> QED BY <1>1, AccountHolds, PTL

-----------------------------------------------------------------------------
\* What the user is shown.

LEMMA RestSum ==
  ASSUME TypeOK, NEW S \in SUBSET Rows, NEW T \in SUBSET S, \A q \in S \ T : rest[q] = 0
  PROVE  RestOf(S) = RestOf(T)
<1>1. IsFiniteSet(S) /\ \A q \in S : rest[q] \in Int
  BY Finite, FS_Subset DEF TypeOK
<1>2. SumFunctionOnSet(rest, S) = SumFunctionOnSet(rest, T)
  BY <1>1, SumNonzero
<1> QED BY <1>2 DEF RestOf

LEMMA SummaryShown ==
  ASSUME AccountInv
  PROVE  GetUserQuota.rest = RestOf(Spendable) /\ GetUserQuota.used >= 0
<1> DEFINE valid == {q \in Inserted : ends[q] > now}
<1>1. /\ valid \in SUBSET Rows /\ Spendable \in SUBSET valid
      /\ \A q \in valid \ Spendable : rest[q] = 0
  BY DEF Inserted, Spendable, AccountInv, Inv, TypeOK
<1>2. /\ GetUserQuota.rest = RestOf(valid)
      /\ GetUserQuota.used = SumFunctionOnSet(quota, valid) - RestOf(valid)
  BY DEF GetUserQuota
<1> HIDE DEF valid
<1>3. RestOf(valid) = RestOf(Spendable)
  BY <1>1, RestSum DEF AccountInv, Inv
<1>4. IsFiniteSet(valid)
  BY <1>1, Finite, FS_Subset
<1>5. \A q \in valid : rest[q] \in Int /\ quota[q] \in Int /\ rest[q] <= quota[q]
  BY <1>1 DEF AccountInv, Inv, TypeOK, TableInv
<1>6. SumFunctionOnSet(rest, valid) <= SumFunctionOnSet(quota, valid)
  BY <1>4, <1>5, SumAtMost
<1>7. SumFunctionOnSet(rest, valid) \in Int /\ SumFunctionOnSet(quota, valid) \in Int
  BY <1>4, <1>5, SumType
<1> QED BY <1>2, <1>3, <1>6, <1>7 DEF RestOf

\* The page counts the rows after each row; rows are numbered, so it is the last ones.
LEMMA PageShown ==
  ASSUME AccountInv, NEW page \in 0..MaxRows, NEW month \in 1..(MaxTime + 1)
  PROVE  UserQuota(page, month) =
           RestOf({q \in Inserted : ends[q] >= now /\ Cardinality(Inserted) - q < page})
<1> DEFINE details == GetUserQuotaDetails(page, month)
           counted == {q \in DOMAIN details : ~details[q].expired /\ details[q].rest > 0}
           listed  == [q \in counted |-> details[q].rest]
           last    == {q \in Inserted : ends[q] >= now /\ Cardinality(Inserted) - q < page}
<1>1. TypeOK /\ Inserted \subseteq Rows
  BY DEF AccountInv, Inv, Inserted
<1>2. PICK n \in 0..MaxRows : Inserted = 1..n
  BY DEF AccountInv, TableInv
<1>3. Cardinality(Inserted) = n
  BY <1>2, FS_Interval, LedgerConstants
<1>4. \A q \in Inserted : Cardinality({o \in Inserted : o > q}) = n - q
  <2> SUFFICES ASSUME NEW q \in Inserted PROVE Cardinality({o \in Inserted : o > q}) = n - q
    OBVIOUS
  <2>1. q \in Int /\ n \in Int /\ q <= n
    BY <1>2, LedgerConstants
  <2>2. {o \in Inserted : o > q} = (q + 1)..n
    BY <1>2, <2>1
  <2>3. Cardinality((q + 1)..n) = IF q + 1 > n THEN 0 ELSE n - (q + 1) + 1
    BY <2>1, FS_Interval
  <2>4. Cardinality((q + 1)..n) = n - q
    BY <2>1, <2>3
  <2> QED BY <2>2, <2>4
<1>5. DOMAIN details = {q \in Inserted : ends[q] + month > now /\ n - q < page}
  BY <1>4 DEF GetUserQuotaDetails
<1>6. \A q \in DOMAIN details : /\ details[q].rest = rest[q]
                                /\ details[q].expired = (ends[q] < now)
  BY DEF GetUserQuotaDetails
<1>7. UserQuota(page, month) = SumFunctionOnSet(listed, counted)
  BY DEF UserQuota
<1>8. \A q \in Inserted : ends[q] \in Nat /\ rest[q] \in Nat
  BY <1>1 DEF TypeOK
<1>9. now \in Nat /\ month >= 1 /\ month \in Nat
  BY <1>1, LedgerConstants DEF TypeOK
<1>10. counted = {q \in last : rest[q] > 0}
  <2> HIDE DEF details
  <2>1. \A q \in Inserted : q \in Int /\ ends[q] \in Int /\ rest[q] \in Int
    BY <1>2, <1>8
  <2>2. \A q \in Inserted : ends[q] >= now => ends[q] + month > now /\ ~(ends[q] < now)
    BY <1>8, <1>9
  <2>3. \A q \in Inserted : ~(ends[q] < now) => ends[q] >= now
    BY <1>8, <1>9
  <2> QED BY <1>3, <1>5, <1>6, <2>2, <2>3
<1>11. \A q \in counted : listed[q] \in Int /\ listed[q] = rest[q]
  BY <1>6, <1>8, <1>10
<1>12. last \in SUBSET Rows /\ counted \in SUBSET last /\ \A q \in last \ counted : rest[q] = 0
  BY <1>1, <1>8, <1>10
<1> HIDE DEF details, counted, listed, last
<1>13. IsFiniteSet(counted)
  BY <1>12, Finite, FS_Subset
<1>14. SumFunctionOnSet(listed, counted) = SumFunctionOnSet(rest, counted)
  BY <1>11, <1>13, SumSame
<1>15. RestOf(last) = RestOf(counted)
  BY <1>1, <1>12, RestSum
<1> QED BY <1>7, <1>14, <1>15 DEF last, RestOf

\* The summary counts just the rows a call may spend, the list of rows just those
\* of its page, no one is shown a negative use, and a call owes what the summary it
\* began with did not hold. (quota.go:75-135, 161-206, controllers/user.go:412-435)
THEOREM SpendableIsShown == Spec => []ShownIsSpendable
<1>1. AccountInv => ShownIsSpendable
  <2> SUFFICES ASSUME AccountInv PROVE ShownIsSpendable
    OBVIOUS
  <2>1. \A c \in Calls : pc[c] = "commit" =>
          LET shown == SumFunctionOnSet(snap[c], Rows)
          IN debt[c] = IF used[c] > shown THEN used[c] - shown ELSE 0
    BY DEF AccountInv, CallInv, Paid
  <2> QED BY <2>1, SummaryShown, PageShown DEF ShownIsSpendable
<1> QED BY <1>1, AccountHolds, PTL

----------------------------------------------------------------------------
(***************************************************************************)
(* The counter of frozen coins.                                            *)
(***************************************************************************)

\* CounterTypeOK, in two parts.
KeyInv ==
  /\ exists \in BOOLEAN /\ ttl \in BOOLEAN /\ (ttl => exists)
  /\ ~exists => frozen = 0

HoldersInv ==
  /\ frozen \in Int
  /\ stage \in [Holders -> {"idle", "expire", "held", "drop", "done", "dead"}]
  /\ share \in [Holders -> Nat]
  /\ failures \in 0..MaxFailures

LEMMA CounterParts ==
  /\ CounterTypeOK <=> KeyInv /\ HoldersInv
  /\ CounterTypeOK' <=> KeyInv' /\ HoldersInv'
  BY Zenon DEF CounterTypeOK, KeyInv, HoldersInv

LEMMA CounterInitType == CounterInit => CounterTypeOK
<1> SUFFICES ASSUME CounterInit PROVE CounterTypeOK
  OBVIOUS
<1>1. KeyInv
  BY Zenon DEF CounterInit, KeyInv
<1>2. HoldersInv
  BY FrozenConstants DEF CounterInit, HoldersInv, FrozenConstants
<1> QED BY <1>1, <1>2, CounterParts

----------------------------------------------------------------------------
\* The key: each command leaves it in one of three states.
LEMMA NextKey == KeyInv /\ [CounterNext]_counterVars => KeyInv'
<1> SUFFICES ASSUME KeyInv, [CounterNext]_counterVars PROVE KeyInv'
  OBVIOUS
<1>1. CASE UNCHANGED counterVars
  BY <1>1, Zenon DEF counterVars, KeyInv
<1>2. CASE ExpireCounter
  BY <1>2, Zenon DEF ExpireCounter, KeyInv
<1>3. ASSUME NEW h \in Holders, FreezeUserQuota(h) PROVE KeyInv'
  BY <1>3, Zenon DEF FreezeUserQuota, KeyInv
<1>4. ASSUME NEW h \in Holders, RenewExpiry(h) PROVE KeyInv'
  <2>1. UNCHANGED <<exists, frozen>> /\ (ttl' = exists \/ ttl' = ttl)
    BY <1>4, Zenon DEF RenewExpiry
  <2>2. CASE exists
    BY <2>1, <2>2, Zenon DEF KeyInv
  <2>3. CASE ~exists
    <3>1. exists = FALSE /\ ttl = FALSE
      BY <2>3, Zenon DEF KeyInv
    <3>2. ttl' = FALSE
      BY <2>1, <3>1, Zenon
    <3> QED BY <2>1, <2>3, <3>2, Zenon DEF KeyInv
  <2> QED BY <2>2, <2>3
<1>5. ASSUME NEW h \in Holders, UnfreezeUserQuota(h) PROVE KeyInv'
  BY <1>5, Zenon DEF UnfreezeUserQuota, Subtracts, KeyInv
<1>6. ASSUME NEW h \in Holders, DropCounter(h) PROVE KeyInv'
  <2>1. \/ exists' = FALSE /\ frozen' = 0 /\ ttl' = FALSE
        \/ UNCHANGED <<exists, frozen, ttl>>
    BY <1>6, Zenon DEF DropCounter
  <2>2. CASE exists' = FALSE /\ frozen' = 0 /\ ttl' = FALSE
    BY <2>2, Zenon DEF KeyInv
  <2>3. CASE UNCHANGED <<exists, frozen, ttl>>
    BY <2>3, Zenon DEF KeyInv
  <2> QED BY <2>1, <2>2, <2>3
<1>7. ASSUME NEW h \in Holders, Die(h) PROVE KeyInv'
  BY <1>7, Zenon DEF Die, KeyInv
<1> QED BY <1>1, <1>2, <1>3, <1>4, <1>5, <1>6, <1>7 DEF CounterNext, CounterStep

LEMMA NextHolders == HoldersInv /\ [CounterNext]_counterVars => HoldersInv'
<1> SUFFICES ASSUME HoldersInv, [CounterNext]_counterVars PROVE HoldersInv'
  OBVIOUS
<1> USE FrozenConstants DEF FrozenConstants, HoldersInv, Moves, Fails
<1>1. CASE UNCHANGED counterVars
  BY <1>1 DEF counterVars
<1>2. CASE ExpireCounter
  BY <1>2 DEF ExpireCounter
<1>3. ASSUME NEW h \in Holders, FreezeUserQuota(h) PROVE HoldersInv'
  BY <1>3 DEF FreezeUserQuota
<1>4. ASSUME NEW h \in Holders, RenewExpiry(h) PROVE HoldersInv'
  BY <1>4 DEF RenewExpiry
<1>5. ASSUME NEW h \in Holders, UnfreezeUserQuota(h) PROVE HoldersInv'
  BY <1>5 DEF UnfreezeUserQuota, Subtracts
<1>6. ASSUME NEW h \in Holders, DropCounter(h) PROVE HoldersInv'
  BY <1>6 DEF DropCounter
<1>7. ASSUME NEW h \in Holders, Die(h) PROVE HoldersInv'
  BY <1>7 DEF Die
<1> QED BY <1>1, <1>2, <1>3, <1>4, <1>5, <1>6, <1>7 DEF CounterNext, CounterStep

\* Every variable has its type, for any amounts: a key that does not exist holds neither
\* coins nor an expiry. (service/user.go:94-132)
THEOREM CounterTypeCorrect == CounterSpec => []CounterTypeOK
<1>1. CounterTypeOK /\ [CounterNext]_counterVars => CounterTypeOK'
  BY NextKey, NextHolders, CounterParts
<1> QED BY CounterInitType, <1>1, PTL DEF CounterSpec

----------------------------------------------------------------------------
\* Someone is about to renew or delete the counter.
Attended == \E h \in Holders : stage[h] \in {"expire", "drop"}

\* The steps that leave the counter there without an expiry.
LEMMA NextStuck == CounterTypeOK /\ NeverStuck /\ [CounterNext]_counterVars => NeverStuck'
<1> SUFFICES ASSUME CounterTypeOK, NeverStuck, [CounterNext]_counterVars, exists' /\ ~ttl'
             PROVE (failures > 0 \/ Attended)'
  BY DEF NeverStuck, Attended
<1>1. KeyInv /\ HoldersInv /\ HoldersInv'
  BY CounterParts, NextHolders
<1>2. exists /\ ~ttl => failures > 0 \/ Attended
  BY DEF NeverStuck, Attended
<1>3. ASSUME Fails PROVE (failures > 0)'
  BY <1>3, <1>1 DEF Fails, HoldersInv
<1>4. CASE UNCHANGED counterVars
  BY <1>4, <1>2 DEF counterVars, Attended
<1>5. CASE ExpireCounter
  BY <1>5, Zenon DEF ExpireCounter
<1>6. ASSUME NEW h \in Holders, FreezeUserQuota(h) PROVE Attended'
  BY <1>6, <1>1 DEF FreezeUserQuota, Moves, HoldersInv, Attended
<1>7. ASSUME NEW h \in Holders, RenewExpiry(h) PROVE (failures > 0)'
  <2>1. Fails
    BY <1>7, Zenon DEF RenewExpiry
  <2> QED BY <2>1, <1>3
<1>8. ASSUME NEW h \in Holders, UnfreezeUserQuota(h) PROVE (failures > 0 \/ Attended)'
  \* A key DECRBY creates holds no more than is taken off, and h goes on to delete it.
  <2>1. CASE exists
    <3>1. ~ttl /\ failures' = failures
      BY <1>8, Zenon DEF UnfreezeUserQuota, Subtracts
    <3>2. stage[h] = "held" /\ \A g \in Holders : g # h => stage'[g] = stage[g]
      BY <1>8, <1>1 DEF UnfreezeUserQuota, Moves, HoldersInv
    <3> QED BY <2>1, <3>1, <3>2, <1>2 DEF Attended
  <2>2. CASE ~exists
    <3>1. frozen = 0
      BY <2>2, <1>1 DEF KeyInv
    <3>2. stage'[h] = "drop"
      BY <3>1, <1>8, <1>1 DEF UnfreezeUserQuota, Moves, HoldersInv
    <3> QED BY <3>2 DEF Attended
  <2> QED BY <2>1, <2>2
<1>9. ASSUME NEW h \in Holders, DropCounter(h) PROVE (failures > 0)'
  <2>1. Fails
    BY <1>9, Zenon DEF DropCounter
  <2> QED BY <2>1, <1>3
<1>10. ASSUME NEW h \in Holders, Die(h) PROVE (failures > 0)'
  BY <1>10, <1>3 DEF Die
<1> QED BY <1>4, <1>5, <1>6, <1>7, <1>8, <1>9, <1>10 DEF CounterNext, CounterStep

\* A counter that no expiry will clear is one some request is about to renew or delete,
\* unless a command failed or a request died. (service/user.go:105-132)
THEOREM NothingStuck == CounterSpec => []NeverStuck
<1>1. CounterInit => CounterTypeOK /\ NeverStuck
  BY CounterInitType, Zenon DEF CounterInit, NeverStuck
<1>2. CounterTypeOK /\ NeverStuck /\ [CounterNext]_counterVars => (CounterTypeOK /\ NeverStuck)'
  BY NextKey, NextHolders, CounterParts, NextStuck
<1> QED BY <1>1, <1>2, PTL DEF CounterSpec

\* The counter holds no more than the requests do.
Covered ==
  /\ frozen <= SumFunctionOnSet(share, Holders)
  /\ \A h \in Holders : stage[h] = "idle" => share[h] = 0

LEMMA HeldSum ==
  ASSUME CounterTypeOK
  PROVE  SumFunctionOnSet(share, Holders) \in Int /\ SumFunctionOnSet(share, Holders) >= 0
<1>1. \A h \in Holders : share[h] \in Int /\ share[h] >= 0
  BY DEF CounterTypeOK
<1> QED BY <1>1, FrozenConstants, SumType, SumPositive

\* What one request adds to the counter or takes off it.
LEMMA HeldChanges ==
  ASSUME CounterTypeOK, CounterTypeOK', NEW h \in Holders,
         \A g \in Holders \ {h} : share'[g] = share[g]
  PROVE  SumFunctionOnSet(share', Holders) = SumFunctionOnSet(share, Holders) + (share'[h] - share[h])
<1>1. \A g \in Holders : share'[g] \in Int /\ share[g] \in Int
  BY DEF CounterTypeOK
<1> QED BY <1>1, FrozenConstants, SumChanged

LEMMA NextCovered == CounterTypeOK /\ Covered /\ [CounterNext]_counterVars => Covered'
<1> SUFFICES ASSUME CounterTypeOK, Covered, [CounterNext]_counterVars PROVE Covered'
  OBVIOUS
<1> DEFINE sum == SumFunctionOnSet(share, Holders)
<1>1. CounterTypeOK /\ CounterTypeOK'
  BY NextKey, NextHolders, CounterParts
<1>2. frozen \in Int /\ sum \in Int /\ sum >= 0 /\ frozen <= sum
  BY HeldSum DEF CounterTypeOK, Covered
<1>3. ASSUME UNCHANGED share, frozen' = frozen \/ frozen' = 0,
             \A g \in Holders : stage'[g] = "idle" => stage[g] = "idle"
      PROVE  Covered'
  BY <1>2, <1>3 DEF Covered
<1>4. ASSUME NEW h \in Holders, FreezeUserQuota(h) PROVE Covered'
  <2>1. PICK n \in Asked : n > 0 /\ share' = [share EXCEPT ![h] = n] /\ frozen' = frozen + n
    BY <1>4 DEF FreezeUserQuota
  <2>2. n \in Nat
    BY <2>1, FrozenConstants
  <2>3. share'[h] = n /\ \A g \in Holders \ {h} : share'[g] = share[g]
    BY <2>1 DEF CounterTypeOK
  <2>4. SumFunctionOnSet(share', Holders) = sum + (share'[h] - share[h])
    BY <1>1, <2>3, HeldChanges
  <2>5. share[h] = 0
    BY <1>4 DEF FreezeUserQuota, Moves, Covered
  <2>6. frozen' <= SumFunctionOnSet(share', Holders)
    BY <1>2, <2>1, <2>2, <2>3, <2>4, <2>5
  <2>7. \A g \in Holders : stage'[g] = "idle" => share'[g] = 0
    BY <1>4, <2>1 DEF FreezeUserQuota, Moves, Covered, CounterTypeOK
  <2> QED BY <2>6, <2>7 DEF Covered
<1>5. ASSUME NEW h \in Holders, UnfreezeUserQuota(h) PROVE Covered'
  <2>1. share' = [share EXCEPT ![h] = 0] /\ frozen' = frozen - share[h]
    BY <1>5 DEF UnfreezeUserQuota, Subtracts
  <2>2. share'[h] = 0 /\ \A g \in Holders \ {h} : share'[g] = share[g]
    BY <2>1 DEF CounterTypeOK
  <2>3. SumFunctionOnSet(share', Holders) = sum + (share'[h] - share[h])
    BY <1>1, <2>2, HeldChanges
  <2>4. share[h] \in Nat
    BY DEF CounterTypeOK
  <2>5. frozen' <= SumFunctionOnSet(share', Holders)
    BY <1>2, <2>1, <2>2, <2>3, <2>4
  <2>6. \A g \in Holders : stage'[g] = "idle" => share'[g] = 0
    BY <1>5, <2>1 DEF UnfreezeUserQuota, Moves, Covered, CounterTypeOK
  <2> QED BY <2>5, <2>6 DEF Covered
<1>6. CASE ExpireCounter \/ UNCHANGED counterVars
  BY <1>3, <1>6 DEF ExpireCounter, counterVars
<1>7. ASSUME NEW h \in Holders, RenewExpiry(h) \/ DropCounter(h) \/ Die(h) PROVE Covered'
  <2>1. UNCHANGED share /\ (frozen' = frozen \/ frozen' = 0)
    BY <1>7 DEF RenewExpiry, DropCounter, Die
  <2>2. \A g \in Holders : stage'[g] = "idle" => stage[g] = "idle"
    BY <1>7 DEF RenewExpiry, DropCounter, Die, Moves, CounterTypeOK
  <2> QED BY <1>3, <2>1, <2>2
<1> QED BY <1>4, <1>5, <1>6, <1>7 DEF CounterNext, CounterStep

\* UserQuota never reports more coins as frozen than requests hold, whatever
\* expires, fails or overlaps. (service/user.go:66-132)
THEOREM NoneFrozenUnheld == CounterSpec => []FrozenCovered
<1>1. CounterInit => Covered
  <2> SUFFICES ASSUME CounterInit PROVE Covered
    OBVIOUS
  <2>1. CounterTypeOK /\ frozen = 0 /\ \A h \in Holders : share[h] = 0
    BY CounterInitType DEF CounterInit
  <2>2. SumFunctionOnSet(share, Holders) \in Int /\ SumFunctionOnSet(share, Holders) >= 0
    BY <2>1, HeldSum
  <2> QED BY <2>1, <2>2 DEF Covered
<1>2. CounterTypeOK /\ Covered => FrozenCovered
  BY HeldSum DEF Covered, FrozenCovered, FrozenShown, CounterTypeOK
<1> QED BY <1>1, <1>2, NextCovered, CounterTypeCorrect, PTL DEF CounterSpec

----------------------------------------------------------------------------
\* The conversation that is sent to a model (ContextWindow).

\* What a holds, and k + 1 whenever k does, all up to b hold.
LEMMA UpInduction ==
  ASSUME NEW a \in Nat, NEW b \in Nat, NEW B, a \in B,
         \A k \in a..b : k \in B /\ k < b => k + 1 \in B
  PROVE  \A k \in a..b : k \in B
<1> DEFINE T == {k \in a..b : k \notin B}
<1> SUFFICES ASSUME T # {} PROVE FALSE
  OBVIOUS
<1>1. T \subseteq Nat
  OBVIOUS
<1>2. PICK k \in T : \A j \in T : ~(<<j, k>> \in OpToRel(<, Nat))
  BY <1>1, WFMin, NatLessThanWellFounded
<1>3. k \in Nat /\ k \in a..b /\ k \notin B /\ k # a
  OBVIOUS
<1>4. k - 1 \in a..b /\ k - 1 \in Nat /\ k - 1 < k
  BY <1>3
<1>5. k - 1 \notin T
  BY <1>2, <1>3, <1>4 DEF OpToRel
<1>6. k - 1 \in B
  BY <1>4, <1>5
<1>7. (k - 1) + 1 = k /\ k - 1 < b
  BY <1>3
<1> QED BY <1>3, <1>4, <1>6, <1>7

LEMMA Smallest ==
  ASSUME NEW T \in SUBSET Nat, T # {}
  PROVE  \E k \in T : \A j \in T : k <= j
<1>1. PICK k \in T : \A j \in T : ~(<<j, k>> \in OpToRel(<, Nat))
  BY WFMin, NatLessThanWellFounded
<1>2. \A j \in T : ~(j < k)
  BY <1>1 DEF OpToRel
<1>3. \A j \in T : k <= j
  BY <1>2
<1> QED BY <1>3

\* A sum over a sequence is that over the next one's places.
LEMMA SumShift ==
  ASSUME NEW n \in Nat, NEW f, NEW g,
         \A i \in 1..n : f[i] \in Int /\ f[i] = g[i + 1]
  PROVE  SumFunctionOnSet(f, 1..n) = SumFunctionOnSet(g, 2..(n + 1))
<1> DEFINE next(T) == {j \in 2..(n + 1) : j - 1 \in T}
           B == {T \in SUBSET (1..n) : SumFunctionOnSet(f, T) = SumFunctionOnSet(g, next(T))}
<1>1. IsFiniteSet(1..n) /\ IsFiniteSet(2..(n + 1))
  BY FS_Interval
<1>2. ASSUME NEW T \in SUBSET (1..n), NEW i \in T, T \ {i} \in B
      PROVE  SumFunctionOnSet(f, T) = SumFunctionOnSet(g, next(T))
  <2>1. IsFiniteSet(T) /\ IsFiniteSet(next(T))
    BY <1>1, FS_Subset
  <2>2. i + 1 \in next(T) /\ next(T) \ {i + 1} = next(T \ {i})
    OBVIOUS
  <2>3. \A j \in next(T) : g[j] \in Int
    <3> TAKE j \in next(T)
    <3>1. j - 1 \in 1..n /\ (j - 1) + 1 = j
      OBVIOUS
    <3> QED BY <3>1
  <2>4. SumFunctionOnSet(f, T \ {i}) = SumFunctionOnSet(g, next(T \ {i}))
    BY <1>2
  <2> HIDE DEF next, B
  <2>5. SumFunctionOnSet(f, T) = f[i] + SumFunctionOnSet(f, T \ {i})
    BY <2>1, SumWithout
  <2>6. SumFunctionOnSet(g, next(T)) = g[i + 1] + SumFunctionOnSet(g, next(T) \ {i + 1})
    BY <2>1, <2>2, <2>3, SumWithout
  <2>7. f[i] = g[i + 1]
    OBVIOUS
  <2> QED BY <2>2, <2>4, <2>5, <2>6, <2>7
<1>3. next({}) = {} /\ next(1..n) = 2..(n + 1)
  OBVIOUS
<1>4. {} \in B
  BY <1>3, SumEmpty
<1>5. \A T \in SUBSET (1..n) : \A i \in T : T \ {i} \in B => T \in B
  BY <1>2
<1>6. B \in SUBSET SUBSET (1..n)
  OBVIOUS
<1> HIDE DEF B
<1>7. 1..n \in B
  BY <1>1, <1>4, <1>5, <1>6, ElementInduction
<1> QED BY <1>3, <1>7 DEF B

LEMMA MessagesType ==
  \A m \in Messages : m.role \in {"user", "assistant"} /\ m.content \in Nat /\ m.parts \in Seq(Content)
BY WindowConstants

LEMMA PartsNat == ASSUME NEW part \in Content, NEW model PROVE PartTokens(part, model) \in Nat
<1>1. CASE part.type = "text"
  <2>1. part.size \in Nat
    BY <1>1 DEF Content
  <2> QED BY <1>1, <2>1 DEF PartTokens
<1>2. CASE part.type # "text"
  BY <1>2 DEF PartTokens
<1> QED BY <1>1, <1>2

\* A sum over a sequence of naturals.
LEMMA SeqSum ==
  ASSUME NEW n \in Nat, NEW f, DOMAIN f = 1..n, \A i \in 1..n : f[i] \in Nat
  PROVE  SumFunction(f) \in Nat /\ SumFunction(f) = SumFunctionOnSet(f, 1..n)
<1>1. IsFiniteSet(1..n)
  BY FS_Interval
<1>2. \A i \in 1..n : f[i] \in Int /\ f[i] >= 0
  OBVIOUS
<1>3. SumFunctionOnSet(f, 1..n) \in Int /\ SumFunctionOnSet(f, 1..n) >= 0
  BY <1>1, <1>2, SumType, SumPositive
<1>4. SumFunction(f) = SumFunctionOnSet(f, 1..n)
  BY DEF SumFunction
<1> QED BY <1>3, <1>4

LEMMA TokensNat == ASSUME NEW m \in Messages, NEW model PROVE MessageTokens(m, model) \in Nat
<1> DEFINE f == [i \in DOMAIN m.parts |-> PartTokens(m.parts[i], model)]
<1>1. m.content \in Nat /\ m.parts \in Seq(Content)
  BY MessagesType
<1>2. Len(m.parts) \in Nat /\ DOMAIN f = 1..Len(m.parts) /\ \A i \in 1..Len(m.parts) : m.parts[i] \in Content
  BY <1>1
<1>3. \A i \in 1..Len(m.parts) : f[i] \in Nat
  BY <1>2, PartsNat
<1> HIDE DEF f
<1>4. SumFunction(f) \in Nat
  BY <1>2, <1>3, SeqSum
<1> QED BY <1>1, <1>4 DEF MessageTokens, f

LEMMA FromType ==
  ASSUME NEW ms \in Seq(Messages), NEW i \in 1..(Len(ms) + 1)
  PROVE  /\ From(ms, i) \in Seq(Messages) /\ Len(From(ms, i)) = Len(ms) - i + 1
         /\ \A k \in 1..(Len(ms) - i + 1) : From(ms, i)[k] = ms[i + k - 1]
<1>1. Len(ms) \in Nat /\ \A k \in i..Len(ms) : ms[k] \in Messages
  OBVIOUS
<1> QED BY <1>1, SubSeqProperties DEF From

\* One message less, and the count is no more.
LEMMA CountLess ==
  ASSUME NEW ms \in Seq(Messages), NEW i \in 1..Len(ms), NEW model
  PROVE  /\ MessageTokenCount(From(ms, i), model) \in Nat
         /\ MessageTokenCount(From(ms, i + 1), model) \in Nat
         /\ MessageTokenCount(From(ms, i + 1), model) <= MessageTokenCount(From(ms, i), model)
<1> DEFINE n == Len(ms) - i
           tokens(q) == [k \in DOMAIN q |-> MessageTokens(q[k], model)]
           f == tokens(From(ms, i + 1))
           g == tokens(From(ms, i))
<1>1. Len(ms) \in Nat /\ n \in Nat /\ i + 1 \in 1..(Len(ms) + 1) /\ i \in 1..(Len(ms) + 1)
  OBVIOUS
<1>2. /\ DOMAIN From(ms, i + 1) = 1..n
      /\ \A k \in 1..n : From(ms, i + 1)[k] = ms[i + k] /\ From(ms, i + 1)[k] \in Messages
  <2>1. From(ms, i + 1) \in Seq(Messages) /\ Len(From(ms, i + 1)) = n
    BY <1>1, FromType
  <2>2. \A k \in 1..n : From(ms, i + 1)[k] = ms[i + k]
    <3>1. \A k \in 1..(Len(ms) - (i + 1) + 1) : From(ms, i + 1)[k] = ms[(i + 1) + k - 1]
      BY <1>1, FromType
    <3>2. Len(ms) - (i + 1) + 1 = n
      BY <1>1
    <3>3. \A k \in 1..n : (i + 1) + k - 1 = i + k
      BY <1>1
    <3> HIDE DEF n
    <3> QED BY <3>1, <3>2, <3>3
  <2> QED BY <2>1, <2>2
<1>3. /\ DOMAIN From(ms, i) = 1..(n + 1)
      /\ \A k \in 1..(n + 1) : From(ms, i)[k] = ms[i + k - 1] /\ From(ms, i)[k] \in Messages
  <2>1. From(ms, i) \in Seq(Messages) /\ Len(From(ms, i)) = n + 1
    BY <1>1, FromType
  <2>2. \A k \in 1..(n + 1) : From(ms, i)[k] = ms[i + k - 1]
    <3>1. \A k \in 1..(Len(ms) - i + 1) : From(ms, i)[k] = ms[i + k - 1]
      BY <1>1, FromType
    <3> QED BY <1>1, <3>1
  <2> QED BY <2>1, <2>2
<1> HIDE DEF n
<1>4. DOMAIN f = 1..n /\ \A k \in 1..n : f[k] \in Nat
  BY <1>2, TokensNat
<1>5. DOMAIN g = 1..(n + 1) /\ \A k \in 1..(n + 1) : g[k] \in Nat
  BY <1>3, TokensNat
<1>6. \A k \in 1..n : f[k] = g[k + 1]
  <2> TAKE k \in 1..n
  <2>1. k \in Nat /\ k + 1 \in 1..(n + 1) /\ i + (k + 1) - 1 = i + k
    BY <1>1
  <2>2. From(ms, i + 1)[k] = From(ms, i)[k + 1]
    BY <1>2, <1>3, <2>1
  <2> QED BY <1>2, <1>3, <2>1, <2>2
<1>7. /\ MessageTokenCount(From(ms, i + 1), model) = 3 + SumFunction(f)
      /\ MessageTokenCount(From(ms, i), model) = 3 + SumFunction(g)
  BY DEF MessageTokenCount
<1> HIDE DEF f, g
<1>8. SumFunction(f) \in Nat /\ SumFunction(f) = SumFunctionOnSet(f, 1..n)
  BY <1>1, <1>4, SeqSum
<1>9. SumFunction(g) \in Nat /\ SumFunction(g) = SumFunctionOnSet(g, 1..(n + 1))
  BY <1>1, <1>5, SeqSum
<1>10. SumFunctionOnSet(f, 1..n) = SumFunctionOnSet(g, 2..(n + 1))
  <2>1. \A k \in 1..n : f[k] \in Int /\ f[k] = g[k + 1]
    BY <1>4, <1>6
  <2> QED BY <1>1, <2>1, SumShift
<1>11. SumFunctionOnSet(g, 1..(n + 1)) = g[1] + SumFunctionOnSet(g, 2..(n + 1))
  <2>1. 1 \in 1..(n + 1) /\ (1..(n + 1)) \ {1} = 2..(n + 1) /\ IsFiniteSet(1..(n + 1))
    <3>1. n \in Nat
      BY <1>1
    <3>2. 1 \in 1..(n + 1) /\ (1..(n + 1)) \ {1} = 2..(n + 1)
      BY <3>1
    <3>3. IsFiniteSet(1..(n + 1))
      BY <3>1, FS_Interval
    <3> QED BY <3>2, <3>3
  <2>2. \A k \in 1..(n + 1) : g[k] \in Int
    BY <1>5
  <2>3. SumFunctionOnSet(g, 1..(n + 1)) = g[1] + SumFunctionOnSet(g, (1..(n + 1)) \ {1})
    BY <2>1, <2>2, SumWithout
  <2> QED BY <2>1, <2>3
<1>12. g[1] \in Nat
  BY <1>1, <1>5
<1>13. SumFunction(f) <= SumFunction(g)
  BY <1>8, <1>9, <1>10, <1>11, <1>12
<1> QED BY <1>7, <1>8, <1>9, <1>13

\* What fits still fits when the oldest messages are left out.
LEMMA CountFalls ==
  ASSUME NEW ms \in Seq(Messages), NEW i \in 1..Len(ms), NEW j \in i..Len(ms), NEW model
  PROVE  /\ MessageTokenCount(From(ms, i), model) \in Nat
         /\ MessageTokenCount(From(ms, j), model) \in Nat
         /\ MessageTokenCount(From(ms, j), model) <= MessageTokenCount(From(ms, i), model)
<1> DEFINE c(k) == MessageTokenCount(From(ms, k), model)
           B == {k \in i..Len(ms) : c(k) \in Nat /\ c(k) <= c(i)}
<1>1. c(i) \in Nat /\ i \in Nat /\ Len(ms) \in Nat
  BY CountLess
<1>2. i \in B
  BY <1>1
<1>3. ASSUME NEW k \in i..Len(ms), k \in B, k < Len(ms) PROVE k + 1 \in B
  <2>1. k \in 1..Len(ms) /\ k + 1 \in i..Len(ms)
    BY <1>1, <1>3
  <2>2. c(k + 1) \in Nat /\ c(k) \in Nat /\ c(k + 1) <= c(k)
    BY <2>1, CountLess
  <2>3. c(k) <= c(i)
    BY <1>3
  <2> HIDE DEF c
  <2>4. c(k + 1) <= c(i)
    BY <1>1, <2>2, <2>3
  <2> QED BY <2>1, <2>2, <2>4
<1> HIDE DEF B, c
<1>4. j \in B
  BY <1>1, <1>2, <1>3, UpInduction
<1> QED BY <1>1, <1>4 DEF B, c

----------------------------------------------------------------------------
\* The recursion of ReduceContextByTokens, and the end it stops at.

Whole(ms, i) == [messages |-> WithoutAnswer(From(ms, i)), err |-> FALSE]
TooLong      == [messages |-> << >>, err |-> TRUE]

Fits(ms, model, maxTokens, i) == MessageTokenCount(From(ms, i), model) <= maxTokens

Reduces(r, ms, model, maxTokens) ==
  r = [i \in 1..(Len(ms) + 1) |->
         IF Fits(ms, model, maxTokens, i) THEN Whole(ms, i)
         ELSE IF i >= Len(ms) THEN TooLong ELSE r[i + 1]]

FirstFit(ms, model, maxTokens, j) ==
  /\ j \in 1..Len(ms) /\ Fits(ms, model, maxTokens, j)
  /\ \A k \in 1..(j - 1) : ~Fits(ms, model, maxTokens, k)

LEMMA ReducesExists ==
  ASSUME NEW ms \in Seq(Messages), NEW model, NEW maxTokens
  PROVE  \E r : Reduces(r, ms, model, maxTokens)
<1> DEFINE fits(i) == Fits(ms, model, maxTokens, i)
           fitting(i) == {j \in i..Len(ms) : fits(j)}
           first(i) == CHOOSE j \in fitting(i) : \A k \in fitting(i) : j <= k
           r == [i \in 1..(Len(ms) + 1) |->
                   IF fits(i) THEN Whole(ms, i)
                   ELSE IF fitting(i) = {} THEN TooLong ELSE Whole(ms, first(i))]
<1>1. Len(ms) \in Nat
  OBVIOUS
<1> HIDE DEF fits
<1>2. ASSUME NEW i \in 1..(Len(ms) + 1)
      PROVE  r[i] = IF fits(i) THEN Whole(ms, i)
                    ELSE IF i >= Len(ms) THEN TooLong ELSE r[i + 1]
  <2>1. CASE fits(i)
    BY <2>1
  <2>2. CASE ~fits(i) /\ i >= Len(ms)
    <3>1. fitting(i) = {}
      BY <1>1, <2>2
    <3> QED BY <2>2, <3>1
  <2>3. CASE ~fits(i) /\ ~(i >= Len(ms))
    <3>1. fitting(i) = fitting(i + 1) /\ i + 1 \in 1..(Len(ms) + 1)
      BY <1>1, <2>3
    <3>2. first(i) = first(i + 1)
      BY <3>1
    <3>3. r[i] = IF fitting(i + 1) = {} THEN TooLong ELSE Whole(ms, first(i + 1))
      <4> HIDE DEF fitting, first
      <4>1. r[i] = IF fits(i) THEN Whole(ms, i)
                   ELSE IF fitting(i) = {} THEN TooLong ELSE Whole(ms, first(i))
        OBVIOUS
      <4> HIDE DEF r
      <4> QED BY <2>3, <3>1, <3>2, <4>1
    <3>4. r[i + 1] = IF fits(i + 1) THEN Whole(ms, i + 1)
                     ELSE IF fitting(i + 1) = {} THEN TooLong ELSE Whole(ms, first(i + 1))
      BY <3>1
    <3>5. ASSUME fits(i + 1) PROVE fitting(i + 1) # {} /\ first(i + 1) = i + 1
      <4>1. i + 1 \in fitting(i + 1) /\ \A k \in fitting(i + 1) : k \in Int /\ i + 1 <= k
        BY <1>1, <2>3, <3>5
      <4>2. i + 1 \in Int
        OBVIOUS
      <4> HIDE DEF fitting
      <4>3. \A j \in fitting(i + 1) : (\A k \in fitting(i + 1) : j <= k) => j = i + 1
        BY <4>1, <4>2
      <4> QED BY <4>1, <4>3
    <3> HIDE DEF first, fitting, r
    <3> QED BY <2>3, <3>3, <3>4, <3>5
  <2> QED BY <2>1, <2>2, <2>3
<1> HIDE DEF fitting, first
<1>3. Reduces(r, ms, model, maxTokens)
  <2>1. r = [i \in 1..(Len(ms) + 1) |-> r[i]]
    OBVIOUS
  <2> HIDE DEF r
  <2> QED BY <1>2, <2>1 DEF Reduces, fits
<1> QED BY <1>3

\* The call for the messages from the first to fit on answers, or the last one fails.
LEMMA StopsAtFirstFit ==
  ASSUME NEW ms \in Seq(Messages), Len(ms) > 0, NEW model, NEW maxTokens
  PROVE  LET reduced == ReduceContextByTokens(ms, model, maxTokens) IN
           \/ \E j : FirstFit(ms, model, maxTokens, j) /\ reduced = Whole(ms, j)
           \/ /\ \A i \in 1..Len(ms) : ~Fits(ms, model, maxTokens, i)
              /\ reduced = TooLong
<1> DEFINE r == CHOOSE f : Reduces(f, ms, model, maxTokens)
           fits(i) == Fits(ms, model, maxTokens, i)
<1>1. ReduceContextByTokens(ms, model, maxTokens) = r[1]
  BY DEF ReduceContextByTokens, Reduces, Fits, Whole, TooLong
<1>2. Reduces(r, ms, model, maxTokens)
  BY ReducesExists
<1>3. Len(ms) \in Nat /\ Len(ms) >= 1
  OBVIOUS
<1> HIDE DEF r
<1>4. \A i \in 1..Len(ms) : r[i] = IF fits(i) THEN Whole(ms, i)
                                    ELSE IF i >= Len(ms) THEN TooLong ELSE r[i + 1]
  BY <1>2, <1>3 DEF Reduces
<1> HIDE DEF fits
<1>5. ASSUME NEW j \in 1..Len(ms), \A k \in 1..(j - 1) : ~fits(k) PROVE r[j] = r[1]
  <2> DEFINE B == {k \in 1..j : r[k] = r[1]}
  <2>1. 1 \in B /\ j \in Nat
    BY <1>3
  <2>2. ASSUME NEW k \in 1..j, k \in B, k < j PROVE k + 1 \in B
    <3>1. k \in 1..Len(ms) /\ ~fits(k) /\ ~(k >= Len(ms)) /\ k + 1 \in 1..j
      BY <1>3, <1>5, <2>2
    <3>2. r[k] = r[k + 1]
      BY <1>4, <3>1
    <3> QED BY <2>2, <3>1, <3>2
  <2> HIDE DEF B
  <2>3. j \in B
    <3>1. j \in 1..j
      BY <2>1
    <3> QED BY <2>1, <2>2, <3>1, UpInduction
  <2> QED BY <2>3 DEF B
<1>6. CASE \A i \in 1..Len(ms) : ~fits(i)
  <2>1. Len(ms) \in 1..Len(ms) /\ \A k \in 1..(Len(ms) - 1) : ~fits(k)
    BY <1>3, <1>6
  <2>2. r[Len(ms)] = r[1]
    BY <1>5, <2>1
  <2>3. r[Len(ms)] = TooLong
    BY <1>3, <1>4, <1>6, <2>1
  <2> QED BY <1>1, <1>6, <2>2, <2>3 DEF fits
<1>7. CASE ~(\A i \in 1..Len(ms) : ~fits(i))
  <2> DEFINE T == {i \in 1..Len(ms) : fits(i)}
  <2>1. T # {} /\ T \in SUBSET Nat
    BY <1>3, <1>7
  <2>2. PICK j \in T : \A i \in T : j <= i
    BY <2>1, Smallest
  <2>3. j \in 1..Len(ms) /\ fits(j) /\ \A k \in 1..(j - 1) : ~fits(k)
    BY <1>3, <2>2
  <2>4. r[j] = r[1] /\ r[j] = Whole(ms, j)
    BY <1>4, <1>5, <2>3
  <2>5. FirstFit(ms, model, maxTokens, j)
    BY <2>3 DEF FirstFit, fits
  <2> QED BY <1>1, <2>4, <2>5
<1> QED BY <1>6, <1>7

LEMMA EndIsSuffix ==
  ASSUME NEW ms \in Seq(Messages), NEW i \in 1..Len(ms)
  PROVE  IsSuffix(From(ms, i), ms)
<1> DEFINE e == From(ms, i)
           n == Len(ms) - i + 1
           back(q) == Reverse(q)
<1>1. Len(ms) \in Nat /\ n \in Nat /\ n <= Len(ms) /\ i \in 1..(Len(ms) + 1)
  OBVIOUS
<1>2. e \in Seq(Messages) /\ Len(e) = n /\ \A k \in 1..n : e[k] = ms[i + k - 1]
  BY <1>1, FromType
<1> HIDE DEF e, n
<1>3. ASSUME NEW q \in Seq(Messages)
      PROVE  /\ back(q) \in Seq(Messages) /\ Len(back(q)) = Len(q)
             /\ \A k \in 1..Len(q) : back(q)[k] = q[Len(q) - k + 1]
  <2>1. Len(q) \in Nat /\ \A k \in 1..Len(q) : Len(q) - k + 1 \in 1..Len(q)
    OBVIOUS
  <2>2. back(q) = [k \in 1..Len(q) |-> q[Len(q) - k + 1]]
    BY DEF Reverse
  <2>3. \A k \in 1..Len(q) : q[Len(q) - k + 1] \in Messages
    BY <2>1
  <2> HIDE DEF back
  <2> QED BY <2>1, <2>2, <2>3
<1>4. /\ back(e) \in Seq(Messages) /\ Len(back(e)) = n
      /\ \A k \in 1..n : back(e)[k] = e[n - k + 1]
  BY <1>2, <1>3
<1>5. /\ back(ms) \in Seq(Messages) /\ Len(back(ms)) = Len(ms)
      /\ \A k \in 1..Len(ms) : back(ms)[k] = ms[Len(ms) - k + 1]
  BY <1>3
<1> HIDE DEF back
<1>6. ASSUME NEW k \in 1..n PROVE back(e)[k] = back(ms)[k]
  <2>1. n - k + 1 \in 1..n /\ k \in 1..Len(ms) /\ i + (n - k + 1) - 1 = Len(ms) - k + 1
    BY <1>1 DEF n
  <2> QED BY <1>2, <1>4, <1>5, <2>1
<1>7. \A k \in 1..n : back(e)[k] \in Messages /\ back(ms)[k] \in Messages
  BY <1>1, <1>4, <1>5
<1>8. /\ SubSeq(back(e), 1, n) \in Seq(Messages) /\ Len(SubSeq(back(e), 1, n)) = n
      /\ \A k \in 1..n : SubSeq(back(e), 1, n)[k] = back(e)[k]
  <2>1. 1 \in Int /\ n \in Int /\ n - 1 + 1 = n /\ (IF 1 <= n THEN n - 1 + 1 ELSE 0) = n
    BY <1>1
  <2>2. \A k \in 1..n : 1 + k - 1 = k
    BY <1>1
  <2> QED BY <1>7, <2>1, <2>2, SubSeqProperties
<1>9. /\ SubSeq(back(ms), 1, n) \in Seq(Messages) /\ Len(SubSeq(back(ms), 1, n)) = n
      /\ \A k \in 1..n : SubSeq(back(ms), 1, n)[k] = back(ms)[k]
  <2>1. 1 \in Int /\ n \in Int /\ n - 1 + 1 = n /\ (IF 1 <= n THEN n - 1 + 1 ELSE 0) = n
    BY <1>1
  <2>2. \A k \in 1..n : 1 + k - 1 = k
    BY <1>1
  <2> QED BY <1>7, <2>1, <2>2, SubSeqProperties
<1>10. SubSeq(back(e), 1, n) = SubSeq(back(ms), 1, n)
  BY <1>6, <1>8, <1>9, SeqEqual
<1>11. IsPrefix(back(e), back(ms))
  BY <1>1, <1>4, <1>5, <1>10 DEF IsPrefix
<1> QED BY <1>11 DEF IsSuffix, back, e

LEMMA FromFirst ==
  ASSUME NEW ms \in Seq(Messages), Len(ms) > 0
  PROVE  From(ms, 1) = ms
<1>1. From(ms, 1) \in Seq(Messages) /\ Len(From(ms, 1)) = Len(ms) - 1 + 1
      /\ \A k \in 1..(Len(ms) - 1 + 1) : From(ms, 1)[k] = ms[1 + k - 1]
  <2>1. 1 \in 1..(Len(ms) + 1)
    OBVIOUS
  <2> QED BY <2>1, FromType
<1>2. Len(ms) \in Nat /\ Len(ms) - 1 + 1 = Len(ms) /\ \A k \in 1..Len(ms) : 1 + k - 1 = k
  OBVIOUS
<1>3. Len(From(ms, 1)) = Len(ms) /\ \A k \in 1..Len(From(ms, 1)) : From(ms, 1)[k] = ms[k]
  BY <1>1, <1>2
<1> QED BY <1>1, <1>3, SeqEqual

\* What is left of an end of the conversation is an end of it.
LEMMA WithoutAnswerIsEnd ==
  ASSUME NEW ms \in Seq(Messages), NEW j \in 1..Len(ms)
  PROVE  WithoutAnswer(From(ms, j)) = IF j < Len(ms) /\ ms[j].role = "assistant"
                                      THEN From(ms, j + 1) ELSE From(ms, j)
<1>1. Len(ms) \in Nat /\ j \in 1..(Len(ms) + 1) /\ j + 1 \in 1..(Len(ms) + 1)
  OBVIOUS
<1>2. From(ms, j) \in Seq(Messages) /\ Len(From(ms, j)) = Len(ms) - j + 1
      /\ \A k \in 1..(Len(ms) - j + 1) : From(ms, j)[k] = ms[j + k - 1]
  BY <1>1, FromType
<1>3. From(ms, j + 1) \in Seq(Messages) /\ Len(From(ms, j + 1)) = Len(ms) - (j + 1) + 1
      /\ \A k \in 1..(Len(ms) - (j + 1) + 1) : From(ms, j + 1)[k] = ms[(j + 1) + k - 1]
  BY <1>1, FromType
<1>4. Head(From(ms, j)) = ms[j] /\ (Len(From(ms, j)) > 1 <=> j < Len(ms))
  <2>1. 1 \in 1..(Len(ms) - j + 1) /\ j + 1 - 1 = j
    BY <1>1
  <2>2. From(ms, j)[1] = ms[j]
    BY <1>2, <2>1
  <2> QED BY <1>1, <1>2, <2>2
<1>5. ASSUME j < Len(ms) PROVE Tail(From(ms, j)) = From(ms, j + 1)
  <2> DEFINE q == From(ms, j)
             t == Tail(q)
  <2>1. q \in Seq(Messages) /\ q # << >> /\ Len(q) = Len(ms) - j + 1
    BY <1>1, <1>2, <1>5
  <2> HIDE DEF q
  <2>2. /\ t \in Seq(Messages) /\ Len(t) = Len(ms) - (j + 1) + 1
        /\ \A k \in 1..Len(t) : t[k] = q[k + 1]
    BY <1>1, <2>1, HeadTailProperties
  <2> HIDE DEF t
  <2>3. ASSUME NEW k \in 1..Len(t) PROVE t[k] = From(ms, j + 1)[k]
    <3>1. k + 1 \in 1..(Len(ms) - j + 1) /\ k \in 1..(Len(ms) - (j + 1) + 1)
          /\ j + (k + 1) - 1 = (j + 1) + k - 1
      <4>1. k \in 1..(Len(ms) - (j + 1) + 1)
        BY <2>2
      <4>2. k \in Nat /\ j \in Nat /\ Len(ms) \in Nat /\ 1 <= k /\ k <= Len(ms) - (j + 1) + 1
        BY <1>1, <4>1
      <4> QED BY <4>1, <4>2
    <3>2. q[k + 1] = ms[j + (k + 1) - 1]
      BY <1>2, <3>1 DEF q
    <3>3. From(ms, j + 1)[k] = ms[(j + 1) + k - 1]
      BY <1>3, <3>1
    <3> QED BY <2>2, <3>1, <3>2, <3>3
  <2>4. t = From(ms, j + 1)
    BY <1>3, <2>2, <2>3, SeqEqual
  <2> QED BY <2>4 DEF t, q
<1> QED BY <1>4, <1>5 DEF WithoutAnswer

\* What is kept of a conversation, and which end of it that is.
LEMMA KeptIsAnEnd ==
  ASSUME NEW ms \in Seq(Messages), Len(ms) > 0, ms[Len(ms)].role = "user",
         NEW model, NEW ctx, InputLimit(ctx) \in Int,
         Prompt(ms, model, ctx).err = FALSE
  PROVE  \E j, k \in 1..Len(ms) :
           /\ FirstFit(ms, model, InputLimit(ctx), j)
           /\ Prompt(ms, model, ctx).messages = From(ms, k)
           /\ Prompt(ms, model, ctx).promptTokens <= InputLimit(ctx)
           /\ \/ k = j /\ (ms[j].role = "assistant" => j = Len(ms))
              \/ k = j + 1 /\ ms[j].role = "assistant"
<1> DEFINE limit == InputLimit(ctx)
           reduced == ReduceContextByTokens(ms, model, limit)
           c(i) == MessageTokenCount(From(ms, i), model)
<1>1. /\ Prompt(ms, model, ctx).err = reduced.err
      /\ Prompt(ms, model, ctx).messages = reduced.messages
      /\ Prompt(ms, model, ctx).promptTokens = MessageTokenCount(reduced.messages, model)
  BY DEF Prompt
<1>2. Len(ms) \in Nat /\ Len(ms) >= 1
  OBVIOUS
<1> HIDE DEF limit, reduced
<1>3. PICK j : FirstFit(ms, model, limit, j) /\ reduced = Whole(ms, j)
  <2>1. \/ \E i : FirstFit(ms, model, limit, i) /\ reduced = Whole(ms, i)
        \/ reduced = TooLong
    BY StopsAtFirstFit DEF reduced
  <2>2. reduced.err = FALSE
    BY <1>1
  <2>3. reduced # TooLong
    BY <2>2 DEF TooLong
  <2> QED BY <2>1, <2>3
<1>4. j \in 1..Len(ms) /\ c(j) <= limit
  BY <1>3 DEF FirstFit, Fits
<1>5. reduced.messages = WithoutAnswer(From(ms, j))
  BY <1>3 DEF Whole
<1>6. CASE j < Len(ms) /\ ms[j].role = "assistant"
  <2>1. reduced.messages = From(ms, j + 1)
    BY <1>4, <1>5, <1>6, WithoutAnswerIsEnd
  <2>2. j + 1 \in 1..Len(ms)
    BY <1>2, <1>4, <1>6
  <2>3. c(j + 1) <= c(j) /\ c(j + 1) \in Nat /\ c(j) \in Nat
    BY <1>4, CountLess
  <2> HIDE DEF c
  <2>4. c(j + 1) <= limit
    BY <1>4, <2>3 DEF limit
  <2> QED BY <1>1, <1>3, <1>4, <1>6, <2>1, <2>2, <2>4 DEF limit, c
<1>7. CASE ~(j < Len(ms) /\ ms[j].role = "assistant")
  <2>1. reduced.messages = From(ms, j)
    BY <1>4, <1>5, <1>7, WithoutAnswerIsEnd
  <2>2. ms[j].role = "assistant" => j = Len(ms)
    BY <1>2, <1>4, <1>7
  <2> QED BY <1>1, <1>3, <1>4, <2>1, <2>2 DEF limit
<1> QED BY <1>6, <1>7

WindowTypeOK == history \in Seq(Messages)

\* An error is answered exactly when the question alone does not fit.
LEMMA ErrorIsTooLong ==
  ASSUME NEW ms \in Seq(Messages), Len(ms) > 0, NEW model, NEW ctx, InputLimit(ctx) \in Int
  PROVE  /\ Prompt(ms, model, ctx).err \in BOOLEAN
         /\ Prompt(ms, model, ctx).err <=> ~Fits(ms, model, InputLimit(ctx), Len(ms))
<1> DEFINE limit == InputLimit(ctx)
           reduced == ReduceContextByTokens(ms, model, limit)
<1>1. Prompt(ms, model, ctx).err = reduced.err
  BY DEF Prompt
<1>2. Len(ms) \in Nat /\ Len(ms) \in 1..Len(ms)
  OBVIOUS
<1> HIDE DEF limit, reduced
<1>3. \/ \E j : FirstFit(ms, model, limit, j) /\ reduced = Whole(ms, j)
      \/ (\A i \in 1..Len(ms) : ~Fits(ms, model, limit, i)) /\ reduced = TooLong
  BY StopsAtFirstFit DEF reduced
<1>4. CASE \E j : FirstFit(ms, model, limit, j) /\ reduced = Whole(ms, j)
  <2>1. PICK j : FirstFit(ms, model, limit, j) /\ reduced = Whole(ms, j)
    BY <1>4
  <2>2. j \in 1..Len(ms) /\ Len(ms) \in j..Len(ms) /\ MessageTokenCount(From(ms, j), model) <= limit
    BY <1>2, <2>1 DEF FirstFit, Fits
  <2> DEFINE c(i) == MessageTokenCount(From(ms, i), model)
  <2>3. c(j) \in Nat /\ c(Len(ms)) \in Nat /\ c(Len(ms)) <= c(j) /\ c(j) <= limit
    BY <2>2, CountFalls
  <2> HIDE DEF c
  <2>4. c(Len(ms)) <= limit
    BY <2>3 DEF limit
  <2>5. Fits(ms, model, limit, Len(ms)) /\ reduced.err = FALSE
    BY <2>1, <2>4 DEF Fits, Whole, c
  <2> QED BY <1>1, <2>5 DEF limit
<1>5. CASE (\A i \in 1..Len(ms) : ~Fits(ms, model, limit, i)) /\ reduced = TooLong
  <2>1. reduced.err = TRUE /\ ~Fits(ms, model, limit, Len(ms))
    BY <1>2, <1>5 DEF TooLong
  <2> QED BY <1>1, <2>1 DEF limit
<1> QED BY <1>3, <1>4, <1>5

LEMMA ContextFits ==
  ASSUME NEW ms \in Seq(Messages), Len(ms) > 0, ms[Len(ms)].role = "user",
         NEW model, NEW ctx \in Contexts
  PROVE  KeepsLongestFit(ms, model, ctx)
<1> DEFINE limit == InputLimit(ctx)
           kept == Prompt(ms, model, ctx)
           fits == {i \in 1..Len(ms) : MessageTokenCount(From(ms, i), model) <= limit}
<1>1. limit \in Int /\ Len(ms) \in Nat /\ Len(ms) \in 1..Len(ms)
  <2>1. ctx \in Nat
    BY WindowConstants
  <2> QED BY <2>1 DEF InputLimit, MaxContextForInput, Configured
<1>2. kept.err \in BOOLEAN /\ (kept.err <=> Len(ms) \notin fits)
  BY <1>1, ErrorIsTooLong DEF Fits
<1>3. ASSUME ~kept.err
      PROVE  /\ IsSuffix(kept.messages, ms) /\ kept.messages # << >>
             /\ kept.promptTokens <= limit
             /\ \A i \in fits : \/ Len(From(ms, i)) <= Len(kept.messages)
                                \/ /\ ms[i].role = "assistant"
                                   /\ Len(From(ms, i)) = Len(kept.messages) + 1
             /\ Head(kept.messages).role = "assistant" =>
                  ms[Len(ms) - Len(kept.messages)].role = "assistant"
  <2>1. PICK j, k \in 1..Len(ms) :
          /\ FirstFit(ms, model, limit, j)
          /\ kept.messages = From(ms, k)
          /\ kept.promptTokens <= limit
          /\ \/ k = j /\ (ms[j].role = "assistant" => j = Len(ms))
             \/ k = j + 1 /\ ms[j].role = "assistant"
    <3>1. kept.err = FALSE
      BY <1>2, <1>3
    <3> HIDE DEF fits
    <3> QED BY <1>1, <3>1, KeptIsAnEnd
  <2>2. \A i \in 1..Len(ms) : Len(From(ms, i)) = Len(ms) - i + 1 /\ From(ms, i)[1] = ms[i]
    <3> TAKE i \in 1..Len(ms)
    <3>1. i \in 1..(Len(ms) + 1) /\ 1 \in 1..(Len(ms) - i + 1) /\ i + 1 - 1 = i
      BY <1>1
    <3> QED BY <3>1, FromType
  <2>3. Len(kept.messages) = Len(ms) - k + 1 /\ kept.messages[1] = ms[k] /\ From(ms, k) \in Seq(Messages)
    <3>1. k \in 1..(Len(ms) + 1)
      BY <1>1
    <3> QED BY <2>1, <2>2, <3>1, FromType
  <2>4. IsSuffix(kept.messages, ms)
    BY <2>1, EndIsSuffix
  <2>5. kept.messages # << >> /\ Head(kept.messages) = ms[k]
    <3>1. Len(kept.messages) > 0
      BY <1>1, <2>3
    <3> HIDE DEF kept
    <3> QED BY <2>1, <2>3, <3>1
  <2>6. \A i \in fits : i \in 1..Len(ms) /\ j <= i
    <3> TAKE i \in fits
    <3>1. i \in 1..Len(ms) /\ Fits(ms, model, limit, i)
      BY DEF Fits
    <3>2. \A q \in 1..(j - 1) : ~Fits(ms, model, limit, q)
      BY <2>1 DEF FirstFit
    <3> HIDE DEF fits, limit
    <3> QED BY <1>1, <3>1, <3>2
  <2> HIDE DEF kept, limit, fits
  <2>7. ASSUME NEW i \in fits
        PROVE  \/ Len(From(ms, i)) <= Len(kept.messages)
               \/ /\ ms[i].role = "assistant"
                  /\ Len(From(ms, i)) = Len(kept.messages) + 1
    <3>1. /\ i \in 1..Len(ms) /\ j <= i /\ Len(From(ms, i)) = Len(ms) - i + 1
          /\ Len(kept.messages) = Len(ms) - k + 1
      BY <2>2, <2>3, <2>6
    <3>2. CASE k <= i
      BY <1>1, <3>1, <3>2
    <3>3. CASE ~(k <= i)
      <4>1. k = j + 1 /\ i = j /\ ms[j].role = "assistant"
        BY <1>1, <2>1, <3>1, <3>3
      <4> QED BY <1>1, <3>1, <4>1
    <3> QED BY <3>2, <3>3
  <2>8. ASSUME Head(kept.messages).role = "assistant"
        PROVE  ms[Len(ms) - Len(kept.messages)].role = "assistant"
    <3>1. ms[k].role = "assistant" /\ k # Len(ms)
      BY <2>5, <2>8
    <3>2. k = j + 1 /\ ms[j].role = "assistant"
      BY <2>1, <3>1
    <3>3. Len(ms) - Len(kept.messages) = j
      BY <1>1, <2>3, <3>2
    <3> QED BY <3>2, <3>3
  <2> QED BY <2>1, <2>4, <2>5, <2>7, <2>8
<1> QED BY <1>2, <1>3 DEF KeepsLongestFit

\* A message that suits the model is sent with what was counted, and only parts for a model
\* without vision with more.
LEMMA ConvertedTokens ==
  ASSUME NEW m \in Messages, NEW model
  PROVE  LET out == Converted(m, model) IN
         /\ out.role = m.role
         /\ Suits(m, model) => MessageTokens(out, model) = MessageTokens(m, model)
         /\ model \in Vision \/ m.parts = << >> =>
              MessageTokens(out, model) \in Nat /\ MessageTokens(out, model) <= MessageTokens(m, model)
<1> DEFINE out == Converted(m, model)
<1>1. m \in [role : {"user", "assistant"}, content : Nat, parts : Seq(Content)]
  BY WindowConstants
<1>2. MessageTokens(m, model) \in Nat
  BY TokensNat
<1>3. out.role = m.role
  BY <1>1 DEF Converted
<1>4. Suits(m, model) => MessageTokens(out, model) = MessageTokens(m, model)
  <2>1. CASE model \in Vision
    <3>1. out.parts = m.parts /\ (Suits(m, model) => m.parts # << >>)
      BY <1>1, <2>1 DEF Converted, Suits
    <3> HIDE DEF out
    <3> QED BY <3>1 DEF MessageTokens
  <2>2. CASE model \notin Vision
    <3>1. out.content = m.content /\ out.parts = << >> /\ (Suits(m, model) => m.parts = << >>)
      BY <1>1, <2>2 DEF Converted, Suits
    <3> HIDE DEF out
    <3> QED BY <3>1 DEF MessageTokens
  <2> QED BY <2>1, <2>2
<1>5. ASSUME model \in Vision \/ m.parts = << >>
      PROVE  MessageTokens(out, model) \in Nat /\ MessageTokens(out, model) <= MessageTokens(m, model)
  <2>1. CASE Suits(m, model)
    BY <1>2, <1>4, <2>1
  <2>2. CASE ~Suits(m, model)
    <3>1. model \in Vision /\ m.parts = << >>
      BY <1>5, <2>2 DEF Suits
    <3>2. out.content = 0 /\ out.parts = << >> /\ m.content \in Nat
      BY <1>1, <3>1 DEF Converted
    <3> HIDE DEF out
    <3> QED BY <3>1, <3>2 DEF MessageTokens
  <2> QED BY <2>1, <2>2
<1> QED BY <1>3, <1>4, <1>5

LEMMA CountAtMost ==
  ASSUME NEW ms \in Seq(Messages), NEW out, DOMAIN out = DOMAIN ms, NEW model,
         \A i \in DOMAIN ms : /\ MessageTokens(out[i], model) \in Nat
                             /\ MessageTokens(out[i], model) <= MessageTokens(ms[i], model)
  PROVE  /\ MessageTokenCount(out, model) \in Nat /\ MessageTokenCount(ms, model) \in Nat
         /\ MessageTokenCount(out, model) <= MessageTokenCount(ms, model)
<1> DEFINE n == Len(ms)
           f == [i \in DOMAIN out |-> MessageTokens(out[i], model)]
           g == [i \in DOMAIN ms |-> MessageTokens(ms[i], model)]
<1>1. n \in Nat /\ DOMAIN ms = 1..n /\ \A i \in 1..n : ms[i] \in Messages
  OBVIOUS
<1>2. /\ MessageTokenCount(out, model) = 3 + SumFunction(f)
      /\ MessageTokenCount(ms, model) = 3 + SumFunction(g)
  BY DEF MessageTokenCount
<1>3. DOMAIN f = 1..n /\ DOMAIN g = 1..n
  BY <1>1
<1>4. \A i \in 1..n : f[i] \in Nat /\ g[i] \in Nat /\ f[i] <= g[i]
  BY <1>1, TokensNat
<1> HIDE DEF n, f, g
<1>5. /\ SumFunction(f) \in Nat /\ SumFunction(f) = SumFunctionOnSet(f, 1..n)
      /\ SumFunction(g) \in Nat /\ SumFunction(g) = SumFunctionOnSet(g, 1..n)
  BY <1>1, <1>3, <1>4, SeqSum
<1>6. SumFunctionOnSet(f, 1..n) <= SumFunctionOnSet(g, 1..n)
  <2>1. IsFiniteSet(1..n)
    <3>1. 1 \in Int /\ n \in Int
      BY <1>1
    <3> QED BY <3>1, FS_Interval
  <2>2. \A i \in 1..n : f[i] \in Int /\ g[i] \in Int /\ f[i] <= g[i]
    BY <1>4
  <2> QED BY <2>1, <2>2, SumAtMost
<1> QED BY <1>2, <1>5, <1>6

\* Any conversation that fits is sent message by message.
LEMMA SentAsCounted ==
  ASSUME NEW ms \in Seq(Messages), Len(ms) > 0, ms[Len(ms)].role = "user",
         NEW model, NEW ctx \in Contexts
  PROVE  SendsWhatItCounted(ms, model, ctx)
<1> DEFINE p == Prompt(ms, model, ctx)
           kept == p.messages
           sent == p.sent
<1>1. InputLimit(ctx) \in Int
  <2>1. ctx \in Nat
    BY WindowConstants
  <2> QED BY <2>1 DEF InputLimit, MaxContextForInput, Configured
<1>2. /\ p.err \in BOOLEAN
      /\ p.promptTokens = MessageTokenCount(kept, model)
      /\ sent = [i \in DOMAIN kept |-> Converted(kept[i], model)]
  BY <1>1, ErrorIsTooLong DEF Prompt
<1>3. p.err = FALSE => kept \in Seq(Messages)
  <2>1. ASSUME p.err = FALSE PROVE \E k \in 1..Len(ms) : kept = From(ms, k)
    BY <1>1, <2>1, KeptIsAnEnd
  <2>2. \A k \in 1..Len(ms) : k \in 1..(Len(ms) + 1)
    OBVIOUS
  <2> HIDE DEF p, kept
  <2> QED BY <2>1, <2>2, FromType
<1> HIDE DEF p, kept, sent
<1>4. ASSUME ~p.err
      PROVE  /\ DOMAIN sent = DOMAIN kept
             /\ \A i \in DOMAIN sent :
                  /\ sent[i].role = kept[i].role
                  /\ Suits(kept[i], model) =>
                       MessageTokens(sent[i], model) = MessageTokens(kept[i], model)
             /\ (\A i \in DOMAIN sent : Suits(kept[i], model)) =>
                  MessageTokenCount(sent, model) = p.promptTokens
             /\ MessageTokenCount(sent, model) > p.promptTokens =>
                  model \notin Vision /\ \E i \in DOMAIN sent : kept[i].parts # << >>
  <2>1. kept \in Seq(Messages) /\ \A i \in DOMAIN kept : kept[i] \in Messages
    BY <1>2, <1>3, <1>4
  <2>2. DOMAIN sent = DOMAIN kept /\ \A i \in DOMAIN kept : sent[i] = Converted(kept[i], model)
    BY <1>2
  <2>3. \A i \in DOMAIN sent :
          /\ sent[i].role = kept[i].role
          /\ Suits(kept[i], model) => MessageTokens(sent[i], model) = MessageTokens(kept[i], model)
          /\ model \in Vision \/ kept[i].parts = << >> =>
               /\ MessageTokens(sent[i], model) \in Nat
               /\ MessageTokens(sent[i], model) <= MessageTokens(kept[i], model)
    BY <2>1, <2>2, ConvertedTokens
  <2>4. ASSUME \A i \in DOMAIN sent : Suits(kept[i], model)
        PROVE  MessageTokenCount(sent, model) = p.promptTokens
    <3>1. [i \in DOMAIN sent |-> MessageTokens(sent[i], model)]
            = [i \in DOMAIN kept |-> MessageTokens(kept[i], model)]
      BY <2>2, <2>3, <2>4
    <3> QED BY <1>2, <3>1 DEF MessageTokenCount
  <2>5. ASSUME model \in Vision \/ \A i \in DOMAIN sent : kept[i].parts = << >>
        PROVE  ~(MessageTokenCount(sent, model) > p.promptTokens)
    <3>1. /\ MessageTokenCount(sent, model) \in Nat /\ MessageTokenCount(kept, model) \in Nat
          /\ MessageTokenCount(sent, model) <= MessageTokenCount(kept, model)
      BY <2>1, <2>2, <2>3, <2>5, CountAtMost
    <3> QED BY <1>2, <3>1
  <2> QED BY <2>2, <2>3, <2>4, <2>5
<1> QED BY <1>4 DEF SendsWhatItCounted, p, kept, sent

\* The last pairs and the question, of any conversation.
LEMMA CountKeepsPairs ==
  ASSUME NEW ms \in Seq(Messages), Len(ms) > 0, NEW n \in Nat
  PROVE  LET kept == ReduceContextByCount(ms, n) IN
           IsSuffix(kept, ms) /\ (Len(kept) = 2 * n + 1 \/ (kept = ms /\ Len(ms) < 2 * n + 1))
<1>1. Len(ms) \in Nat
  OBVIOUS
<1>2. CASE Len(ms) > n * 2 + 1
  <2> DEFINE i == Len(ms) - n * 2
  <2>1. i \in 1..Len(ms) /\ i \in 1..(Len(ms) + 1) /\ Len(ms) - i + 1 = 2 * n + 1
    BY <1>1, <1>2
  <2> HIDE DEF i
  <2>2. IsSuffix(From(ms, i), ms) /\ Len(From(ms, i)) = 2 * n + 1
    BY <2>1, EndIsSuffix, FromType
  <2> QED BY <1>2, <2>2 DEF ReduceContextByCount, i
<1>3. CASE ~(Len(ms) > n * 2 + 1)
  <2>1. IsSuffix(ms, ms)
    <3>1. 1 \in 1..Len(ms)
      BY <1>1
    <3> QED BY <3>1, EndIsSuffix, FromFirst
  <2>2. Len(ms) = 2 * n + 1 \/ Len(ms) < 2 * n + 1
    BY <1>1, <1>3
  <2> QED BY <1>3, <2>1, <2>2 DEF ReduceContextByCount
<1> QED BY <1>2, <1>3

\* What is kept of a conversation is its longest end that fits, less an answer at its head, and
\* what is sent are the kept messages as they were counted, for any messages, models and limits,
\* and conversations of any length, as far as the messages suit the model: the token counts and
\* the recursion of pkg/chat/token.go, and the conversion of pkg/chat/chat.go.
THEOREM LongestFitIsSent == WindowSpec => []ContextIsLongestFit
<1>1. WindowInit => WindowTypeOK
  BY DEF WindowInit, WindowTypeOK
<1>2. WindowTypeOK /\ [WindowNext]_history => WindowTypeOK'
  BY DEF WindowTypeOK, WindowNext, Say
<1>3. WindowTypeOK => ContextIsLongestFit
  <2> SUFFICES ASSUME WindowTypeOK, history # << >>, history[Len(history)].role = "user"
               PROVE  ContextIsLongestFit
    BY DEF ContextIsLongestFit
  <2>1. history \in Seq(Messages) /\ Len(history) > 0
    BY DEF WindowTypeOK
  <2>2. Pairs \subseteq Nat
    BY WindowConstants
  <2> QED BY <2>1, <2>2, ContextFits, SentAsCounted, CountKeepsPairs DEF ContextIsLongestFit
<1> QED BY <1>1, <1>2, <1>3, PTL DEF WindowSpec
=============================================================================
