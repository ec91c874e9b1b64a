----------------------------- MODULE SumsProofs -----------------------------
(***************************************************************************)
(* Sums over finite sets, from the cardinalities of the sets of pairs they *)
(* count: no induction over the set is needed.                             *)
(***************************************************************************)
EXTENDS Sums, FiniteSetTheorems, TLAPS

(* The pairs of one element.                                               *)
LEMMA OnePile ==
  ASSUME NEW s, NEW n \in Nat
  PROVE  IsFiniteSet({s} \X (1..n)) /\ Cardinality({s} \X (1..n)) = n
PROOF
  <1>1. IsFiniteSet({s}) /\ Cardinality({s}) = 1
    BY FS_Singleton
  <1>2. IsFiniteSet(1..n) /\ Cardinality(1..n) = n
    BY FS_Interval
  <1>3. /\ IsFiniteSet({s} \X (1..n))
        /\ Cardinality({s} \X (1..n)) = Cardinality({s}) * Cardinality(1..n)
    BY <1>1, <1>2, FS_Product
  <1> QED BY <1>1, <1>2, <1>3

(* There are finitely many pairs, so a sum is a natural number.            *)
LEMMA PileFinite ==
  ASSUME NEW S, IsFiniteSet(S), NEW f, \A s \in S : f[s] \in Nat
  PROVE  IsFiniteSet(Pile(f, S)) /\ SumOver(f, S) \in Nat
PROOF
  <1> DEFINE T == {{s} \X (1..f[s]) : s \in S}
             h == [s \in S |-> {s} \X (1..f[s])]
  <1>1. h \in Surjection(S, T)
    BY DEF Surjection
  <1>2. IsFiniteSet(T)
    BY <1>1, FS_Surjection
  <1>3. ASSUME NEW X \in T
        PROVE  IsFiniteSet(X)
    <2>1. PICK s \in S : X = {s} \X (1..f[s])
      OBVIOUS
    <2>2. f[s] \in Nat
      OBVIOUS
    <2> QED BY <2>1, <2>2, OnePile
  <1>4. IsFiniteSet(UNION T)
    BY <1>2, <1>3, FS_UNION
  <1> QED BY <1>4, FS_CardinalityType DEF Pile, SumOver

(* The sum depends on the values over the set only.                        *)
LEMMA SumSame ==
  ASSUME NEW S, NEW f, NEW g, \A s \in S : g[s] = f[s]
  PROVE  SumOver(g, S) = SumOver(f, S)
PROOF
  <1>1. Pile(g, S) = Pile(f, S)
    BY DEF Pile
  <1> QED BY <1>1 DEF SumOver

(* One summand, and the rest.                                              *)
LEMMA SumSplit ==
  ASSUME NEW S, IsFiniteSet(S), NEW f, \A s \in S : f[s] \in Nat, NEW t \in S
  PROVE  /\ SumOver(f, S) = SumOver(f, S \ {t}) + f[t]
         /\ SumOver(f, S \ {t}) \in Nat
PROOF
  <1> DEFINE R == S \ {t}
             one == {t} \X (1..f[t])
  <1>1. IsFiniteSet(R)
    BY FS_RemoveElement
  <1>2. IsFiniteSet(Pile(f, R)) /\ SumOver(f, R) \in Nat
    BY <1>1, PileFinite
  <1>3. IsFiniteSet(one) /\ Cardinality(one) = f[t]
    BY OnePile
  <1>4. Pile(f, S) = Pile(f, R) \cup one
    BY DEF Pile
  <1>5. Pile(f, R) \cap one = {}
    <2> SUFFICES ASSUME NEW x \in Pile(f, R), x \in one
                 PROVE  FALSE
      OBVIOUS
    <2>1. PICK s \in R : x \in {s} \X (1..f[s])
      BY DEF Pile
    <2> QED BY <2>1
  <1>6. /\ Cardinality(Pile(f, R) \cup one)
             = Cardinality(Pile(f, R)) + Cardinality(one)
                 - Cardinality(Pile(f, R) \cap one)
        /\ Cardinality({}) = 0
    BY <1>2, <1>3, FS_Union, FS_EmptySet
  <1>7. /\ SumOver(f, S) = Cardinality(Pile(f, R) \cup one)
        /\ SumOver(f, R) = Cardinality(Pile(f, R))
    BY <1>4 DEF SumOver
  <1>8. Cardinality(Pile(f, R) \cup one) = Cardinality(Pile(f, R)) + f[t] - 0
    BY <1>3, <1>5, <1>6
  <1> HIDE DEF R, one
  <1>9. SumOver(f, S) = SumOver(f, R) + f[t]
    BY <1>2, <1>7, <1>8
  <1> QED BY <1>2, <1>9 DEF R

(* One summand changes.                                                    *)
LEMMA SumChange ==
  ASSUME NEW S, IsFiniteSet(S), NEW t \in S,
         NEW f, \A s \in S : f[s] \in Nat, NEW g, g[t] \in Nat,
         \A s \in S \ {t} : g[s] = f[s]
  PROVE  /\ SumOver(g, S) = SumOver(f, S) - f[t] + g[t]
         /\ SumOver(f, S) \in Nat /\ SumOver(g, S) \in Nat
         /\ f[t] <= SumOver(f, S)
PROOF
  <1> DEFINE R == S \ {t}
  <1>1. SumOver(f, S) = SumOver(f, R) + f[t] /\ SumOver(f, R) \in Nat
    BY SumSplit
  <1>2. \A s \in S : g[s] \in Nat
    OBVIOUS
  <1>3. SumOver(g, S) = SumOver(g, R) + g[t]
    BY <1>2, SumSplit
  <1>4. SumOver(g, R) = SumOver(f, R)
    BY SumSame
  <1> QED BY <1>1, <1>3, <1>4

(* A summand is at most the sum.                                           *)
LEMMA SumBound ==
  ASSUME NEW S, IsFiniteSet(S), NEW f, \A s \in S : f[s] \in Nat, NEW t \in S
  PROVE  f[t] <= SumOver(f, S)
PROOF
  <1>1. SumOver(f, S) = SumOver(f, S \ {t}) + f[t] /\ SumOver(f, S \ {t}) \in Nat
    BY SumSplit
  <1> QED BY <1>1

(* The sum of zeros.                                                       *)
LEMMA SumZero ==
  ASSUME NEW S, NEW f, \A s \in S : f[s] = 0
  PROVE  SumOver(f, S) = 0
PROOF
  <1>1. 1..0 = {}
    OBVIOUS
  <1>2. Pile(f, S) = {}
    BY <1>1 DEF Pile
  <1> QED BY <1>2, FS_EmptySet DEF SumOver
=============================================================================
