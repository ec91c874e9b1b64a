------------------------ MODULE PriorityConfigProofs ------------------------
(***************************************************************************)
(* Proof that a configuration of any length over any isize resolves every  *)
(* priority as the documentation of the calls that built it says, but for  *)
(* the ends of isize once a call named no priority.                        *)
(***************************************************************************)
EXTENDS PriorityConfig, WellFoundedInduction, TLAPS

-----------------------------------------------------------------------------
(* First and last of a set of positions.                                   *)

LEMMA FirstOf ==
  ASSUME NEW I \in SUBSET Nat, I # {}
  PROVE  First(I) \in I /\ \A j \in I : First(I) <= j
PROOF
  <1>1. PICK i \in I : \A j \in I : ~(<<j, i>> \in OpToRel(<, Nat))
    BY NatLessThanWellFounded, WFMin
  <1>2. \A j \in I : i <= j
    <2> SUFFICES ASSUME NEW j \in I PROVE i <= j
      OBVIOUS
    <2>1. i \in Nat /\ j \in Nat
      OBVIOUS
    <2>2. ~(<<j, i>> \in OpToRel(<, Nat))
      BY <1>1
    <2>3. j < i => <<j, i>> \in OpToRel(<, Nat)
      BY <2>1 DEF OpToRel
    <2>4. ~(j < i)
      BY ONLY <2>2, <2>3, Zenon
    <2> QED BY <2>1, <2>4
  <1> QED BY <1>2 DEF First

LEMMA LastOf ==
  ASSUME NEW n \in Nat, NEW I \in SUBSET (1..n), I # {}
  PROVE  Last(I) \in I /\ \A j \in I : j <= Last(I)
PROOF
  <1> DEFINE J == {n - i : i \in I}
  <1>1. J \in SUBSET Nat /\ J # {}
    <2>1. \A i \in I : i \in 1..n /\ n - i \in Nat
      OBVIOUS
    <2>2. PICK k \in I : TRUE
      OBVIOUS
    <2>3. n - k \in J
      OBVIOUS
    <2> QED BY <2>1, <2>3
  <1>2. First(J) \in J /\ \A j \in J : First(J) <= j
    BY <1>1, FirstOf
  <1>3. PICK i \in I : First(J) = n - i
    BY <1>2
  <1>4. \A j \in I : j <= i
    <2> SUFFICES ASSUME NEW j \in I PROVE j <= i
      OBVIOUS
    <2>1. n - j \in J
      OBVIOUS
    <2>2. n - i <= n - j
      BY <1>2, <1>3, <2>1
    <2> QED BY <2>2
  <1> QED BY <1>4 DEF Last

-----------------------------------------------------------------------------
(* The rule a call appends stands for the priorities the call names.       *)

Kinds == {"Default", "Exact", "Range"}
Call  == [kind : Kinds, covers : SUBSET Prio, strategy : Strategies]

\* lo..hi is P, but perhaps for an end of isize when P is empty.
Bounds(lo, hi, P) ==
  \A p \in Prio : (p \in {MinPrio, MaxPrio} /\ P = {})
                   \/ ((lo <= p /\ p <= hi) <=> p \in P)

StandsFor(rule, call) ==
  /\ rule.kind = call.kind /\ rule.strategy = call.strategy
  /\ call.kind = "Default" => call.covers = Prio
  /\ Bounds(rule.min, rule.max, call.covers)

RulesStandForCalls ==
  /\ Len(rules) = Len(asked)
  /\ \A i \in 1..Len(rules) : StandsFor(rules[i], asked[i])

CInv == TypeOK /\ RulesStandForCalls

(* One more rule and one more call that it stands for keep the invariant.  *)
LEMMA CallKeepsCInv ==
  ASSUME CInv, Room, NEW kind \in Kinds, NEW lo \in Prio, NEW hi \in Prio,
         NEW P \in SUBSET Prio, NEW s \in Strategies,
         Push(kind, lo, hi, s), Asks(kind, P, s),
         kind = "Default" => P = Prio,
         Bounds(lo, hi, P)
  PROVE  CInv'
PROOF
  <1> DEFINE r == NewRule(kind, lo, hi, s)
             c == Asked(kind, P, s)
             n == Len(rules)
  <1>1. r \in Rule /\ c \in Call
    BY DEF NewRule, Asked, Rule, Call, Kinds
  <1>2. rules \in Seq(Rule) /\ asked \in Seq(Call) /\ n = Len(asked) /\ n \in Nat
    BY DEF CInv, TypeOK, RulesStandForCalls, Call, Kinds
  <1>3. rules' = Append(rules, r) /\ asked' = Append(asked, c)
    BY DEF Push, Asks
  <1>4. StandsFor(r, c)
    BY DEF StandsFor, NewRule, Asked
  <1> HIDE DEF r, c
  <1>5. /\ rules' \in Seq(Rule) /\ Len(rules') = n + 1
        /\ asked' \in Seq(Call) /\ Len(asked') = n + 1
    BY <1>1, <1>2, <1>3
  <1>6. TypeOK'
    BY <1>2, <1>5, PriorityConfigAssumption DEF TypeOK, Room, Call, Kinds
  <1>7. ASSUME NEW i \in 1..(n + 1) PROVE StandsFor(rules'[i], asked'[i])
    <2>1. CASE i = n + 1
      <3>1. rules'[i] = r /\ asked'[i] = c
        BY <1>1, <1>2, <1>3, <2>1
      <3> QED BY <1>4, <3>1
    <2>2. CASE i # n + 1
      <3>1. i \in 1..n
        BY <1>2, <2>2
      <3>2. rules'[i] = rules[i] /\ asked'[i] = asked[i]
        BY <1>1, <1>2, <1>3, <3>1
      <3>3. StandsFor(rules[i], asked[i])
        BY <3>1 DEF CInv, RulesStandForCalls
      <3> QED BY <3>2, <3>3
    <2> QED BY <2>1, <2>2
  <1>8. RulesStandForCalls'
    BY <1>5, <1>7 DEF RulesStandForCalls
  <1> QED BY <1>6, <1>8 DEF CInv

LEMMA CInvInit == Init => CInv
PROOF
  <1> SUFFICES ASSUME Init PROVE CInv
    OBVIOUS
  <1>1. CASE rules = <<>> /\ asked = <<>>
    BY <1>1, PriorityConfigAssumption DEF CInv, TypeOK, RulesStandForCalls
  <1>2. CASE /\ rules = <<NewRule("Default", MinPrio, MaxPrio, "Fifo")>>
             /\ asked = <<Asked("Default", Prio, "Fifo")>>
    <2> DEFINE r == NewRule("Default", MinPrio, MaxPrio, "Fifo")
               c == Asked("Default", Prio, "Fifo")
    <2>1. r \in Rule /\ c \in Call
      BY PriorityConfigAssumption
      DEF NewRule, Asked, Rule, Call, Kinds, Prio, Strategies
    <2>2. StandsFor(r, c)
      BY PriorityConfigAssumption
      DEF StandsFor, NewRule, Asked, Bounds, Prio
    <2> HIDE DEF r, c
    <2>3. rules = <<r>> /\ asked = <<c>>
      BY <1>2 DEF r, c
    <2>4. /\ rules \in Seq(Rule) /\ Len(rules) = 1 /\ rules[1] = r
          /\ asked \in Seq(Call) /\ Len(asked) = 1 /\ asked[1] = c
      BY <2>1, <2>3
    <2>5. TypeOK
      BY <2>4, PriorityConfigAssumption DEF TypeOK, Call, Kinds
    <2>6. RulesStandForCalls
      BY <2>2, <2>4 DEF RulesStandForCalls
    <2> QED BY <2>5, <2>6 DEF CInv
  <1> QED BY <1>1, <1>2 DEF Init

LEMMA CInvNext == CInv /\ [Next]_vars => CInv'
PROOF
  <1> SUFFICES ASSUME CInv, [Next]_vars PROVE CInv'
    OBVIOUS
  <1> USE PriorityConfigAssumption
  <1>1. /\ MinPrio \in Prio /\ MaxPrio \in Prio
        /\ \A p \in Prio : p \in Int /\ MinPrio <= p /\ p <= MaxPrio
        /\ "Default" \in Kinds /\ "Exact" \in Kinds /\ "Range" \in Kinds
    BY DEF Prio, Kinds
  <1>2. ASSUME NEW s \in Strategies, SetDefault(s) PROVE CInv'
    <2>1. Bounds(MinPrio, MaxPrio, Prio)
      BY <1>1 DEF Bounds
    <2> QED BY <1>1, <1>2, <2>1, CallKeepsCInv DEF SetDefault
  <1>3. ASSUME NEW p \in Prio, NEW s \in Strategies, Exact(p, s) PROVE CInv'
    <2>1. ASSUME NEW q \in Prio PROVE (p <= q /\ q <= p) <=> q = p
      <3>1. p \in Int /\ q \in Int
        BY <1>1
      <3> QED BY ONLY <3>1
    <2>2. Bounds(p, p, {p})
      BY <2>1 DEF Bounds
    <2> QED BY <1>1, <1>3, <2>2, CallKeepsCInv DEF Exact
  <1>4. ASSUME NEW p \in Prio, NEW s \in Strategies, GreaterOrEqual(p, s)
        PROVE  CInv'
    <2> DEFINE P == {q \in Prio : q >= p}
    <2>1. Bounds(p, MaxPrio, P)
      BY <1>1 DEF Bounds
    <2> QED BY <1>1, <1>4, <2>1, CallKeepsCInv DEF GreaterOrEqual
  <1>5. ASSUME NEW p \in Prio, NEW s \in Strategies, GreaterThan(p, s)
        PROVE  CInv'
    <2> DEFINE P == {q \in Prio : q > p}
    <2>1. SatInc(p) \in Prio
      BY DEF SatInc, Prio
    <2>2. Bounds(SatInc(p), MaxPrio, P)
      <3>1. CASE p = MaxPrio
        <4>1. \A q \in Prio : q \notin P
          BY <1>1, <3>1
        <4>2. \A q \in Prio : q # MaxPrio => ~(SatInc(p) <= q)
          BY <1>1, <3>1 DEF SatInc
        <4> QED BY <4>1, <4>2 DEF Bounds
      <3>2. CASE p # MaxPrio
        BY <1>1, <3>2 DEF SatInc, Bounds
      <3> QED BY <3>1, <3>2
    <2> QED BY <1>1, <1>5, <2>1, <2>2, CallKeepsCInv DEF GreaterThan
  <1>6. ASSUME NEW p \in Prio, NEW s \in Strategies, LessOrEqual(p, s)
        PROVE  CInv'
    <2> DEFINE P == {q \in Prio : q <= p}
    <2>1. Bounds(MinPrio, p, P)
      BY <1>1 DEF Bounds
    <2> QED BY <1>1, <1>6, <2>1, CallKeepsCInv DEF LessOrEqual
  <1>7. ASSUME NEW p \in Prio, NEW s \in Strategies, LessThan(p, s) PROVE CInv'
    <2> DEFINE P == {q \in Prio : q < p}
    <2>1. SatDec(p) \in Prio
      BY DEF SatDec, Prio
    <2>2. Bounds(MinPrio, SatDec(p), P)
      <3>1. CASE p = MinPrio
        <4>1. \A q \in Prio : q \notin P
          BY <1>1, <3>1
        <4>2. \A q \in Prio : q # MinPrio => ~(q <= SatDec(p))
          BY <1>1, <3>1 DEF SatDec
        <4> QED BY <4>1, <4>2 DEF Bounds
      <3>2. CASE p # MinPrio
        BY <1>1, <3>2 DEF SatDec, Bounds
      <3> QED BY <3>1, <3>2
    <2> QED BY <1>1, <1>7, <2>1, <2>2, CallKeepsCInv DEF LessThan
  <1>8. ASSUME NEW lo \in Prio, NEW hi \in Prio, NEW s \in Strategies,
               RangeOf(lo, hi, s)
        PROVE  CInv'
    <2> DEFINE P == {q \in Prio : lo <= q /\ q <= hi}
    <2>1. Bounds(lo, hi, P)
      BY <1>1 DEF Bounds
    <2> QED BY <1>1, <1>8, <2>1, CallKeepsCInv DEF RangeOf
  <1>9. CASE UNCHANGED vars
    BY <1>9 DEF CInv, TypeOK, RulesStandForCalls, vars
  <1> QED BY <1>2, <1>3, <1>4, <1>5, <1>6, <1>7, <1>8, <1>9 DEF Next

-----------------------------------------------------------------------------
(* The rules of a kind that cover a priority are the calls that name it.   *)

Matching(kind, p) == {i \in Positions(kind) : Covers(rules[i], p)}

LEMMA MatchingIsNaming ==
  ASSUME CInv, NEW p \in Prio, ~(p \in {MinPrio, MaxPrio} /\ EmptyCall)
  PROVE  /\ \A kind \in Kinds :
              /\ Matching(kind, p) = Naming(kind, p)
              /\ Naming(kind, p) \in SUBSET (1..Len(asked))
              /\ \A i \in Naming(kind, p) : rules[i].strategy = asked[i].strategy
         /\ Positions("Default") = Naming("Default", p)
PROOF
  <1>1. Len(rules) = Len(asked)
    BY DEF CInv, RulesStandForCalls
  <1>2. \A i \in 1..Len(asked) :
          /\ rules[i].kind = asked[i].kind
          /\ rules[i].strategy = asked[i].strategy
          /\ asked[i].kind = "Default" => asked[i].covers = Prio
          /\ Covers(rules[i], p) <=> p \in asked[i].covers
    BY <1>1 DEF CInv, RulesStandForCalls, StandsFor, Bounds, Covers, EmptyCall
  <1>3. ASSUME NEW kind \in Kinds
        PROVE  /\ Matching(kind, p) = Naming(kind, p)
               /\ Naming(kind, p) \in SUBSET (1..Len(asked))
               /\ \A i \in Naming(kind, p) : rules[i].strategy = asked[i].strategy
    BY <1>1, <1>2 DEF Matching, Positions, Naming
  <1>4. Positions("Default") = Naming("Default", p)
    BY <1>1, <1>2 DEF Positions, Naming
  <1> QED BY <1>3, <1>4

LEMMA CInvResolves == CInv => ResolvesAsDocumented
PROOF
  <1> SUFFICES ASSUME CInv, NEW p \in Prio,
                      ~(p \in {MinPrio, MaxPrio} /\ EmptyCall)
               PROVE  Documented(p, ResolveStrategy(p))
    BY DEF ResolvesAsDocumented
  <1> DEFINE E == Naming("Exact", p)
             R == Naming("Range", p)
             D == Naming("Default", p)
             n == Len(asked)
  <1>1. n \in Nat
    BY DEF CInv, TypeOK
  <1>2. /\ Matching("Exact", p) = E /\ Matching("Range", p) = R
        /\ Positions("Default") = D
        /\ E \in SUBSET (1..n) /\ R \in SUBSET (1..n) /\ D \in SUBSET (1..n)
        /\ \A i \in E \cup R \cup D : rules[i].strategy = asked[i].strategy
    BY MatchingIsNaming DEF Kinds
  <1>3. ResolveStrategy(p) =
          IF E # {} THEN rules[First(E)].strategy
          ELSE IF R # {} THEN rules[First(R)].strategy
          ELSE IF D = {} THEN "Fifo" ELSE rules[Last(D)].strategy
    BY <1>2 DEF ResolveStrategy, Matching, DefaultStrategy
  <1>4. E \in SUBSET Nat /\ R \in SUBSET Nat
    BY <1>1, <1>2
  <1> HIDE DEF E, R, D, n
  <1>5. CASE E # {}
    <2>1. First(E) \in E /\ \A j \in E : First(E) <= j
      BY <1>4, <1>5, FirstOf
    <2>2. ResolveStrategy(p) = asked[First(E)].strategy
      BY <1>2, <1>3, <1>5, <2>1
    <2> QED BY <2>1, <2>2 DEF Documented, E
  <1>6. CASE E = {} /\ R # {}
    <2>1. First(R) \in R /\ \A j \in R : First(R) <= j
      BY <1>4, <1>6, FirstOf
    <2>2. ResolveStrategy(p) = asked[First(R)].strategy
      BY <1>2, <1>3, <1>6, <2>1
    <2> QED BY <1>6, <2>1, <2>2 DEF Documented, E, R
  <1>7. CASE E = {} /\ R = {} /\ D # {}
    <2>1. Last(D) \in D /\ \A j \in D : j <= Last(D)
      BY <1>1, <1>2, <1>7, LastOf
    <2>2. ResolveStrategy(p) = asked[Last(D)].strategy
      BY <1>2, <1>3, <1>7, <2>1
    <2> QED BY <1>7, <2>1, <2>2 DEF Documented, E, R, D
  <1>8. CASE E = {} /\ R = {} /\ D = {}
    BY <1>3, <1>8 DEF Documented, E, R, D
  <1> QED BY <1>5, <1>6, <1>7, <1>8

-----------------------------------------------------------------------------
LEMMA CInvAlways == Spec => []CInv
PROOF
  BY CInvInit, CInvNext, PTL DEF Spec

(* Every rule the builder appends is a rule: its bounds stay within isize, *)
(* also where greater_than and less_than are called at an end of it, and   *)
(* the configuration keeps to its bound.                                   *)
THEOREM ConfigTypeCorrect == Spec => []TypeOK
PROOF
  <1>1. CInv => TypeOK
    BY DEF CInv
  <1> QED BY <1>1, CInvAlways, PTL

(* Whatever calls built a configuration, of any length over any isize, a   *)
(* priority resolves to the strategy the documentation of those calls      *)
(* gives it: the first exact call that names it, else the first range that *)
(* does, else the last default, else Fifo                                  *)
(* (PriorityConfig::resolve_strategy).  The two ends of isize do so unless *)
(* a call named no priority, when greater_than or less_than may have       *)
(* saturated.                                                              *)
THEOREM ConfigResolvesAsDocumented == Spec => []ResolvesAsDocumented
PROOF
  BY CInvResolves, CInvAlways, PTL
=============================================================================
