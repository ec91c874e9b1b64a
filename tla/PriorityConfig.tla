---------------------------- MODULE PriorityConfig ----------------------------
(***************************************************************************)
(* The configuration of queue strategies (config.rs): a builder that       *)
(* appends rules, and the resolution of a priority to a strategy.          *)
(* Priorities are isize, here MinPrio..MaxPrio.                            *)
(***************************************************************************)
EXTENDS Integers, Sequences, FiniteSets

CONSTANTS
  MinPrio,   \* isize::MIN
  MaxPrio,   \* isize::MAX
  MaxRules   \* bound: the length of a configuration

ASSUME PriorityConfigAssumption ==
  /\ MinPrio \in Int /\ MaxPrio \in Int /\ MinPrio < 0 /\ 0 < MaxPrio
  /\ MaxRules \in Nat \ {0}

Prio       == MinPrio..MaxPrio
Strategies == {"Fifo", "Lifo"}

\* A rule names an interval; the default rule names none.
Rule == [kind : {"Default", "Exact", "Range"}, min : Prio, max : Prio,
         strategy : Strategies]

VARIABLES
  rules,   \* the rules of the configuration, in the order of the calls
  asked    \* history: the priorities that the documentation of each call names

vars == <<rules, asked>>

Covers(rule, p) == rule.min <= p /\ p <= rule.max
Positions(kind) == {i \in 1..Len(rules) : rules[i].kind = kind}

First(I) == CHOOSE i \in I : \A j \in I : i <= j
Last(I)  == CHOOSE i \in I : \A j \in I : j <= i

\* resolve_strategy: the first exact match, else the first range that
\* contains the priority, else the last default, else Fifo.
DefaultStrategy ==
  IF Positions("Default") = {} THEN "Fifo"
                               ELSE rules[Last(Positions("Default"))].strategy

\* Mutant: ranges before exact matches.
ResolveRangesFirst(p) ==
  LET Match(kind) == {i \in Positions(kind) : Covers(rules[i], p)}
  IN  IF Match("Range") # {} THEN rules[First(Match("Range"))].strategy
      ELSE IF Match("Exact") # {} THEN rules[First(Match("Exact"))].strategy
      ELSE DefaultStrategy
ResolveStrategy(p) ==
  LET Match(kind) == {i \in Positions(kind) : Covers(rules[i], p)}
  IN  IF Match("Exact") # {} THEN rules[First(Match("Exact"))].strategy
      ELSE IF Match("Range") # {} THEN rules[First(Match("Range"))].strategy
      ELSE DefaultStrategy

-----------------------------------------------------------------------------
(* The builder.  saturating_add and saturating_sub keep isize.             *)

\* Mutant: the threshold of greater_than is included.
NoInc(p) == p
SatInc(p) == IF p = MaxPrio THEN p ELSE p + 1

\* Mutant: arithmetic that leaves isize.
PlainDec(p) == p - 1
SatDec(p) == IF p = MinPrio THEN p ELSE p - 1

NewRule(kind, lo, hi, s) == [kind |-> kind, min |-> lo, max |-> hi, strategy |-> s]

Push(kind, lo, hi, s) == rules' = Append(rules, NewRule(kind, lo, hi, s))

\* The priorities that the documentation of a call names.
Asked(kind, P, s) == [kind |-> kind, covers |-> P, strategy |-> s]
Asks(kind, P, s) == asked' = Append(asked, Asked(kind, P, s))

Room == Len(rules) < MaxRules

SetDefault(s) ==
  /\ Room /\ Push("Default", MinPrio, MaxPrio, s) /\ Asks("Default", Prio, s)

Exact(p, s) ==
  /\ Room /\ Push("Exact", p, p, s) /\ Asks("Exact", {p}, s)

GreaterOrEqual(p, s) ==
  /\ Room /\ Push("Range", p, MaxPrio, s)
  /\ Asks("Range", {q \in Prio : q >= p}, s)

GreaterThan(p, s) ==
  /\ Room /\ Push("Range", SatInc(p), MaxPrio, s)
  /\ Asks("Range", {q \in Prio : q > p}, s)

LessOrEqual(p, s) ==
  /\ Room /\ Push("Range", MinPrio, p, s)
  /\ Asks("Range", {q \in Prio : q <= p}, s)

LessThan(p, s) ==
  /\ Room /\ Push("Range", MinPrio, SatDec(p), s)
  /\ Asks("Range", {q \in Prio : q < p}, s)

RangeOf(lo, hi, s) ==
  /\ Room /\ Push("Range", lo, hi, s)
  /\ Asks("Range", {q \in Prio : lo <= q /\ q <= hi}, s)

\* new(), and the Default implementation, which calls default_strategy(Fifo).
Init ==
  \/ rules = <<>> /\ asked = <<>>
  \/ /\ rules = <<NewRule("Default", MinPrio, MaxPrio, "Fifo")>>
     /\ asked = <<Asked("Default", Prio, "Fifo")>>

Next ==
  \/ \E s \in Strategies : SetDefault(s)
  \/ \E p \in Prio, s \in Strategies :
       \/ Exact(p, s)
       \/ GreaterOrEqual(p, s) \/ GreaterThan(p, s)
       \/ LessOrEqual(p, s) \/ LessThan(p, s)
  \/ \E lo, hi \in Prio, s \in Strategies : RangeOf(lo, hi, s)

Spec == Init /\ [][Next]_vars

-----------------------------------------------------------------------------
TypeOK ==
  /\ rules \in Seq(Rule) /\ Len(rules) <= MaxRules
  /\ asked \in Seq([kind : {"Default", "Exact", "Range"}, covers : SUBSET Prio,
                     strategy : Strategies])

\* The calls of one kind that name p.
Naming(kind, p) ==
  {i \in 1..Len(asked) : asked[i].kind = kind /\ p \in asked[i].covers}

\* The documented strategies of p: an exact call before a range, the first
\* of its kind before a later one, a default only for what no other call names.
Documented(p, s) ==
  \/ \E i \in Naming("Exact", p) :
       /\ asked[i].strategy = s
       /\ \A j \in Naming("Exact", p) : i <= j
  \/ /\ Naming("Exact", p) = {}
     /\ \E i \in Naming("Range", p) :
          /\ asked[i].strategy = s
          /\ \A j \in Naming("Range", p) : i <= j
  \/ /\ Naming("Exact", p) \cup Naming("Range", p) = {}
     /\ \/ Naming("Default", p) = {} /\ s = "Fifo"
        \/ \E i \in Naming("Default", p) :
             /\ asked[i].strategy = s
             /\ \A j \in Naming("Default", p) : j <= i

\* A call names no priority: greater_than(isize::MAX), less_than(isize::MIN) or
\* a range whose ends are the wrong way round.
EmptyCall == \E i \in 1..Len(asked) : asked[i].covers = {}

(* Whatever calls built the configuration, every priority resolves to its  *)
(* documented strategy.  Only at the ends of isize, and only if some call  *)
(* named nothing, it may not: greater_than(isize::MAX) saturates and its   *)
(* rule covers isize::MAX, less_than(isize::MIN) likewise, against         *)
(* config.rs:55 and config.rs:72.                                          *)
ResolvesAsDocumented ==
  \A p \in Prio : (p \in {MinPrio, MaxPrio} /\ EmptyCall)
                   \/ Documented(p, ResolveStrategy(p))
=============================================================================
