----------------------------- MODULE MCSemaphore -----------------------------
(* Constants of the TLC runs of RankedSemaphore.                           *)
EXTENDS RankedSemaphore

CONSTANTS f1, f2, c1

MCWaiters  == {f1, f2}
MCPrios    == {1, 2}

\* PriorityConfig::new().greater_or_equal(2, Lifo).
Config == INSTANCE PriorityConfig WITH
  MinPrio <- 0 - 1, MaxPrio <- 2, MaxRules <- 1, asked <- <<>>,
  rules <- <<[kind |-> "Range", min |-> 2, max |-> 2, strategy |-> "Lifo"]>>
MCStrategy == [p \in MCPrios |-> Config!ResolveStrategy(p)]

\* No permit, one or two, any priority.
MixedRequests == [MCWaiters -> [need : 0..2, prio : MCPrios]]

\* One permit each, one priority.
PlainRequests == [MCWaiters -> [need : {1}, prio : {1}]]

\* One permit each, of one priority or of two.
UnitRequests == PlainRequests \cup
  {[f \in MCWaiters |-> [need |-> 1, prio |-> IF f = f1 THEN 1 ELSE 2]]}

OneCaller == {c1}

NonePermit == {0}
UpToOne    == {0, 1}
UpToTwo    == 0..2

MCSymmetry == Permutations(MCWaiters)
=============================================================================
