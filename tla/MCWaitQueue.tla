---------------------------- MODULE MCWaitQueue ----------------------------
(* Constants of the TLC runs of WaitQueue.                                 *)
EXTENDS WaitQueue

CONSTANTS w1, w2, w3

MCWaiters  == {w1, w2, w3}
MCPrios    == {1, 2}

\* PriorityConfig::new().greater_or_equal(2, Lifo).
Config == INSTANCE PriorityConfig WITH
  MinPrio <- 0 - 1, MaxPrio <- 2, MaxRules <- 1, asked <- <<>>,
  rules <- <<[kind |-> "Range", min |-> 2, max |-> 2, strategy |-> "Lifo"]>>
MCStrategy == [p \in MCPrios |-> Config!ResolveStrategy(p)]

\* Every assignment of a size and a priority to the waiters.
AllRequests == [MCWaiters -> [need : {1, 2}, prio : MCPrios]]

MCSymmetry == Permutations(MCWaiters)
=============================================================================
