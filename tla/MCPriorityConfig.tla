-------------------------- MODULE MCPriorityConfig --------------------------
(* Constants of the TLC runs of PriorityConfig: four priorities, two of    *)
(* them the ends of isize.                                                 *)
EXTENDS PriorityConfig

MCMinPrio == -1
MCMaxPrio == 2
=============================================================================
