-------------------------- MODULE CountingSemaphore --------------------------
(***************************************************************************)
(* What the semaphore promises, with no word, no queue and no mutex:       *)
(* permits are held by threads, there is a supply of them, and the         *)
(* semaphore is open or closed.  While it is open nobody acquires what is  *)
(* not there; once it is closed nobody acquires anything.  The type-level  *)
(* documentation of semaphore/core.rs and its close() say so.              *)
(***************************************************************************)
EXTENDS Sums

CONSTANT Threads

VARIABLES
  held,     \* permits that a thread owns
  closed,   \* has the semaphore been closed?
  supply    \* permits created minus permits forgotten

vars == <<held, closed, supply>>

InUse == SumOver(held, Threads)

Init ==
  /\ held = [t \in Threads |-> 0]
  /\ closed = FALSE
  /\ supply \in Nat

\* All of n permits or none.
Acquire(t) ==
  /\ ~closed
  /\ \E n \in 1..(supply - InUse) : held' = [held EXCEPT ![t] = @ + n]
  /\ UNCHANGED <<closed, supply>>

Drop(t) ==
  /\ \E n \in 1..held[t] : held' = [held EXCEPT ![t] = @ - n]
  /\ UNCHANGED <<closed, supply>>

Forget(t) ==
  /\ \E n \in 1..held[t] : /\ held' = [held EXCEPT ![t] = @ - n]
                           /\ supply' = supply - n
  /\ UNCHANGED closed

Add ==
  /\ supply' > supply
  /\ UNCHANGED <<held, closed>>

\* Only permits that nobody holds can be taken away.
Remove ==
  /\ supply' < supply
  /\ ~closed => InUse <= supply'
  /\ UNCHANGED <<held, closed>>

Close ==
  /\ closed' = TRUE
  /\ UNCHANGED <<held, supply>>

Next ==
  \/ \E t \in Threads : Acquire(t) \/ Drop(t) \/ Forget(t)
  \/ Add \/ Remove \/ Close

Spec == Init /\ [][Next]_vars
=============================================================================
