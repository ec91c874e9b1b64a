--------------------------- MODULE AtomicPermits ---------------------------
(***************************************************************************)
(* What the permit words promise to the operations that use them without   *)
(* the mutex: a count and a closed flag for every semaphore, and calls     *)
(* that take effect in one step between their start and their return.      *)
(* Words with bits, loads, compare-and-exchange loops and permit objects   *)
(* are not visible here; RankedSemaphore uses the word in this form.       *)
(***************************************************************************)
EXTENDS Integers

CONSTANTS
  Threads,
  Sems,
  NoCall     \* the call of a thread that is in none

VARIABLES
  cap,       \* how many permits a word can count; never changed
  count,     \* available permits of a semaphore
  closed,    \* has it been closed?
  held,      \* permits in the permit objects of a semaphore
  call       \* the call a thread is in: op, sem, n

vars == <<cap, count, closed, held, call>>

Returns(t) == call' = [call EXCEPT ![t] = NoCall]

Calls == [op : {"one", "many", "poll", "forget"}, sem : Sems, n : Nat]

Begin(t) ==
  /\ call[t] = NoCall
  /\ call'[t] \in Calls
  /\ call' = [call EXCEPT ![t] = call'[t]]
  /\ UNCHANGED <<cap, count, closed, held>>

\* All of n permits, from an open semaphore that has them.
Acquire(t) ==
  LET s == call[t].sem  n == call[t].n IN
  /\ call[t].op \in {"one", "many", "poll"}
  /\ ~closed[s] /\ n <= count[s]
  /\ count' = [count EXCEPT ![s] = @ - n]
  /\ held' = [held EXCEPT ![s] = @ + n]
  /\ Returns(t)
  /\ UNCHANGED <<cap, closed>>

\* A try_acquire fails only if the semaphore is closed or has too few.
Refuse(t) ==
  LET s == call[t].sem IN
  /\ call[t].op \in {"one", "many"}
  /\ closed[s] \/ count[s] < call[t].n
  /\ Returns(t)
  /\ UNCHANGED <<cap, count, closed, held>>

\* A poll may give up at any time; it goes on to the queue.
Miss(t) ==
  /\ call[t].op = "poll"
  /\ Returns(t)
  /\ UNCHANGED <<cap, count, closed, held>>

\* forget_permits takes n permits, or all if there are fewer.
Remove(t) ==
  LET n == call[t].n IN
  /\ call[t].op = "forget"
  /\ count' = [count EXCEPT ![call[t].sem] = IF n <= @ THEN @ - n ELSE 0]
  /\ Returns(t)
  /\ UNCHANGED <<cap, closed, held>>

\* Operations that are one access to the word, or none.  A count wraps: the
\* addition is checked after it was made.
Add(s) ==
  /\ \E n \in 1..cap - 1 : count' = [count EXCEPT ![s] = (@ + n) % cap]
  /\ UNCHANGED <<cap, closed, held, call>>

Drop(s) ==
  /\ \E n \in 1..held[s] :
       /\ held' = [held EXCEPT ![s] = @ - n]
       /\ count' = [count EXCEPT ![s] = (@ + n) % cap]
  /\ UNCHANGED <<cap, closed, call>>

\* forget(), and what a merge loses whose sum wraps.
Forget(s) ==
  /\ \E n \in 1..held[s] : held' = [held EXCEPT ![s] = @ - n]
  /\ UNCHANGED <<cap, count, closed, call>>

Close(s) ==
  /\ closed' = [closed EXCEPT ![s] = TRUE]
  /\ UNCHANGED <<cap, count, held, call>>

Init ==
  /\ cap \in Nat
  /\ count \in [Sems -> Nat]
  /\ closed = [s \in Sems |-> FALSE]
  /\ held = [s \in Sems |-> 0]
  /\ call = [t \in Threads |-> NoCall]

Next ==
  \/ \E t \in Threads :
       IF call[t] = NoCall THEN Begin(t)
                           ELSE Acquire(t) \/ Refuse(t) \/ Miss(t) \/ Remove(t)
  \/ \E s \in Sems : Add(s) \/ Drop(s) \/ Forget(s) \/ Close(s)

Spec == Init /\ [][Next]_vars
=============================================================================
