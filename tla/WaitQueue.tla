------------------------------ MODULE WaitQueue ------------------------------
(***************************************************************************)
(* The priority wait queue of the semaphore (wait_queue/queue.rs), the     *)
(* state word and the waker cell of a waiter (wait_queue/waiter.rs) and    *)
(* the bounded list of wakers that a selection fills (wait_queue/waker.rs).*)
(*                                                                         *)
(* Every method of WaitQueue runs while its caller holds the semaphore's   *)
(* mutex, so at most one of them is in progress (Busy).  Three things do   *)
(* NOT take the mutex and interleave with the steps of a method: the       *)
(* owner of a waiter cancels it (Cancel), the owner stores its waker       *)
(* (SetWaker), and loads of the state word.  A method is therefore split   *)
(* at its accesses to a waiter's state word and waker cell.                *)
(*                                                                         *)
(* A definition marked "Mutant:" is a wrong form of the one that follows.  *)
(* The specification does not use it; it shows that a property can fail.   *)
(***************************************************************************)
EXTENDS Integers, Sequences, FiniteSets, SequencesExt

CONSTANTS
  Waiters,     \* identities of the WaiterState objects
  Prios,       \* the priorities in use: a finite set of integers
  Strategy,    \* resolve_strategy of the configuration, priority by priority
  Requests,    \* the request of every waiter: what an initial state may choose
  MaxGrant,    \* bound: the most permits one selection is given
  NumWakers,   \* NUM_WAKERS, the capacity of a WakeList
  None         \* no waiter, no priority

ASSUME WaitQueueAssumption ==
  /\ IsFiniteSet(Waiters)
  /\ None \notin Waiters
  /\ Prios \subseteq Int
  /\ Strategy \in [Prios -> {"Fifo", "Lifo"}]
  /\ Requests \subseteq [Waiters -> [need : Nat, prio : Prios]]
  /\ MaxGrant \in Nat
  /\ NumWakers \in Nat \ {0}

VARIABLES
  req,         \* permits_needed and priority of every waiter, never changed
  state,       \* the state word; "ABSENT" before the waiter is created
  waker,       \* does the waker cell hold a waker?
  queues,      \* priority_queues: one VecDeque per priority, front first
  active,      \* active_priorities: how often the heap holds a priority
  total,       \* total_waiters
  sel,         \* the locals of select_waiters_to_notify, while it runs
  drained,     \* all_waiters of close(): drained and not yet cancelled
  earlier      \* history: the waiters pushed before a waiter

wqVars == <<req, state, waker, queues, active, total, sel, drained, earlier>>

Priority(w) == req[w].prio
Need(w)     == req[w].need

IsCancelled(w) == state[w] = "CANCELLED"

\* No method of the queue is in progress.
Busy == sel.phase # "idle" \/ drained # {}

-----------------------------------------------------------------------------
(* The waiter: a CAS, or a pair of them, on its state word.                *)

\* Mutant: a store instead of a CAS.
TryNotifyAny(w) == state' = [state EXCEPT ![w] = "NOTIFIED"]

\* WaiterState::try_notify succeeds only on a waiter that still waits.
TryNotify(w) ==
  /\ state[w] = "WAITING"
  /\ state' = [state EXCEPT ![w] = "NOTIFIED"]

\* WaiterState::cancel, both of its CASes: WAITING or NOTIFIED becomes
\* CANCELLED, CANCELLED stays.
CancelState(w) == state' = [state EXCEPT ![w] = "CANCELLED"]

\* Drop of the future that owns w.  Whatever the word held, it is CANCELLED
\* when the destructor asks is_waiting(), so remove_waiter is never called.
Cancel(w) ==
  /\ state[w] # "ABSENT"
  /\ CancelState(w)
  /\ UNCHANGED <<req, waker, queues, active, total, sel, drained, earlier>>

\* WaiterState::set_waker, called by poll without the mutex.
SetWaker(w) ==
  /\ state[w] # "ABSENT"
  /\ waker' = [waker EXCEPT ![w] = TRUE]
  /\ UNCHANGED <<req, state, queues, active, total, sel, drained, earlier>>

-----------------------------------------------------------------------------
(* push_waiter and insert_waiter_optimized.                                *)

\* Mutant: the priority is pushed for every waiter.
ActivateAlways(p) == active' = [active EXCEPT ![p] = @ + 1]
Activate(p) ==
  active' = IF queues[p] = <<>> THEN [active EXCEPT ![p] = @ + 1] ELSE active

\* Mutants: the strategy is ignored; the queue is created anew.
EnqueueFifo(w, p) == queues' = [queues EXCEPT ![p] = Append(@, w)]
EnqueueFresh(w, p) == queues' = [queues EXCEPT ![p] = <<w>>]

Enqueue(w, p) ==
  queues' = [queues EXCEPT ![p] = IF Strategy[p] = "Fifo" THEN Append(@, w)
                                                          ELSE <<w>> \o @]

PushWaiter(w) ==
  /\ ~Busy
  /\ state[w] = "ABSENT"
  /\ state' = [state EXCEPT ![w] = "WAITING"]
  /\ Activate(Priority(w))
  /\ Enqueue(w, Priority(w))
  /\ total' = total + 1
  /\ earlier' = [earlier EXCEPT ![w] = {v \in Waiters : state[v] # "ABSENT"}]
  /\ UNCHANGED <<req, waker, sel, drained>>

-----------------------------------------------------------------------------
(* select_waiters_to_notify.  sel.phase is the place in the code:          *)
(*   "single"  the loop of process_single_priority_fast                    *)
(*   "outer"   the loop over priorities of process_multiple_...            *)
(*   "full"    that loop broke off: the wake list is full                  *)
(*   "inner"   the loop over the queue of priority sel.prio                *)
(*   "retain"  the pass that removes cancelled waiters from that queue     *)
(*   "notify"  sel.cur was popped, try_notify is next                      *)
(*   "take"    sel.cur was notified, taking its waker is next              *)
(*   "done"    the result (wakes, assigned) is ready for the caller        *)

NoCounts == [p \in Prios |-> 0]

SelInit == [phase |-> "idle", loop |-> "single", given |-> 0, avail |-> 0,
            assigned |-> 0, wakes |-> <<>>, prio |-> None, cur |-> None,
            idx |-> 0, removed |-> 0, processed |-> FALSE,
            restore |-> NoCounts]

Loops  == {"single", "inner"}
Phases == {"idle", "outer", "full", "retain", "notify", "take", "done"} \cup Loops

\* Mutant: off by one.
CanPushOneMore == Len(sel.wakes) <= NumWakers
CanPush == Len(sel.wakes) < NumWakers

OnlyPriority(p) == active[p] = 1 /\ \A q \in Prios \ {p} : active[q] = 0

\* Mutant: not the highest priority.
PeekAny(p) == active[p] > 0
Peek(p) == active[p] > 0 /\ \A q \in Prios : active[q] > 0 => q <= p

SelectNothing(n) ==
  /\ ~Busy
  /\ n = 0 \/ total = 0
  /\ sel' = [SelInit EXCEPT !.phase = "done", !.given = n, !.avail = n]
  /\ UNCHANGED <<req, state, waker, queues, active, total, drained, earlier>>

\* One active priority: it leaves the heap while its queue is processed.
SelectSingle(n) ==
  /\ ~Busy
  /\ n > 0 /\ total > 0
  /\ \E p \in Prios :
       /\ OnlyPriority(p)
       /\ active' = [active EXCEPT ![p] = 0]
       /\ sel' = [SelInit EXCEPT !.phase = "single", !.loop = "single",
                                 !.given = n, !.avail = n, !.prio = p]
  /\ UNCHANGED <<req, state, waker, queues, total, drained, earlier>>

SelectMulti(n) ==
  /\ ~Busy
  /\ n > 0 /\ total > 0
  /\ ~ \E p \in Prios : OnlyPriority(p)
  /\ sel' = [SelInit EXCEPT !.phase = "outer", !.loop = "inner",
                            !.given = n, !.avail = n]
  /\ UNCHANGED <<req, state, waker, queues, active, total, drained, earlier>>

SelectWaiters(n) == SelectNothing(n) \/ SelectSingle(n) \/ SelectMulti(n)

-----------------------------------------------------------------------------
(* The loop over one queue.  The single-priority loop looks at the         *)
(* cancellation first, the multi-priority loop at the size first.          *)

Queue == queues[sel.prio]
FrontWaiter == Head(Queue)
Fits(w) == Need(w) <= sel.avail
MayContinue == Queue # <<>> /\ CanPush /\ sel.avail > 0

StopsAtFront ==
  IF sel.phase = "single" THEN ~IsCancelled(FrontWaiter) /\ ~Fits(FrontWaiter)
                          ELSE ~Fits(FrontWaiter)

\* Mutant: the other end.
PopBack ==
  /\ queues' = [queues EXCEPT ![sel.prio] = Front(@)]
  /\ total' = total - 1

PopFront ==
  /\ queues' = [queues EXCEPT ![sel.prio] = Tail(@)]
  /\ total' = total - 1

\* Mutant: continue without pop_front.
SkipCancelledFront ==
  /\ sel.phase \in Loops
  /\ MayContinue /\ ~StopsAtFront
  /\ IsCancelled(FrontWaiter)
  /\ UNCHANGED wqVars

\* A cancelled waiter at the front is dropped from the queue.
DropCancelledFront ==
  /\ sel.phase \in Loops
  /\ MayContinue /\ ~StopsAtFront
  /\ IsCancelled(FrontWaiter)
  /\ PopFront
  /\ UNCHANGED <<req, state, waker, active, sel, drained, earlier>>

\* A waiter that fits is popped and charged, before it is notified.
PopToNotify ==
  /\ sel.phase \in Loops
  /\ MayContinue /\ ~StopsAtFront
  /\ ~IsCancelled(FrontWaiter)
  /\ PopFront
  /\ sel' = [sel EXCEPT !.phase = "notify", !.cur = FrontWaiter, !.processed = TRUE,
                        !.avail = @ - Need(FrontWaiter),
                        !.assigned = @ + Need(FrontWaiter)]
  /\ UNCHANGED <<req, state, waker, active, drained, earlier>>

Notify ==
  /\ sel.phase = "notify"
  /\ TryNotify(sel.cur)
  /\ sel' = [sel EXCEPT !.phase = "take"]
  /\ UNCHANGED <<req, waker, queues, active, total, drained, earlier>>

\* The waiter was cancelled after it was popped: it stays charged.
NotifyFails ==
  /\ sel.phase = "notify"
  /\ state[sel.cur] # "WAITING"
  /\ sel' = [sel EXCEPT !.phase = sel.loop, !.cur = None]
  /\ UNCHANGED <<req, state, waker, queues, active, total, drained, earlier>>

\* take_waker_under_lock and push: a waiter with no waker yet adds nothing.
\* The code asks can_push once more, which holds (WakeRoom).
TakeWaker ==
  /\ sel.phase = "take"
  /\ sel' = [sel EXCEPT !.phase = sel.loop, !.cur = None,
                        !.wakes = IF waker[sel.cur] THEN Append(@, sel.cur)
                                                    ELSE @]
  /\ waker' = [waker EXCEPT ![sel.cur] = FALSE]
  /\ UNCHANGED <<req, state, queues, active, total, drained, earlier>>

\* The single-priority loop ends: a queue that is not empty is active again.
SingleEnds ==
  /\ sel.phase = "single"
  /\ MayContinue => StopsAtFront
  /\ active' = IF Queue = <<>> THEN active
                               ELSE [active EXCEPT ![sel.prio] = @ + 1]
  /\ sel' = [sel EXCEPT !.phase = "done", !.prio = None]
  /\ UNCHANGED <<req, state, waker, queues, total, drained, earlier>>

-----------------------------------------------------------------------------
(* The loop over priorities.                                               *)

\* The highest priority leaves the heap; its queue is processed if there is
\* one and its first waiter, cancelled or not, fits.
OuterVisits ==
  /\ sel.phase = "outer"
  /\ sel.avail > 0 /\ CanPush
  /\ \E p \in Prios :
       /\ Peek(p)
       /\ queues[p] # <<>> => Fits(Head(queues[p]))
       /\ active' = [active EXCEPT ![p] = @ - 1]
       /\ sel' = IF queues[p] = <<>> THEN sel
                 ELSE [sel EXCEPT !.phase = "inner", !.prio = p,
                                  !.processed = FALSE]
  /\ UNCHANGED <<req, state, waker, queues, total, drained, earlier>>

OuterStops ==
  \/ \A p \in Prios : active[p] = 0
  \/ sel.avail = 0
  \/ ~CanPush
  \/ \E p \in Prios : Peek(p) /\ queues[p] # <<>> /\ ~Fits(Head(queues[p]))

\* The loop ends and the priorities with waiters left go back to the heap.
\* Mutant: the priorities are not restored.
RestoreLost == active' = active

Restore == active' = [p \in Prios |-> active[p] + sel.restore[p]]

OuterEnds ==
  /\ \/ sel.phase = "full"
     \/ sel.phase = "outer" /\ OuterStops
  /\ Restore
  /\ sel' = [sel EXCEPT !.phase = "done", !.restore = NoCounts]
  /\ UNCHANGED <<req, state, waker, queues, total, drained, earlier>>

InnerEnds ==
  /\ sel.phase = "inner"
  /\ MayContinue => StopsAtFront
  /\ sel' = [sel EXCEPT !.phase = "retain", !.idx = 1, !.removed = 0]
  /\ UNCHANGED <<req, state, waker, queues, active, total, drained, earlier>>

\* VecDeque::retain visits the waiters front to back, one load each.
RetainStep ==
  /\ sel.phase = "retain"
  /\ sel.idx <= Len(Queue)
  /\ IF IsCancelled(Queue[sel.idx])
       THEN /\ queues' = [queues EXCEPT ![sel.prio] = RemoveAt(@, sel.idx)]
            /\ sel' = [sel EXCEPT !.removed = @ + 1]
       ELSE /\ sel' = [sel EXCEPT !.idx = @ + 1]
            /\ UNCHANGED queues
  /\ UNCHANGED <<req, state, waker, active, total, drained, earlier>>

\* Mutants: retain's removals are not counted, or counted twice.
RemovedStayInTotal == total' = total
RemovedFromTotalTwice == total' = total - 2 * sel.removed

\* Only the waiters that retain removed leave the count here.
RemovedFromTotal == total' = IF total >= sel.removed THEN total - sel.removed
                                                     ELSE total

\* Mutant: the queue is not asked whether it is empty.
ToRestoreAlways ==
  [p \in Prios |-> sel.restore[p] + IF p = sel.prio THEN 1 ELSE 0]

\* A priority with waiters left goes back to the heap when the loop has ended.
ToRestore ==
  [p \in Prios |-> sel.restore[p] + IF p = sel.prio /\ Queue # <<>> THEN 1 ELSE 0]

RetainEnds ==
  /\ sel.phase = "retain"
  /\ sel.idx > Len(Queue)
  /\ RemovedFromTotal
  /\ sel' = [sel EXCEPT !.phase = IF sel.processed /\ ~CanPush THEN "full"
                                                              ELSE "outer",
                        !.prio = None, !.idx = 0, !.removed = 0,
                        !.restore = ToRestore]
  /\ UNCHANGED <<req, state, waker, queues, active, drained, earlier>>

\* The caller takes the result.
SelectReturns ==
  /\ sel.phase = "done"
  /\ sel' = SelInit
  /\ UNCHANGED <<req, state, waker, queues, active, total, drained, earlier>>

SelectStep ==
  \/ DropCancelledFront \/ PopToNotify \/ Notify \/ NotifyFails \/ TakeWaker
  \/ SingleEnds \/ OuterVisits \/ OuterEnds
  \/ InnerEnds \/ RetainStep \/ RetainEnds

-----------------------------------------------------------------------------
(* close(): the queues, the heap and the count are emptied at once, then   *)
(* the waiters that were in them are cancelled one by one.                 *)

Queued == {w \in Waiters : w \in ToSet(queues[Priority(w)])}

Close ==
  /\ ~Busy
  /\ drained' = Queued
  /\ queues' = [p \in Prios |-> <<>>]
  /\ active' = NoCounts
  /\ total' = 0
  /\ UNCHANGED <<req, state, waker, sel, earlier>>

CloseCancels(w) ==
  /\ w \in drained
  /\ CancelState(w)
  /\ drained' = drained \ {w}
  /\ UNCHANGED <<req, waker, queues, active, total, sel, earlier>>

-----------------------------------------------------------------------------
WQInit ==
  /\ req \in Requests
  /\ state = [w \in Waiters |-> "ABSENT"]
  /\ waker = [w \in Waiters |-> FALSE]
  /\ queues = [p \in Prios |-> <<>>]
  /\ active = NoCounts
  /\ total = 0
  /\ sel = SelInit
  /\ drained = {}
  /\ earlier = [w \in Waiters |-> {}]

WQNext ==
  \/ \E w \in Waiters : PushWaiter(w) \/ Cancel(w) \/ SetWaker(w)
                        \/ CloseCancels(w)
  \/ \E n \in 0..MaxGrant : SelectWaiters(n)
  \/ SelectStep
  \/ SelectReturns
  \/ Close

WQSpec == WQInit /\ [][WQNext]_wqVars

-----------------------------------------------------------------------------
Selections ==
  [phase : Phases, loop : Loops, given : Nat, avail : Nat, assigned : Nat,
   wakes : Seq(Waiters), prio : Prios \cup {None}, cur : Waiters \cup {None},
   idx : Nat, removed : Nat, processed : BOOLEAN, restore : [Prios -> Nat]]

(* Every variable has its type: no count of the queue goes below zero.     *)
TypeOK ==
  /\ req \in Requests
  /\ state \in [Waiters -> {"ABSENT", "WAITING", "NOTIFIED", "CANCELLED"}]
  /\ waker \in [Waiters -> BOOLEAN]
  /\ queues \in [Prios -> Seq(Waiters)]
  /\ active \in [Prios -> Nat]
  /\ total \in Nat
  /\ sel \in Selections
  /\ drained \in SUBSET Waiters
  /\ earlier \in [Waiters -> SUBSET Waiters]

(* The heap holds exactly the priorities that have waiters, each once,     *)
(* whenever no selection runs: a priority that is missing is never served  *)
(* again, one that is there twice sends the single-priority case into the  *)
(* general loop (insert_waiter_optimized against the pops and pushes of    *)
(* the two selection loops).                                               *)
HeapMatchesQueues ==
  sel.phase = "idle" =>
    \A p \in Prios : active[p] = IF queues[p] = <<>> THEN 0 ELSE 1

(* total_waiters is the number of waiters in the queues: is_empty(), which *)
(* decides whether a released permit is offered to anyone, is exact.       *)
CountMatchesQueues == sel.phase = "idle" => total = Cardinality(Queued)

(* A waiter that still waits is in a queue, or in the hands of a selection *)
(* or of close(): no interleaving of selections, cancellations and pushes  *)
(* makes the queue forget a live waiter.                                   *)
NoWaiterLost ==
  \A w \in Waiters :
    state[w] = "WAITING" => w \in Queued \cup drained \cup {sel.cur}

(* A notified waiter has left every queue, so it is not served twice and   *)
(* close() does not cancel a grant.                                        *)
NotifiedNotQueued ==
  \A w \in Waiters : state[w] = "NOTIFIED" => w \notin Queued \cup drained

(* Within a priority, live waiters are notified in the order of arrival    *)
(* (Fifo) or in the reverse order (Lifo), whatever was cancelled between.  *)
ServedBefore(v, w) ==
  IF Strategy[Priority(w)] = "Fifo" THEN v \in earlier[w] ELSE w \in earlier[v]

ServedInOrder ==
  [][\A v, w \in Waiters :
       /\ state[w] = "WAITING" /\ state'[w] = "NOTIFIED"
       /\ state[v] = "WAITING" /\ v # w /\ Priority(v) = Priority(w)
       => ~ServedBefore(v, w)]_wqVars

\* acquire() and acquire_with_priority() only: one permit each.
AllUnit == \A w \in Waiters : Need(w) = 1

(* When every request is for one permit, a waiter is notified only if no   *)
(* live waiter of a higher priority is left, in whatever order the         *)
(* priorities left the heap and came back to it.                           *)
StrictPriority ==
  [][AllUnit =>
       \A v, w \in Waiters :
         /\ state[w] = "WAITING" /\ state'[w] = "NOTIFIED"
         /\ state[v] = "WAITING"
         => Priority(v) <= Priority(w)]_wqVars

(* And a selection with permits to spare and room in its wake list has     *)
(* notified everybody: what a release puts into the word is not needed.    *)
SelectionExhausts ==
  AllUnit /\ sel.phase = "done" /\ sel.avail > 0 /\ CanPush
    => \A w \in Waiters : state[w] # "WAITING"

-----------------------------------------------------------------------------
(* Why a selection ends: a bound on the steps it has left, which every one *)
(* of its steps lowers.                                                    *)

Selecting == sel.phase \notin {"idle", "done"}

\* The queue of sel.prio is being processed; its priority is not in the heap.
Serving == sel.phase \in {"single", "inner", "retain", "notify", "take"}

\* The priorities that may still be visited, the waiters that may still be
\* looked at: those of these priorities and of the queue being processed,
\* in the pass of retain only from its index on.
ToVisit == {p \in Prios : active[p] > 0}

FirstUnseen == IF sel.phase = "retain" THEN sel.idx ELSE 1

Unseen ==
  {w \in Queued : active[Priority(w)] > 0} \cup
    (IF Serving THEN {Queue[i] : i \in FirstUnseen..Len(Queue)} ELSE {})

\* Steps until the turn of the loop is over, and the loops with it.
TurnLeft ==
  CASE sel.phase \in {"outer", "full"} -> 1
    [] sel.phase = "retain"            -> 2
    [] sel.phase \in Loops             -> 3
    [] sel.phase = "take"              -> 4
    [] sel.phase = "notify"            -> 5

StepsLeft ==
  IF Selecting THEN 3 * (Cardinality(Unseen) + Cardinality(ToVisit)) + TurnLeft
               ELSE 0

(* No selection runs for ever under the mutex: each of its steps, in       *)
(* either loop and in retain, brings it closer to its end, and nothing     *)
(* that happens meanwhile sets it back.  It takes at most six steps for a  *)
(* waiter in the queues and three more, so visiting the same queue twice,  *)
(* or restoring a priority while the loop still runs, is excluded.         *)
SelectionShrinks ==
  [][IF Selecting THEN StepsLeft' < StepsLeft \/ UNCHANGED <<queues, active, sel>>
                  ELSE StepsLeft' <= 6 * total + 3]_wqVars

-----------------------------------------------------------------------------
(* Why the invariants hold: the inductive invariant of the queue.          *)

\* A waiter is in one queue at most, once, and that of its priority.
QueuesSound ==
  \A p \in Prios :
    /\ IsInjective(queues[p])
    /\ \A w \in ToSet(queues[p]) : Priority(w) = p

\* What the phase says about the other locals of a selection.
SelSound ==
  /\ Serving => sel.prio \in Prios
  /\ IF sel.phase \in {"notify", "take"} THEN sel.cur \in Waiters ELSE sel.cur = None
  /\ sel.phase \in Loops => sel.phase = sel.loop
  /\ sel.phase \in {"outer", "full", "retain"} => sel.loop = "inner"
  /\ IF sel.phase = "retain" THEN sel.idx > 0 ELSE sel.removed = 0
  /\ sel.phase \in {"idle", "done"} \/ sel.loop = "single" => sel.restore = NoCounts
  /\ drained # {} => sel.phase = "idle"

\* The waiters of the queues, of close() and of a selection are different
\* ones and exist; a notified waiter is none of them, a selection's one may be.
PlacesSound ==
  /\ \A w \in Queued \cup drained : state[w] \in {"WAITING", "CANCELLED"}
  /\ Queued \cap drained = {}
  /\ sel.cur \notin Queued \cup drained
  /\ sel.phase = "notify" => state[sel.cur] \in {"WAITING", "CANCELLED"}
  /\ sel.phase = "take" => state[sel.cur] \in {"NOTIFIED", "CANCELLED"}

\* retain leaves the count behind by what it has removed.
CountSound == total = Cardinality(Queued) + sel.removed

\* A priority is in the heap, or will be restored to it, if it has waiters
\* and its queue is not the one being processed.
HeapSound ==
  \A p \in Prios :
    active[p] + sel.restore[p] =
      IF queues[p] = <<>> \/ (Serving /\ p = sel.prio) THEN 0 ELSE 1

\* The wake list stays within its array, and a popped waiter finds room in it.
WakeListFits == Len(sel.wakes) <= NumWakers
WakeRoom ==
  /\ WakeListFits
  /\ sel.phase \in {"notify", "take"} => CanPush

WQInv ==
  /\ TypeOK /\ QueuesSound /\ SelSound /\ PlacesSound /\ CountSound
  /\ HeapSound /\ WakeRoom /\ NoWaiterLost

-----------------------------------------------------------------------------
(* Why the order of service holds: what WQInv is to the invariants.        *)

\* Nobody is served before the waiters in front of him, nor before the one
\* in a selection's hands; who does not exist yet came before nobody.
OrderSound ==
  /\ \A v, w \in Waiters : state[w] = "ABSENT" => w \notin earlier[v]
  /\ \A p \in Prios : \A i, j \in 1..Len(queues[p]) :
       i < j => ~ServedBefore(queues[p][j], queues[p][i])
  /\ sel.phase = "notify" =>
       /\ Priority(sel.cur) = sel.prio
       /\ \A v \in ToSet(queues[sel.prio]) : ~ServedBefore(v, sel.cur)

MayServe == sel.avail > 0 /\ CanPush

\* With requests for one permit, a selection leaves a priority with waiters
\* behind only when it may serve nobody any more.
UnitSound ==
  AllUnit =>
    /\ sel.phase \in {"single", "notify", "take"} /\ sel.loop = "single" =>
         \A q \in Prios \ {sel.prio} : queues[q] = <<>>
    /\ sel.phase \in {"inner", "notify", "take", "retain"} /\ sel.loop = "inner" =>
         /\ sel.restore = NoCounts
         /\ \A q \in Prios : q > sel.prio => queues[q] = <<>>
    /\ sel.phase = "retain" /\ MayServe => Queue = <<>>
    /\ sel.phase = "outer" /\ MayServe => sel.restore = NoCounts
    /\ sel.phase = "full" => ~CanPush
    /\ sel.phase = "done" /\ MayServe => \A q \in Prios : queues[q] = <<>>

(* The inductive invariant of the order of service.                        *)
ServiceInv == OrderSound /\ UnitSound

(* Both together: what holds at every point inside the methods of the      *)
(* queue, and all that the other properties of the queue rest on.          *)
QueueInductive == WQInv /\ ServiceInv

-----------------------------------------------------------------------------
(* What the documentation says and the code does not do.                   *)

(* core.rs:9: "Higher priority tasks are served before lower priority      *)
(* tasks", whatever they ask for.                                          *)
HigherPriorityFirst ==
  [][\A v, w \in Waiters :
       /\ state[w] = "WAITING" /\ state'[w] = "NOTIFIED"
       /\ state[v] = "WAITING"
       => Priority(v) <= Priority(w)]_wqVars
=============================================================================
