--------------------------- MODULE RankedSemaphore ---------------------------
(***************************************************************************)
(* The semaphore (semaphore/core.rs), the acquire futures                  *)
(* (semaphore/futures.rs), the release of a permit (semaphore/permits.rs)  *)
(* and the non-blocking operations (semaphore/methods.rs), composed with   *)
(* the wait queue that the mutex protects (WaitQueue).                     *)
(*                                                                         *)
(* A waiter w of WaitQueue is one Acquire (or AcquireOwned) future: it     *)
(* creates at most one WaiterState.  The future has a task of its own that *)
(* polls it and, when it resolves, owns the permit and drops it.  Callers  *)
(* are the other threads: they call add_permits, forget_permits, close and *)
(* try_acquire_many, and drop the permits they hold.                       *)
(*                                                                         *)
(* A step is one access to shared state that the mutex does not protect,   *)
(* with the thread-local work around it, or one stretch under the mutex    *)
(* that contains at most one such access.                                  *)
(*                                                                         *)
(* A definition marked "Mutant:" is a wrong form of the one that follows.  *)
(***************************************************************************)
EXTENDS WaitQueue, Sums

CONSTANTS
  Callers,     \* threads that call the non-blocking operations
  InitPermits, \* the argument of the constructor: a set to choose from
  MaxSupply    \* bound: add_permits is not called beyond this many permits

ASSUME SemaphoreAssumption ==
  /\ IsFiniteSet(Callers)
  /\ Callers \cap Waiters = {}
  /\ None \notin Callers
  /\ InitPermits \subseteq Nat
  /\ MaxSupply \in Nat

Threads == Waiters \cup Callers

VARIABLES
  permits,     \* the atomic word: its permit count ...
  closed,      \* ... and its CLOSED bit
  lock,        \* who holds the waiters mutex
  pc,          \* where a thread is
  held,        \* permits in the permit objects a thread owns
  rem,         \* permits a release still has to place (rem)
  curr,        \* the word a first poll loaded: its count, the bit was clear
  batch,       \* permits_assigned of the batch being announced
  wakes,       \* the WakeList a release has taken out of the queue
  woken,       \* the task of a future is scheduled
  outcome,     \* what became of a future
  supply,      \* history: permits created minus permits forgotten
  leaked       \* history: permits charged to a waiter that was given up

semVars == <<permits, closed, lock, pc, held, rem, curr, batch, wakes, woken,
             outcome, supply, leaked>>
vars == <<wqVars, semVars>>

\* Groups of variables that actions leave alone.
releaseVars == <<rem, batch, wakes>>
wordVars    == <<permits, closed, supply, leaked>>

Goto(t, l) == pc' = [pc EXCEPT ![t] = l]

-----------------------------------------------------------------------------
(* Acquire::poll.  "parked" is a future between two polls, or not polled   *)
(* yet; "idle" is a task whose future is gone, or a caller between calls.  *)

\* Poll::Ready: the future has resolved and its owner drops it, which turns
\* a NOTIFIED state word into CANCELLED.
Resolve(f, result, n) ==
  /\ outcome' = [outcome EXCEPT ![f] = result]
  /\ held' = [held EXCEPT ![f] = n]
  /\ Goto(f, "idle")

\* Mutant: off by one.
SufficesAlmost(f) == permits + 1 >= Need(f)
Suffices(f) == permits >= Need(f)

\* First poll, fast path: one load decides between error, one CAS and the
\* slow path.
PollLoad(f) ==
  /\ pc[f] = "parked" /\ state[f] = "ABSENT" /\ woken[f]
  /\ woken' = [woken EXCEPT ![f] = FALSE]
  /\ IF closed
       THEN Resolve(f, "closed", 0) /\ UNCHANGED curr
       ELSE /\ IF Suffices(f)
                 THEN Goto(f, "cas") /\ curr' = [curr EXCEPT ![f] = permits]
                 ELSE Goto(f, "enqueue") /\ UNCHANGED curr
            /\ UNCHANGED <<outcome, held>>
  /\ UNCHANGED <<wqVars, wordVars, lock, releaseVars>>

\* Mutant: the CLOSED bit is not compared.
WordIsOldCount(f) == permits = curr[f]

\* The CAS compares the whole word, the CLOSED bit included.
WordIsOld(f) == ~closed /\ permits = curr[f]

PollCas(f) ==
  /\ pc[f] = "cas"
  /\ WordIsOld(f)
  /\ permits' = permits - Need(f)
  /\ Resolve(f, "acquired", Need(f))
  /\ curr' = [curr EXCEPT ![f] = 0]
  /\ UNCHANGED <<wqVars, closed, supply, leaked, lock, releaseVars, woken>>

\* compare_exchange_weak may fail for no reason; there is no second attempt.
PollCasFails(f) ==
  /\ pc[f] = "cas"
  /\ Goto(f, "enqueue")
  /\ curr' = [curr EXCEPT ![f] = 0]
  /\ UNCHANGED <<wqVars, wordVars, lock, held, releaseVars, woken, outcome>>

\* Mutant: the CLOSED bit is not checked under the mutex.
PollEnqueueBlindly(f) ==
  /\ pc[f] = "enqueue" /\ lock = None
  /\ PushWaiter(f) /\ Goto(f, "check") /\ UNCHANGED <<outcome, held>>
  /\ UNCHANGED <<wordVars, lock, curr, releaseVars, woken>>

\* Slow path, under the mutex: the CLOSED bit again, then push_waiter.
PollEnqueue(f) ==
  /\ pc[f] = "enqueue" /\ lock = None
  /\ IF closed
       THEN Resolve(f, "closed", 0) /\ UNCHANGED wqVars
       ELSE PushWaiter(f) /\ Goto(f, "check") /\ UNCHANGED <<outcome, held>>
  /\ UNCHANGED <<wordVars, lock, curr, releaseVars, woken>>

\* is_cancelled, is_notified, is_closed.  A waiter that is cancelled between
\* the first two loads is treated as one that is cancelled after both.
LookAtState(f) ==
  CASE state[f] = "CANCELLED" ->
         Resolve(f, "closed", 0) /\ UNCHANGED wqVars
    [] state[f] = "NOTIFIED" /\ closed ->
         Resolve(f, "closed", 0) /\ Cancel(f)
    [] state[f] = "NOTIFIED" /\ ~closed ->
         Resolve(f, "acquired", Need(f)) /\ Cancel(f)
    [] state[f] = "WAITING" ->
         Goto(f, "setwaker") /\ UNCHANGED <<wqVars, outcome, held>>

PollCheck(f) ==
  /\ pc[f] = "check"
  /\ LookAtState(f)
  /\ UNCHANGED <<wordVars, lock, curr, releaseVars, woken>>

\* A later poll: the task was woken, or polls without reason (a join or a
\* select around several futures does that).
PollAgain(f) ==
  /\ pc[f] = "parked" /\ state[f] # "ABSENT" /\ woken[f]
  /\ woken' = [woken EXCEPT ![f] = FALSE]
  /\ LookAtState(f)
  /\ UNCHANGED <<wordVars, lock, curr, releaseVars>>

PollSpuriously(f) ==
  /\ pc[f] = "parked" /\ state[f] # "ABSENT" /\ ~woken[f]
  /\ LookAtState(f)
  /\ UNCHANGED <<wordVars, lock, curr, releaseVars, woken>>

\* set_waker, without the mutex and without a look back at the state.
PollSetWaker(f) ==
  /\ pc[f] = "setwaker"
  /\ SetWaker(f)
  /\ Goto(f, "parked")
  /\ UNCHANGED <<wordVars, lock, held, curr, releaseVars, woken, outcome>>

\* The owner gives up (abort, timeout, select) and drops the future.  Permits
\* that a selection has reserved for it go nowhere.
DropFuture(f) ==
  /\ pc[f] = "parked"
  /\ leaked' = leaked + (IF state[f] = "NOTIFIED" THEN Need(f) ELSE 0)
  /\ IF state[f] = "ABSENT" THEN UNCHANGED wqVars ELSE Cancel(f)
  /\ outcome' = [outcome EXCEPT ![f] = "dropped"]
  /\ woken' = [woken EXCEPT ![f] = FALSE]
  /\ Goto(f, "idle")
  /\ UNCHANGED <<permits, closed, supply, lock, held, curr, releaseVars>>

-----------------------------------------------------------------------------
(* Releasing permits: Drop of a permit, add_permits, add_permits_locked.   *)

\* Drop of a permit object with n of the permits that t owns; with fewer
\* than all of them, of one that split() made.
DropPermit(t, n) ==
  /\ pc[t] = "idle"
  /\ n \in 1..held[t]
  /\ held' = [held EXCEPT ![t] = @ - n]
  /\ rem' = [rem EXCEPT ![t] = n]
  /\ Goto(t, "lock")
  /\ UNCHANGED <<wqVars, wordVars, lock, curr, batch, wakes, woken, outcome>>

\* permit.forget(): the permits leave circulation.
ForgetPermit(t, n) ==
  /\ pc[t] = "idle"
  /\ n \in 1..held[t]
  /\ held' = [held EXCEPT ![t] = @ - n]
  /\ supply' = supply - n
  /\ UNCHANGED <<wqVars, permits, closed, leaked, lock, pc, curr, releaseVars,
                 woken, outcome>>

AddPermits(c, n) ==
  /\ pc[c] = "idle"
  /\ supply + n <= MaxSupply
  /\ supply' = supply + n
  /\ rem' = [rem EXCEPT ![c] = n]
  /\ Goto(c, "lock")
  /\ UNCHANGED <<wqVars, permits, closed, leaked, lock, held, curr, batch, wakes,
                 woken, outcome>>

\* Under the mutex: nobody in the queue and the permits go to the word, after
\* the mutex is released; otherwise a selection is given all of them.
ReleaseLocks(t) ==
  /\ pc[t] = "lock" /\ lock = None
  /\ IF total = 0
       THEN Goto(t, "fetchadd") /\ UNCHANGED <<wqVars, lock>>
       ELSE /\ SelectWaiters(rem[t])
            /\ lock' = t
            /\ Goto(t, "select")
  /\ UNCHANGED <<wordVars, held, curr, releaseVars, woken, outcome>>

\* A waiter that was popped, charged and then found cancelled keeps its charge.
ReleaseSelects(t) ==
  /\ pc[t] = "select" /\ lock = t
  /\ SelectStep
  /\ leaked' = leaked + (IF sel.phase = "notify" /\ IsCancelled(sel.cur)
                           THEN Need(sel.cur) ELSE 0)
  /\ UNCHANGED <<permits, closed, supply, lock, pc, held, curr, releaseVars, woken,
                 outcome>>

\* Mutant: what is left is forgotten.
AfterBatchStops(t, left) == Goto(t, "idle")

\* What is left goes to the word, if anything is left.
AfterBatch(t, left) == Goto(t, IF left > 0 THEN "fetchadd" ELSE "idle")

\* Mutant: rem -= permits_assigned is missing.
RemUncharged(t) == rem
RemCharged(t) == [rem EXCEPT ![t] = @ - sel.assigned]

\* The selection returns; the mutex is released before anyone is woken.  With
\* nothing assigned, or nobody to wake, the loop is left.

ReleaseUnlocks(t) ==
  /\ pc[t] = "select" /\ lock = t
  /\ SelectReturns
  /\ lock' = None
  /\ rem' = RemCharged(t)
  /\ IF sel.assigned = 0 \/ sel.wakes = <<>>
       THEN AfterBatch(t, rem[t] - sel.assigned) /\ UNCHANGED <<batch, wakes>>
       ELSE /\ Goto(t, "notified")
            /\ batch' = [batch EXCEPT ![t] = sel.assigned]
            /\ wakes' = [wakes EXCEPT ![t] = sel.wakes]
  /\ UNCHANGED <<wordVars, held, curr, woken, outcome>>

\* Closed meanwhile: the batch goes back to the word, nobody is woken and the
\* rest of the release is given up.
ReleaseGivesBack(t) ==
  /\ pc[t] = "notified" /\ closed
  /\ permits' = permits + batch[t]
  /\ rem' = [rem EXCEPT ![t] = 0]
  /\ batch' = [batch EXCEPT ![t] = 0]
  /\ wakes' = [wakes EXCEPT ![t] = <<>>]
  /\ Goto(t, "idle")
  /\ UNCHANGED <<wqVars, closed, lock, held, curr, woken, outcome, supply, leaked>>

ReleaseMayWake(t) ==
  /\ pc[t] = "notified" /\ ~closed
  /\ Goto(t, "wake")
  /\ UNCHANGED <<wqVars, wordVars, lock, held, curr, releaseVars, woken, outcome>>

\* wake_all empties the list before was_full looks at it.
\* Mutant: the count of the list is not reset.
WakeAllKeeps(list) == list
WakeAll(list) == <<>>
WasFull(list) == Len(list) = NumWakers

\* Mutants: the last waker is not called; every task is woken.
WokenButLast(list) ==
  [f \in Waiters |-> woken[f] \/ \E i \in 1..Len(list) - 1 : list[i] = f]
WokenEverybody(list) == [f \in Waiters |-> TRUE]
Woken(list) == [f \in Waiters |-> woken[f] \/ f \in ToSet(list)]

ReleaseWakes(t) ==
  /\ pc[t] = "wake"
  /\ woken' = Woken(wakes[t])
  /\ wakes' = [wakes EXCEPT ![t] = WakeAll(@)]
  /\ batch' = [batch EXCEPT ![t] = 0]
  /\ IF rem[t] > 0 /\ WasFull(WakeAll(wakes[t])) THEN Goto(t, "lock")
                                                 ELSE AfterBatch(t, rem[t])
  /\ UNCHANGED <<wqVars, wordVars, lock, held, rem, curr, outcome>>

ReleaseFetchAdd(t) ==
  /\ pc[t] = "fetchadd"
  /\ permits' = permits + rem[t]
  /\ rem' = [rem EXCEPT ![t] = 0]
  /\ Goto(t, "idle")
  /\ UNCHANGED <<wqVars, closed, lock, held, curr, batch, wakes, woken, outcome,
                 supply, leaked>>

-----------------------------------------------------------------------------
(* close().                                                                *)

CloseSetsBit(c) ==
  /\ pc[c] = "idle"
  /\ closed' = TRUE
  /\ Goto(c, "close")
  /\ UNCHANGED <<wqVars, permits, supply, leaked, lock, held, curr, releaseVars,
                 woken, outcome>>

CloseLocks(c) ==
  /\ pc[c] = "close" /\ lock = None
  /\ Close
  /\ lock' = c
  /\ Goto(c, "drain")
  /\ UNCHANGED <<wordVars, held, curr, releaseVars, woken, outcome>>

\* Mutant: cancel() without wake_by_ref.
CloseDrainsQuietly(c, f) ==
  /\ pc[c] = "drain" /\ lock = c
  /\ CloseCancels(f)
  /\ UNCHANGED semVars

\* cancel() wakes by reference if one of its CASes succeeds.
CloseDrains(c, f) ==
  /\ pc[c] = "drain" /\ lock = c
  /\ CloseCancels(f)
  /\ woken' = [woken EXCEPT ![f] = @ \/ (waker[f] /\ ~IsCancelled(f))]
  /\ UNCHANGED <<wordVars, lock, pc, held, curr, releaseVars, outcome>>

CloseUnlocks(c) ==
  /\ pc[c] = "drain" /\ lock = c
  /\ drained = {}
  /\ lock' = None
  /\ Goto(c, "idle")
  /\ UNCHANGED <<wqVars, wordVars, held, curr, releaseVars, woken, outcome>>

-----------------------------------------------------------------------------
(* The CAS loops: try_acquire(_many)(_owned) and forget_permits.  A failed *)
(* CAS only repeats the loop, so each is its one successful CAS; a call    *)
(* that returns an error, or removes nothing, changes nothing.             *)

\* Mutants: the CLOSED bit, or the count, is not checked.
MayTake(n) == permits >= n
MayTakeIfOpen(n) == ~closed
MayTryAcquire(n) == ~closed /\ permits >= n

TryAcquireMany(c, n) ==
  /\ pc[c] = "idle"
  /\ MayTryAcquire(n)
  /\ permits' = permits - n
  /\ held' = [held EXCEPT ![c] = @ + n]
  /\ UNCHANGED <<wqVars, closed, supply, leaked, lock, pc, curr, releaseVars, woken,
                 outcome>>

ForgetPermits(c, n) ==
  /\ pc[c] = "idle"
  /\ \E removed \in 1..n :
       /\ removed = IF n <= permits THEN n ELSE permits
       /\ permits' = permits - removed
       /\ supply' = supply - removed
  /\ UNCHANGED <<wqVars, closed, leaked, lock, pc, held, curr, releaseVars, woken,
                 outcome>>

-----------------------------------------------------------------------------
Init ==
  /\ WQInit
  /\ permits \in InitPermits
  /\ closed = FALSE
  /\ lock = None
  /\ pc = [t \in Threads |-> IF t \in Waiters THEN "parked" ELSE "idle"]
  /\ held = [t \in Threads |-> 0]
  /\ rem = [t \in Threads |-> 0]
  /\ curr = [f \in Waiters |-> 0]
  /\ batch = [t \in Threads |-> 0]
  /\ wakes = [t \in Threads |-> <<>>]
  /\ woken = [f \in Waiters |-> TRUE]
  /\ outcome = [f \in Waiters |-> "pending"]
  /\ supply = permits
  /\ leaked = 0

\* The steps of a poll.
Poll(f) ==
  \/ PollLoad(f) \/ PollCas(f) \/ PollCasFails(f) \/ PollEnqueue(f)
  \/ PollCheck(f) \/ PollAgain(f) \/ PollSetWaker(f)

\* The steps of a release after it was called.
Release(t) ==
  \/ ReleaseLocks(t) \/ ReleaseSelects(t) \/ ReleaseUnlocks(t)
  \/ ReleaseGivesBack(t) \/ ReleaseMayWake(t) \/ ReleaseWakes(t)
  \/ ReleaseFetchAdd(t)

\* The steps of close() after it has set the bit.
Closing(c) ==
  CloseLocks(c) \/ (\E f \in Waiters : CloseDrains(c, f)) \/ CloseUnlocks(c)

\* What the users of the semaphore decide to do.
Call(c, n) ==
  AddPermits(c, n) \/ TryAcquireMany(c, n) \/ ForgetPermits(c, n)

Next ==
  \/ \E f \in Waiters : Poll(f) \/ PollSpuriously(f) \/ DropFuture(f)
  \/ \E t \in Threads : Release(t)
  \/ \E t \in Threads, n \in 1..MaxGrant : DropPermit(t, n) \/ ForgetPermit(t, n)
  \/ \E c \in Callers, n \in 1..MaxGrant : Call(c, n)
  \/ \E c \in Callers : CloseSetsBit(c) \/ Closing(c)

Spec == Init /\ [][Next]_vars
-----------------------------------------------------------------------------
Places == {"parked", "cas", "enqueue", "check", "setwaker", "idle", "lock", "select",
           "notified", "wake", "fetchadd", "close", "drain"}

SemTypeOK ==
  /\ TypeOK
  /\ permits \in Nat /\ supply \in Int /\ leaked \in Nat
  /\ closed \in BOOLEAN
  /\ lock \in Threads \cup {None}
  /\ pc \in [Threads -> Places]
  /\ held \in [Threads -> Nat]
  /\ rem \in [Threads -> Nat]
  /\ batch \in [Threads -> Nat]
  /\ curr \in [Waiters -> Nat]
  /\ wakes \in [Threads -> Seq(Waiters)]
  /\ woken \in [Waiters -> BOOLEAN]
  /\ outcome \in [Waiters -> {"pending", "acquired", "closed", "dropped"}]

\* No call is under way: what is wrong now stays wrong until the next call.
Calling(t) == pc[t] \notin {"parked", "idle"}
Quiescent == \A t \in Threads : ~Calling(t)

Held == SumOver(held, Threads)

\* Permits that a selection has given to a future that has not resolved yet.
ReservedFor(f) == IF state[f] = "NOTIFIED" THEN Need(f) ELSE 0
Reserved == SumOver([f \in Waiters |-> ReservedFor(f)], Waiters)

\* Permits of a release that are neither placed with a waiter nor in the word.
Placing(t) ==
  IF pc[t] # "select" THEN rem[t]
  ELSE rem[t] - sel.assigned + (IF sel.phase = "notify" THEN Need(sel.cur) ELSE 0)
InHand == SumOver([t \in Threads |-> Placing(t)], Threads)

Balance == permits + Held + Reserved + InHand + leaked = supply

(* While the semaphore is open, the permits that are available, held,      *)
(* promised to a notified future or about to be put back are those that    *)
(* were created, but for what owners who gave up have leaked: no           *)
(* interleaving of polls, releases, selections and dropped futures hands a *)
(* permit out twice, and none gets lost in another way.                    *)
Conservation == ~closed => Balance

(* A waker that a selection has taken out of its cell is on its way to be  *)
(* called: in the locals of a selection or of a release.  No way out of    *)
(* the loops forgets it while its future sleeps, unless the request is for *)
(* no permits: a selection that assigns none drops its list (core.rs:277). *)
Taking(f) == sel.phase = "take" /\ sel.cur = f

Carried(f) ==
  \/ Taking(f)
  \/ f \in ToSet(sel.wakes)
  \/ \E t \in Threads : f \in ToSet(wakes[t])

WakerCarried ==
  ~closed => \A f \in Waiters :
    state[f] = "NOTIFIED" /\ pc[f] = "parked" /\ ~waker[f] /\ Need(f) > 0
      => woken[f] \/ Carried(f)

(* "A closed semaphore will not issue new permits": nobody's permits grow  *)
(* once the CLOSED bit is set, not by a CAS that started before, nor by a  *)
(* future that was notified before.                                        *)
ClosedIssuesNothing ==
  [][closed => \A t \in Threads : held'[t] <= held[t]]_vars

(* The semaphore implements the counting semaphore.                        *)
Counting == INSTANCE CountingSemaphore WITH
  Threads <- Threads, held <- held, closed <- closed, supply <- supply
ImplementsCounting == Counting!Spec

(* A future that was dropped is never given permits: nobody would return   *)
(* them.  It may be in a queue, or popped and charged, when it is dropped. *)
NoGrantToDropped ==
  [][\A f \in Waiters :
       outcome[f] = "dropped" => state'[f] \in {"ABSENT", "CANCELLED"}]_vars

(* When every close() has returned, nobody waits any more, in a queue or   *)
(* in the hands of a selection: a poll that loaded the word before the bit *)
(* was set cannot enqueue behind the back of close().                      *)
ClosedNobodyWaits ==
  closed /\ (\A c \in Callers : pc[c] \notin {"close", "drain"}) =>
    \A f \in Waiters : state[f] # "WAITING"

(* close() wakes everybody it finds asleep: a future that sleeps in the    *)
(* queue has its waker stored, whatever selections took their hands on its *)
(* cell before.                                                            *)
CloseWakesSleepers ==
  [][\A f \in Waiters :
       /\ state[f] = "WAITING" /\ state'[f] = "CANCELLED"
       /\ pc[f] = "parked" /\ pc'[f] = "parked"
       => woken'[f]]_vars

(* A future that was woken, or whose waker a release is about to call, has *)
(* been notified or cancelled: its next poll resolves it.  A waker is not  *)
(* spent on a future that then has to sleep on without one.                *)
WakesHaveNews ==
  \A f \in Waiters :
    /\ woken[f] => state[f] # "WAITING"
    /\ (\E t \in Threads : f \in ToSet(wakes[t])) => state[f] \in {"NOTIFIED", "CANCELLED"}

(* Only futures that are dropped before they resolve cost permits: when    *)
(* nothing is under way, nobody holds a permit and every future is done,   *)
(* all others are available, and all of them if no future was dropped.     *)
PermitsComeBack ==
  /\ (\A f \in Waiters : outcome[f] # "dropped") => leaked = 0
  /\ Quiescent /\ ~closed /\ Held = 0 /\ (\A f \in Waiters : outcome[f] # "pending")
       => permits + leaked = supply

\* The places that a call still has to pass; from "notified" on a release may
\* have to go round its loop.
PlacesLeft(t) ==
  CASE ~Calling(t)                                 -> 0
    [] pc[t] \in {"setwaker", "fetchadd", "drain"} -> 1
    [] pc[t] \in {"check", "select", "close"}      -> 2
    [] pc[t] \in {"enqueue", "lock"}               -> 3
    [] pc[t] \in {"cas", "wake"}                   -> 4
    [] pc[t] = "notified"                          -> 5

(* Every step to another place brings a poll, a release or a close()       *)
(* closer to its end, or leaves a release with less to place: a batch      *)
(* that assigned nothing is not followed by another one (core.rs:277), and *)
(* what others do never sets a call back.  With SelectionShrinks, which    *)
(* bounds the steps within a selection, this is why calls end.             *)
CallsAdvance ==
  [][\A t \in Threads :
       Calling(t) =>
         \/ rem'[t] < rem[t]
         \/ rem'[t] = rem[t] /\ (pc'[t] = pc[t] \/ PlacesLeft(t)' < PlacesLeft(t))]_vars

-----------------------------------------------------------------------------
(* Why the invariants hold: the inductive invariant of the composition.    *)

\* The holder of the mutex is the one thread in a selection or in close(),
\* and the queue is at rest when nobody holds it.
MutexSound ==
  /\ lock = None => ~Busy
  /\ \A t \in Threads :
       /\ pc[t] = "select" <=> (lock = t /\ sel.phase # "idle")
       /\ pc[t] = "drain" <=> (lock = t /\ sel.phase = "idle")

\* What a place in the code says about the locals of a call.
CallsSound ==
  /\ sel.assigned + sel.avail = sel.given
  /\ \A t \in Threads : /\ pc[t] = "lock" => rem[t] \in 0..MaxGrant
                        /\ pc[t] = "select" => rem[t] = sel.given
  /\ \A f \in Waiters : /\ pc[f] = "cas" => Need(f) <= curr[f]
                        /\ pc[f] = "check" => state[f] # "ABSENT"

\* The places of a future that has not resolved, and of a release.
PollPlaces    == {"parked", "cas", "enqueue", "check", "setwaker"}
ReleasePlaces == {"lock", "select", "notified", "wake", "fetchadd"}

(* A future owns nothing until it resolves, and from then on no selection  *)
(* can reserve permits for it; a release does not return with permits left *)
(* to place.                                                               *)
OwnersSound ==
  /\ \A f \in Waiters :
       IF outcome[f] = "pending"
         THEN /\ pc[f] \in PollPlaces /\ held[f] = 0
              /\ pc[f] \in {"cas", "enqueue"} => state[f] = "ABSENT"
         ELSE /\ pc[f] \notin PollPlaces
              /\ state[f] \in {"ABSENT", "CANCELLED"}
  /\ \A t \in Threads : rem[t] > 0 => pc[t] \in ReleasePlaces

(* A future that sleeps in the queue has its waker stored until a          *)
(* selection takes it, so nobody is put to sleep for good by the queue     *)
(* itself; a selection has assigned what the futures whose wakers it took  *)
(* asked for; a release does not return with a wake list.                  *)
WakersSound ==
  /\ \A f \in Waiters :
       /\ pc[f] = "parked" /\ (state[f] = "WAITING" \/ Taking(f)) => waker[f]
       /\ f \in ToSet(sel.wakes) \/ f = sel.cur => Need(f) <= sel.assigned
  /\ sel.phase = "idle" => sel.wakes = <<>>
  /\ \A t \in Threads : pc[t] \notin {"notified", "wake"} => wakes[t] = <<>>

(* With the invariant of the queue: the mutex excludes, counts do not      *)
(* underflow, and every step that the semaphore makes on the queue is one  *)
(* that the queue allows.                                                  *)
SemInv == WQInv /\ SemTypeOK /\ MutexSound /\ CallsSound

\* Only callers close; once a close() is past its critical section the queues
\* are empty and no selection runs.
ClosedQueueEmpty ==
  /\ \A f \in Waiters : pc[f] \notin {"close", "drain"}
  /\ closed /\ (\A c \in Callers : pc[c] # "close")
       => Queued = {} /\ sel.phase = "idle"

(* What a selection takes wakers of has been notified, and a future that   *)
(* is about to enqueue is awake already.                                   *)
NewsSound ==
  /\ \A f \in ToSet(sel.wakes) : state[f] \in {"NOTIFIED", "CANCELLED"}
  /\ \A f \in Waiters : pc[f] \in {"cas", "enqueue"} => ~woken[f]

(* Nobody but the owner of a future, who gives it up, cancels it in a      *)
(* queue or in the hands of a selection.                                   *)
GivenUp ==
  \A f \in Waiters :
    f \in Queued \/ (sel.phase = "notify" /\ f = sel.cur) =>
      (state[f] = "CANCELLED" => outcome[f] = "dropped")

(* All of it: what holds at every step of the threads, and all that the    *)
(* other invariants of the semaphore rest on.                              *)
SemInductive ==
  /\ SemInv /\ OwnersSound /\ WakersSound
  /\ ClosedQueueEmpty /\ NewsSound /\ GivenUp

-----------------------------------------------------------------------------
(* Fairness.  A task that was woken is polled and a poll runs to its end;  *)
(* a thread inside a call keeps running; a thread that waits for the mutex *)
(* while it is free again and again gets it.  Nobody has to call anything, *)
(* to drop a permit or a future, or to poll without reason.                *)
Fairness ==
  /\ \A f \in Waiters : WF_vars(Poll(f)) /\ SF_vars(PollEnqueue(f))
  /\ \A t \in Threads : WF_vars(Release(t)) /\ SF_vars(ReleaseLocks(t))
  /\ \A c \in Callers : WF_vars(Closing(c)) /\ SF_vars(CloseLocks(c))

FairSpec == Spec /\ Fairness

(* Every poll, release and close() comes to its end: the mutex is always   *)
(* given back, and the batches of a release come to an end.                *)
CallsEnd == \A t \in Threads : Calling(t) ~> ~Calling(t)

(* A future whose waker was collected by a release gets its permits, or    *)
(* its owner drops it, or the semaphore is closed.                         *)
WakeupDelivered ==
  \A f \in Waiters, t \in Threads :
    f \in ToSet(wakes[t]) ~> outcome[f] # "pending" \/ closed

(* A future whose waker is stored when close() drains its waiter hears of  *)
(* the close and resolves, also when it polls while close() is running.    *)
CloseReachesParked ==
  \A f \in Waiters : f \in drained /\ waker[f] ~> outcome[f] # "pending"

-----------------------------------------------------------------------------
(* What the documentation, a comment or a test says and the code does not  *)
(* do.  The README discusses each.                                         *)

(* methods.rs:72: a future waits until the permits become available.  When *)
(* nothing is under way, a waiting future needs more than is available.    *)
NoStranded ==
  Quiescent /\ ~closed =>
    \A f \in Waiters : state[f] = "WAITING" => Need(f) > permits

(* core.rs:299: a release stops after a batch only if the wake list was    *)
(* not at capacity.                                                        *)
StopsOnlyBelowCapacity ==
  [][\A t \in Threads :
       pc[t] = "wake" /\ pc'[t] = "fetchadd" => Len(wakes[t]) < NumWakers]_vars

(* concurrency_test.rs:142: after a future was cancelled the semaphore     *)
(* still works, so when every future has resolved or is dropped and every  *)
(* permit is dropped, all permits are available again.                     *)
AllPermitsReturn ==
  Quiescent /\ ~closed /\ Held = 0 /\ (\A f \in Waiters : outcome[f] # "pending")
    => permits = supply

(* core.rs:286: the waiters of a batch that a release gives back are woken *)
(* by close().                                                             *)
GivenUpAreWoken ==
  \A f \in Waiters, t \in Threads :
    f \in ToSet(wakes[t]) ~> outcome[f] # "pending"

(* core.rs:217: a waiting task that was given its permits hears of it.     *)
GrantDelivered ==
  \A f \in Waiters : state[f] = "NOTIFIED" ~> outcome[f] # "pending" \/ closed

(* waker.rs:26, queue.rs:150: the waker cell of a waiter is only touched   *)
(* under the mutex, so never by its owner while a selection takes it.      *)
WakerCellExclusive ==
  ~ \E f \in Waiters : /\ pc[f] = "setwaker"
                       /\ sel.phase = "take" /\ sel.cur = f
=============================================================================
