# ranked-semaphore: TLA+ models, checks and proofs

A semaphore for async Rust whose waiters have priorities
(`ranked-semaphore/src`).  This directory models it in TLA+, checks the models
with TLC and proves with TLAPS what can be proved for any number of tasks.

## 1. Inventory

| Component | State | Operations | Talks to |
|---|---|---|---|
| Semaphore core, `semaphore/core.rs` | one atomic word: permit count and CLOSED bit; a mutex around the wait queue | `add_permits`, `add_permits_locked`, `close`, `forget_permits` | wait queue (under the mutex), wakers (outside it) |
| Acquire futures, `semaphore/futures.rs` (`Acquire`, `AcquireOwned`: the same code) | request, handle of a waiter | `poll`, `drop` | the word by load and CAS, the wait queue, the state word and waker cell of its waiter **without** the mutex |
| Methods, `semaphore/methods.rs` | none | constructors of futures, the `try_acquire` family | the word, CAS loops |
| Permits, `semaphore/permits.rs` (borrowed and owned: the same code) | a number of permits, a u32, and their semaphore | `drop`, `forget`, `split`, `merge` | the word, `add_permits_locked` |
| Wait queue, `wait_queue/queue.rs` | a deque per priority, a heap of active priorities, a count | `push_waiter`, `select_waiters_to_notify`, `close`, `remove_waiter` (never reached) | waiters |
| Waiter, `wait_queue/waiter.rs`, `waker.rs` | state word WAITING / NOTIFIED / CANCELLED, waker cell | `try_notify`, `cancel`, `set_waker`, `take_waker_under_lock` | the task, by its waker |
| Wake list, `wait_queue/waker.rs` | up to 32 wakers | `push`, `can_push`, `was_full`, `wake_all` | tasks |
| Priority configuration, `config.rs` | a list of rules | builder calls, `resolve_strategy` | read by `push_waiter` |
| Errors, Debug output, benchmarks | - | - | not modelled |

What is hard here:

* **Three parties touch a waiter.** The mutex orders selections, pushes and
  close(), but the owner cancels its waiter, loads its state and stores its
  waker without it, in the middle of a selection or of close().
* **The word and the queue are two objects.** A poll looks at the word, then
  takes the mutex; a release looks at the queue, gives the mutex back, then adds
  to the word; close() sets the bit before it takes the mutex.
* **A release is many steps**: select, unlock, look at CLOSED, wake, add the rest.
* **The word is a usize with a flag in it.** Counts are shifted by one and wrap;
  requests are u32, additions usize; `add_permits` adds first and checks
  afterwards; what a shift or a sum loses depends on the target and the build.
* **A selection** takes priorities out of the heap, pops, charges and notifies
  waiters that may be cancelled between any two of these, and must leave heap,
  deques and count consistent on every way out.

What makes each part correct:

* wait queue: heap, deques and count agree between operations; no live waiter is
  forgotten, none is served twice; order within a priority and between
  priorities; the unchecked push into the wake list has room;
* semaphore: permits are conserved while it is open, none is issued once it is
  closed, the queue of a closed semaphore is empty, waiting futures are woken;
* the word: no exchange uses a word that has changed, the CLOSED bit stays, what
  is in words and permit objects is what was created;
* configuration: a priority gets the strategy that the calls documented.

## 2. Modules

| Module | Models |
|---|---|
| `WaitQueue` | `queue.rs`, `waiter.rs` and the wake list, split into steps at every access to a state word or waker cell |
| `RankedSemaphore` | `core.rs`, `futures.rs`, `permits.rs`, `methods.rs`; EXTENDS `WaitQueue` and runs its actions under the mutex |
| `CountingSemaphore` | what users may rely on: permits held, a supply, open or closed; no word, no queue, no mutex; implemented by `RankedSemaphore` |
| `PermitWord` | the word bit by bit with the loops that exchange it (`core.rs`, `methods.rs`, the first half of `poll`) and the permit objects (`permits.rs`) |
| `AtomicPermits` | what words promise: counts and flags, calls that take effect at once; implemented by `PermitWord` |
| `Sums` | a sum over a finite set, without recursion |
| `PriorityConfig` | `config.rs`; the strategies of the wait queue runs are resolved by it |
| `MCWaitQueue`, `MCSemaphore`, `MCPermitWord`, `MCPriorityConfig` | constants of the TLC runs |
| `WaitQueueProofs`, `RankedSemaphoreProofs`, `ConservationProofs`, `WakerProofs`, `PermitWordProofs`, `AtomicProofs`, `SumsProofs`, `PriorityConfigProofs` | TLAPS proofs |

`RankedSemaphore` and `PermitWord` are two views of the same word.  The first
has the waiters and takes a count and a flag; the second has the bits, the loops
and the permit objects, and shows that a count and a flag is what they amount to.

### WaitQueue

`queues`, `active` and `total` are `priority_queues`, `active_priorities` (a
multiset: how often the heap holds a priority) and `total_waiters`.  A queue
that the HashMap does not hold is an empty sequence; the two are not told apart
by the code (`has_non_empty_queue`).  `state[w]` is the state word, `ABSENT`
before the waiter exists, `waker[w]` tells whether its cell holds a waker.
`sel` holds the locals of the selection in progress and `sel.phase` its place in
the code; `drained` is the list that close() still has to cancel.  `earlier` is
a history variable for the order of arrival.  `req` fixes the size and priority
of every waiter; the initial state chooses it.

* `PushWaiter` is the whole of `push_waiter`.
* A selection starts with `SelectNothing`, `SelectSingle` or `SelectMulti`.
  `DropCancelledFront`, `PopToNotify`, `Notify` / `NotifyFails` and `TakeWaker`
  are the turns of the loop over one queue, which the two loops of the code
  share: they differ in the order of their two tests (`StopsAtFront`) and in
  what follows (`SingleEnds`; `InnerEnds`, `RetainStep`, `RetainEnds`).
  `OuterVisits` and `OuterEnds` are the loop over priorities.
* `retain` is one step per element: its closure loads one state word each time.
* `Close` empties everything, `CloseCancels` cancels one drained waiter.  The
  HashMap drains in no particular order, so any order is allowed.
* `Cancel` and `SetWaker` are the two things an owner does without the mutex;
  they interleave with everything.

### RankedSemaphore

The word is `permits` and `closed`; `lock` names the holder of the mutex; `pc` is
the place of a thread.  A waiter `f` stands for one future *and* the task that
owns it: it polls the future when `woken[f]`, or without reason
(`PollSpuriously`), and then drops the permit it got.  Callers are other threads
that call the non-blocking operations.  A step is one access to shared memory
outside the mutex, or one stretch under the mutex with at most one such access.

* `PollLoad`, `PollCas` / `PollCasFails` (a weak CAS may fail for no reason),
  `PollEnqueue`, `PollCheck`, `PollSetWaker` are the first poll; `PollAgain` and
  `PollSpuriously` a later one.  A poll that returns Ready also drops the future.
* `DropPermit` / `AddPermits` start a release; `ReleaseLocks`, `ReleaseSelects`,
  `ReleaseUnlocks`, then `ReleaseGivesBack` or `ReleaseMayWake` and
  `ReleaseWakes`, and `ReleaseFetchAdd` are `add_permits_locked` with its loop.
  The drop of a permit that finds the queue empty takes the same first and last
  step.
* `CloseSetsBit`, `CloseLocks`, `CloseDrains`, `CloseUnlocks` are `close`.
* `TryAcquireMany` and `ForgetPermits` are CAS loops.  A failed CAS only repeats
  the loop with the new value, so each is its one successful CAS.

`supply` (permits created minus forgotten), `leaked` (permits charged to a waiter
whose owner had given up, or gave up later) and `outcome` are history variables.
`Placing(t)` is what a release has taken and not placed yet; together with the
permits reserved for notified futures it makes conservation an invariant.
Requests for no permits are futures like any other: they pass through the queue
when the semaphore was closed or a CAS failed.

### PermitWord

`words[s]` is the usize of semaphore `s`, `objects[o]` a permit object with its
semaphore and its u32, `call[t]` and `curr[t]` the call a thread is in and the
word it loaded.  `target` is chosen once: what a usize and a u32 hold, whether
sums are checked, and which arguments and threads take part.

* `Load`, `AcquireExchanges`, `StrongFails`, `WeakFails` are the accesses of
  `try_acquire` with its retry loop, of the `_many` and `_owned` forms and of the
  fast path of `poll`; `ForgetExchanges` is that of `forget_permits`.  A weak
  exchange may fail for no reason, a strong one may not.
* `AddPermits` is the `fetch_add` of `add_permits_locked` followed by its check
  against MAX_PERMITS, which panics when the word is already changed.
* `DropPermit` adds without a check; when somebody waits, the check of
  `add_permits_locked` applies.  Both are possible, there is no queue here.
* `Merge`, `MergePanics`, `Split`, `ForgetPermit` change permit objects.  A merge
  whose sum wraps loses permits, so `supply`, a history variable, stays; a merge
  that panics drops its argument; `Recover` is a caller that catches a panic.
* `Close` is the `fetch_or`.

`AtomicPermits` has a count, a flag and the sum of held permits per semaphore.  A
call begins and then takes effect in one step: an acquire of all its permits or a
refusal at a moment when the semaphore was closed or had too few.  The refinement
mapping is `Count`, `IsClosed` and `HeldOf` of each semaphore.  One step of the
words is no step of it and is excluded by name: `OversizedPollEnds`, the end of a
poll whose request is beyond what a word can count, which exists on 32-bit targets.

### Abstractions

* Memory is sequentially consistent.  The state word and the permit word are
  single locations; where the code uses Relaxed loads, every outcome is also that
  of an interleaving.
* The waker cell is written by poll while a selection may take it: a data race.
  The model takes it as one of the two orders; run `waker_cell` shows that the
  race itself is reachable.
* `wake_all` is one step: waking reads nothing that another thread changes.
* A waker wakes the task that stored it last; wakers do not panic.
* `RankedSemaphore` takes counts as natural numbers; width, shift and MAX_PERMITS
  are the subject of `PermitWord`, which in turn leaves the waiters out.

## 3. Runs

Bounds are constants of the modules: `MaxGrant` (permits given to one selection,
added or taken by one call), `MaxSupply` (permits in the system), `NumWakers` (the
capacity of a wake list, 32 in the code), `MaxRules` (rules in a configuration).
Deadlock is not an error in any run: a system in which every future has resolved
and nobody calls anything may stop.  Symmetry under the permutations of the
waiters is used in the two large safety runs only.

**wait_queue** - three waiters of every mix of size 1 or 2 and two priorities,
one Fifo and one Lifo, grants up to 3, two wakers per list.  Three waiters are
the fewest with a full list and a waiter left, two in one priority and one in
the other, or a cancelled one between two live ones; a grant of 3 serves a mix of
sizes partly or in full.  Checked: `HeapMatchesQueues`, `CountMatchesQueues`,
`NoWaiterLost`, `NotifiedNotQueued`; the inductive invariant `QueueInductive`,
with the types of the variables (counts do not underflow, the wake list fits);
`ServedInOrder` (within a priority, by strategy); when every request is for one
permit, `StrictPriority` and `SelectionExhausts`; and `SelectionShrinks` (every
step of a selection brings it closer to its end).

**config** - every sequence of up to three builder calls over four priorities,
-1..2, the first and last of which stand for isize::MIN and MAX.  Three rules
give two of a kind and one of another; `ResolvesAsDocumented` compares the
resolution with the priorities that the documentation of each call names.  It
excludes the two ends where some call named no priority: there `greater_than` and
`less_than` saturate and include their threshold, against config.rs:55 and :72.
Configurations start from
`new()` and from `Default`, which differ in their default strategy.

**semaphore_safety** - two futures of every size (0, 1, 2) and priority, one
caller, 0 to 2 permits at the start, 2 at most, a wake list of one.  Two futures
and a caller give two concurrent releases (a task drops its permit while the
caller adds), a release against a poll, close() against both; a release of 2 meets
the end of a batch.  Checked: the inductive invariant `SemInductive`;
`Conservation` (every permit is accounted for while open), `PermitsComeBack`
(nothing leaks unless a future is dropped, and in the end all permits that did
not leak are available), `ClosedNobodyWaits` (when close() has returned),
`WakerCarried` (a waker that a selection took is called or on its way),
`WakesHaveNews` (no waker is called for nothing); `ClosedIssuesNothing`,
`NoGrantToDropped`, `CloseWakesSleepers`, `CallsAdvance` (calls come closer to
their end); and `ImplementsCounting`: the semaphore implements
`CountingSemaphore` with `held`, `closed` and `supply` as they are.

**permit_word** - five targets.  *Wide* is like a 64-bit one (usize 0..31, so
MAX_PERMITS is 3; u32 0..3) with two threads that interleave every access.
*TwoSems* has permit objects of two semaphores for one thread, which can merge
what does not belong together.  *Edge* adds usize::MAX, in a build with and in one
without overflow checks.  *Narrow* is like a 32-bit one: u32 requests of which the
shift loses the top bit.  Two permit objects are the fewest that can be merged.
Bounds: no `add_permits` once 2 permits were created, no removal below none.
Checked: where requests fit into a shifted word (`RequestsFit`: not *Narrow*),
`PermitsAccounted` (what is in the word and in permit objects is exactly what was
created and not forgotten, as long as that is less than `Countable`) and
`NeverMoreThanCreated` (it is never more, whatever wraps); on every target
`ClosedForever`, `NothingIssuedAfterClose`, `AddsAreCounted`, and
`ImplementsAtomic`: the words implement `AtomicPermits`, `OversizedPollEnds` apart.

**semaphore_live** - two futures of one permit each, of one priority or of two,
under `Fairness`.  `CallsEnd`: the mutex is always given back.  `WakeupDelivered`:
a future whose waker was collected resolves unless dropped or closed.
`CloseReachesParked`: one whose waker is stored when close() drains it resolves.

**Fairness.** A woken task is polled and a poll runs to its end (WF of `Poll`); a
thread inside a call keeps running (WF of `Release`, `Closing`); a thread that
waits for a mutex that is free again and again gets it (SF of the steps that lock),
which operating-system mutexes give in practice.  Executors promise the first,
thread schedulers the second.  Nobody is assumed to call anything, to drop a
permit or a future, or to poll without a wake-up.

Every property of a passing run has a mutant in PROJECT.json; its wrong form is
marked "Mutant:" beside the definition it replaces.

### What the code does not do

Six more runs and `wait_queue_mixed` each check one sentence of the code's
documentation or comments that does not hold; TLC finds the schedule.

| Run | What happens |
|---|---|
| `stranded` | A poll sees too few permits; a release finds the queue empty and adds to the word; the poll pushes its waiter "no retry under lock" (futures.rs:118) and waits beside an available permit. |
| `lost_wakeup` | A waiter is notified between poll's look at its state and `set_waker` (futures.rs:148): the selection finds no waker, and the one stored afterwards is never called. A cancellation by close() in the same gap has the same effect. |
| `leak` | A future that was notified is dropped before its next poll (futures.rs:157): its permits are nowhere. The same holds for a waiter cancelled between its pop and `try_notify` (queue.rs:149). |
| `give_up` | A release that finds the semaphore closed gives the batch back and leaves its waiters to close() (core.rs:286), which no longer finds them in the queue. |
| `batch` | `was_full` is asked after `wake_all` emptied the list (core.rs:300), so a release never selects a second batch. |
| `waker_cell` | `set_waker` runs without the mutex while a selection takes the waker. |
| `wait_queue_mixed` | The loop over priorities goes on to a lower priority when the front of a higher one does not fit (queue.rs:201). |

Further disagreements met while modelling, without a run of their own: `new_fifo`
says that waiters are served in the order of arrival "regardless of priority"
(core.rs:55), they are not; a cancelled waiter that would not fit ends the loop
over priorities (queue.rs:186); `remove_waiter` is never reached, because the word
is CANCELLED when `is_waiting` is asked (futures.rs:161), so dropped futures stay
queued; `give_up`'s release also returns permits that a waiter of the batch may
own already (core.rs:290); a selection that serves only requests for no permits
drops its wake list (core.rs:277).  A release offers only its own permits to the
queue, never those in the word (core.rs:273): two releases of one permit leave a
request of two waiting beside two permits, another way to violate `NoStranded`.
`try_acquire_many(0)` and its owned form return a permit without a look at the word
(methods.rs:274, :556), so they succeed on a closed semaphore, against core.rs:328:
"All `try_acquire` operations will return `TryAcquireError::Closed`".

About the word: on a 32-bit target the shift of a request of 1 << 31 is zero
(futures.rs:69), so it is granted from an empty semaphore, against methods.rs:73,
and its drop adds nothing; in a build without overflow checks `add_permits(usize::MAX)`
lowers the count by one and the sum in the check wraps as well, so that nothing
panics; an `add_permits` that panics leaves a count beyond MAX_PERMITS (core.rs:46)
behind, and so may the drop of a permit, which is not checked; there a merge of
more than u32::MAX permits in a build without overflow checks loses 2^32 of them
against permits.rs:100, "holds the combined count".

These runs define what the positive properties can say.  `Conservation` counts what
`leak` shows as `leaked`, and says that nothing else is lost.  `WakerCarried` is
about requests of at least one permit (core.rs:277).  `WakeupDelivered` and
`CloseReachesParked` start from a stored waker, because of `lost_wakeup`.
`StrictPriority` and `SelectionExhausts` are about requests of one permit, because
of `wait_queue_mixed` and the cancelled first waiter.  `PermitsAccounted` stops at
`Countable`: the word's capacity where sums are checked, 2^32 where a merge may wrap
unnoticed; it and `NeverMoreThanCreated` leave out the targets where the shift loses
a bit, and `ImplementsAtomic` the end of a poll that meets it.  `AddsAreCounted`
leaves out the additions for which the sum in the check wraps as well.

## 4. Proofs

`WaitQueueProofs` proves, for every finite set of waiters, every set of integer
priorities, any strategies, any requests and any capacity of the wake list:

| Theorem | States |
|---|---|
| `Invariance` | `WQSpec => []WQInv` |
| `TypeCorrect` | no count of the queue or of a selection underflows |
| `HeapCorrect` | between selections, the heap is exactly the priorities with waiters |
| `CountCorrect` | between selections, `total_waiters` is exact, so `is_empty` is |
| `LiveWaitersKept` | no live waiter is forgotten |
| `NotifiedOnce` | a notified waiter is in no queue |
| `WakeListBounded` | `push_unchecked` never writes beyond the array |
| `ServedByStrategy` | within a priority, live waiters are notified by the strategy (`ServedInOrder`) |
| `HighestPriorityServed` | for requests of one permit, no live waiter of a higher priority is passed over |
| `NobodyLeftWaiting` | such a selection with permits to spare and room in its list has served everybody |
| `QueueInductiveAlways` | `WQSpec => []QueueInductive`, the two invariants below together |
| `SelectionEnds` | every step of a selection brings it closer to its end (`SelectionShrinks`) |
| `OuterLoopGoesOn` | the loop over priorities stops or has a priority to visit |

They rest on `WaitQueueAssumption` only.

None of these properties is inductive by itself.  `HeapMatchesQueues` and
`CountMatchesQueues` speak of the moments between selections, so the invariant
has to say what is true inside one: `HeapSound` counts a priority in the heap or
among those to restore, unless its queue is the one being processed; `CountSound`
lets the count lag behind by what `retain` has removed so far.  For a pop to remove
exactly one waiter, a waiter must be in one queue, once, and in that of its
priority (`QueuesSound`); for a push and for `NotifiedOnce`, the queues, the list of
close() and the waiter in a selection's hands must be disjoint and exist
(`PlacesSound`); `WakeRoom` keeps a place free for a waiter that was popped.
`SelSound` ties the locals of a selection to its phase.

`ServedByStrategy`, `HighestPriorityServed` and `NobodyLeftWaiting` need
`ServiceInv` besides.  Its `OrderSound` says that each
deque is sorted by the order of service, that its head, once popped, precedes what
is left, and that who is not pushed yet came before nobody.  Its `UnitSound` says
what a selection leaves behind: with requests of one permit a queue that is not
emptied means that the permits or the list are used up, so that nothing is kept from
the heap (`restore`) while the loop over priorities goes on, and every queue above
the one being served is empty.

`SelectionEnds` says that a selection terminates, which is a matter of liveness, in
the form the prover can check.  Its measure is `StepsLeft`: three steps for every
waiter that the loops have not passed and every priority they have not visited
(`Unseen`, `ToVisit`), and what is left of the turn.  Every step of the selection
lowers it, whatever owners cancel between, and it starts at six times `total`
plus three at most.  It does because a priority that leaves the heap comes back only after
the loops (`Restore`) and a waiter that `retain` keeps is not looked at again.
`OuterLoopGoesOn` adds that the heap, unless empty, has a greatest priority: the one
place where a step depends on a witness.

The proof goes by the actions: lemmas on sequences (what Append, cons, Tail and
RemoveAt do to the elements, and to the absence of duplicates), lemmas on `Queued`
(what replacing one queue does to it), one lemma per action, and `NextInv`.

`RankedSemaphoreProofs` adds `SemaphoreAssumption` (a finite set of callers, apart
from the waiters):

| Theorem | States |
|---|---|
| `SemInvariance` | `Spec => []SemInv` |
| `QueueRefined` | `Spec => WQSpec`: every step of the semaphore is a step of the queue or leaves it alone, so the theorems above are about the composed system |
| `SemTypeCorrect` | no count of the semaphore underflows |
| `ClosedQueueStaysEmpty` | `Spec => []ClosedQueueEmpty` |
| `NobodyWaitsAfterClose` | once every close() has returned, nobody is waiting (`ClosedNobodyWaits`) |
| `SemServedByStrategy`, `SemHighestPriorityServed`, `SemNobodyLeftWaiting`, `SemSelectionEnds` | order, priority, exhaustion and termination of the selections of the semaphore, by `QueueRefined` |

`SemInv` is `WQInv` with `SemTypeOK`, `MutexSound` (whoever is in a selection or in
close() holds the mutex, and the queue is at rest when nobody does) and
`CallsSound` (what a place says about the locals: a release selects with its own
`rem`, a CAS never underflows, a poll past its push has a waiter).  The queue's own
guards ("no selection is under way", "this waiter is new") follow from the mutex and
the places, which is what `QueueRefined` needs.  `ClosedNobodyWaits` is not
inductive: a waiter may also be waiting in the hands of a selection or of close().
`ClosedQueueEmpty` says that, once no close() stands between its bit and the mutex,
the queues are empty and no selection runs.  It is preserved because `PollEnqueue`
and a release look at the queue under the mutex, `PollEnqueue` at the bit as well,
and `Close` empties the queue under it; with `NoWaiterLost` a waiter that still
waits is then one that close() is about to cancel.

`ConservationProofs`:

| Theorem | States |
|---|---|
| `OwnersCorrect` | a future that has not resolved owns nothing, one that has is reserved nothing, a release returns with nothing to place |
| `PermitsConserved` | `Spec => []Conservation` |
| `NoIssueAfterClose` | `held` never grows once the bit is set |
| `DroppedGetNothing` | no selection notifies a dropped future |
| `CountingImplemented` | `Spec => Counting!Spec` |
| `NeverTooManyHeld` | while open, what is held is at most the supply |
| `OnlyOwnersGiveUp` | `Spec => []GivenUp`: whoever is cancelled in a queue or in a selection was dropped by its owner |
| `PermitsReturn` | without a dropped future nothing leaks, and when all is done all else is available (`PermitsComeBack`) |
| `CallsComeToAnEnd` | every step to another place brings a call closer to its end (`CallsAdvance`) |

A sum over all threads would call for induction over the set.  `Sums` defines it
as the size of a set of piles (one element per permit of each thread) instead, so
that `SumsProofs` derives from facts on cardinality that a sum changes by what one
thread's summand changes.  `OnlyActs` says that a step touches the locals of one
thread and, if it is a step of a selection, of nobody else in a selection; for each
action the change of `permits`, `Held`, `Reserved`, `InHand` and `leaked` adds up to
that of `supply`.  `OwnersSound` is the strengthening this needs: a poll that
resolves had nothing before, a release that returns has `rem = 0`.  For the
refinement, `Balance` bounds what is held by the supply, so that an acquire of the
semaphore is one of `CountingSemaphore`.

A permit leaks when `try_notify` fails or a notified future is dropped.  That the
first of the two has a dropped future behind it, and not a close(), is `GivenUp`:
close() takes a waiter out of its queue before it cancels it, and no selection runs
meanwhile.  `CallsComeToAnEnd` counts the places before the end of a call
(`PlacesLeft`).  The loop of a release goes back to its start only with fewer
permits to place, since a batch that assigned nothing ends it.  Together with
`SemSelectionEnds`, which bounds the one place where a call may take any number of
steps, this is the part of `CallsEnd` that owes nothing to fairness.

`WakerProofs`:

| Theorem | States |
|---|---|
| `SleepersHaveWakers` | `Spec => []WakersSound` |
| `NoWakerForgotten` | `Spec => []WakerCarried` |
| `WokenHaveNews` | a waker is called only for a future that was notified or cancelled (`WakesHaveNews`) |
| `SleepersHearOfClose` | close() wakes whoever it finds asleep (`CloseWakesSleepers`) |
| `SemInductiveAlways` | `Spec => []SemInductive`: `SemInv`, `OwnersSound`, `WakersSound`, `ClosedQueueEmpty`, `NewsSound`, `GivenUp` |

A notified future that sleeps must have a waker under way.  What takes a waker away
without calling it is the end of a release with nothing assigned (core.rs:277) and
the return of a release, so `WakersSound` says that a list holds only wakers whose
requests were assigned and is empty elsewhere; and since the waker of a waiter is
taken after its notification, it says that a parked future still has it until then.
The same clause makes `SleepersHearOfClose` true of a future that is parked; one
that is about to park is what `lost_wakeup` shows.  `NewsSound` strengthens
`WakesHaveNews` inside a selection, where wakers are in the list but not yet with
the release, and for a future that is not in the queue yet.

`PermitWordProofs` and `AtomicProofs` prove, for every even width of usize and every
u32 that fits into it, with and without overflow checks, for any number of threads,
semaphores and permit objects (`PermitWordAssumption`):

| Theorem | States |
|---|---|
| `WordsDoNotUnderflow` | `Spec => []WordTypeOK` |
| `NeverReopened` | the CLOSED bit stays |
| `ClosedIssuesNothing` | permit objects of a closed semaphore hold no more than before |
| `AllPermitsAccounted` | where requests fit and below `Countable`, what is in the word and in permit objects is what was created and not forgotten |
| `NothingMadeUp` | where requests fit, that is never more, beyond `Countable` either |
| `AddsCounted` | an `add_permits` that returns added everything |
| `AtomicImplemented` | `Spec => ImplementsAtomic`: the initial states map to initial states, every step but `OversizedPollEnds` to a step or a stutter |

The strengthening is `WordInv`: the place of a thread tells whether it is in a call,
and a word loaded before an exchange is open and has what was asked for.  An
exchange that succeeds finds that word, so it inherits both.  `Effect` is what every
step does to every semaphore: CLOSED stays and a closed one hands out nothing;
where requests fit, the sum of word and objects follows the supply exactly or falls
behind it by `Countable` or more, which is what a sum that wraps costs.  So the sum
never exceeds the supply, and it equals it unless it once fell behind by that much,
which permits below `Countable` exclude: `Accounts` is the invariant that carries
this.  Products are nonlinear, so remainders are stated with a named multiple
(`PlusIs`, `TakeIs`: `p = k * Cap`) and the sum over permit objects is that of
`SumsProofs`.  For the refinement, one lemma per action says which abstract step it
is: a fetch_add is an addition that wraps at `Cap`, a look that ends a `try_acquire`
is a refusal at that moment, what a wrapping merge loses is forgotten.  Its invariant
`TriesFit` says that the calls of the try_acquire family ask for less than `Cap`,
because they compare their argument with MAX_PERMITS; so only a poll may ask for
more than a shifted word holds.

`PriorityConfigProofs`, for every isize and every length of a configuration, also
one built from `Default` (`PriorityConfigAssumption`):

| Theorem | States |
|---|---|
| `ConfigTypeCorrect` | the bounds of every rule stay within isize |
| `ConfigResolvesAsDocumented` | `Spec => []ResolvesAsDocumented` |

The strengthening, `RulesStandForCalls`, says that every rule covers the priorities
that its call names, but perhaps for an end of isize if the call names none; that is
where `greater_than` and `less_than` saturate.  The first and the last
match exist because the positions are well-founded.

Only model-checked: `CallsEnd`, `WakeupDelivered` and `CloseReachesParked`, since
liveness under fairness is out of the prover's reach.  Of the first, the measures
are proved (`SelectionEnds`, `CallsComeToAnEnd`), of the others the safety parts
(`NoWakerForgotten`, `SleepersHearOfClose`); that a thread which can take a step
takes it is fairness, and that it can is ENABLED.

## 5. Plan

Every invariant and action property that a passing run checks is proved, and so are
the two refinements.  Left: larger instances
of the liveness run (a second caller, requests of different sizes), should TLC
manage them, and the readings of the disagreements above, should the code change.

Not modelled: panics inside wakers (and the poisoned mutex that follows) and
wakers that call the semaphore on the spot, since a waker is external code; weak
memory, since TLA+ interleaves; `remove_waiter`, which no execution reaches (it
would leave the heap stale); Debug output, error texts, benchmarks.
