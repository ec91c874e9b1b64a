------------------------ MODULE RankedSemaphoreProofs ------------------------
(***************************************************************************)
(* Proofs about the semaphore with its wait queue.  First, every step of   *)
(* the semaphore is a step of the queue or leaves it alone, so that what   *)
(* WaitQueueProofs proves holds here.  Then the inductive invariant of the *)
(* composition, with one lemma per group of actions, and what it gives.    *)
(***************************************************************************)
EXTENDS RankedSemaphore, WaitQueueProofs

-----------------------------------------------------------------------------
(* What the semaphore does to the queue.                                   *)

\* A step of the queue, or none.
QueueStep == WQNext \/ UNCHANGED wqVars

(* A look at the state of a waiter cancels it or leaves the queue alone.   *)
LEMMA LookQueueStep ==
  ASSUME NEW f \in Waiters, state[f] \in {"WAITING", "NOTIFIED", "CANCELLED"},
         LookAtState(f)
  PROVE  QueueStep
PROOF
  <1>1. CASE state[f] = "CANCELLED"
    BY <1>1 DEF LookAtState, QueueStep
  <1>2. CASE state[f] = "WAITING"
    BY <1>2 DEF LookAtState, QueueStep
  <1>3. CASE state[f] = "NOTIFIED"
    <2>1. Cancel(f)
      BY <1>3 DEF LookAtState
    <2> QED BY <2>1 DEF QueueStep, WQNext
  <1> QED BY <1>1, <1>2, <1>3

LEMMA StateKinds ==
  ASSUME SemInv, NEW f \in Waiters, state[f] # "ABSENT"
  PROVE  state[f] \in {"WAITING", "NOTIFIED", "CANCELLED"}
PROOF BY DEF SemInv, WQInv, TypeOK

LEMMA FutureQueueStep ==
  ASSUME SemInv, NEW f \in Waiters,
         Poll(f) \/ PollSpuriously(f) \/ DropFuture(f)
  PROVE  QueueStep
PROOF
  <1>1. CASE PollLoad(f) \/ PollCas(f) \/ PollCasFails(f)
    BY <1>1 DEF PollLoad, PollCas, PollCasFails, QueueStep
  <1>2. CASE PollEnqueue(f)
    <2>1. PushWaiter(f) \/ UNCHANGED wqVars
      BY <1>2 DEF PollEnqueue
    <2> QED BY <2>1 DEF QueueStep, WQNext
  <1>3. CASE PollCheck(f)
    <2>1. state[f] # "ABSENT"
      BY <1>3 DEF PollCheck, SemInv, CallsSound
    <2> QED BY <1>3, <2>1, StateKinds, LookQueueStep DEF PollCheck
  <1>4. CASE PollAgain(f) \/ PollSpuriously(f)
    BY <1>4, StateKinds, LookQueueStep DEF PollAgain, PollSpuriously
  <1>5. CASE PollSetWaker(f)
    <2>1. SetWaker(f)
      BY <1>5 DEF PollSetWaker
    <2> QED BY <2>1 DEF QueueStep, WQNext
  <1>6. CASE DropFuture(f)
    <2>1. Cancel(f) \/ UNCHANGED wqVars
      BY <1>6 DEF DropFuture
    <2> QED BY <2>1 DEF QueueStep, WQNext
  <1> QED BY <1>1, <1>2, <1>3, <1>4, <1>5, <1>6 DEF Poll

LEMMA ReleaseQueueStep ==
  ASSUME SemInv, NEW t \in Threads, Release(t)
  PROVE  QueueStep
PROOF
  <1>1. CASE ReleaseLocks(t)
    <2>1. rem[t] \in 0..MaxGrant
      BY <1>1 DEF ReleaseLocks, SemInv, CallsSound
    <2>2. SelectWaiters(rem[t]) \/ UNCHANGED wqVars
      BY <1>1 DEF ReleaseLocks
    <2> QED BY <2>1, <2>2 DEF QueueStep, WQNext
  <1>2. CASE ReleaseSelects(t)
    BY <1>2 DEF ReleaseSelects, QueueStep, WQNext
  <1>3. CASE ReleaseUnlocks(t)
    BY <1>3 DEF ReleaseUnlocks, QueueStep, WQNext
  <1>4. CASE ReleaseGivesBack(t) \/ ReleaseMayWake(t) \/ ReleaseWakes(t)
             \/ ReleaseFetchAdd(t)
    BY <1>4 DEF ReleaseGivesBack, ReleaseMayWake, ReleaseWakes, ReleaseFetchAdd,
                QueueStep
  <1> QED BY <1>1, <1>2, <1>3, <1>4 DEF Release

LEMMA CloseQueueStep ==
  ASSUME NEW c \in Callers, CloseSetsBit(c) \/ Closing(c)
  PROVE  QueueStep
PROOF
  <1>1. CASE CloseSetsBit(c) \/ CloseUnlocks(c)
    BY <1>1 DEF CloseSetsBit, CloseUnlocks, QueueStep
  <1>2. CASE CloseLocks(c)
    BY <1>2 DEF CloseLocks, QueueStep, WQNext
  <1>3. CASE \E f \in Waiters : CloseDrains(c, f)
    BY <1>3 DEF CloseDrains, QueueStep, WQNext
  <1> QED BY <1>1, <1>2, <1>3 DEF Closing

LEMMA CallQueueStep ==
  ASSUME NEW t \in Threads, NEW n \in 1..MaxGrant,
         DropPermit(t, n) \/ ForgetPermit(t, n) \/ Call(t, n)
  PROVE  UNCHANGED wqVars
PROOF
  BY DEF DropPermit, ForgetPermit, Call, AddPermits, TryAcquireMany, ForgetPermits

LEMMA NextQueueStep == SemInv /\ [Next]_vars => QueueStep
PROOF
  <1> SUFFICES ASSUME SemInv, [Next]_vars
               PROVE  QueueStep
    OBVIOUS
  <1>1. CASE UNCHANGED vars
    BY <1>1 DEF vars, QueueStep
  <1>2. CASE \E c \in Callers, n \in 1..MaxGrant : Call(c, n)
    BY <1>2, CallQueueStep DEF Threads, QueueStep
  <1>3. CASE \E t \in Threads, n \in 1..MaxGrant : DropPermit(t, n) \/ ForgetPermit(t, n)
    BY <1>3, CallQueueStep DEF QueueStep
  <1> QED BY <1>1, <1>2, <1>3, FutureQueueStep, ReleaseQueueStep, CloseQueueStep
          DEF Next

LEMMA QueueInv == SemInv /\ [Next]_vars => WQInv'
PROOF
  <1> SUFFICES ASSUME SemInv, [Next]_vars
               PROVE  WQInv'
    OBVIOUS
  <1>1. QueueStep
    BY NextQueueStep
  <1> QED BY <1>1, NextInv DEF QueueStep, SemInv

-----------------------------------------------------------------------------
(* The initial states.                                                     *)

LEMMA SemInitInv == Init => SemInv
PROOF
  <1> SUFFICES ASSUME Init
               PROVE  SemInv
    OBVIOUS
  <1>1. WQInv
    BY InitInv DEF Init
  <1>2. TypeOK
    BY <1>1 DEF WQInv
  <1>3. SemTypeOK
    <2>1. permits \in Nat
      BY SemaphoreAssumption DEF Init
    <2>2. [t \in Threads |-> <<>>] \in [Threads -> Seq(Waiters)]
      OBVIOUS
    <2>3. /\ pc \in [Threads -> {"parked", "idle"}]
          /\ held = [t \in Threads |-> 0] /\ rem = [t \in Threads |-> 0]
          /\ batch = [t \in Threads |-> 0] /\ curr = [f \in Waiters |-> 0]
      BY DEF Init
    <2>4. /\ woken \in [Waiters -> BOOLEAN]
          /\ outcome \in [Waiters -> {"pending", "acquired", "closed", "dropped"}]
          /\ wakes \in [Threads -> Seq(Waiters)]
      BY <2>2 DEF Init
    <2>5. closed \in BOOLEAN /\ lock = None /\ supply = permits /\ leaked = 0
      BY DEF Init
    <2> QED BY <1>2, <2>1, <2>3, <2>4, <2>5 DEF SemTypeOK, Places
  <1>4. sel.phase = "idle" /\ sel.assigned = 0 /\ sel.avail = 0 /\ sel.given = 0
        /\ drained = {}
    BY DEF Init, WQInit, SelInit
  <1>5. \A t \in Threads : pc[t] \in {"parked", "idle"}
    BY DEF Init
  <1>6. MutexSound
    <2>1. None \notin Threads
      BY WaitQueueAssumption, SemaphoreAssumption DEF Threads
    <2> QED BY <1>4, <1>5, <2>1 DEF Init, MutexSound, Busy
  <1>7. CallsSound
    BY <1>4, <1>5 DEF CallsSound, Threads
  <1> QED BY <1>1, <1>3, <1>6, <1>7 DEF SemInv

-----------------------------------------------------------------------------
(* What the steps of the queue do to the locals of a selection.            *)

\* A selection stays in progress, for the permits it was given.
SelectionGoesOn ==
  /\ sel.phase # "idle" /\ sel'.phase # "idle"
  /\ sel'.given = sel.given
  /\ sel'.assigned + sel'.avail = sel'.given

LEMMA SelectStepGoesOn ==
  ASSUME WQInv, sel.assigned + sel.avail = sel.given, SelectStep
  PROVE  SelectionGoesOn
PROOF
  <1>1. /\ sel \in Selections
        /\ sel.given \in Nat /\ sel.avail \in Nat /\ sel.assigned \in Nat
        /\ sel.loop \in Loops
    BY DEF WQInv, TypeOK, Selections
  <1>2. CASE DropCancelledFront
    BY <1>1, <1>2 DEF DropCancelledFront, SelectionGoesOn, Loops
  <1>3. CASE PopToNotify
    <2>1. Queue \in Seq(Waiters) /\ Queue # <<>>
      BY <1>3, LoopFacts DEF PopToNotify, MayContinue
    <2>2. FrontWaiter \in Waiters
      BY <2>1 DEF FrontWaiter
    <2>3. PICK n \in Nat : n = Need(FrontWaiter)
      BY <2>2, PriorityTyped DEF WQInv, TypeOK
    <2>4. /\ sel'.phase = "notify" /\ sel'.given = sel.given
          /\ sel'.avail = sel.avail - n /\ sel'.assigned = sel.assigned + n
      BY ONLY <1>1, <1>3, <2>3 DEF PopToNotify, Selections
    <2> QED BY <1>1, <1>3, <2>4 DEF PopToNotify, SelectionGoesOn, Loops
  <1>4. CASE Notify \/ NotifyFails \/ TakeWaker
    BY <1>1, <1>4 DEF Notify, NotifyFails, TakeWaker, SelectionGoesOn, Loops, Selections
  <1>5. CASE SingleEnds \/ OuterEnds \/ InnerEnds
    BY <1>1, <1>5 DEF SingleEnds, OuterEnds, InnerEnds, SelectionGoesOn, Selections
  <1>6. CASE OuterVisits
    BY <1>1, <1>6 DEF OuterVisits, SelectionGoesOn, Selections
  <1>7. CASE RetainStep
    <2>1. sel.idx \in Nat /\ sel.removed \in Nat
      BY <1>1 DEF Selections
    <2>2. PICK i \in Nat, r \in Nat : i = sel.idx + 1 /\ r = sel.removed + 1
      BY <2>1
    <2>3. sel' = [sel EXCEPT !.removed = r] \/ sel' = [sel EXCEPT !.idx = i]
      BY ONLY <1>7, <2>2 DEF RetainStep
    <2> QED BY ONLY <1>1, <1>7, <2>3, sel.assigned + sel.avail = sel.given
            DEF RetainStep, SelectionGoesOn, Selections
  <1>8. CASE RetainEnds
    BY <1>1, <1>8 DEF RetainEnds, SelectionGoesOn, Selections
  <1> QED BY <1>2, <1>3, <1>4, <1>5, <1>6, <1>7, <1>8 DEF SelectStep

LEMMA SelectStarts ==
  ASSUME NEW n \in Nat, SelectWaiters(n)
  PROVE  /\ sel'.phase # "idle"
         /\ sel'.given = n /\ sel'.assigned + sel'.avail = n
PROOF
  <1>1. SelInit \in Selections /\ SelInit.assigned = 0
    BY SelInitTyped DEF SelInit
  <1>2. /\ sel'.phase \in {"done", "single", "outer"}
        /\ sel'.given = n /\ sel'.avail = n /\ sel'.assigned = 0
    BY <1>1 DEF SelectWaiters, SelectNothing, SelectSingle, SelectMulti, Selections
  <1> QED BY <1>2

-----------------------------------------------------------------------------
(* The invariant of the mutex and that of the calls, when one thread goes  *)
(* from one place to another.                                              *)

LEMMA OneChanges ==
  ASSUME NEW T, NEW S, NEW t \in T, NEW v \in S, NEW g \in [T -> S], NEW h,
         h = g \/ h = [g EXCEPT ![t] = v]
  PROVE  h \in [T -> S]
PROOF OBVIOUS

LEMMA MutexKept ==
  ASSUME MutexSound, pc \in [Threads -> Places], NEW t \in Threads, NEW l \in Places,
         pc[t] \notin {"select", "drain"}, l \notin {"select", "drain"},
         pc' = pc \/ pc' = [pc EXCEPT ![t] = l],
         lock' = lock, sel' = sel, drained' = drained
  PROVE  MutexSound'
PROOF BY DEF MutexSound, Busy

LEMMA CallsKept ==
  ASSUME CallsSound, pc \in [Threads -> Places], NEW t \in Threads, NEW l \in Places,
         pc' = pc \/ pc' = [pc EXCEPT ![t] = l],
         l \notin {"select", "cas", "check"}, l = "lock" => rem'[t] \in 0..MaxGrant,
         \A u \in Threads \ {t} : rem'[u] = rem[u],
         pc' = pc => rem'[t] = rem[t],
         \A f \in Waiters \ {t} : curr'[f] = curr[f],
         pc' = pc /\ t \in Waiters => curr'[t] = curr[t],
         \A f \in Waiters : state[f] # "ABSENT" => state'[f] # "ABSENT",
         req' = req, sel' = sel
  PROVE  CallsSound'
PROOF
  <1>1. \A u \in Threads \ {t} : pc'[u] = pc[u]
    OBVIOUS
  <1>2. \A f \in Waiters : Need(f)' = Need(f)
    BY DEF Need
  <1>3. Waiters \subseteq Threads
    BY DEF Threads
  <1>4. CASE pc' = pc
    BY <1>2, <1>3, <1>4 DEF CallsSound
  <1>5. CASE pc' = [pc EXCEPT ![t] = l]
    <2>1. pc'[t] = l
      BY <1>5
    <2> QED BY <1>1, <1>2, <1>3, <2>1 DEF CallsSound
  <1> QED BY <1>4, <1>5

(* Requests do not change and a waiter does not cease to exist.            *)
LEMMA QueueFrame ==
  ASSUME WQInv, QueueStep
  PROVE  /\ req' = req
         /\ \A w \in Waiters : state[w] # "ABSENT" => state'[w] # "ABSENT"
PROOF
  <1>0. state \in [Waiters -> {"ABSENT", "WAITING", "NOTIFIED", "CANCELLED"}]
    BY DEF WQInv, TypeOK
  <1>1. ASSUME NEW w \in Waiters,
               PushWaiter(w) \/ Cancel(w) \/ SetWaker(w) \/ CloseCancels(w)
        PROVE  /\ req' = req
               /\ \A v \in Waiters : state[v] # "ABSENT" => state'[v] # "ABSENT"
    BY <1>0, <1>1 DEF PushWaiter, Cancel, SetWaker, CloseCancels, CancelState
  <1>2. ASSUME NEW n \in 0..MaxGrant, SelectWaiters(n)
        PROVE  req' = req /\ state' = state
    BY <1>2 DEF SelectWaiters, SelectNothing, SelectSingle, SelectMulti
  <1>3. CASE SelectStep
    <2>1. CASE Notify
      BY <1>0, <2>1 DEF Notify, TryNotify
    <2>2. CASE ~Notify
      BY <1>3, <2>2 DEF SelectStep, DropCancelledFront, PopToNotify, NotifyFails,
         TakeWaker, SingleEnds, OuterVisits, OuterEnds, InnerEnds, RetainStep, RetainEnds
    <2> QED BY <2>1, <2>2
  <1>4. CASE SelectReturns \/ Close \/ UNCHANGED wqVars
    BY <1>4 DEF SelectReturns, Close, wqVars
  <1> QED BY <1>1, <1>2, <1>3, <1>4 DEF QueueStep, WQNext

-----------------------------------------------------------------------------
(* The steps of a future.                                                  *)

LEMMA LookFrame ==
  ASSUME NEW f \in Waiters, state[f] \in {"WAITING", "NOTIFIED", "CANCELLED"},
         LookAtState(f), held \in [Threads -> Nat], Need(f) \in Nat,
         outcome \in [Waiters -> {"pending", "acquired", "closed", "dropped"}]
  PROVE  /\ sel' = sel /\ drained' = drained
         /\ pc' = [pc EXCEPT ![f] = "idle"] \/ pc' = [pc EXCEPT ![f] = "setwaker"]
         /\ held' \in [Threads -> Nat]
         /\ outcome' \in [Waiters -> {"pending", "acquired", "closed", "dropped"}]
PROOF
  <1> USE DEF LookAtState, Resolve, Goto, Cancel, wqVars
  <1>1. CASE state[f] = "CANCELLED"
    BY <1>1
  <1>2. CASE state[f] = "WAITING"
    BY <1>2
  <1>3. CASE state[f] = "NOTIFIED" /\ closed
    BY <1>3
  <1>4. CASE state[f] = "NOTIFIED" /\ ~closed
    BY <1>4
  <1> QED BY <1>1, <1>2, <1>3, <1>4

LEMMA FutureInv ==
  ASSUME SemInv, WQInv', NEW f \in Waiters,
         Poll(f) \/ PollSpuriously(f) \/ DropFuture(f)
  PROVE  SemInv'
PROOF
  <1>1. /\ SemTypeOK /\ MutexSound /\ CallsSound /\ TypeOK'
        /\ f \in Threads /\ Need(f) \in Nat
    BY PriorityTyped DEF SemInv, WQInv, TypeOK, Threads
  <1>2. /\ req' = req
        /\ \A w \in Waiters : state[w] # "ABSENT" => state'[w] # "ABSENT"
    BY FutureQueueStep, QueueFrame DEF SemInv
  <1>3. ASSUME PollLoad(f)
        PROVE  SemInv'
    <2>1. /\ UNCHANGED <<wqVars, wordVars, lock, releaseVars>>
          /\ pc[f] = "parked" /\ woken' = [woken EXCEPT ![f] = FALSE]
      BY <1>3 DEF PollLoad
    <2>2. CASE closed \/ ~Suffices(f)
      <3>1. /\ pc' = [pc EXCEPT ![f] = "idle"] \/ pc' = [pc EXCEPT ![f] = "enqueue"]
            /\ held' = held \/ held' = [held EXCEPT ![f] = 0]
            /\ outcome' = outcome \/ outcome' = [outcome EXCEPT ![f] = "closed"]
            /\ curr' = curr
        BY <1>3, <2>2 DEF PollLoad, Resolve, Goto
      <3>2. SemTypeOK'
        <4>1. pc' \in [Threads -> Places]
          BY <1>1, <3>1 DEF SemTypeOK, Places
        <4>2. held' \in [Threads -> Nat]
          <5>1. held \in [Threads -> Nat] /\ f \in Threads
            BY <1>1 DEF SemTypeOK
          <5> QED BY ONLY <5>1, <3>1, 0 \in Nat, OneChanges
        <4>3. outcome' \in [Waiters -> {"pending", "acquired", "closed", "dropped"}]
          BY <1>1, <3>1 DEF SemTypeOK
        <4>4. curr' \in [Waiters -> Nat] /\ woken' \in [Waiters -> BOOLEAN]
          BY <1>1, <2>1, <3>1 DEF SemTypeOK
        <4> QED BY <1>1, <2>1, <4>1, <4>2, <4>3, <4>4
                DEF SemTypeOK, releaseVars, wordVars
      <3>3. MutexSound' /\ CallsSound'
        BY <1>1, <2>1, <3>1, MutexKept, CallsKept
        DEF SemTypeOK, Places, wqVars, releaseVars
      <3> QED BY <3>2, <3>3 DEF SemInv
    <2>3. CASE ~closed /\ Suffices(f)
      <3>1. /\ pc' = [pc EXCEPT ![f] = "cas"] /\ curr' = [curr EXCEPT ![f] = permits]
            /\ outcome' = outcome /\ held' = held /\ Need(f) <= permits
        BY <1>1, <1>3, <2>3 DEF PollLoad, Goto, Suffices, SemTypeOK
      <3>2. SemTypeOK'
        BY <1>1, <2>1, <3>1 DEF SemTypeOK, Places, releaseVars, wordVars
      <3>3. MutexSound'
        BY <1>1, <2>1, <3>1, MutexKept DEF SemTypeOK, Places, wqVars
      <3>4. CallsSound'
        <4>1. \A u \in Threads \ {f} : pc'[u] = pc[u]
          BY <1>1, <3>1 DEF SemTypeOK
        <4>2. \A w \in Waiters : curr'[w] = IF w = f THEN permits ELSE curr[w]
          BY <1>1, <3>1 DEF SemTypeOK
        <4>3. \A w \in Waiters : Need(w)' = Need(w) /\ w \in Threads
          BY <1>2 DEF Need, Threads
        <4>4. rem' = rem /\ sel' = sel /\ state' = state /\ pc'[f] = "cas"
          BY <1>1, <2>1, <3>1 DEF SemTypeOK, wqVars, releaseVars
        <4> QED BY <1>1, <3>1, <4>1, <4>2, <4>3, <4>4 DEF CallsSound
      <3> QED BY <3>2, <3>3, <3>4 DEF SemInv
    <2> QED BY <2>2, <2>3
  <1>4. ASSUME PollCas(f)
        PROVE  SemInv'
    <2>1. Need(f) <= permits /\ Need(f) \in Nat /\ permits \in Nat
      BY <1>1, <1>4 DEF PollCas, WordIsOld, CallsSound, SemTypeOK
    <2>2. SemTypeOK'
      <3>1. permits' \in Nat
        BY ONLY <2>1, PollCas(f) DEF PollCas
      <3>2. pc' \in [Threads -> Places]
        BY <1>1, <1>4 DEF SemTypeOK, Places, PollCas, Resolve, Goto
      <3>3. /\ held' \in [Threads -> Nat] /\ curr' \in [Waiters -> Nat]
            /\ outcome' \in [Waiters -> {"pending", "acquired", "closed", "dropped"}]
        BY <1>1, <1>4, <2>1 DEF SemTypeOK, PollCas, Resolve
      <3> QED BY <1>1, <1>4, <3>1, <3>2, <3>3 DEF SemTypeOK, PollCas, releaseVars
    <2>3. MutexSound' /\ CallsSound'
      BY <1>1, <1>4, MutexKept, CallsKept
      DEF SemTypeOK, Places, PollCas, Resolve, Goto, wqVars, releaseVars
    <2> QED BY <2>2, <2>3 DEF SemInv
  <1>5. ASSUME PollCasFails(f)
        PROVE  SemInv'
    <2>1. SemTypeOK'
      BY <1>1, <1>5 DEF SemTypeOK, Places, PollCasFails, Goto, releaseVars, wordVars
    <2>2. MutexSound' /\ CallsSound'
      BY <1>1, <1>5, MutexKept, CallsKept
      DEF SemTypeOK, Places, PollCasFails, Goto, wqVars, releaseVars
    <2> QED BY <2>1, <2>2 DEF SemInv
  <1>6. ASSUME PollEnqueue(f)
        PROVE  SemInv'
    <2>1. /\ UNCHANGED <<wordVars, lock, curr, releaseVars, woken>>
          /\ pc[f] = "enqueue"
      BY <1>6 DEF PollEnqueue
    <2>2. CASE closed
      <3>1. /\ pc' = [pc EXCEPT ![f] = "idle"] /\ held' = [held EXCEPT ![f] = 0]
            /\ outcome' = [outcome EXCEPT ![f] = "closed"] /\ UNCHANGED wqVars
        BY <1>6, <2>2 DEF PollEnqueue, Resolve, Goto
      <3>2. SemTypeOK'
        BY <1>1, <2>1, <3>1 DEF SemTypeOK, Places, releaseVars, wordVars
      <3>3. MutexSound' /\ CallsSound'
        BY <1>1, <2>1, <3>1, MutexKept, CallsKept
        DEF SemTypeOK, Places, wqVars, releaseVars
      <3> QED BY <3>2, <3>3 DEF SemInv
    <2>3. CASE ~closed
      <3>1. /\ pc' = [pc EXCEPT ![f] = "check"] /\ held' = held /\ outcome' = outcome
            /\ PushWaiter(f)
        BY <1>6, <2>3 DEF PollEnqueue, Goto
      <3>2. state'[f] # "ABSENT" /\ sel' = sel /\ drained' = drained
        BY <1>1, <3>1 DEF PushWaiter, SemTypeOK, TypeOK
      <3>3. SemTypeOK'
        BY <1>1, <2>1, <3>1 DEF SemTypeOK, Places, releaseVars, wordVars
      <3>4. MutexSound'
        BY <1>1, <2>1, <3>1, <3>2, MutexKept DEF SemTypeOK, Places
      <3>5. CallsSound'
        <4>1. \A u \in Threads \ {f} : pc'[u] = pc[u]
          BY <1>1, <3>1 DEF SemTypeOK
        <4>2. \A w \in Waiters : Need(w)' = Need(w) /\ w \in Threads
          BY <1>2 DEF Need, Threads
        <4>3. rem' = rem /\ curr' = curr /\ pc'[f] = "check"
          BY <1>1, <2>1, <3>1 DEF SemTypeOK, releaseVars
        <4> QED BY <1>1, <1>2, <3>2, <4>1, <4>2, <4>3 DEF CallsSound
      <3> QED BY <3>3, <3>4, <3>5 DEF SemInv
    <2> QED BY <2>2, <2>3
  <1>7. ASSUME PollCheck(f) \/ PollAgain(f) \/ PollSpuriously(f)
        PROVE  SemInv'
    <2>1. state[f] # "ABSENT" /\ LookAtState(f)
      BY <1>1, <1>7 DEF PollCheck, PollAgain, PollSpuriously, CallsSound
    <2>2. /\ sel' = sel /\ drained' = drained
          /\ pc' = [pc EXCEPT ![f] = "idle"] \/ pc' = [pc EXCEPT ![f] = "setwaker"]
          /\ held' \in [Threads -> Nat]
          /\ outcome' \in [Waiters -> {"pending", "acquired", "closed", "dropped"}]
      BY <1>1, <2>1, StateKinds, LookFrame DEF SemTypeOK
    <2>3. /\ UNCHANGED <<wordVars, lock, curr, releaseVars>>
          /\ woken' \in [Waiters -> BOOLEAN]
          /\ pc[f] \in {"check", "parked"}
      BY <1>1, <1>7 DEF PollCheck, PollAgain, PollSpuriously, SemTypeOK
    <2>4. SemTypeOK'
      BY <1>1, <2>2, <2>3 DEF SemTypeOK, Places, releaseVars, wordVars
    <2>5. MutexSound' /\ CallsSound'
      BY <1>1, <1>2, <2>2, <2>3, MutexKept, CallsKept DEF SemTypeOK, Places, releaseVars
    <2> QED BY <2>4, <2>5 DEF SemInv
  <1>8. ASSUME PollSetWaker(f)
        PROVE  SemInv'
    <2>1. SemTypeOK'
      BY <1>1, <1>8 DEF SemTypeOK, Places, PollSetWaker, Goto, releaseVars, wordVars
    <2>2. MutexSound' /\ CallsSound'
      BY <1>1, <1>2, <1>8, MutexKept, CallsKept
      DEF SemTypeOK, Places, PollSetWaker, SetWaker, Goto, releaseVars
    <2> QED BY <2>1, <2>2 DEF SemInv
  <1>9. ASSUME DropFuture(f)
        PROVE  SemInv'
    <2>1. sel' = sel /\ drained' = drained
      BY <1>9 DEF DropFuture, Cancel, wqVars
    <2>2. SemTypeOK'
      BY <1>1, <1>9 DEF SemTypeOK, Places, DropFuture, Goto, releaseVars
    <2>3. MutexSound' /\ CallsSound'
      BY <1>1, <1>2, <1>9, <2>1, MutexKept, CallsKept
      DEF SemTypeOK, Places, DropFuture, Goto, releaseVars
    <2> QED BY <2>2, <2>3 DEF SemInv
  <1> QED BY <1>3, <1>4, <1>5, <1>6, <1>7, <1>8, <1>9 DEF Poll

-----------------------------------------------------------------------------
(* Calls of the other threads.                                             *)

LEMMA CallInv ==
  ASSUME SemInv, WQInv', NEW t \in Threads, NEW n \in 1..MaxGrant,
         \/ DropPermit(t, n) \/ ForgetPermit(t, n)
         \/ t \in Callers /\ Call(t, n)
  PROVE  SemInv'
PROOF
  <1>1. /\ SemTypeOK /\ MutexSound /\ CallsSound /\ TypeOK' /\ n \in Nat
        /\ n \in 0..MaxGrant
    BY WaitQueueAssumption DEF SemInv, WQInv
  <1>2. UNCHANGED wqVars
    BY CallQueueStep
  <1>3. CASE DropPermit(t, n)
    <2>1. SemTypeOK'
      BY <1>1, <1>3 DEF SemTypeOK, Places, DropPermit, Goto, wordVars
    <2>2. MutexSound' /\ CallsSound'
      BY <1>1, <1>2, <1>3, MutexKept, CallsKept
      DEF SemTypeOK, Places, DropPermit, Goto, wqVars
    <2> QED BY <2>1, <2>2 DEF SemInv
  <1>4. CASE ForgetPermit(t, n)
    <2>1. SemTypeOK'
      BY <1>1, <1>4 DEF SemTypeOK, ForgetPermit, releaseVars
    <2>2. MutexSound' /\ CallsSound'
      BY <1>1, <1>2, <1>4, MutexKept, CallsKept
      DEF SemTypeOK, Places, ForgetPermit, wqVars, releaseVars
    <2> QED BY <2>1, <2>2 DEF SemInv
  <1>5. CASE t \in Callers /\ AddPermits(t, n)
    <2>1. SemTypeOK'
      BY <1>1, <1>5 DEF SemTypeOK, Places, AddPermits, Goto
    <2>2. MutexSound' /\ CallsSound'
      BY <1>1, <1>2, <1>5, MutexKept, CallsKept
      DEF SemTypeOK, Places, AddPermits, Goto, wqVars
    <2> QED BY <2>1, <2>2 DEF SemInv
  <1>6. CASE t \in Callers /\ (TryAcquireMany(t, n) \/ ForgetPermits(t, n))
    <2>1. SemTypeOK'
      <3>1. CASE TryAcquireMany(t, n)
        BY <1>1, <3>1 DEF SemTypeOK, TryAcquireMany, MayTryAcquire, releaseVars
      <3>2. CASE ForgetPermits(t, n)
        <4>1. PICK k \in 1..n : /\ k = IF n <= permits THEN n ELSE permits
                                /\ permits' = permits - k /\ supply' = supply - k
          BY <3>2 DEF ForgetPermits
        <4>2. permits' \in Nat /\ supply' \in Int
          BY <1>1, <4>1 DEF SemTypeOK
        <4> QED BY <1>1, <3>2, <4>2 DEF SemTypeOK, ForgetPermits, releaseVars
      <3> QED BY <1>6, <3>1, <3>2
    <2>2. /\ pc[t] = "idle" /\ UNCHANGED <<pc, lock, rem, curr>>
      BY <1>6 DEF TryAcquireMany, ForgetPermits, releaseVars
    <2>3. MutexSound' /\ CallsSound'
      BY <1>1, <1>2, <2>2, MutexKept, CallsKept DEF SemTypeOK, Places, wqVars
    <2> QED BY <2>1, <2>3 DEF SemInv
  <1> QED BY <1>3, <1>4, <1>5, <1>6 DEF Call

-----------------------------------------------------------------------------
(* The steps of a release.                                                 *)

LEMMA ReleaseInv ==
  ASSUME SemInv, WQInv', NEW t \in Threads, Release(t)
  PROVE  SemInv'
PROOF
  <1>1. /\ SemTypeOK /\ MutexSound /\ CallsSound /\ TypeOK' /\ WQInv
        /\ sel.assigned \in Nat /\ sel.given \in Nat /\ sel.avail \in Nat
        /\ sel.wakes \in Seq(Waiters)
    BY DEF SemInv, WQInv, TypeOK, Selections
  <1>2. /\ req' = req
        /\ \A w \in Waiters : state[w] # "ABSENT" => state'[w] # "ABSENT"
        /\ \A w \in Waiters : Need(w)' = Need(w) /\ w \in Threads
    BY ReleaseQueueStep, QueueFrame DEF SemInv, Need, Threads
  <1>3. ASSUME ReleaseLocks(t)
        PROVE  SemInv'
    <2>1. /\ pc[t] = "lock" /\ lock = None
          /\ UNCHANGED <<wordVars, held, curr, releaseVars, woken, outcome>>
      BY <1>3 DEF ReleaseLocks
    <2>2. CASE total = 0
      <3>1. pc' = [pc EXCEPT ![t] = "fetchadd"] /\ UNCHANGED <<wqVars, lock>>
        BY <1>3, <2>2 DEF ReleaseLocks, Goto
      <3>2. SemTypeOK'
        BY <1>1, <2>1, <3>1 DEF SemTypeOK, Places, wordVars, releaseVars
      <3>3. MutexSound' /\ CallsSound'
        BY <1>1, <2>1, <3>1, MutexKept, CallsKept
        DEF SemTypeOK, Places, wqVars, releaseVars
      <3> QED BY <3>2, <3>3 DEF SemInv
    <2>3. CASE total # 0
      <3>1. /\ pc' = [pc EXCEPT ![t] = "select"] /\ lock' = t
            /\ SelectWaiters(rem[t])
        BY <1>3, <2>3 DEF ReleaseLocks, Goto
      <3>2. /\ sel'.phase # "idle" /\ sel'.given = rem[t]
            /\ sel'.assigned + sel'.avail = rem[t]
        BY <1>1, <3>1, SelectStarts DEF SemTypeOK
      <3>3. SemTypeOK'
        BY <1>1, <2>1, <3>1 DEF SemTypeOK, Places, wordVars, releaseVars
      <3>4. /\ \A u \in Threads \ {t} : pc'[u] = pc[u]
            /\ pc'[t] = "select" /\ rem' = rem /\ curr' = curr
        BY <1>1, <2>1, <3>1 DEF SemTypeOK, releaseVars
      <3>5. None \notin Threads
        BY WaitQueueAssumption, SemaphoreAssumption DEF Threads
      <3>6. \A u \in Threads : pc[u] \notin {"select", "drain"}
        BY <1>1, <2>1, <3>5 DEF MutexSound
      <3>7. MutexSound'
        BY <3>1, <3>2, <3>4, <3>5, <3>6 DEF MutexSound
      <3>8. CallsSound'
        BY <1>1, <1>2, <3>2, <3>4, <3>6 DEF CallsSound
      <3> QED BY <3>3, <3>7, <3>8 DEF SemInv
    <2> QED BY <2>2, <2>3
  <1>4. ASSUME ReleaseSelects(t)
        PROVE  SemInv'
    <2>1. /\ SelectionGoesOn
          /\ pc[t] = "select" /\ lock = t
          /\ UNCHANGED <<permits, closed, supply, lock, pc, held, curr, rem, batch,
                         wakes, woken, outcome>>
          /\ leaked' = leaked + (IF sel.phase = "notify" /\ IsCancelled(sel.cur)
                                   THEN Need(sel.cur) ELSE 0)
      BY <1>1, <1>4, SelectStepGoesOn DEF ReleaseSelects, CallsSound, releaseVars
    <2>2. leaked' \in Nat
      <3>1. sel.phase = "notify" => Need(sel.cur) \in Nat
        BY <1>1, PriorityTyped DEF WQInv, SelSound, TypeOK
      <3> QED BY <1>1, <2>1, <3>1 DEF SemTypeOK
    <2>3. SemTypeOK'
      BY <1>1, <2>1, <2>2 DEF SemTypeOK
    <2>4. MutexSound'
      BY <1>1, <2>1, WaitQueueAssumption, SemaphoreAssumption
      DEF MutexSound, SelectionGoesOn, Threads
    <2>5. CallsSound'
      BY <1>1, <1>2, <2>1 DEF CallsSound, SelectionGoesOn
    <2> QED BY <2>3, <2>4, <2>5 DEF SemInv
  <1>5. ASSUME ReleaseUnlocks(t)
        PROVE  SemInv'
    <2>1. /\ pc[t] = "select" /\ lock = t /\ SelectReturns /\ lock' = None
          /\ rem' = [rem EXCEPT ![t] = @ - sel.assigned]
          /\ UNCHANGED <<wordVars, held, curr, woken, outcome>>
      BY <1>5 DEF ReleaseUnlocks, RemCharged
    <2>2. \E l \in {"idle", "fetchadd", "notified"} : pc' = [pc EXCEPT ![t] = l]
      BY <1>5 DEF ReleaseUnlocks, AfterBatch, Goto
    <2>3. /\ batch' = batch \/ batch' = [batch EXCEPT ![t] = sel.assigned]
          /\ wakes' = wakes \/ wakes' = [wakes EXCEPT ![t] = sel.wakes]
      BY <1>5 DEF ReleaseUnlocks
    <2>4. rem' \in [Threads -> Nat]
      <3>1. rem[t] = sel.assigned + sel.avail /\ rem \in [Threads -> Nat]
        BY <1>1, <2>1 DEF CallsSound, SemTypeOK
      <3>2. rem[t] - sel.assigned \in Nat
        BY <1>1, <3>1
      <3> QED BY <2>1, <3>1, <3>2
    <2>5. SemTypeOK'
      <3>1. pc' \in [Threads -> Places]
        BY <1>1, <2>2 DEF SemTypeOK, Places
      <3>2. batch' \in [Threads -> Nat] /\ wakes' \in [Threads -> Seq(Waiters)]
        BY <1>1, <2>3 DEF SemTypeOK
      <3> QED BY <1>1, <2>1, <2>4, <3>1, <3>2 DEF SemTypeOK, wordVars
    <2>6. /\ sel'.phase = "idle" /\ sel'.assigned = 0 /\ sel'.avail = 0 /\ sel'.given = 0
          /\ drained' = {}
      BY <1>1, <2>1 DEF SelectReturns, SelInit, WQInv, SelSound
    <2>7. /\ \A u \in Threads \ {t} : pc'[u] = pc[u] /\ rem'[u] = rem[u]
          /\ pc'[t] \in {"idle", "fetchadd", "notified"} /\ curr' = curr
      BY <1>1, <2>1, <2>2 DEF SemTypeOK
    <2>8. \A u \in Threads \ {t} : pc[u] \notin {"select", "drain"}
      BY <1>1, <2>1 DEF MutexSound
    <2>9. MutexSound'
      <3>1. None \notin Threads
        BY WaitQueueAssumption, SemaphoreAssumption DEF Threads
      <3> QED BY <2>1, <2>6, <2>7, <2>8, <3>1 DEF MutexSound, Busy
    <2>10. CallsSound'
      BY <1>1, <1>2, <2>6, <2>7, <2>8 DEF CallsSound
    <2> QED BY <2>5, <2>9, <2>10 DEF SemInv
  <1>6. ASSUME ReleaseGivesBack(t) \/ ReleaseMayWake(t)
        PROVE  SemInv'
    <2>1. /\ pc[t] = "notified" /\ UNCHANGED <<wqVars, lock, curr, leaked, held, woken,
                                               outcome, closed, supply>>
          /\ pc' = [pc EXCEPT ![t] = "idle"] \/ pc' = [pc EXCEPT ![t] = "wake"]
          /\ rem' = rem \/ rem' = [rem EXCEPT ![t] = 0]
          /\ batch' = batch \/ batch' = [batch EXCEPT ![t] = 0]
          /\ wakes' = wakes \/ wakes' = [wakes EXCEPT ![t] = <<>>]
          /\ permits' = permits \/ permits' = permits + batch[t]
      BY <1>6 DEF ReleaseGivesBack, ReleaseMayWake, Goto, releaseVars, wordVars
    <2>2. SemTypeOK'
      <3>1. pc' \in [Threads -> Places]
        BY <1>1, <2>1 DEF SemTypeOK, Places
      <3>2. rem' \in [Threads -> Nat]
        <4>1. rem \in [Threads -> Nat]
          BY <1>1 DEF SemTypeOK
        <4> QED BY ONLY <4>1, <2>1, t \in Threads, 0 \in Nat, OneChanges
      <3>3. batch' \in [Threads -> Nat] /\ permits' \in Nat
        <4>1. batch \in [Threads -> Nat] /\ permits \in Nat
          BY <1>1 DEF SemTypeOK
        <4>2. permits' \in Nat
          BY ONLY <4>1, <2>1, t \in Threads
        <4> QED BY ONLY <4>1, <4>2, <2>1, t \in Threads, 0 \in Nat, OneChanges
      <3>4. wakes' \in [Threads -> Seq(Waiters)]
        <4>1. wakes \in [Threads -> Seq(Waiters)] /\ <<>> \in Seq(Waiters)
          BY <1>1 DEF SemTypeOK
        <4> QED BY ONLY <4>1, <2>1, t \in Threads, OneChanges
      <3> QED BY <1>1, <2>1, <3>1, <3>2, <3>3, <3>4 DEF SemTypeOK
    <2>3. MutexSound' /\ CallsSound'
      BY <1>1, <2>1, MutexKept, CallsKept DEF SemTypeOK, Places, wqVars
    <2> QED BY <2>2, <2>3 DEF SemInv
  <1>7. ASSUME ReleaseWakes(t)
        PROVE  SemInv'
    <2>1. ~WasFull(WakeAll(wakes[t]))
      BY WaitQueueAssumption DEF WasFull, WakeAll
    <2>2. /\ pc[t] = "wake"
          /\ pc' = [pc EXCEPT ![t] = "idle"] \/ pc' = [pc EXCEPT ![t] = "fetchadd"]
          /\ woken' \in [Waiters -> BOOLEAN]
          /\ wakes' = [wakes EXCEPT ![t] = <<>>] /\ batch' = [batch EXCEPT ![t] = 0]
          /\ UNCHANGED <<wqVars, wordVars, lock, held, rem, curr, outcome>>
      BY <1>1, <1>7, <2>1 DEF ReleaseWakes, AfterBatch, Goto, Woken, WakeAll, SemTypeOK
    <2>3. SemTypeOK'
      <3>1. pc' \in [Threads -> Places]
        BY <1>1, <2>2 DEF SemTypeOK, Places
      <3>2. wakes' \in [Threads -> Seq(Waiters)]
        <4>1. wakes \in [Threads -> Seq(Waiters)] /\ <<>> \in Seq(Waiters)
          BY <1>1 DEF SemTypeOK
        <4> QED BY ONLY <4>1, <2>2, t \in Threads, OneChanges
      <3>3. batch' \in [Threads -> Nat]
        BY <1>1, <2>2 DEF SemTypeOK
      <3> QED BY <1>1, <2>2, <3>1, <3>2, <3>3 DEF SemTypeOK, wordVars
    <2>4. MutexSound' /\ CallsSound'
      BY <1>1, <2>2, MutexKept, CallsKept DEF SemTypeOK, Places, wqVars
    <2> QED BY <2>3, <2>4 DEF SemInv
  <1>8. ASSUME ReleaseFetchAdd(t)
        PROVE  SemInv'
    <2>1. SemTypeOK'
      <3>1. permits' \in Nat
        BY <1>1, <1>8 DEF SemTypeOK, ReleaseFetchAdd
      <3>2. pc' \in [Threads -> Places]
        BY <1>1, <1>8 DEF SemTypeOK, Places, ReleaseFetchAdd, Goto
      <3>3. rem' \in [Threads -> Nat]
        BY <1>1, <1>8 DEF SemTypeOK, ReleaseFetchAdd
      <3> QED BY <1>1, <1>8, <3>1, <3>2, <3>3 DEF SemTypeOK, ReleaseFetchAdd
    <2>2. MutexSound' /\ CallsSound'
      BY <1>1, <1>8, MutexKept, CallsKept
      DEF SemTypeOK, Places, ReleaseFetchAdd, Goto, wqVars
    <2> QED BY <2>1, <2>2 DEF SemInv
  <1> QED BY <1>3, <1>4, <1>5, <1>6, <1>7, <1>8 DEF Release

-----------------------------------------------------------------------------
(* The steps of close().                                                   *)

LEMMA CloseInv ==
  ASSUME SemInv, WQInv', NEW c \in Callers, CloseSetsBit(c) \/ Closing(c)
  PROVE  SemInv'
PROOF
  <1>1. /\ SemTypeOK /\ MutexSound /\ CallsSound /\ TypeOK' /\ WQInv
        /\ c \in Threads
    BY DEF SemInv, WQInv, Threads
  <1>2. /\ req' = req
        /\ \A w \in Waiters : state[w] # "ABSENT" => state'[w] # "ABSENT"
        /\ \A w \in Waiters : Need(w)' = Need(w) /\ w \in Threads
    BY <1>1, CloseQueueStep, QueueFrame DEF Need, Threads
  <1>3. None \notin Threads
    BY WaitQueueAssumption, SemaphoreAssumption DEF Threads
  <1>4. CASE CloseSetsBit(c)
    <2>1. SemTypeOK'
      BY <1>1, <1>4 DEF SemTypeOK, Places, CloseSetsBit, Goto, releaseVars
    <2>2. MutexSound' /\ CallsSound'
      BY <1>1, <1>4, MutexKept, CallsKept
      DEF SemTypeOK, Places, CloseSetsBit, Goto, wqVars, releaseVars
    <2> QED BY <2>1, <2>2 DEF SemInv
  <1>5. CASE CloseLocks(c)
    <2>1. /\ pc[c] = "close" /\ lock = None /\ lock' = c /\ sel' = sel
          /\ pc' = [pc EXCEPT ![c] = "drain"]
          /\ UNCHANGED <<wordVars, held, curr, releaseVars, woken, outcome>>
      BY <1>5 DEF CloseLocks, Close, Goto
    <2>2. SemTypeOK'
      BY <1>1, <2>1 DEF SemTypeOK, Places, wordVars, releaseVars
    <2>3. /\ \A u \in Threads \ {c} : pc'[u] = pc[u]
          /\ pc'[c] = "drain" /\ rem' = rem /\ curr' = curr
      BY <1>1, <2>1 DEF SemTypeOK, releaseVars
    <2>4. /\ sel.phase = "idle"
          /\ \A u \in Threads : pc[u] \notin {"select", "drain"}
      BY <1>1, <1>3, <2>1 DEF MutexSound, Busy
    <2>5. MutexSound'
      BY <1>1, <1>3, <2>1, <2>3, <2>4 DEF MutexSound
    <2>6. CallsSound'
      BY <1>1, <1>2, <2>1, <2>3 DEF CallsSound
    <2> QED BY <2>2, <2>5, <2>6 DEF SemInv
  <1>6. CASE \E f \in Waiters : CloseDrains(c, f)
    <2>1. PICK f \in Waiters : CloseDrains(c, f)
      BY <1>6
    <2>2. /\ UNCHANGED <<wordVars, lock, pc, held, curr, releaseVars, outcome>>
          /\ sel' = sel /\ lock = c
          /\ woken' = [woken EXCEPT ![f] = @ \/ (waker[f] /\ ~IsCancelled(f))]
      BY <2>1 DEF CloseDrains, CloseCancels
    <2>3. woken' \in [Waiters -> BOOLEAN]
      <3>1. woken \in [Waiters -> BOOLEAN] /\ waker[f] \in BOOLEAN
        BY <1>1 DEF SemTypeOK, TypeOK
      <3>2. (woken[f] \/ (waker[f] /\ ~IsCancelled(f))) \in BOOLEAN
        OBVIOUS
      <3> QED BY <2>2, <3>1, <3>2, OneChanges
    <2>4. SemTypeOK'
      BY <1>1, <2>2, <2>3 DEF SemTypeOK, wordVars, releaseVars
    <2>5. MutexSound'
      BY <1>1, <1>3, <2>2 DEF MutexSound
    <2>6. CallsSound'
      BY <1>1, <1>2, <2>2 DEF CallsSound, releaseVars
    <2> QED BY <2>4, <2>5, <2>6 DEF SemInv
  <1>7. CASE CloseUnlocks(c)
    <2>1. /\ pc[c] = "drain" /\ lock = c /\ drained = {} /\ lock' = None
          /\ pc' = [pc EXCEPT ![c] = "idle"]
          /\ UNCHANGED <<wqVars, wordVars, held, curr, releaseVars, woken, outcome>>
      BY <1>7 DEF CloseUnlocks, Goto
    <2>2. SemTypeOK'
      BY <1>1, <2>1 DEF SemTypeOK, Places, wordVars, releaseVars
    <2>3. /\ \A u \in Threads \ {c} : pc'[u] = pc[u]
          /\ pc'[c] = "idle" /\ rem' = rem /\ curr' = curr
          /\ sel' = sel /\ drained' = drained /\ state' = state
      BY <1>1, <2>1 DEF SemTypeOK, releaseVars, wqVars
    <2>4. /\ sel.phase = "idle"
          /\ \A u \in Threads \ {c} : pc[u] \notin {"select", "drain"}
      BY <1>1, <2>1 DEF MutexSound
    <2>5. MutexSound'
      BY <1>3, <2>1, <2>3, <2>4 DEF MutexSound, Busy
    <2>6. CallsSound'
      BY <1>1, <1>2, <2>3, <2>4 DEF CallsSound
    <2> QED BY <2>2, <2>5, <2>6 DEF SemInv
  <1> QED BY <1>4, <1>5, <1>6, <1>7 DEF Closing

-----------------------------------------------------------------------------
(* The composition.                                                        *)

LEMMA SemNextInv == SemInv /\ [Next]_vars => SemInv'
PROOF
  <1> SUFFICES ASSUME SemInv, [Next]_vars
               PROVE  SemInv'
    OBVIOUS
  <1>1. WQInv'
    BY QueueInv
  <1>2. CASE UNCHANGED vars
    <2>1. SemTypeOK'
      <3>1. TypeOK'
        BY <1>1 DEF WQInv
      <3> QED BY <1>2, <3>1 DEF SemInv, SemTypeOK, vars, semVars
    <2>2. MutexSound'
      BY <1>2 DEF SemInv, MutexSound, Busy, vars, semVars, wqVars
    <2>3. CallsSound'
      BY <1>2 DEF SemInv, CallsSound, Need, vars, semVars, wqVars
    <2> QED BY <1>1, <2>1, <2>2, <2>3 DEF SemInv
  <1>3. CASE Next
    <2>1. CASE \E c \in Callers, n \in 1..MaxGrant : Call(c, n)
      BY <1>1, <2>1, CallInv DEF Threads
    <2>2. CASE \E t \in Threads, n \in 1..MaxGrant :
                 DropPermit(t, n) \/ ForgetPermit(t, n)
      BY <1>1, <2>2, CallInv
    <2>3. CASE \E f \in Waiters : Poll(f) \/ PollSpuriously(f) \/ DropFuture(f)
      BY <1>1, <2>3, FutureInv
    <2>4. CASE \E t \in Threads : Release(t)
      BY <1>1, <2>4, ReleaseInv
    <2>5. CASE \E c \in Callers : CloseSetsBit(c) \/ Closing(c)
      BY <1>1, <2>5, CloseInv
    <2> QED BY <1>3, <2>1, <2>2, <2>3, <2>4, <2>5 DEF Next
  <1> QED BY <1>2, <1>3

(* In every reachable state the types are right, no count has gone below   *)
(* zero, at most one thread is in a critical section and a selection is in *)
(* progress only there, and the queue is sound.                            *)
THEOREM SemInvariance == Spec => []SemInv
PROOF
  <1>1. Init => SemInv
    BY SemInitInv
  <1>2. SemInv /\ [Next]_vars => SemInv'
    BY SemNextInv
  <1> QED BY <1>1, <1>2, PTL DEF Spec

(* No interleaving of polls, releases, calls and close() makes the queue   *)
(* take a step that the queue alone could not take: the semaphore          *)
(* implements the specification of its queue, and inherits its theorems.   *)
THEOREM QueueRefined == Spec => WQSpec
PROOF
  <1>1. Init => WQInit
    BY DEF Init
  <1>2. SemInv /\ [Next]_vars => [WQNext]_wqVars
    BY NextQueueStep DEF QueueStep
  <1> QED BY <1>1, <1>2, SemInvariance, PTL DEF Spec, WQSpec

-----------------------------------------------------------------------------
(* After close().                                                          *)

LEMMA SelectStepShrinks ==
  ASSUME WQInv, SelectStep
  PROVE  Queued' \subseteq Queued
PROOF
  <1>1. CASE DropCancelledFront \/ PopToNotify
    <2>1. sel.phase \in Loops /\ Queue # <<>> /\ PopFront /\ req' = req
      BY <1>1 DEF DropCancelledFront, PopToNotify, MayContinue
    <2> QED BY <2>1, PopFacts
  <1>2. CASE RetainStep
    <2>1. /\ sel.prio \in Prios /\ req' = req /\ sel.idx \in 1..Len(Queue)
          /\ QueuesSound /\ queues \in [Prios -> Seq(Waiters)] /\ req \in Requests
      BY <1>2 DEF RetainStep, WQInv, SelSound, Serving, TypeOK, Selections
    <2>2. CASE queues' = [queues EXCEPT ![sel.prio] = RemoveAt(@, sel.idx)]
      BY <2>1, <2>2, RetainShrinks DEF Queue
    <2>3. CASE queues' = queues
      BY <2>1, <2>3, SameQueues
    <2> QED BY <1>2, <2>2, <2>3 DEF RetainStep
  <1>3. CASE queues' = queues /\ req' = req
    BY <1>3, SameQueues
  <1> QED BY <1>1, <1>2, <1>3
          DEF SelectStep, Notify, NotifyFails, TakeWaker, SingleEnds, OuterVisits,
              OuterEnds, InnerEnds, RetainEnds

\* Nobody comes to or leaves the place between the bit and the mutex of
\* close(), or comes to its loop; a closed queue does not grow and, when it is
\* empty, no selection starts.
QuietStep ==
  /\ closed' = closed
  /\ \A t \in Threads : pc'[t] = "close" <=> (pc[t] = "close")
  /\ \A t \in Threads : pc'[t] = "drain" => pc[t] = "drain"
  /\ closed => Queued' \subseteq Queued
  /\ closed /\ Queued = {} /\ sel.phase = "idle" => sel'.phase = "idle"

LEMMA StaysOutOfClose ==
  ASSUME pc \in [Threads -> Places], NEW t \in Threads, NEW l \in Places,
         pc' = pc \/ pc' = [pc EXCEPT ![t] = l],
         pc[t] # "close", l \notin {"close", "drain"}
  PROVE  /\ \A u \in Threads : pc'[u] = "close" <=> (pc[u] = "close")
         /\ \A u \in Threads : pc'[u] = "drain" => pc[u] = "drain"
PROOF OBVIOUS

LEMMA FutureQuiet ==
  ASSUME SemInv, NEW f \in Waiters,
         Poll(f) \/ PollSpuriously(f) \/ DropFuture(f)
  PROVE  QuietStep
PROOF
  <1>1. pc \in [Threads -> Places] /\ f \in Threads
    BY DEF SemInv, SemTypeOK, Threads
  <1>2. CASE PollCheck(f) \/ PollAgain(f) \/ PollSpuriously(f)
    <2>1. /\ LookAtState(f) /\ state[f] # "ABSENT" /\ closed' = closed
          /\ pc[f] # "close"
      BY <1>2 DEF PollCheck, PollAgain, PollSpuriously, SemInv, CallsSound, wordVars
    <2>2. /\ queues' = queues /\ req' = req /\ sel' = sel
          /\ pc' = [pc EXCEPT ![f] = "idle"] \/ pc' = [pc EXCEPT ![f] = "setwaker"]
      <3> USE DEF LookAtState, Resolve, Goto, Cancel, wqVars
      <3>1. state[f] \in {"WAITING", "NOTIFIED", "CANCELLED"}
        BY <2>1, StateKinds
      <3>2. CASE state[f] = "CANCELLED"
        BY <2>1, <3>2
      <3>3. CASE state[f] = "WAITING"
        BY <2>1, <3>3
      <3>4. CASE state[f] = "NOTIFIED" /\ closed
        BY <2>1, <3>4
      <3>5. CASE state[f] = "NOTIFIED" /\ ~closed
        BY <2>1, <3>5
      <3> QED BY <3>1, <3>2, <3>3, <3>4, <3>5
    <2> QED BY <1>1, <2>1, <2>2, SameQueues, StaysOutOfClose DEF QuietStep, Places
  <1>3. CASE PollEnqueue(f)
    <2>1. /\ closed' = closed /\ pc[f] # "close"
          /\ pc' = [pc EXCEPT ![f] = "idle"] \/ pc' = [pc EXCEPT ![f] = "check"]
          /\ closed => queues' = queues /\ req' = req /\ sel' = sel
      BY <1>3 DEF PollEnqueue, Resolve, Goto, wordVars, wqVars
    <2> QED BY <1>1, <2>1, SameQueues, StaysOutOfClose DEF QuietStep, Places
  <1>4. CASE PollLoad(f) \/ PollCas(f) \/ PollCasFails(f) \/ PollSetWaker(f)
             \/ DropFuture(f)
    <2>1. /\ closed' = closed /\ pc[f] # "close"
          /\ \E l \in Places \ {"close", "drain"} : pc' = [pc EXCEPT ![f] = l]
          /\ queues' = queues /\ req' = req /\ sel' = sel
      BY <1>4 DEF PollLoad, PollCas, PollCasFails, PollSetWaker, DropFuture, Resolve,
         Goto, Places, wordVars, wqVars, SetWaker, Cancel
    <2> QED BY <1>1, <2>1, SameQueues, StaysOutOfClose DEF QuietStep
  <1> QED BY <1>2, <1>3, <1>4 DEF Poll

LEMMA ReleaseQuiet ==
  ASSUME SemInv, NEW t \in Threads, Release(t)
  PROVE  QuietStep
PROOF
  <1>1. pc \in [Threads -> Places] /\ WQInv
    BY DEF SemInv, SemTypeOK
  <1>2. /\ closed' = closed /\ pc[t] # "close"
        /\ \E l \in Places \ {"close", "drain"} : pc' = pc \/ pc' = [pc EXCEPT ![t] = l]
    BY DEF Release, ReleaseLocks, ReleaseSelects, ReleaseUnlocks, ReleaseGivesBack,
       ReleaseMayWake, ReleaseWakes, ReleaseFetchAdd, AfterBatch, Goto, Places, wordVars
  <1>3. Queued' \subseteq Queued
    <2>1. CASE ReleaseLocks(t)
      BY <2>1, SameQueues DEF ReleaseLocks, SelectWaiters, SelectNothing, SelectSingle,
         SelectMulti, wqVars
    <2>2. CASE ReleaseSelects(t)
      BY <1>1, <2>2, SelectStepShrinks DEF ReleaseSelects
    <2>3. CASE ReleaseUnlocks(t)
      BY <2>3, SameQueues DEF ReleaseUnlocks, SelectReturns
    <2>4. CASE ReleaseGivesBack(t) \/ ReleaseMayWake(t) \/ ReleaseWakes(t)
               \/ ReleaseFetchAdd(t)
      BY <2>4, SameQueues DEF ReleaseGivesBack, ReleaseMayWake, ReleaseWakes,
         ReleaseFetchAdd, wqVars
    <2> QED BY <2>1, <2>2, <2>3, <2>4 DEF Release
  <1>4. Queued = {} /\ sel.phase = "idle" => sel'.phase = "idle"
    <2> SUFFICES ASSUME Queued = {}, sel.phase = "idle"
                 PROVE  sel'.phase = "idle"
      OBVIOUS
    <2>1. CASE ReleaseLocks(t)
      <3>1. Cardinality(Queued) = 0 /\ sel.removed = 0
        BY <1>1, FS_EmptySet DEF WQInv, SelSound
      <3>2. total = 0
        BY <1>1, <3>1 DEF WQInv, CountSound
      <3> QED BY <2>1, <3>2 DEF ReleaseLocks, wqVars
    <2>2. CASE ReleaseSelects(t)
      BY <1>1, <2>2, SelectStepGoesOn
      DEF ReleaseSelects, SelectionGoesOn, SemInv, CallsSound
    <2>3. CASE ReleaseUnlocks(t)
      BY <2>3 DEF ReleaseUnlocks, SelectReturns
    <2>4. CASE ReleaseGivesBack(t) \/ ReleaseMayWake(t) \/ ReleaseWakes(t)
               \/ ReleaseFetchAdd(t)
      BY <2>4 DEF ReleaseGivesBack, ReleaseMayWake, ReleaseWakes, ReleaseFetchAdd,
         wqVars
    <2> QED BY <2>1, <2>2, <2>3, <2>4 DEF Release
  <1> QED BY <1>1, <1>2, <1>3, <1>4, StaysOutOfClose DEF QuietStep

LEMMA CallQuiet ==
  ASSUME SemInv, NEW t \in Threads, NEW n \in 1..MaxGrant,
         DropPermit(t, n) \/ ForgetPermit(t, n) \/ Call(t, n)
  PROVE  QuietStep
PROOF
  <1>1. pc \in [Threads -> Places]
    BY DEF SemInv, SemTypeOK
  <1>2. /\ closed' = closed /\ pc[t] # "close"
        /\ \E l \in Places \ {"close", "drain"} : pc' = pc \/ pc' = [pc EXCEPT ![t] = l]
    BY DEF DropPermit, ForgetPermit, Call, AddPermits, TryAcquireMany, ForgetPermits,
       Goto, Places, wordVars
  <1>3. queues' = queues /\ req' = req /\ sel' = sel
    BY CallQueueStep DEF wqVars
  <1> QED BY <1>1, <1>2, <1>3, SameQueues, StaysOutOfClose DEF QuietStep

LEMMA CloseQuiet ==
  ASSUME SemInv, NEW c \in Callers,
         (\E f \in Waiters : CloseDrains(c, f)) \/ CloseUnlocks(c)
  PROVE  QuietStep
PROOF
  <1>1. pc \in [Threads -> Places] /\ c \in Threads
    BY DEF SemInv, SemTypeOK, Threads
  <1>2. /\ closed' = closed /\ pc[c] # "close"
        /\ pc' = pc \/ pc' = [pc EXCEPT ![c] = "idle"]
        /\ queues' = queues /\ req' = req /\ sel' = sel
    BY DEF CloseDrains, CloseUnlocks, CloseCancels, Goto, wordVars, wqVars
  <1> QED BY <1>1, <1>2, SameQueues, StaysOutOfClose DEF QuietStep, Places

LEMMA ClosedNext == SemInv /\ ClosedQueueEmpty /\ [Next]_vars => ClosedQueueEmpty'
PROOF
  <1> SUFFICES ASSUME SemInv, ClosedQueueEmpty, [Next]_vars
               PROVE  ClosedQueueEmpty'
    OBVIOUS
  <1>1. ASSUME QuietStep
        PROVE  ClosedQueueEmpty'
    <2>1. Waiters \subseteq Threads /\ Callers \subseteq Threads
      BY DEF Threads
    <2> QED BY <1>1, <2>1 DEF QuietStep, ClosedQueueEmpty
  <1>2. CASE UNCHANGED vars
    BY <1>2, SameQueues DEF vars, wqVars, semVars, ClosedQueueEmpty
  <1>3. ASSUME NEW c \in Callers, CloseSetsBit(c)
        PROVE  ClosedQueueEmpty'
    <2>1. pc'[c] = "close" /\ c \notin Waiters
      BY <1>3, SemaphoreAssumption DEF CloseSetsBit, Goto, SemInv, SemTypeOK, Threads
    <2>2. \A f \in Waiters : pc'[f] = pc[f]
      BY <1>3, <2>1 DEF CloseSetsBit, Goto, SemInv, SemTypeOK, Threads
    <2> QED BY <2>1, <2>2 DEF ClosedQueueEmpty
  <1>4. ASSUME NEW c \in Callers, CloseLocks(c)
        PROVE  ClosedQueueEmpty'
    <2>1. queues' = [p \in Prios |-> <<>>] /\ req' = req
      BY <1>4 DEF CloseLocks, Close
    <2>2. \A w \in Waiters : queues'[Priority(w)'] = <<>>
      BY <2>1, PriorityTyped DEF SemInv, WQInv, TypeOK, Priority
    <2>3. Queued' = {}
      BY <2>2 DEF Queued, ToSet
    <2>4. sel'.phase = "idle"
      BY <1>4 DEF CloseLocks, Close, Busy
    <2>5. \A f \in Waiters : pc'[f] = pc[f]
      BY <1>4, SemaphoreAssumption DEF CloseLocks, Goto, SemInv, SemTypeOK, Threads
    <2> QED BY <2>3, <2>4, <2>5 DEF ClosedQueueEmpty
  <1>5. CASE \E c \in Callers, n \in 1..MaxGrant : Call(c, n)
    BY <1>1, <1>5, CallQuiet DEF Threads
  <1>6. CASE \E t \in Threads, n \in 1..MaxGrant : DropPermit(t, n) \/ ForgetPermit(t, n)
    BY <1>1, <1>6, CallQuiet
  <1>7. CASE \E f \in Waiters : Poll(f) \/ PollSpuriously(f) \/ DropFuture(f)
    BY <1>1, <1>7, FutureQuiet
  <1>8. CASE \E t \in Threads : Release(t)
    BY <1>1, <1>8, ReleaseQuiet
  <1>9. CASE \E c \in Callers : CloseSetsBit(c) \/ Closing(c)
    BY <1>1, <1>3, <1>4, <1>9, CloseQuiet DEF Closing
  <1> QED BY <1>2, <1>5, <1>6, <1>7, <1>8, <1>9 DEF Next

(* Once no close() is between its bit and its critical section, a closed   *)
(* semaphore has nobody in a queue: no poll enqueues behind its back, and  *)
(* no release starts to select.                                            *)
THEOREM ClosedQueueStaysEmpty == Spec => []ClosedQueueEmpty
PROOF
  <1>1. Init => ClosedQueueEmpty
    BY DEF Init, ClosedQueueEmpty, Threads
  <1>2. SemInv /\ ClosedQueueEmpty /\ [Next]_vars => ClosedQueueEmpty'
    BY ClosedNext
  <1> QED BY <1>1, <1>2, SemInvariance, PTL DEF Spec

LEMMA ClosedNobodyLeft == SemInv /\ ClosedQueueEmpty => ClosedNobodyWaits
PROOF
  <1> SUFFICES ASSUME SemInv, ClosedQueueEmpty, closed,
                      \A c \in Callers : pc[c] \notin {"close", "drain"},
                      NEW f \in Waiters, state[f] = "WAITING"
               PROVE  FALSE
    BY DEF ClosedNobodyWaits
  <1>1. Queued = {} /\ sel.phase = "idle" /\ \A t \in Threads : pc[t] # "drain"
    BY DEF ClosedQueueEmpty, Threads
  <1>2. lock = None \/ lock \in Threads
    BY DEF SemInv, SemTypeOK
  <1>3. lock = None
    BY <1>1, <1>2 DEF SemInv, MutexSound
  <1>4. drained = {} /\ sel.cur = None
    BY <1>1, <1>3 DEF SemInv, MutexSound, Busy, WQInv, SelSound
  <1> QED BY <1>1, <1>4, WaitQueueAssumption DEF SemInv, WQInv, NoWaiterLost

(* When every close() has returned, nobody waits any more, in a queue or   *)
(* in the hands of a selection: a poll that loaded the word before the bit *)
(* was set does not enqueue behind its back.                               *)
THEOREM NobodyWaitsAfterClose == Spec => []ClosedNobodyWaits
PROOF BY SemInvariance, ClosedQueueStaysEmpty, ClosedNobodyLeft, PTL

-----------------------------------------------------------------------------
(* What the semaphore has from the types and from its queue.               *)

(* Every variable of the semaphore has its type: the permit word and the   *)
(* counts of a release never underflow, whatever the callers do.           *)
THEOREM SemTypeCorrect == Spec => []SemTypeOK
PROOF BY SemInvariance, PTL DEF SemInv

(* Fifo and Lifo order, at every selection of the semaphore.               *)
THEOREM SemServedByStrategy == Spec => ServedInOrder
PROOF BY QueueRefined, ServedByStrategy, PTL

(* Strict priority among requests for one permit, at every selection of    *)
(* the semaphore.                                                          *)
THEOREM SemHighestPriorityServed == Spec => StrictPriority
PROOF BY QueueRefined, HighestPriorityServed, PTL

(* Permits go to the word only if no one-permit request is left to serve.  *)
THEOREM SemNobodyLeftWaiting == Spec => []SelectionExhausts
PROOF BY QueueRefined, NobodyLeftWaiting, PTL

(* The selections of the semaphore end: the mutex is not kept for ever.    *)
THEOREM SemSelectionEnds == Spec => SelectionShrinks
PROOF BY QueueRefined, SelectionEnds, PTL
=============================================================================
