------------------------- MODULE ConservationProofs -------------------------
(***************************************************************************)
(* Proofs about the permits of the semaphore: none is handed out twice and *)
(* none gets lost but those of owners who give up.  A step is made by one  *)
(* thread and moves permits between its own places, those of one waiter    *)
(* and the word; a sum over all threads changes by what that thread gives  *)
(* or takes.                                                               *)
(***************************************************************************)
EXTENDS RankedSemaphoreProofs, SumsProofs

-----------------------------------------------------------------------------
(* Who acts.                                                               *)

\* Only the locals of t change, and nobody else is in a selection when one
\* makes a step.
OnlyActs(t) ==
  \A u \in Threads \ {t} :
    /\ pc'[u] = pc[u] /\ rem'[u] = rem[u] /\ held'[u] = held[u]
    /\ u \in Waiters => outcome'[u] = outcome[u]
    /\ sel' = sel \/ pc[u] # "select"

\* The state word of a waiter that was not pushed, or is cancelled, stays.
SettledStay == \A w \in Waiters : state[w] \in {"ABSENT", "CANCELLED"} => state'[w] = state[w]

LEMMA FutureActs ==
  ASSUME SemInv, NEW f \in Waiters,
         Poll(f) \/ PollSpuriously(f) \/ DropFuture(f)
  PROVE  /\ OnlyActs(f) /\ sel' = sel
         /\ \A w \in Waiters \ {f} : state'[w] = state[w]
PROOF
  <1>1. /\ pc \in [Threads -> Places] /\ held \in [Threads -> Nat]
        /\ outcome \in [Waiters -> {"pending", "acquired", "closed", "dropped"}]
        /\ state \in [Waiters -> {"ABSENT", "WAITING", "NOTIFIED", "CANCELLED"}]
        /\ f \in Threads /\ Waiters \subseteq Threads
    BY DEF SemInv, WQInv, TypeOK, SemTypeOK, Threads
  <1> USE DEF OnlyActs, Resolve, Goto, wqVars, releaseVars
  <1>2. CASE PollLoad(f)
    BY <1>1, <1>2 DEF PollLoad
  <1>3. CASE PollCas(f) \/ PollCasFails(f)
    BY <1>1, <1>3 DEF PollCas, PollCasFails
  <1>4. CASE PollEnqueue(f)
    BY <1>1, <1>4 DEF PollEnqueue, PushWaiter
  <1>5. CASE PollCheck(f) \/ PollAgain(f) \/ PollSpuriously(f)
    <2>1. LookAtState(f) /\ state[f] # "ABSENT" /\ rem' = rem
      BY <1>5 DEF PollCheck, PollAgain, PollSpuriously, SemInv, CallsSound
    <2>2. state[f] \in {"WAITING", "NOTIFIED", "CANCELLED"}
      BY <2>1, StateKinds
    <2>3. CASE state[f] = "CANCELLED" \/ state[f] = "WAITING"
      BY <1>1, <2>1, <2>3 DEF LookAtState
    <2>4. CASE state[f] = "NOTIFIED"
      BY <1>1, <2>1, <2>4 DEF LookAtState, Cancel, CancelState
    <2> QED BY <2>2, <2>3, <2>4
  <1>6. CASE PollSetWaker(f)
    BY <1>1, <1>6 DEF PollSetWaker, SetWaker
  <1>7. CASE DropFuture(f)
    BY <1>1, <1>7 DEF DropFuture, Cancel, CancelState
  <1> QED BY <1>2, <1>3, <1>4, <1>5, <1>6, <1>7 DEF Poll

LEMMA CallActs ==
  ASSUME SemInv, NEW t \in Threads, NEW n \in 1..MaxGrant,
         DropPermit(t, n) \/ ForgetPermit(t, n) \/ Call(t, n)
  PROVE  OnlyActs(t) /\ sel' = sel /\ state' = state
PROOF
  <1>1. /\ pc \in [Threads -> Places] /\ held \in [Threads -> Nat]
        /\ rem \in [Threads -> Nat]
    BY DEF SemInv, SemTypeOK
  <1>2. UNCHANGED wqVars
    BY CallQueueStep
  <1> USE DEF OnlyActs, Goto, wqVars, releaseVars
  <1>3. CASE DropPermit(t, n) \/ ForgetPermit(t, n)
    BY <1>1, <1>2, <1>3 DEF DropPermit, ForgetPermit
  <1>4. CASE Call(t, n)
    BY <1>1, <1>2, <1>4 DEF Call, AddPermits, TryAcquireMany, ForgetPermits
  <1> QED BY <1>3, <1>4

LEMMA ReleaseActs ==
  ASSUME SemInv, NEW t \in Threads, Release(t)
  PROVE  OnlyActs(t) /\ held' = held /\ outcome' = outcome /\ SettledStay
PROOF
  <1>1. /\ pc \in [Threads -> Places] /\ rem \in [Threads -> Nat] /\ MutexSound
        /\ state \in [Waiters -> {"ABSENT", "WAITING", "NOTIFIED", "CANCELLED"}]
        /\ None \notin Threads
    BY WaitQueueAssumption, SemaphoreAssumption
    DEF SemInv, WQInv, TypeOK, SemTypeOK, Threads
  <1> USE DEF OnlyActs, Goto, releaseVars
  <1>2. CASE ReleaseLocks(t)
    <2>1. \A u \in Threads : pc[u] # "select"
      BY <1>1, <1>2 DEF ReleaseLocks, MutexSound
    <2>2. state' = state
      BY <1>2 DEF ReleaseLocks, SelectWaiters, SelectNothing, SelectSingle, SelectMulti,
                  wqVars
    <2> QED BY <1>1, <1>2, <2>1, <2>2 DEF ReleaseLocks, SettledStay
  <1>3. CASE ReleaseSelects(t)
    <2>1. \A u \in Threads \ {t} : pc[u] # "select"
      BY <1>1, <1>3 DEF ReleaseSelects, MutexSound
    <2>2. SettledStay
      <3>1. CASE Notify
        BY <1>1, <3>1 DEF Notify, TryNotify, SettledStay
      <3>2. CASE ~Notify
        BY <1>3, <3>2 DEF ReleaseSelects, SelectStep, DropCancelledFront, PopToNotify,
           NotifyFails, TakeWaker, SingleEnds, OuterVisits, OuterEnds, InnerEnds,
           RetainStep, RetainEnds, SettledStay
      <3> QED BY <3>1, <3>2
    <2> QED BY <1>1, <1>3, <2>1, <2>2 DEF ReleaseSelects
  <1>4. CASE ReleaseUnlocks(t)
    <2>1. \A u \in Threads \ {t} : pc[u] # "select"
      BY <1>1, <1>4 DEF ReleaseUnlocks, MutexSound
    <2>2. \A u \in Threads \ {t} : pc'[u] = pc[u] /\ rem'[u] = rem[u]
      BY <1>1, <1>4 DEF ReleaseUnlocks, RemCharged, AfterBatch
    <2> QED BY <1>4, <2>1, <2>2 DEF ReleaseUnlocks, SelectReturns, SettledStay
  <1>5. CASE ReleaseGivesBack(t) \/ ReleaseMayWake(t) \/ ReleaseWakes(t)
             \/ ReleaseFetchAdd(t)
    BY <1>1, <1>5 DEF ReleaseGivesBack, ReleaseMayWake, ReleaseWakes, ReleaseFetchAdd,
                      AfterBatch, SettledStay, wqVars
  <1> QED BY <1>2, <1>3, <1>4, <1>5 DEF Release

LEMMA CloseActs ==
  ASSUME SemInv, NEW c \in Callers, CloseSetsBit(c) \/ Closing(c)
  PROVE  /\ OnlyActs(c) /\ held' = held /\ outcome' = outcome /\ rem' = rem /\ sel' = sel
         /\ \A w \in Waiters : state'[w] = state[w] \/ state'[w] = "CANCELLED"
         /\ \A w \in Waiters : state'[w] # state[w] => state[w] = "WAITING"
PROOF
  <1>1. /\ pc \in [Threads -> Places] /\ c \in Threads
        /\ state \in [Waiters -> {"ABSENT", "WAITING", "NOTIFIED", "CANCELLED"}]
        /\ \A w \in drained : state[w] \in {"WAITING", "CANCELLED"}
    BY DEF SemInv, WQInv, TypeOK, PlacesSound, SemTypeOK, Threads
  <1> USE DEF OnlyActs, Goto, releaseVars
  <1>2. CASE CloseSetsBit(c) \/ CloseUnlocks(c)
    BY <1>1, <1>2 DEF CloseSetsBit, CloseUnlocks, wqVars
  <1>3. CASE CloseLocks(c)
    BY <1>1, <1>3 DEF CloseLocks, Close
  <1>4. CASE \E f \in Waiters : CloseDrains(c, f)
    BY <1>1, <1>4 DEF CloseDrains, CloseCancels, CancelState
  <1> QED BY <1>2, <1>3, <1>4 DEF Closing

-----------------------------------------------------------------------------
(* What a thread owns.                                                     *)

\* OwnersSound, for one future and for one thread.
OwnerSound(f) ==
  IF outcome[f] = "pending"
    THEN /\ pc[f] \in PollPlaces /\ held[f] = 0
         /\ pc[f] \in {"cas", "enqueue"} => state[f] = "ABSENT"
    ELSE /\ pc[f] \notin PollPlaces
         /\ state[f] \in {"ABSENT", "CANCELLED"}

LEMMA OwnersKept ==
  ASSUME OwnersSound, NEW t \in Threads, OnlyActs(t),
         \A w \in Waiters \ {t} :
           state[w] \in {"ABSENT", "CANCELLED"} => state'[w] = state[w],
         t \in Waiters => OwnerSound(t)',
         rem'[t] > 0 => pc'[t] \in ReleasePlaces
  PROVE  OwnersSound'
PROOF
  <1>1. Waiters \subseteq Threads
    BY DEF Threads
  <1>2. ASSUME NEW w \in Waiters \ {t}
        PROVE  OwnerSound(w)'
    BY <1>1, <1>2 DEF OwnersSound, OwnerSound, OnlyActs
  <1>3. \A u \in Threads : rem'[u] > 0 => pc'[u] \in ReleasePlaces
    BY DEF OwnersSound, OnlyActs
  <1> QED BY <1>2, <1>3 DEF OwnersSound, OwnerSound

LEMMA FutureOwners ==
  ASSUME SemInv, OwnersSound, NEW f \in Waiters,
         Poll(f) \/ PollSpuriously(f) \/ DropFuture(f)
  PROVE  OwnersSound'
PROOF
  <1>1. /\ pc \in [Threads -> Places] /\ held \in [Threads -> Nat]
        /\ rem \in [Threads -> Nat]
        /\ outcome \in [Waiters -> {"pending", "acquired", "closed", "dropped"}]
        /\ state \in [Waiters -> {"ABSENT", "WAITING", "NOTIFIED", "CANCELLED"}]
        /\ f \in Threads
    BY DEF SemInv, WQInv, TypeOK, SemTypeOK, Threads
  <1>2. OnlyActs(f) /\ \A w \in Waiters \ {f} : state'[w] = state[w]
    BY FutureActs
  <1>3. pc[f] \in PollPlaces /\ rem' = rem
    BY DEF Poll, PollLoad, PollCas, PollCasFails, PollEnqueue, PollCheck, PollAgain,
       PollSetWaker, PollSpuriously, DropFuture, releaseVars, PollPlaces
  <1>4. outcome[f] = "pending" /\ OwnerSound(f)
    BY <1>3 DEF OwnersSound, OwnerSound
  <1>5. rem[f] = 0
    BY <1>1, <1>3 DEF OwnersSound, PollPlaces, ReleasePlaces
  <1>6. OwnerSound(f)'
    <2> USE DEF OwnerSound, Resolve, Goto, PollPlaces, wqVars
    <2>1. CASE PollLoad(f)
      BY <1>1, <1>4, <2>1 DEF PollLoad
    <2>2. CASE PollCas(f) \/ PollCasFails(f)
      BY <1>1, <1>4, <2>2 DEF PollCas, PollCasFails
    <2>3. CASE PollEnqueue(f)
      BY <1>1, <1>4, <2>3 DEF PollEnqueue, PushWaiter
    <2>4. CASE PollCheck(f) \/ PollAgain(f) \/ PollSpuriously(f)
      <3>1. LookAtState(f) /\ state[f] # "ABSENT"
        BY <2>4 DEF PollCheck, PollAgain, PollSpuriously, SemInv, CallsSound
      <3>2. state[f] \in {"WAITING", "NOTIFIED", "CANCELLED"}
        BY <3>1, StateKinds
      <3>3. CASE state[f] = "CANCELLED" \/ state[f] = "WAITING"
        BY <1>1, <1>4, <3>1, <3>3 DEF LookAtState
      <3>4. CASE state[f] = "NOTIFIED"
        BY <1>1, <1>4, <3>1, <3>4 DEF LookAtState, Cancel, CancelState
      <3> QED BY <3>2, <3>3, <3>4
    <2>5. CASE PollSetWaker(f)
      BY <1>1, <1>4, <2>5 DEF PollSetWaker, SetWaker
    <2>6. CASE DropFuture(f)
      BY <1>1, <1>4, <2>6 DEF DropFuture, Cancel, CancelState
    <2> QED BY <2>1, <2>2, <2>3, <2>4, <2>5, <2>6 DEF Poll
  <1> QED BY <1>1, <1>2, <1>3, <1>5, <1>6, OwnersKept

LEMMA ReleaseOwners ==
  ASSUME SemInv, OwnersSound, NEW t \in Threads, Release(t)
  PROVE  OwnersSound'
PROOF
  <1>1. /\ pc \in [Threads -> Places] /\ rem \in [Threads -> Nat]
        /\ sel.assigned + sel.avail = sel.given
        /\ sel.assigned \in Nat /\ sel.avail \in Nat
        /\ pc[t] = "select" => rem[t] = sel.given
    BY DEF SemInv, WQInv, TypeOK, Selections, SemTypeOK, CallsSound
  <1>2. OnlyActs(t) /\ held' = held /\ outcome' = outcome /\ SettledStay
    BY ReleaseActs
  <1>3. pc[t] \in ReleasePlaces /\ pc'[t] \in ReleasePlaces \cup {"idle"}
    BY <1>1 DEF Release, ReleaseLocks, ReleaseSelects, ReleaseUnlocks, ReleaseGivesBack,
       ReleaseMayWake, ReleaseWakes, ReleaseFetchAdd, AfterBatch, Goto, ReleasePlaces
  <1>4. t \in Waiters => OwnerSound(t)'
    BY <1>2, <1>3
    DEF OwnersSound, OwnerSound, SettledStay, PollPlaces, ReleasePlaces
  <1>5. rem'[t] > 0 => pc'[t] \in ReleasePlaces
    <2> USE DEF Goto, ReleasePlaces, AfterBatch
    <2>1. CASE ReleaseLocks(t) \/ ReleaseSelects(t) \/ ReleaseMayWake(t)
      BY <1>1, <2>1 DEF ReleaseLocks, ReleaseSelects, ReleaseMayWake
    <2>2. CASE ReleaseUnlocks(t)
      <3>1. /\ rem'[t] = rem[t] - sel.assigned
            /\ pc'[t] = "notified" \/ pc'[t] = IF rem[t] - sel.assigned > 0
                                                THEN "fetchadd" ELSE "idle"
        BY <1>1, <2>2 DEF ReleaseUnlocks, RemCharged
      <3> QED BY <1>1, <3>1
    <2>3. CASE ReleaseGivesBack(t) \/ ReleaseFetchAdd(t)
      BY <1>1, <2>3 DEF ReleaseGivesBack, ReleaseFetchAdd
    <2>4. CASE ReleaseWakes(t)
      <3>1. /\ rem' = rem
            /\ pc'[t] = "lock" \/ pc'[t] = IF rem[t] > 0 THEN "fetchadd" ELSE "idle"
        BY <1>1, <2>4 DEF ReleaseWakes
      <3> QED BY <1>1, <3>1
    <2> QED BY <2>1, <2>2, <2>3, <2>4 DEF Release
  <1> QED BY <1>2, <1>4, <1>5, OwnersKept DEF SettledStay

LEMMA CallOwners ==
  ASSUME SemInv, OwnersSound, NEW t \in Threads, NEW n \in 1..MaxGrant,
         \/ DropPermit(t, n) \/ ForgetPermit(t, n)
         \/ t \in Callers /\ Call(t, n)
  PROVE  OwnersSound'
PROOF
  <1>1. /\ pc \in [Threads -> Places] /\ held \in [Threads -> Nat]
        /\ rem \in [Threads -> Nat] /\ Callers \cap Waiters = {}
    BY SemaphoreAssumption DEF SemInv, SemTypeOK
  <1>2. OnlyActs(t) /\ state' = state
    BY CallActs
  <1>3. pc[t] = "idle" /\ ~(rem[t] > 0)
    BY DEF DropPermit, ForgetPermit, Call, AddPermits, TryAcquireMany, ForgetPermits,
       OwnersSound, ReleasePlaces
  <1>4. t \in Waiters => outcome[t] # "pending" /\ OwnerSound(t)
    BY <1>3 DEF OwnersSound, OwnerSound, PollPlaces
  <1>5. t \in Waiters => OwnerSound(t)'
    <2>1. CASE DropPermit(t, n)
      BY <1>1, <1>2, <1>4, <2>1 DEF DropPermit, Goto, OwnerSound, PollPlaces
    <2>2. CASE ForgetPermit(t, n)
      BY <1>1, <1>2, <1>4, <2>2 DEF ForgetPermit, OwnerSound
    <2> QED BY <1>1, <2>1, <2>2
  <1>6. rem'[t] > 0 => pc'[t] \in ReleasePlaces
    BY <1>1, <1>3 DEF DropPermit, ForgetPermit, Call, AddPermits, TryAcquireMany,
       ForgetPermits, Goto, ReleasePlaces, releaseVars
  <1> QED BY <1>2, <1>5, <1>6, OwnersKept

LEMMA CloseOwners ==
  ASSUME SemInv, OwnersSound, NEW c \in Callers, CloseSetsBit(c) \/ Closing(c)
  PROVE  OwnersSound'
PROOF
  <1>1. c \in Threads /\ c \notin Waiters /\ pc[c] \notin ReleasePlaces
    BY SemaphoreAssumption DEF Threads, CloseSetsBit, Closing, CloseLocks, CloseDrains,
       CloseUnlocks, ReleasePlaces
  <1> QED BY <1>1, CloseActs, OwnersKept DEF OwnersSound

LEMMA OwnersNext == SemInv /\ OwnersSound /\ [Next]_vars => OwnersSound'
PROOF
  <1> SUFFICES ASSUME SemInv, OwnersSound, [Next]_vars
               PROVE  OwnersSound'
    OBVIOUS
  <1>1. CASE UNCHANGED vars
    BY <1>1 DEF OwnersSound, vars, semVars, wqVars
  <1>2. CASE \E c \in Callers, n \in 1..MaxGrant : Call(c, n)
    BY <1>2, CallOwners DEF Threads
  <1>3. CASE \E t \in Threads, n \in 1..MaxGrant : DropPermit(t, n) \/ ForgetPermit(t, n)
    BY <1>3, CallOwners
  <1> QED BY <1>1, <1>2, <1>3, FutureOwners, ReleaseOwners, CloseOwners DEF Next

LEMMA OwnersInit == Init => OwnersSound
PROOF
  <1> SUFFICES ASSUME Init
               PROVE  OwnersSound
    OBVIOUS
  <1>1. Waiters \subseteq Threads
    BY DEF Threads
  <1> QED BY <1>1 DEF Init, WQInit, OwnersSound, PollPlaces

(* A future owns nothing until it resolves and nothing is reserved for it  *)
(* afterwards; a release that returns has placed all its permits.          *)
THEOREM OwnersCorrect == Spec => []OwnersSound
PROOF BY OwnersInit, OwnersNext, SemInvariance, PTL DEF Spec

-----------------------------------------------------------------------------
(* The sums.                                                               *)

LEMMA ThreadsFinite == IsFiniteSet(Threads) /\ IsFiniteSet(Waiters)
PROOF BY WaitQueueAssumption, SemaphoreAssumption, FS_Union DEF Threads

LEMMA PlacingTyped ==
  ASSUME SemInv, NEW t \in Threads
  PROVE  Placing(t) \in Nat
PROOF
  <1>1. /\ rem[t] \in Nat /\ sel.assigned \in Nat /\ sel.avail \in Nat
        /\ sel.assigned + sel.avail = sel.given
        /\ pc[t] = "select" => rem[t] = sel.given
    BY DEF SemInv, WQInv, TypeOK, Selections, SemTypeOK, CallsSound
  <1>2. sel.phase = "notify" => Need(sel.cur) \in Nat
    BY PriorityTyped DEF SemInv, WQInv, SelSound, TypeOK
  <1> QED BY <1>1, <1>2 DEF Placing

LEMMA ReservedTyped ==
  ASSUME SemInv, NEW f \in Waiters
  PROVE  ReservedFor(f) \in Nat
PROOF BY PriorityTyped DEF SemInv, WQInv, TypeOK, ReservedFor

LEMMA SumsTyped ==
  ASSUME SemInv
  PROVE  /\ Held \in Nat /\ Reserved \in Nat /\ InHand \in Nat
         /\ \A t \in Threads : held[t] <= Held
         /\ \A f \in Waiters : ReservedFor(f) <= Reserved
PROOF
  <1>1. \A t \in Threads : held[t] \in Nat
    BY DEF SemInv, SemTypeOK
  <1>2. Held \in Nat /\ \A t \in Threads : held[t] <= Held
    BY <1>1, ThreadsFinite, PileFinite, SumBound DEF Held
  <1>3. InHand \in Nat
    <2> DEFINE g == [t \in Threads |-> Placing(t)]
    <2>1. \A t \in Threads : g[t] \in Nat
      BY PlacingTyped
    <2> QED BY <2>1, ThreadsFinite, PileFinite DEF InHand
  <1>4. Reserved \in Nat /\ \A f \in Waiters : ReservedFor(f) <= Reserved
    <2> DEFINE g == [f \in Waiters |-> ReservedFor(f)]
    <2>1. \A f \in Waiters : g[f] \in Nat
      BY ReservedTyped
    <2>2. SumOver(g, Waiters) \in Nat
      BY <2>1, ThreadsFinite, PileFinite
    <2>3. \A f \in Waiters : g[f] <= SumOver(g, Waiters)
      BY <2>1, ThreadsFinite, SumBound
    <2> QED BY <2>2, <2>3 DEF Reserved
  <1> QED BY <1>2, <1>3, <1>4

LEMMA HeldChanges ==
  ASSUME SemInv, SemInv', NEW t \in Threads, OnlyActs(t)
  PROVE  Held' = Held - held[t] + held'[t]
PROOF
  <1>1. /\ \A u \in Threads : held[u] \in Nat /\ held'[u] \in Nat
        /\ \A u \in Threads \ {t} : held'[u] = held[u]
    BY DEF SemInv, SemTypeOK, OnlyActs
  <1> QED BY <1>1, ThreadsFinite, SumChange DEF Held

LEMMA InHandChanges ==
  ASSUME SemInv, SemInv', NEW t \in Threads, OnlyActs(t), req' = req
  PROVE  InHand' = InHand - Placing(t) + Placing(t)' /\ Placing(t)' \in Nat
PROOF
  <1> DEFINE f == [u \in Threads |-> Placing(u)]
             g == [u \in Threads |-> Placing(u)']
  <1>1. \A u \in Threads : f[u] \in Nat
    BY PlacingTyped
  <1>2. Placing(t)' \in Nat
    <2>1. /\ rem'[t] \in Nat /\ sel'.assigned \in Nat /\ sel'.avail \in Nat
          /\ sel'.assigned + sel'.avail = sel'.given
          /\ pc'[t] = "select" => rem'[t] = sel'.given
      BY DEF SemInv, WQInv, TypeOK, Selections, SemTypeOK, CallsSound
    <2>2. sel'.phase = "notify" => sel'.cur \in Waiters
      BY DEF SemInv, WQInv, SelSound
    <2>3. \A w \in Waiters : Need(w)' = Need(w) /\ Need(w) \in Nat
      BY PriorityTyped DEF Need, SemInv, WQInv, TypeOK
    <2>4. sel'.phase = "notify" => Need(sel.cur)' \in Nat
      BY <2>2, <2>3 DEF Need
    <2> QED BY <2>1, <2>4 DEF Placing
  <1>3. ASSUME NEW u \in Threads \ {t}
        PROVE  g[u] = f[u]
    <2>1. /\ pc'[u] = pc[u] /\ rem'[u] = rem[u]
          /\ sel' = sel \/ pc[u] # "select"
      BY DEF OnlyActs
    <2> QED BY <2>1 DEF Placing, Need
  <1>4. SumOver(g, Threads) = SumOver(f, Threads) - f[t] + g[t]
    <2>1. g[t] \in Nat
      BY <1>2
    <2> HIDE DEF f, g
    <2> QED BY <1>1, <1>3, <2>1, ThreadsFinite, SumChange
  <1>5. InHand = SumOver(f, Threads) /\ InHand' = SumOver(g, Threads)
    BY DEF InHand
  <1> QED BY <1>2, <1>4, <1>5

LEMMA ReservedStays ==
  ASSUME req' = req,
         \A w \in Waiters : state'[w] = "NOTIFIED" <=> (state[w] = "NOTIFIED")
  PROVE  Reserved' = Reserved
PROOF
  <1>1. \A w \in Waiters : ReservedFor(w)' = ReservedFor(w)
    BY DEF ReservedFor, Need
  <1> QED BY <1>1 DEF Reserved

LEMMA ReservedChanges ==
  ASSUME SemInv, req' = req, NEW f \in Waiters,
         \A w \in Waiters \ {f} : state'[w] = "NOTIFIED" <=> (state[w] = "NOTIFIED")
  PROVE  Reserved' = Reserved - ReservedFor(f) + ReservedFor(f)'
PROOF
  <1> DEFINE r == [w \in Waiters |-> ReservedFor(w)]
             g == [w \in Waiters |-> ReservedFor(w)']
  <1>1. \A w \in Waiters : r[w] \in Nat
    BY ReservedTyped
  <1>2. g[f] \in Nat
    BY PriorityTyped DEF ReservedFor, Need, SemInv, WQInv, TypeOK
  <1>3. ASSUME NEW w \in Waiters \ {f}
        PROVE  g[w] = r[w]
    BY <1>3 DEF ReservedFor, Need
  <1>4. SumOver(g, Waiters) = SumOver(r, Waiters) - r[f] + g[f]
    <2> HIDE DEF r, g
    <2> QED BY <1>1, <1>2, <1>3, ThreadsFinite, SumChange
  <1>5. Reserved = SumOver(r, Waiters) /\ Reserved' = SumOver(g, Waiters)
    BY DEF Reserved
  <1> QED BY <1>4, <1>5

-----------------------------------------------------------------------------
(* The balance, when one thread moves permits.                             *)

LEMMA BalanceKept ==
  ASSUME SemInv, SemInv', Balance, NEW t \in Threads, OnlyActs(t), req' = req,
         \A w \in Waiters : state'[w] = "NOTIFIED" <=> (state[w] = "NOTIFIED"),
         permits' + held'[t] + Placing(t)' + leaked' - supply'
           = permits + held[t] + Placing(t) + leaked - supply
  PROVE  Balance'
PROOF
  <1>1. /\ Held' = Held - held[t] + held'[t]
        /\ InHand' = InHand - Placing(t) + Placing(t)'
        /\ Reserved' = Reserved
    BY HeldChanges, InHandChanges, ReservedStays
  <1>2. /\ Held \in Nat /\ InHand \in Nat /\ Reserved \in Nat
        /\ permits \in Nat /\ permits' \in Nat /\ leaked \in Nat /\ leaked' \in Nat
        /\ supply \in Int /\ supply' \in Int /\ held[t] \in Nat /\ held'[t] \in Nat
        /\ Placing(t) \in Nat
    BY SumsTyped, PlacingTyped DEF SemInv, SemTypeOK
  <1>3. Placing(t)' \in Nat
    BY InHandChanges
  <1>4. permits + Held + Reserved + InHand + leaked = supply
    BY DEF Balance
  <1>5. permits' + Held' + Reserved' + InHand' + leaked' = supply'
    BY ONLY <1>1, <1>2, <1>3, <1>4,
       permits' + held'[t] + Placing(t)' + leaked' - supply'
         = permits + held[t] + Placing(t) + leaked - supply
  <1> QED BY <1>5 DEF Balance

\* With the permits of one waiter.
LEMMA BalanceMoved ==
  ASSUME SemInv, SemInv', Balance, NEW t \in Threads, OnlyActs(t), req' = req,
         NEW f \in Waiters,
         \A w \in Waiters \ {f} : state'[w] = "NOTIFIED" <=> (state[w] = "NOTIFIED"),
         permits' + held'[t] + ReservedFor(f)' + Placing(t)' + leaked' - supply'
           = permits + held[t] + ReservedFor(f) + Placing(t) + leaked - supply
  PROVE  Balance'
PROOF
  <1>1. /\ Held' = Held - held[t] + held'[t]
        /\ InHand' = InHand - Placing(t) + Placing(t)'
        /\ Reserved' = Reserved - ReservedFor(f) + ReservedFor(f)'
    BY HeldChanges, InHandChanges, ReservedChanges
  <1>2. /\ Held \in Nat /\ InHand \in Nat /\ Reserved \in Nat
        /\ permits \in Nat /\ permits' \in Nat /\ leaked \in Nat /\ leaked' \in Nat
        /\ supply \in Int /\ supply' \in Int /\ held[t] \in Nat /\ held'[t] \in Nat
        /\ Placing(t) \in Nat /\ ReservedFor(f) \in Nat
    BY SumsTyped, PlacingTyped, ReservedTyped DEF SemInv, SemTypeOK
  <1>3. Placing(t)' \in Nat
    BY InHandChanges
  <1>4. ReservedFor(f)' \in Nat
    BY PriorityTyped DEF ReservedFor, Need, SemInv, WQInv, TypeOK
  <1>5. permits + Held + Reserved + InHand + leaked = supply
    BY DEF Balance
  <1>6. PICK h \in Int, i \in Int, r \in Int :
          /\ h = held'[t] - held[t]
          /\ i = Placing(t)' - Placing(t)
          /\ r = ReservedFor(f)' - ReservedFor(f)
    BY <1>2, <1>3, <1>4
  <1>7. Held' = Held + h /\ InHand' = InHand + i /\ Reserved' = Reserved + r
    BY <1>1, <1>2, <1>3, <1>4, <1>6
  <1>8. PICK x \in Int : x = permits + leaked - supply
    BY <1>2
  <1>9. PICK y \in Int : y = permits' + leaked' - supply'
    <2>1. permits' + leaked' - supply' \in Int
      BY ONLY <1>2
    <2> QED BY <2>1
  <1>10. PICK z \in Int : z = Held + Reserved + InHand
    BY <1>2
  <1>11. y + h + i + r = x
    <2>1. /\ held'[t] = held[t] + h /\ Placing(t)' = Placing(t) + i
          /\ ReservedFor(f)' = ReservedFor(f) + r
      BY <1>2, <1>3, <1>4, <1>6
    <2>2. PICK a \in Int : a = held[t] + Placing(t) + ReservedFor(f)
      BY <1>2
    <2>3. held'[t] + Placing(t)' + ReservedFor(f)' = a + h + i + r
      BY ONLY <1>2, <2>1, <2>2, h \in Int, i \in Int, r \in Int, a \in Int
    <2>4. y + (held'[t] + Placing(t)' + ReservedFor(f)') = x + a
      BY <1>2, <1>3, <1>4, <1>8, <1>9, <2>2
    <2> QED BY ONLY <2>3, <2>4, x \in Int, y \in Int, h \in Int, i \in Int, r \in Int,
                    a \in Int
  <1>12. x + z = 0
    BY <1>2, <1>5, <1>8, <1>10
  <1>13. Held' + Reserved' + InHand' = z + h + i + r
    BY ONLY <1>2, <1>7, <1>10, z \in Int, h \in Int, i \in Int, r \in Int
  <1>14. PICK b \in Int : b = Held' + Reserved' + InHand'
    BY <1>13
  <1>15. y + b = 0
    BY ONLY <1>11, <1>12, <1>13, <1>14, x \in Int, y \in Int, z \in Int, h \in Int,
            i \in Int, r \in Int, b \in Int
  <1>16. Held' \in Int /\ Reserved' \in Int /\ InHand' \in Int
    BY ONLY <1>2, <1>7, h \in Int, i \in Int, r \in Int
  <1>17. permits' + Held' + Reserved' + InHand' + leaked' = y + b + supply'
    BY ONLY <1>2, <1>9, <1>14, <1>16, y \in Int, b \in Int
  <1> QED BY <1>2, <1>15, <1>17 DEF Balance

LEMMA FutureBalance ==
  ASSUME SemInv, SemInv', OwnersSound, Balance, ~closed, NEW f \in Waiters,
         Poll(f) \/ PollSpuriously(f) \/ DropFuture(f)
  PROVE  Balance'
PROOF
  <1>1. /\ pc \in [Threads -> Places] /\ held \in [Threads -> Nat]
        /\ rem \in [Threads -> Nat] /\ permits \in Nat /\ leaked \in Nat
        /\ state \in [Waiters -> {"ABSENT", "WAITING", "NOTIFIED", "CANCELLED"}]
        /\ f \in Threads /\ Need(f) \in Nat /\ supply \in Int
    BY PriorityTyped DEF SemInv, WQInv, TypeOK, SemTypeOK, Threads
  <1>2. OnlyActs(f) /\ sel' = sel /\ \A w \in Waiters \ {f} : state'[w] = state[w]
    BY FutureActs
  <1>3. req' = req
    BY FutureQueueStep, QueueFrame DEF SemInv
  <1>4. /\ pc[f] \in PollPlaces /\ pc'[f] \in PollPlaces \cup {"idle"}
        /\ rem' = rem
    <2>1. CASE PollCheck(f) \/ PollAgain(f) \/ PollSpuriously(f)
      <3>1. LookAtState(f) /\ state[f] # "ABSENT"
        BY <2>1 DEF PollCheck, PollAgain, PollSpuriously, SemInv, CallsSound
      <3>2. pc'[f] \in {"idle", "setwaker"}
        BY <1>1, <3>1 DEF LookAtState, Resolve, Goto
      <3> QED BY <2>1, <3>2
              DEF PollCheck, PollAgain, PollSpuriously, PollPlaces, releaseVars
    <2> QED BY <1>1, <2>1
            DEF Poll, PollLoad, PollCas, PollCasFails, PollEnqueue, PollSetWaker,
                DropFuture, Resolve, Goto, PollPlaces, releaseVars
  <1>5. Placing(f)' = Placing(f)
    BY <1>4 DEF Placing, PollPlaces
  <1>6. held[f] = 0 /\ (pc[f] = "cas" => state[f] = "ABSENT")
    BY <1>4 DEF OwnersSound
  <1>7. permits' + held'[f] + ReservedFor(f)' + leaked'
          = permits + held[f] + ReservedFor(f) + leaked
        /\ supply' = supply
    <2>0. Need(f)' = Need(f)
      BY <1>3 DEF Need
    <2> USE DEF ReservedFor, Resolve, wordVars, wqVars
    <2>1. CASE PollLoad(f)
      BY <1>1, <1>6, <2>0, <2>1 DEF PollLoad
    <2>2. CASE PollCas(f)
      <3>1. /\ permits' = permits - Need(f) /\ held'[f] = Need(f)
            /\ state' = state /\ leaked' = leaked /\ supply' = supply
        BY <1>1, <2>2 DEF PollCas
      <3> QED BY <1>1, <1>6, <2>0, <2>2, <3>1 DEF PollCas
    <2>3. CASE PollCasFails(f)
      BY <1>1, <2>0, <2>3 DEF PollCasFails
    <2>4. CASE PollEnqueue(f)
      BY <1>1, <2>0, <2>4 DEF PollEnqueue, PushWaiter
    <2>5. CASE PollCheck(f) \/ PollAgain(f) \/ PollSpuriously(f)
      <3>1. /\ LookAtState(f) /\ state[f] # "ABSENT"
            /\ permits' = permits /\ leaked' = leaked /\ supply' = supply
        BY <2>5 DEF PollCheck, PollAgain, PollSpuriously, SemInv, CallsSound
      <3>2. state[f] \in {"WAITING", "NOTIFIED", "CANCELLED"}
        BY <3>1, StateKinds
      <3>3. CASE state[f] = "CANCELLED"
        BY <1>1, <1>6, <2>0, <3>1, <3>3 DEF LookAtState
      <3>4. CASE state[f] = "WAITING"
        BY <1>1, <2>0, <3>1, <3>4 DEF LookAtState
      <3>5. CASE state[f] = "NOTIFIED"
        <4>1. held'[f] = Need(f) /\ state'[f] = "CANCELLED"
          BY <1>1, <3>1, <3>5 DEF LookAtState, Cancel, CancelState
        <4> QED BY <1>1, <1>6, <2>0, <3>1, <3>5, <4>1
      <3> QED BY <3>2, <3>3, <3>4, <3>5
    <2>6. CASE PollSetWaker(f)
      BY <1>1, <2>0, <2>6 DEF PollSetWaker, SetWaker
    <2>7. CASE DropFuture(f)
      BY <1>1, <2>0, <2>7 DEF DropFuture, Cancel, CancelState
    <2> QED BY <2>1, <2>2, <2>3, <2>4, <2>5, <2>6, <2>7 DEF Poll
  <1>8. Placing(f) \in Nat /\ ReservedFor(f) \in Nat
    BY PlacingTyped, ReservedTyped, <1>1
  <1>9. /\ permits' \in Nat /\ held'[f] \in Nat /\ leaked' \in Nat
        /\ held[f] \in Nat
    BY <1>1 DEF SemInv, SemTypeOK
  <1>10. ReservedFor(f)' \in Nat
    BY <1>1, <1>3 DEF ReservedFor, Need, SemInv, WQInv, TypeOK
  <1>11. permits' + held'[f] + ReservedFor(f)' + Placing(f)' + leaked' - supply'
           = permits + held[f] + ReservedFor(f) + Placing(f) + leaked - supply
    BY ONLY <1>1, <1>5, <1>7, <1>8, <1>9, <1>10
  <1> QED BY <1>1, <1>2, <1>3, <1>11, BalanceMoved

LEMMA CallBalance ==
  ASSUME SemInv, SemInv', OwnersSound, Balance, ~closed,
         NEW t \in Threads, NEW n \in 1..MaxGrant,
         \/ DropPermit(t, n) \/ ForgetPermit(t, n)
         \/ t \in Callers /\ Call(t, n)
  PROVE  Balance'
PROOF
  <1>1. /\ pc \in [Threads -> Places] /\ held \in [Threads -> Nat]
        /\ rem \in [Threads -> Nat] /\ permits \in Nat /\ leaked \in Nat
        /\ supply \in Int /\ n \in Nat
    <2>1. n \in Nat
      BY WaitQueueAssumption
    <2> QED BY <2>1 DEF SemInv, SemTypeOK
  <1>2. OnlyActs(t) /\ sel' = sel /\ state' = state /\ req' = req
    BY CallActs, CallQueueStep DEF wqVars
  <1>3. pc[t] = "idle" /\ pc'[t] \in {"idle", "lock"}
    BY <1>1 DEF DropPermit, ForgetPermit, Call, AddPermits, TryAcquireMany, ForgetPermits, Goto
  <1>4. rem[t] = 0
    BY <1>1, <1>3 DEF OwnersSound, ReleasePlaces
  <1>5. Placing(t) = rem[t] /\ Placing(t)' = rem'[t]
    BY <1>3 DEF Placing
  <1>6. /\ leaked' = leaked
        /\ permits' + held'[t] + rem'[t] - supply' = permits + held[t] + rem[t] - supply
    <2>1. CASE DropPermit(t, n)
      <3>1. /\ held'[t] = held[t] - n /\ rem'[t] = n /\ permits' = permits
            /\ supply' = supply /\ leaked' = leaked
        BY <1>1, <2>1 DEF DropPermit, wordVars
      <3> QED BY <1>1, <1>4, <3>1
    <2>2. CASE ForgetPermit(t, n)
      <3>1. /\ held'[t] = held[t] - n /\ rem' = rem /\ permits' = permits
            /\ supply' = supply - n /\ leaked' = leaked
        BY <1>1, <2>2 DEF ForgetPermit, releaseVars
      <3> QED BY <1>1, <3>1
    <2>3. CASE AddPermits(t, n)
      <3>1. /\ held' = held /\ rem'[t] = n /\ permits' = permits
            /\ supply' = supply + n /\ leaked' = leaked
        BY <1>1, <2>3 DEF AddPermits
      <3> QED BY <1>1, <1>4, <3>1
    <2>4. CASE TryAcquireMany(t, n)
      <3>1. /\ held'[t] = held[t] + n /\ rem' = rem /\ permits' = permits - n
            /\ supply' = supply /\ leaked' = leaked
        BY <1>1, <2>4 DEF TryAcquireMany, releaseVars
      <3> QED BY <1>1, <3>1
    <2>5. CASE ForgetPermits(t, n)
      <3>1. PICK k \in 1..n : permits' = permits - k /\ supply' = supply - k
        BY <2>5 DEF ForgetPermits
      <3>2. held' = held /\ rem' = rem /\ leaked' = leaked /\ k \in Int
        BY <2>5, <1>1 DEF ForgetPermits, releaseVars
      <3> QED BY <1>1, <3>1, <3>2
    <2> QED BY <2>1, <2>2, <2>3, <2>4, <2>5 DEF Call
  <1>7. /\ permits' \in Nat /\ held'[t] \in Nat /\ rem'[t] \in Nat
        /\ supply' \in Int /\ held[t] \in Nat /\ rem[t] \in Nat
    BY <1>1 DEF SemInv, SemTypeOK
  <1>8. permits' + held'[t] + Placing(t)' + leaked' - supply'
          = permits + held[t] + Placing(t) + leaked - supply
    BY ONLY <1>1, <1>5, <1>6, <1>7
  <1> QED BY <1>2, <1>8, BalanceKept

LEMMA CloseBalance ==
  ASSUME SemInv, SemInv', Balance, NEW c \in Callers, CloseSetsBit(c) \/ Closing(c)
  PROVE  Balance'
PROOF
  <1>1. /\ c \in Threads
        /\ OnlyActs(c) /\ held' = held /\ rem' = rem /\ sel' = sel
        /\ \A w \in Waiters : state'[w] = state[w] \/ state'[w] = "CANCELLED"
        /\ \A w \in Waiters : state'[w] # state[w] => state[w] = "WAITING"
    BY CloseActs DEF Threads
  <1>2. req' = req
    BY CloseQueueStep, QueueFrame DEF SemInv
  <1>3. /\ permits' = permits /\ supply' = supply /\ leaked' = leaked
        /\ pc[c] # "select" /\ pc'[c] # "select"
    BY <1>1 DEF CloseSetsBit, Closing, CloseLocks, CloseDrains, CloseUnlocks, wordVars,
       Goto, SemInv, SemTypeOK
  <1>4. Placing(c)' = Placing(c)
    BY <1>1, <1>3 DEF Placing
  <1>5. \A w \in Waiters : state'[w] = "NOTIFIED" <=> (state[w] = "NOTIFIED")
    BY <1>1
  <1> QED BY <1>1, <1>2, <1>3, <1>4, <1>5, BalanceKept

LEMMA ReleaseBalance ==
  ASSUME SemInv, SemInv', OwnersSound, Balance, ~closed, NEW t \in Threads, Release(t)
  PROVE  Balance'
PROOF
  <1>1. /\ pc \in [Threads -> Places] /\ held \in [Threads -> Nat]
        /\ rem \in [Threads -> Nat] /\ permits \in Nat /\ leaked \in Nat
        /\ supply \in Int /\ WQInv /\ SemTypeOK /\ CallsSound
        /\ sel.assigned \in Nat /\ sel.given \in Nat /\ sel.avail \in Nat
        /\ sel \in Selections
    BY DEF SemInv, SemTypeOK, WQInv, TypeOK, Selections
  <1>2. OnlyActs(t) /\ held' = held
    BY ReleaseActs
  <1>3. /\ req' = req /\ \A w \in Waiters : Need(w)' = Need(w)
    BY ReleaseQueueStep, QueueFrame DEF SemInv, Need
  <1>4. held[t] \in Nat /\ rem[t] \in Nat /\ Placing(t) \in Nat
    BY <1>1, PlacingTyped
  <1>5. ASSUME state' = state, leaked' = leaked, supply' = supply,
               permits' + Placing(t)' = permits + Placing(t)
        PROVE  Balance'
    <2>1. permits' \in Nat /\ Placing(t)' \in Nat
      BY <1>2, <1>3, InHandChanges DEF SemInv, SemTypeOK
    <2>2. permits' + held'[t] + Placing(t)' + leaked' - supply'
            = permits + held[t] + Placing(t) + leaked - supply
      BY ONLY <1>1, <1>2, <1>4, <1>5, <2>1
    <2> QED BY <1>2, <1>3, <1>5, <2>2, BalanceKept
  <1>6. CASE ReleaseLocks(t)
    <2>1. /\ state' = state /\ leaked' = leaked /\ supply' = supply /\ permits' = permits
          /\ rem' = rem /\ pc[t] = "lock"
      BY <1>6 DEF ReleaseLocks, wordVars, releaseVars, wqVars, SelectWaiters, SelectNothing,
         SelectSingle, SelectMulti
    <2>2. Placing(t)' = rem[t]
      <3>1. CASE total = 0
        BY <1>1, <1>6, <2>1, <3>1 DEF ReleaseLocks, Goto, Placing
      <3>2. CASE total # 0
        <4>1. SelectWaiters(rem[t]) /\ pc'[t] = "select"
          BY <1>1, <1>6, <3>2 DEF ReleaseLocks, Goto
        <4>2. SelInit \in Selections /\ SelInit.assigned = 0
          BY SelInitTyped DEF SelInit
        <4>3. sel'.assigned = 0 /\ sel'.phase # "notify"
          BY <4>1, <4>2
          DEF SelectWaiters, SelectNothing, SelectSingle, SelectMulti, Selections
        <4> QED BY <1>4, <2>1, <4>1, <4>3 DEF Placing
      <3> QED BY <3>1, <3>2
    <2>3. Placing(t) = rem[t]
      BY <2>1 DEF Placing
    <2> QED BY <1>5, <2>1, <2>2, <2>3
  <1>7. CASE ReleaseSelects(t)
    <2>1. /\ SelectStep /\ pc[t] = "select" /\ pc' = pc /\ rem' = rem
          /\ permits' = permits /\ supply' = supply
          /\ leaked' = leaked + (IF sel.phase = "notify" /\ IsCancelled(sel.cur)
                                   THEN Need(sel.cur) ELSE 0)
      BY <1>7 DEF ReleaseSelects, releaseVars
    <2>2. ASSUME sel.phase # "notify", sel'.phase # "notify",
                 sel'.assigned = sel.assigned, state' = state
          PROVE  Balance'
      <3>1. Placing(t)' = Placing(t)
        BY <2>1, <2>2 DEF Placing
      <3>2. leaked' = leaked
        BY <1>1, <2>1, <2>2
      <3> QED BY <1>5, <2>1, <2>2, <3>1, <3>2
    <2>3. CASE DropCancelledFront
      BY <2>2, <2>3 DEF DropCancelledFront, Loops
    <2>4. CASE PopToNotify
      <3>1. Queue \in Seq(Waiters) /\ Queue # <<>>
        BY <1>1, <2>4, LoopFacts DEF PopToNotify, MayContinue
      <3>2. FrontWaiter \in Waiters
        BY <3>1 DEF FrontWaiter
      <3>3. PICK n \in Nat : n = Need(FrontWaiter)
        BY <1>1, <3>2, PriorityTyped DEF WQInv, TypeOK
      <3>4. /\ sel.phase # "notify" /\ sel'.phase = "notify" /\ sel'.cur = FrontWaiter
            /\ sel'.assigned = sel.assigned + n /\ state' = state
        BY ONLY <1>1, <2>4, <3>3 DEF PopToNotify, Selections, Loops
      <3>5. Need(sel.cur)' = n
        BY <1>3, <3>3, <3>4 DEF Need
      <3>6. Placing(t)' = rem[t] - (sel.assigned + n) + n
        BY <2>1, <3>4, <3>5 DEF Placing
      <3>7. Placing(t) = rem[t] - sel.assigned
        BY <1>1, <1>4, <2>1, <3>4 DEF Placing
      <3>8. leaked' = leaked
        BY <1>1, <2>1, <3>4
      <3>9. Placing(t)' = Placing(t)
        BY <1>1, <1>4, <3>6, <3>7
      <3> QED BY <1>5, <2>1, <3>4, <3>8, <3>9
    <2>5. CASE Notify \/ NotifyFails
      <3>1. /\ sel.phase = "notify" /\ sel.cur \in Waiters
            /\ state[sel.cur] \in {"WAITING", "CANCELLED"}
            /\ state \in [Waiters -> {"ABSENT", "WAITING", "NOTIFIED", "CANCELLED"}]
        BY <1>1, <2>5 DEF Notify, NotifyFails, WQInv, SelSound, PlacesSound, TypeOK
      <3>2. PICK n \in Nat : n = Need(sel.cur)
        BY <1>1, <3>1, PriorityTyped DEF WQInv, TypeOK
      <3>3. sel'.phase # "notify" /\ sel'.assigned = sel.assigned
        BY <1>1, <2>5 DEF Notify, NotifyFails, Selections, Loops
      <3>4. Placing(t)' = rem[t] - sel.assigned /\ Placing(t) = rem[t] - sel.assigned + n
        BY <1>1, <1>4, <2>1, <3>1, <3>2, <3>3 DEF Placing
      <3>5. /\ leaked' = leaked + (IF IsCancelled(sel.cur) THEN n ELSE 0)
        BY <2>1, <3>1, <3>2
      <3>6. /\ ReservedFor(sel.cur) = 0
            /\ \A w \in Waiters \ {sel.cur} : state'[w] = state[w]
            /\ state'[sel.cur] = "NOTIFIED" <=> ~IsCancelled(sel.cur)
            /\ state'[sel.cur] = "NOTIFIED" \/ state'[sel.cur] = "CANCELLED"
        BY <2>5, <3>1 DEF Notify, NotifyFails, TryNotify, ReservedFor, IsCancelled
      <3>7. PICK w \in Waiters : w = sel.cur
        BY <3>1
      <3>8. ReservedFor(w)' = IF IsCancelled(w) THEN 0 ELSE n
        BY <1>3, <3>2, <3>6, <3>7 DEF ReservedFor
      <3>9. ReservedFor(w) = 0 /\ leaked' = leaked + (IF IsCancelled(w) THEN n ELSE 0)
        BY <3>5, <3>6, <3>7
      <3>10. permits' + held'[t] + ReservedFor(w)' + Placing(t)' + leaked' - supply'
               = permits + held[t] + ReservedFor(w) + Placing(t) + leaked - supply
        <4>1. CASE IsCancelled(w)
          BY ONLY <1>1, <1>2, <1>4, <2>1, <3>4, <3>8, <3>9, <4>1, n \in Nat
        <4>2. CASE ~IsCancelled(w)
          BY ONLY <1>1, <1>2, <1>4, <2>1, <3>4, <3>8, <3>9, <4>2, n \in Nat
        <4> QED BY <4>1, <4>2
      <3> QED BY <1>2, <1>3, <3>6, <3>7, <3>10, BalanceMoved
    <2>6. CASE TakeWaker \/ SingleEnds \/ OuterEnds \/ InnerEnds \/ RetainEnds
      BY <1>1, <2>2, <2>6
      DEF TakeWaker, SingleEnds, OuterEnds, InnerEnds, RetainEnds, Selections, Loops
    <2>7. CASE OuterVisits
      BY <1>1, <2>2, <2>7 DEF OuterVisits, Selections
    <2>8. CASE RetainStep
      <3>1. sel.idx \in Nat /\ sel.removed \in Nat
        BY <1>1 DEF Selections
      <3>2. PICK i \in Nat, r \in Nat : i = sel.idx + 1 /\ r = sel.removed + 1
        BY <3>1
      <3>3. sel' = [sel EXCEPT !.removed = r] \/ sel' = [sel EXCEPT !.idx = i]
        BY ONLY <2>8, <3>2 DEF RetainStep
      <3>4. sel.phase = "retain" /\ state' = state
        BY <2>8 DEF RetainStep
      <3>5. sel'.phase = "retain" /\ sel'.assigned = sel.assigned
        BY ONLY <1>1, <3>3, <3>4 DEF Selections
      <3> QED BY <2>2, <3>4, <3>5
    <2> QED BY <2>1, <2>3, <2>4, <2>5, <2>6, <2>7, <2>8 DEF SelectStep
  <1>8. CASE ReleaseUnlocks(t)
    <2>1. /\ pc[t] = "select" /\ sel.phase = "done" /\ pc'[t] # "select"
          /\ rem'[t] = rem[t] - sel.assigned /\ state' = state /\ leaked' = leaked
          /\ permits' = permits /\ supply' = supply
      BY <1>1, <1>8 DEF ReleaseUnlocks, SelectReturns, RemCharged, AfterBatch, Goto, wordVars
    <2>2. Placing(t)' = Placing(t)
      BY <1>1, <1>4, <2>1 DEF Placing
    <2> QED BY <1>5, <2>1, <2>2
  <1>9. CASE ReleaseMayWake(t) \/ ReleaseWakes(t)
    <2>1. /\ pc[t] # "select" /\ pc'[t] # "select" /\ rem' = rem /\ state' = state
          /\ permits' = permits /\ supply' = supply /\ leaked' = leaked
      BY <1>1, <1>9 DEF ReleaseMayWake, ReleaseWakes, AfterBatch, Goto, wordVars,
         releaseVars, wqVars
    <2>2. Placing(t)' = Placing(t)
      BY <2>1 DEF Placing
    <2> QED BY <1>5, <2>1, <2>2
  <1>10. CASE ReleaseFetchAdd(t)
    <2>1. /\ pc[t] # "select" /\ pc'[t] # "select" /\ rem'[t] = 0 /\ state' = state
          /\ permits' = permits + rem[t] /\ supply' = supply /\ leaked' = leaked
      BY <1>1, <1>10 DEF ReleaseFetchAdd, Goto, wqVars
    <2>2. Placing(t) = rem[t] /\ Placing(t)' = 0
      BY <2>1 DEF Placing
    <2> QED BY <1>1, <1>4, <1>5, <2>1, <2>2
  <1>11. CASE ReleaseGivesBack(t)
    BY <1>11 DEF ReleaseGivesBack
  <1> QED BY <1>6, <1>7, <1>8, <1>9, <1>10, <1>11 DEF Release

LEMMA BalanceNext ==
  SemInv /\ OwnersSound /\ Conservation /\ [Next]_vars => Conservation'
PROOF
  <1> SUFFICES ASSUME SemInv, OwnersSound, Conservation, [Next]_vars, ~closed'
               PROVE  Balance'
    BY DEF Conservation
  <1>1. SemInv'
    BY SemNextInv
  <1>2. CASE UNCHANGED vars
    <2>1. Balance
      BY <1>2 DEF vars, semVars, Conservation
    <2>2. /\ \A f \in Waiters : ReservedFor(f)' = ReservedFor(f)
          /\ \A t \in Threads : Placing(t)' = Placing(t)
      BY <1>2 DEF vars, semVars, wqVars, ReservedFor, Placing, Need
    <2> QED BY <1>2, <2>1, <2>2 DEF vars, semVars, Balance, Held, Reserved, InHand
  <1>3. CASE Next
    <2>1. ~closed
      BY <1>1, <1>3, FutureQuiet, ReleaseQuiet, CallQuiet, CloseQuiet
      DEF Next, QuietStep, Closing, CloseLocks, CloseSetsBit, wordVars, Threads
    <2>2. Balance
      BY <2>1 DEF Conservation
    <2>3. CASE \E c \in Callers, n \in 1..MaxGrant : Call(c, n)
      BY <1>1, <2>1, <2>2, <2>3, CallBalance DEF Threads
    <2>4. CASE \E t \in Threads, n \in 1..MaxGrant :
                 DropPermit(t, n) \/ ForgetPermit(t, n)
      BY <1>1, <2>1, <2>2, <2>4, CallBalance
    <2>5. CASE \E f \in Waiters : Poll(f) \/ PollSpuriously(f) \/ DropFuture(f)
      BY <1>1, <2>1, <2>2, <2>5, FutureBalance
    <2>6. CASE \E t \in Threads : Release(t)
      BY <1>1, <2>1, <2>2, <2>6, ReleaseBalance
    <2>7. CASE \E c \in Callers : CloseSetsBit(c) \/ Closing(c)
      BY <1>1, <2>2, <2>7, CloseBalance
    <2> QED BY <1>3, <2>3, <2>4, <2>5, <2>6, <2>7 DEF Next
  <1> QED BY <1>2, <1>3

LEMMA BalanceInit == Init => Conservation
PROOF
  <1> SUFFICES ASSUME Init
               PROVE  Balance
    BY DEF Conservation
  <1>1. SemInv
    BY SemInitInv
  <1>2. Held = 0
    BY SumZero DEF Held, Init
  <1>3. Reserved = 0
    <2>1. \A f \in Waiters : ReservedFor(f) = 0
      BY DEF ReservedFor, Init, WQInit
    <2> QED BY <2>1, SumZero DEF Reserved
  <1>4. InHand = 0
    <2>1. \A t \in Threads : Placing(t) = 0
      BY DEF Placing, Init
    <2> QED BY <2>1, SumZero DEF InHand
  <1>5. permits \in Nat /\ leaked = 0 /\ supply = permits
    BY <1>1 DEF SemInv, SemTypeOK, Init
  <1> QED BY <1>2, <1>3, <1>4, <1>5 DEF Balance

(* While the semaphore is open no permit is handed out twice and none is   *)
(* lost, for any number of threads, priorities and permits: what is        *)
(* available, held, reserved, about to be placed or leaked by an owner     *)
(* that gave up is what was created.                                       *)
THEOREM PermitsConserved == Spec => []Conservation
PROOF BY BalanceInit, BalanceNext, OwnersCorrect, SemInvariance, PTL DEF Spec

(* Nobody is given permits after close(), by no call that began before.    *)
THEOREM NoIssueAfterClose == Spec => ClosedIssuesNothing
PROOF
  <1>1. SemInv /\ OwnersSound /\ [Next]_vars
          => [closed => \A t \in Threads : held'[t] <= held[t]]_vars
    <2> SUFFICES ASSUME SemInv, OwnersSound, Next, closed, NEW u \in Threads
                 PROVE  held'[u] <= held[u]
      OBVIOUS
    <2>1. \A t \in Threads : held[t] \in Nat /\ held[t] <= held[t]
      BY DEF SemInv, SemTypeOK
    <2>2. held \in [Threads -> Nat]
      BY DEF SemInv, SemTypeOK
    <2>3. ASSUME NEW f \in Waiters, Poll(f) \/ PollSpuriously(f) \/ DropFuture(f)
          PROVE  held'[u] <= held[u]
      <3>1. held'[f] \in {held[f], 0}
        <4>1. f \in Threads
          BY DEF Threads
        <4>2. CASE PollCheck(f) \/ PollAgain(f) \/ PollSpuriously(f)
          <5>1. LookAtState(f) /\ state[f] # "ABSENT"
            BY <4>2 DEF PollCheck, PollAgain, PollSpuriously, SemInv, CallsSound
          <5>2. state[f] \in {"WAITING", "NOTIFIED", "CANCELLED"}
            BY <5>1, StateKinds
          <5> QED BY <2>2, <4>1, <5>1, <5>2 DEF LookAtState, Resolve
        <4> QED BY <2>2, <2>3, <4>1, <4>2
                DEF Poll, PollLoad, PollCas, PollCasFails, PollEnqueue, PollSetWaker,
                    DropFuture, WordIsOld, Resolve
      <3>2. u # f => held'[u] = held[u]
        BY <2>3, FutureActs DEF OnlyActs
      <3> QED BY <2>1, <3>1, <3>2
    <2>4. ASSUME NEW t \in Threads, NEW n \in 1..MaxGrant,
                 DropPermit(t, n) \/ ForgetPermit(t, n) \/ Call(t, n)
          PROVE  held'[u] <= held[u]
      <3>1. n \in Nat
        BY WaitQueueAssumption
      <3>2. CASE DropPermit(t, n) \/ ForgetPermit(t, n)
        <4>1. held' = [held EXCEPT ![t] = held[t] - n]
          BY <3>2 DEF DropPermit, ForgetPermit
        <4> QED BY <2>1, <2>2, <3>1, <4>1
      <3>3. CASE Call(t, n)
        BY <2>1, <3>3 DEF Call, AddPermits, TryAcquireMany, MayTryAcquire, ForgetPermits
      <3> QED BY <2>4, <3>2, <3>3
    <2>5. ASSUME NEW t \in Threads, Release(t)
          PROVE  held'[u] <= held[u]
      BY <2>1, <2>5, ReleaseActs
    <2>6. ASSUME NEW c \in Callers, CloseSetsBit(c) \/ Closing(c)
          PROVE  held'[u] <= held[u]
      BY <2>1, <2>6, CloseActs
    <2> QED BY <2>3, <2>4, <2>5, <2>6 DEF Next, Threads
  <1> QED BY <1>1, OwnersCorrect, SemInvariance, PTL DEF Spec, ClosedIssuesNothing

(* A future whose owner gave it up is never given permits, even if it was  *)
(* popped and charged before it was dropped.                               *)
THEOREM DroppedGetNothing == Spec => NoGrantToDropped
PROOF
  <1>1. SemInv /\ OwnersSound /\ OwnersSound' /\ [Next]_vars
          => [\A f \in Waiters :
                outcome[f] = "dropped" => state'[f] \in {"ABSENT", "CANCELLED"}]_vars
    <2> SUFFICES ASSUME SemInv, OwnersSound, OwnersSound', Next,
                        NEW f \in Waiters, outcome[f] = "dropped"
                 PROVE  state'[f] \in {"ABSENT", "CANCELLED"}
      OBVIOUS
    <2>1. pc[f] \notin PollPlaces /\ state[f] \in {"ABSENT", "CANCELLED"}
      BY DEF OwnersSound
    <2>2. ASSUME NEW g \in Waiters, Poll(g) \/ PollSpuriously(g) \/ DropFuture(g)
          PROVE  state'[f] = state[f]
      <3>1. pc[g] \in PollPlaces
        BY <2>2 DEF Poll, PollLoad, PollCas, PollCasFails, PollEnqueue, PollCheck,
           PollAgain, PollSetWaker, PollSpuriously, DropFuture, PollPlaces
      <3> QED BY <2>1, <2>2, <3>1, FutureActs
    <2>3. ASSUME NEW t \in Threads, NEW n \in 1..MaxGrant,
                 DropPermit(t, n) \/ ForgetPermit(t, n) \/ Call(t, n)
          PROVE  state'[f] = state[f]
      BY <2>3, CallActs
    <2>4. ASSUME NEW t \in Threads, Release(t)
          PROVE  state'[f] = state[f]
      BY <2>1, <2>4, ReleaseActs DEF SettledStay
    <2>5. ASSUME NEW c \in Callers, CloseSetsBit(c) \/ Closing(c)
          PROVE  state'[f] = state[f] \/ state'[f] = "CANCELLED"
      BY <2>5, CloseActs
    <2> QED BY <2>1, <2>2, <2>3, <2>4, <2>5 DEF Next, Threads
  <1> QED BY <1>1, OwnersCorrect, SemInvariance, PTL DEF Spec, NoGrantToDropped

-----------------------------------------------------------------------------
(* The counting semaphore.                                                 *)

LEMMA InUseIsHeld == Counting!InUse = Held
PROOF
  <1>1. Counting!Pile(held, Threads) = Pile(held, Threads)
    BY DEF Counting!Pile, Pile
  <1>2. \A S : Counting!Cardinality(S) = Cardinality(S)
    BY DEF Counting!Cardinality, Cardinality
  <1> QED BY <1>1, <1>2 DEF Counting!InUse, Counting!SumOver, Held, SumOver

\* While the semaphore is open, what is not held covers what is available and
\* what is reserved.
LEMMA Available ==
  ASSUME SemInv, Balance
  PROVE  permits + Reserved <= supply - Held
PROOF
  <1>1. /\ permits \in Nat /\ leaked \in Nat /\ supply \in Int
        /\ Held \in Nat /\ Reserved \in Nat /\ InHand \in Nat
    BY SumsTyped DEF SemInv, SemTypeOK
  <1> QED BY ONLY <1>1, Balance DEF Balance

LEMMA AcquireMaps ==
  ASSUME SemInv, Balance, ~closed, NEW t \in Threads, NEW n \in Nat,
         n <= permits + Reserved, held' = [held EXCEPT ![t] = held[t] + n],
         closed' = closed, supply' = supply
  PROVE  [Counting!Next]_Counting!vars
PROOF
  <1>1. /\ permits \in Nat /\ supply \in Int /\ Held \in Nat /\ Reserved \in Nat
        /\ held \in [Threads -> Nat]
    BY SumsTyped DEF SemInv, SemTypeOK
  <1>2. CASE n = 0
    <2>1. held' = held
      BY <1>1, <1>2
    <2> QED BY <2>1 DEF Counting!vars
  <1>3. CASE n # 0
    <2>1. n <= supply - Held
      BY <1>1, Available
    <2>2. n \in 1..(supply - Counting!InUse)
      BY <1>1, <1>3, <2>1, InUseIsHeld
    <2> QED BY <2>2 DEF Counting!Next, Counting!Acquire
  <1> QED BY <1>2, <1>3

LEMMA FutureMaps ==
  ASSUME SemInv, OwnersSound, Conservation, NEW f \in Waiters,
         Poll(f) \/ PollSpuriously(f) \/ DropFuture(f)
  PROVE  [Counting!Next]_Counting!vars
PROOF
  <1>1. /\ held \in [Threads -> Nat] /\ f \in Threads /\ Need(f) \in Nat
        /\ permits \in Nat /\ Reserved \in Nat /\ ReservedFor(f) <= Reserved
    BY PriorityTyped, SumsTyped DEF SemInv, WQInv, TypeOK, SemTypeOK, Threads
  <1>2. pc[f] \in PollPlaces
    BY DEF Poll, PollLoad, PollCas, PollCasFails, PollEnqueue, PollCheck, PollAgain,
       PollSetWaker, PollSpuriously, DropFuture, PollPlaces
  <1>3. held[f] = 0
    BY <1>2 DEF OwnersSound
  <1>4. closed' = closed /\ supply' = supply
    BY DEF Poll, PollLoad, PollCas, PollCasFails, PollEnqueue, PollCheck, PollAgain,
       PollSetWaker, PollSpuriously, DropFuture, wordVars
  <1>5. ASSUME held' = held \/ held' = [held EXCEPT ![f] = 0]
        PROVE  [Counting!Next]_Counting!vars
    <2>1. held' = held
      BY <1>1, <1>3, <1>5
    <2> QED BY <1>4, <2>1 DEF Counting!vars
  <1>6. ASSUME NEW n \in Nat, n = Need(f), n <= permits + Reserved, ~closed,
               held' = [held EXCEPT ![f] = n]
        PROVE  [Counting!Next]_Counting!vars
    <2>1. held' = [held EXCEPT ![f] = held[f] + n]
      <3>1. held[f] + n = n
        BY <1>3, <1>6
      <3> QED BY ONLY <1>6, <3>1
    <2> QED BY <1>4, <1>6, <2>1, AcquireMaps, <1>1 DEF Conservation
  <1>7. CASE PollCas(f)
    <2>1. /\ ~closed /\ held' = [held EXCEPT ![f] = Need(f)]
          /\ Need(f) <= permits
      BY <1>7 DEF PollCas, Resolve, WordIsOld, SemInv, CallsSound
    <2>2. Need(f) <= permits + Reserved
      BY ONLY <1>1, <2>1
    <2> QED BY <1>1, <1>6, <2>1, <2>2
  <1>8. CASE PollCheck(f) \/ PollAgain(f) \/ PollSpuriously(f)
    <2>1. LookAtState(f) /\ state[f] # "ABSENT"
      BY <1>8 DEF PollCheck, PollAgain, PollSpuriously, SemInv, CallsSound
    <2>2. state[f] \in {"WAITING", "NOTIFIED", "CANCELLED"}
      BY <2>1, StateKinds
    <2>3. CASE state[f] # "NOTIFIED" \/ closed
      BY <1>5, <2>1, <2>2, <2>3 DEF LookAtState, Resolve
    <2>4. CASE state[f] = "NOTIFIED" /\ ~closed
      <3>1. held' = [held EXCEPT ![f] = Need(f)]
        BY <2>1, <2>4 DEF LookAtState, Resolve
      <3>2. Need(f) <= permits + Reserved
        BY <1>1, <2>4 DEF ReservedFor
      <3> QED BY <1>1, <1>6, <2>4, <3>1, <3>2
    <2> QED BY <2>3, <2>4
  <1> QED BY <1>5, <1>7, <1>8
          DEF Poll, PollLoad, PollCasFails, PollEnqueue, PollSetWaker, DropFuture, Resolve

LEMMA CallMaps ==
  ASSUME SemInv, Conservation, NEW t \in Threads, NEW n \in 1..MaxGrant,
         DropPermit(t, n) \/ ForgetPermit(t, n) \/ Call(t, n)
  PROVE  [Counting!Next]_Counting!vars
PROOF
  <1>1. /\ permits \in Nat /\ supply \in Int /\ Held \in Nat /\ Reserved \in Nat
        /\ n \in Nat /\ n > 0
    BY SumsTyped, WaitQueueAssumption DEF SemInv, SemTypeOK
  <1>2. CASE DropPermit(t, n)
    <2>1. n \in 1..held[t] /\ held' = [held EXCEPT ![t] = @ - n]
          /\ closed' = closed /\ supply' = supply
      BY <1>2 DEF DropPermit, wordVars
    <2> QED BY <2>1 DEF Counting!Next, Counting!Drop
  <1>3. CASE ForgetPermit(t, n)
    <2>1. n \in 1..held[t] /\ held' = [held EXCEPT ![t] = @ - n]
          /\ closed' = closed /\ supply' = supply - n
      BY <1>3 DEF ForgetPermit
    <2> QED BY <2>1 DEF Counting!Next, Counting!Forget
  <1>4. CASE AddPermits(t, n)
    <2>1. supply' > supply /\ held' = held /\ closed' = closed
      BY <1>1, <1>4 DEF AddPermits
    <2> QED BY <2>1 DEF Counting!Next, Counting!Add
  <1>5. CASE TryAcquireMany(t, n)
    <2>1. /\ ~closed /\ n <= permits /\ held' = [held EXCEPT ![t] = held[t] + n]
          /\ closed' = closed /\ supply' = supply
      BY <1>1, <1>5 DEF TryAcquireMany, MayTryAcquire
    <2>2. n <= permits + Reserved
      BY <1>1, <2>1
    <2> QED BY <1>1, <2>1, <2>2, AcquireMaps DEF Conservation
  <1>6. CASE ForgetPermits(t, n)
    <2>1. PICK k \in 1..n : /\ k = IF n <= permits THEN n ELSE permits
                            /\ permits' = permits - k /\ supply' = supply - k
      BY <1>6 DEF ForgetPermits
    <2>2. held' = held /\ closed' = closed
      BY <1>6 DEF ForgetPermits
    <2>3. k \in Nat /\ k > 0 /\ k <= permits
      BY <1>1, <2>1
    <2>4. ~closed => Held <= supply - k
      <3>1. ~closed => permits + Reserved <= supply - Held
        BY Available DEF Conservation
      <3> QED BY <1>1, <2>3, <3>1
    <2>5. supply' < supply
      BY <1>1, <2>1, <2>3
    <2> QED BY <2>1, <2>2, <2>4, <2>5, InUseIsHeld DEF Counting!Next, Counting!Remove
  <1> QED BY <1>2, <1>3, <1>4, <1>5, <1>6 DEF Call

LEMMA NextMaps ==
  SemInv /\ OwnersSound /\ Conservation /\ [Next]_vars => [Counting!Next]_Counting!vars
PROOF
  <1> SUFFICES ASSUME SemInv, OwnersSound, Conservation, [Next]_vars
               PROVE  [Counting!Next]_Counting!vars
    OBVIOUS
  <1>1. CASE UNCHANGED vars
    BY <1>1 DEF vars, semVars, Counting!vars
  <1>2. ASSUME NEW t \in Threads, Release(t)
        PROVE  [Counting!Next]_Counting!vars
    <2>1. closed' = closed /\ supply' = supply
      BY <1>2 DEF Release, ReleaseLocks, ReleaseSelects, ReleaseUnlocks, ReleaseGivesBack,
         ReleaseMayWake, ReleaseWakes, ReleaseFetchAdd, wordVars
    <2> QED BY <1>2, <2>1, ReleaseActs DEF Counting!vars
  <1>3. ASSUME NEW c \in Callers, CloseSetsBit(c) \/ Closing(c)
        PROVE  [Counting!Next]_Counting!vars
    <2>1. CASE CloseSetsBit(c)
      BY <2>1 DEF CloseSetsBit, Counting!Next, Counting!Close
    <2>2. CASE Closing(c)
      <3>1. closed' = closed /\ supply' = supply
        BY <2>2 DEF Closing, CloseLocks, CloseDrains, CloseUnlocks, wordVars
      <3> QED BY <2>2, <3>1, CloseActs DEF Counting!vars
    <2> QED BY <1>3, <2>1, <2>2
  <1>4. CASE \E c \in Callers, n \in 1..MaxGrant : Call(c, n)
    BY <1>4, CallMaps DEF Threads
  <1>5. CASE \E t \in Threads, n \in 1..MaxGrant : DropPermit(t, n) \/ ForgetPermit(t, n)
    BY <1>5, CallMaps
  <1> QED BY <1>1, <1>2, <1>3, <1>4, <1>5, FutureMaps DEF Next

(* The semaphore with its word, queue and mutex implements the counting    *)
(* semaphore: whatever the interleaving, nobody acquires what is not there *)
(* or anything at all after close().                                       *)
THEOREM CountingImplemented == Spec => ImplementsCounting
PROOF
  <1>1. Init => Counting!Init
    <2> SUFFICES ASSUME Init
                 PROVE  Counting!Init
      OBVIOUS
    <2>1. supply \in Nat
      BY SemInitInv DEF SemInv, SemTypeOK, Init
    <2> QED BY <2>1 DEF Init, Counting!Init
  <1>2. SemInv /\ OwnersSound /\ Conservation /\ [Next]_vars
          => [Counting!Next]_Counting!vars
    BY NextMaps
  <1> QED BY <1>1, <1>2, PermitsConserved, OwnersCorrect, SemInvariance, PTL
          DEF Spec, ImplementsCounting, Counting!Spec

-----------------------------------------------------------------------------
(* What an owner who gives up costs.                                       *)

\* A waiter whose permits a selection may charge, or has charged.
Chargeable(f) == f \in Queued \/ (sel.phase = "notify" /\ f = sel.cur)

\* GivenUp, for one future.
CancelledByOwner(f) ==
  Chargeable(f) /\ state[f] = "CANCELLED" => outcome[f] = "dropped"

LEMMA GivenUpParts == GivenUp <=> \A f \in Waiters : CancelledByOwner(f)
PROOF BY DEF GivenUp, CancelledByOwner, Chargeable

\* No permits are lost unless a future was dropped.
NoneLeaked == (\A f \in Waiters : outcome[f] # "dropped") => leaked = 0

LEMMA FutureGivenUp ==
  ASSUME SemInv, OwnersSound, GivenUp, NoneLeaked, NEW f \in Waiters,
         Poll(f) \/ PollSpuriously(f) \/ DropFuture(f)
  PROVE  (\A w \in Waiters : CancelledByOwner(w)') /\ NoneLeaked'
PROOF
  <1>1. /\ pc \in [Threads -> Places] /\ queues \in [Prios -> Seq(Waiters)]
        /\ outcome \in [Waiters -> {"pending", "acquired", "closed", "dropped"}]
        /\ state \in [Waiters -> {"ABSENT", "WAITING", "NOTIFIED", "CANCELLED"}]
        /\ f \in Threads /\ Waiters \subseteq Threads /\ WQInv /\ req \in Requests
    BY DEF SemInv, WQInv, TypeOK, SemTypeOK, Threads
  <1>2. OnlyActs(f) /\ sel' = sel /\ \A w \in Waiters \ {f} : state'[w] = state[w]
    BY FutureActs
  <1>3. outcome[f] = "pending" /\ (pc[f] \in {"cas", "enqueue"} => state[f] = "ABSENT")
    <2>1. pc[f] \in PollPlaces
      BY DEF Poll, PollLoad, PollCas, PollCasFails, PollEnqueue, PollCheck, PollAgain,
         PollSetWaker, PollSpuriously, DropFuture, PollPlaces
    <2> QED BY <2>1 DEF OwnersSound
  <1>4. \A w \in Waiters : CancelledByOwner(w)
    BY GivenUpParts
  <1>5. Chargeable(f) => state[f] = "WAITING"
    BY <1>1, <1>3, <1>4 DEF CancelledByOwner, Chargeable, WQInv, PlacesSound
  <1>6. \A w \in Waiters \ {f} : outcome'[w] = outcome[w]
    BY <1>1, <1>2 DEF OnlyActs
  <1>7. Queued' \subseteq Queued \cup {f}
    <2>1. CASE PollEnqueue(f) /\ ~closed
      <3>1. PushWaiter(f)
        BY <2>1 DEF PollEnqueue
      <3>2. Queued' = Queued \cup {f}
        BY <3>1, <1>1, EnqueueGrows DEF PushWaiter, WQInv, PlacesSound
      <3> QED BY <3>2
    <2>2. CASE ~(PollEnqueue(f) /\ ~closed)
      <3>1. queues' = queues /\ req' = req
        <4>1. CASE PollCheck(f) \/ PollAgain(f) \/ PollSpuriously(f)
          <5>1. LookAtState(f) /\ state[f] # "ABSENT"
            BY <4>1 DEF PollCheck, PollAgain, PollSpuriously, SemInv, CallsSound
          <5>2. state[f] \in {"WAITING", "NOTIFIED", "CANCELLED"}
            BY <5>1, StateKinds
          <5> QED BY <5>1, <5>2 DEF LookAtState, Cancel, wqVars
        <4> QED BY <2>2, <4>1 DEF Poll, PollLoad, PollCas, PollCasFails, PollEnqueue,
                   PollSetWaker, DropFuture, SetWaker, Cancel, wqVars
      <3> QED BY <3>1, SameQueues
    <2> QED BY <2>1, <2>2
  <1>8. CancelledByOwner(f)' /\ NoneLeaked'
    <2> USE DEF CancelledByOwner, Resolve, Goto, wqVars, wordVars
    <2>1. CASE PollLoad(f)
      BY <1>1, <1>3, <1>5, <1>6, <2>1, SameQueues DEF PollLoad, NoneLeaked
    <2>2. CASE PollCas(f) \/ PollCasFails(f)
      BY <1>1, <1>3, <1>5, <1>6, <2>2, SameQueues DEF PollCas, PollCasFails, NoneLeaked
    <2>3. CASE PollEnqueue(f)
      BY <1>1, <1>3, <1>6, <2>3 DEF PollEnqueue, PushWaiter, NoneLeaked
    <2>4. CASE PollCheck(f) \/ PollAgain(f) \/ PollSpuriously(f)
      <3>1. LookAtState(f) /\ state[f] # "ABSENT" /\ leaked' = leaked
        BY <2>4 DEF PollCheck, PollAgain, PollSpuriously, SemInv, CallsSound
      <3>2. state[f] \in {"WAITING", "NOTIFIED", "CANCELLED"}
        BY <3>1, StateKinds
      <3>3. queues' = queues /\ req' = req
        BY <3>1, <3>2 DEF LookAtState, Cancel
      <3>4. Chargeable(f)' <=> Chargeable(f)
        BY <1>2, <3>3, SameQueues DEF Chargeable
      <3>5. state[f] = "WAITING" => state' = state /\ outcome' = outcome
        BY <3>1 DEF LookAtState
      <3>6. \A w \in Waiters : outcome'[w] # "dropped" => outcome[w] # "dropped"
        BY <1>3, <1>6
      <3> QED BY <1>3, <1>5, <3>1, <3>4, <3>5, <3>6 DEF NoneLeaked
    <2>5. CASE PollSetWaker(f)
      BY <1>1, <1>2, <1>4, <2>5, SameQueues DEF PollSetWaker, SetWaker, Chargeable, NoneLeaked
    <2>6. CASE DropFuture(f)
      <3>1. outcome'[f] = "dropped"
        BY <1>1, <2>6 DEF DropFuture
      <3> QED BY <3>1 DEF NoneLeaked
    <2> QED BY <2>1, <2>2, <2>3, <2>4, <2>5, <2>6 DEF Poll
  <1>9. ASSUME NEW w \in Waiters \ {f}
        PROVE  CancelledByOwner(w)'
    BY <1>2, <1>4, <1>6, <1>7 DEF CancelledByOwner, Chargeable
  <1> QED BY <1>8, <1>9

LEMMA OthersGivenUp ==
  ASSUME GivenUp, outcome' = outcome,
         \A w \in Waiters : Chargeable(w)' => Chargeable(w),
         \A w \in Waiters : Chargeable(w) /\ state'[w] = "CANCELLED" => state[w] = "CANCELLED"
  PROVE  \A w \in Waiters : CancelledByOwner(w)'
PROOF BY GivenUpParts DEF CancelledByOwner

LEMMA CallGivenUp ==
  ASSUME SemInv, GivenUp, NoneLeaked, NEW t \in Threads, NEW n \in 1..MaxGrant,
         DropPermit(t, n) \/ ForgetPermit(t, n) \/ Call(t, n)
  PROVE  (\A w \in Waiters : CancelledByOwner(w)') /\ NoneLeaked'
PROOF
  <1>1. /\ UNCHANGED wqVars
        /\ outcome' = outcome /\ leaked' = leaked
    BY CallQueueStep DEF DropPermit, ForgetPermit, Call, AddPermits, TryAcquireMany,
       ForgetPermits, wordVars
  <1>2. \A w \in Waiters : Chargeable(w)' <=> Chargeable(w)
    BY <1>1, SameQueues DEF Chargeable, wqVars
  <1> QED BY <1>1, <1>2, OthersGivenUp DEF NoneLeaked, wqVars

LEMMA ReleaseGivenUp ==
  ASSUME SemInv, GivenUp, NoneLeaked, NEW t \in Threads, Release(t)
  PROVE  (\A w \in Waiters : CancelledByOwner(w)') /\ NoneLeaked'
PROOF
  <1>1. outcome' = outcome /\ WQInv /\ sel \in Selections
    BY ReleaseActs DEF SemInv, WQInv, TypeOK
  <1>2. CASE ReleaseSelects(t)
    <2>1. SelectStep /\ Queued' \subseteq Queued
      BY <1>1, <1>2, SelectStepShrinks DEF ReleaseSelects
    <2>2. \A w \in Waiters : state'[w] = "CANCELLED" => state[w] = "CANCELLED"
      <3>1. CASE Notify
        BY <3>1 DEF Notify, TryNotify, SemInv, WQInv, TypeOK
      <3>2. CASE ~Notify
        BY <2>1, <3>2 DEF SelectStep, DropCancelledFront, PopToNotify, NotifyFails,
           TakeWaker, SingleEnds, OuterVisits, OuterEnds, InnerEnds, RetainStep, RetainEnds
      <3> QED BY <3>1, <3>2
    <2>3. \A w \in Waiters : Chargeable(w)' => Chargeable(w)
      <3>1. CASE PopToNotify
        <4>1. Queue # <<>> /\ sel.phase \in Loops
          BY <3>1 DEF PopToNotify, MayContinue
        <4>2. FrontWaiter \in Queued
          BY <1>1, <3>1, <4>1, PopFacts DEF PopToNotify
        <4>3. sel'.phase = "notify" /\ sel'.cur = FrontWaiter
          BY <1>1, <3>1 DEF PopToNotify, Selections
        <4> QED BY <2>1, <4>2, <4>3 DEF Chargeable
      <3>2. CASE ~PopToNotify
        <4>1. sel'.phase = "notify" => FALSE
          <5> USE DEF Selections, Loops
          <5>1. CASE DropCancelledFront \/ Notify \/ OuterVisits \/ OuterEnds
            BY <1>1, <5>1 DEF DropCancelledFront, Notify, OuterVisits, OuterEnds
          <5>2. CASE NotifyFails \/ TakeWaker
            BY <1>1, <5>2 DEF NotifyFails, TakeWaker
          <5>3. CASE SingleEnds \/ InnerEnds \/ RetainEnds
            BY <1>1, <5>3 DEF SingleEnds, InnerEnds, RetainEnds
          <5>4. CASE RetainStep
            <6>1. sel.idx \in Nat /\ sel.removed \in Nat
              BY <1>1
            <6>2. PICK i \in Nat, r \in Nat : i = sel.idx + 1 /\ r = sel.removed + 1
              BY <6>1
            <6>3. sel' = [sel EXCEPT !.removed = r] \/ sel' = [sel EXCEPT !.idx = i]
              BY ONLY <5>4, <6>2 DEF RetainStep
            <6> QED BY ONLY <1>1, <5>4, <6>3 DEF RetainStep, Selections
          <5> QED BY <2>1, <3>2, <5>1, <5>2, <5>3, <5>4 DEF SelectStep
        <4> QED BY <2>1, <4>1 DEF Chargeable
      <3> QED BY <3>1, <3>2
    <2>4. NoneLeaked'
      <3>1. sel.phase = "notify" => sel.cur \in Waiters
        BY <1>1 DEF WQInv, SelSound
      <3>2. leaked \in Nat
        BY DEF SemInv, SemTypeOK
      <3> QED BY <1>1, <1>2, <3>1, <3>2 DEF ReleaseSelects, GivenUp, NoneLeaked, IsCancelled
    <2> QED BY <1>1, <2>2, <2>3, <2>4, OthersGivenUp
  <1>3. CASE ReleaseLocks(t) \/ ReleaseUnlocks(t)
    <2>1. /\ queues' = queues /\ req' = req /\ state' = state /\ leaked' = leaked
          /\ sel' = sel \/ sel'.phase # "notify"
      <3>1. SelInit \in Selections /\ SelInit.phase = "idle"
        BY SelInitTyped DEF SelInit
      <3> QED BY <1>3, <3>1 DEF ReleaseLocks, ReleaseUnlocks, SelectWaiters, SelectNothing,
                 SelectSingle, SelectMulti, SelectReturns, Selections, wqVars, wordVars
    <2>2. \A w \in Waiters : Chargeable(w)' => Chargeable(w)
      BY <2>1, SameQueues DEF Chargeable
    <2> QED BY <1>1, <2>1, <2>2, OthersGivenUp DEF NoneLeaked
  <1>5. CASE ReleaseGivesBack(t) \/ ReleaseMayWake(t) \/ ReleaseWakes(t)
             \/ ReleaseFetchAdd(t)
    <2>1. UNCHANGED wqVars /\ leaked' = leaked
      BY <1>5 DEF ReleaseGivesBack, ReleaseMayWake, ReleaseWakes, ReleaseFetchAdd, wordVars
    <2>2. \A w \in Waiters : Chargeable(w)' <=> Chargeable(w)
      BY <2>1, SameQueues DEF Chargeable, wqVars
    <2> QED BY <1>1, <2>1, <2>2, OthersGivenUp DEF NoneLeaked, wqVars
  <1> QED BY <1>2, <1>3, <1>5 DEF Release

LEMMA CloseGivenUp ==
  ASSUME SemInv, GivenUp, NoneLeaked, NEW c \in Callers, CloseSetsBit(c) \/ Closing(c)
  PROVE  (\A w \in Waiters : CancelledByOwner(w)') /\ NoneLeaked'
PROOF
  <1>1. /\ outcome' = outcome /\ sel' = sel /\ leaked' = leaked /\ req \in Requests
        /\ state \in [Waiters -> {"ABSENT", "WAITING", "NOTIFIED", "CANCELLED"}]
    BY CloseActs DEF CloseSetsBit, Closing, CloseLocks, CloseDrains, CloseUnlocks,
       wordVars, SemInv, WQInv, TypeOK
  <1>2. CASE CloseSetsBit(c) \/ CloseUnlocks(c)
    <2>1. \A w \in Waiters : Chargeable(w)' <=> Chargeable(w)
      BY <1>1, <1>2, SameQueues DEF Chargeable, CloseSetsBit, CloseUnlocks, wqVars
    <2> QED BY <1>1, <1>2, <2>1, OthersGivenUp
            DEF NoneLeaked, CloseSetsBit, CloseUnlocks, wqVars
  <1>3. CASE CloseLocks(c)
    <2>1. /\ queues' = [p \in Prios |-> <<>>] /\ req' = req /\ state' = state
          /\ sel.phase = "idle"
      BY <1>3 DEF CloseLocks, Close, Busy
    <2>2. \A w \in Waiters : queues'[Priority(w)'] = <<>>
      BY <1>1, <2>1, PriorityTyped DEF Priority
    <2>3. Queued' = {}
      BY <2>2 DEF Queued, ToSet
    <2> QED BY <1>1, <2>1, <2>3, OthersGivenUp DEF Chargeable, NoneLeaked
  <1>4. ASSUME NEW f \in Waiters, CloseDrains(c, f)
        PROVE  (\A w \in Waiters : CancelledByOwner(w)') /\ NoneLeaked'
    <2>1. /\ queues' = queues /\ req' = req /\ f \in drained
          /\ state' = [state EXCEPT ![f] = "CANCELLED"]
      BY <1>4 DEF CloseDrains, CloseCancels, CancelState
    <2>2. \A w \in Waiters : Chargeable(w)' <=> Chargeable(w)
      BY <1>1, <2>1, SameQueues DEF Chargeable
    <2>3. ~Chargeable(f)
      BY <2>1 DEF Chargeable, SemInv, WQInv, PlacesSound
    <2>4. \A w \in Waiters \ {f} : state'[w] = state[w]
      BY <1>1, <2>1
    <2> QED BY <1>1, <2>2, <2>3, <2>4, OthersGivenUp DEF NoneLeaked
  <1> QED BY <1>2, <1>3, <1>4 DEF Closing

LEMMA GivenUpNext ==
  SemInv /\ OwnersSound /\ GivenUp /\ NoneLeaked /\ [Next]_vars => GivenUp' /\ NoneLeaked'
PROOF
  <1> SUFFICES ASSUME SemInv, OwnersSound, GivenUp, NoneLeaked, [Next]_vars
               PROVE  GivenUp' /\ NoneLeaked'
    OBVIOUS
  <1>1. (GivenUp <=> \A f \in Waiters : CancelledByOwner(f))'
    BY GivenUpParts, PTL
  <1>2. CASE UNCHANGED vars
    <2>1. \A w \in Waiters : Chargeable(w)' <=> Chargeable(w)
      BY <1>2, SameQueues DEF Chargeable, vars, wqVars
    <2> QED BY <1>1, <1>2, <2>1, OthersGivenUp DEF NoneLeaked, vars, wqVars, semVars
  <1>3. CASE \E c \in Callers, n \in 1..MaxGrant : Call(c, n)
    BY <1>1, <1>3, CallGivenUp DEF Threads
  <1>4. CASE \E t \in Threads, n \in 1..MaxGrant : DropPermit(t, n) \/ ForgetPermit(t, n)
    BY <1>1, <1>4, CallGivenUp
  <1> QED BY <1>1, <1>2, <1>3, <1>4, FutureGivenUp, ReleaseGivenUp, CloseGivenUp DEF Next

LEMMA GivenUpInit == Init => GivenUp /\ NoneLeaked
PROOF BY DEF Init, WQInit, GivenUp, NoneLeaked

(* Nobody but the owner of a future, who gives it up, cancels it in a      *)
(* queue or in the hands of a selection.                                   *)
THEOREM OnlyOwnersGiveUp == Spec => []GivenUp
PROOF BY GivenUpInit, GivenUpNext, OwnersCorrect, SemInvariance, PTL DEF Spec

LEMMA NothingUnderWay ==
  ASSUME SemInv, OwnersSound, Balance, Quiescent, Held = 0,
         \A f \in Waiters : outcome[f] # "pending"
  PROVE  permits + leaked = supply
PROOF
  <1>1. \A f \in Waiters : ReservedFor(f) = 0
    BY DEF OwnersSound, ReservedFor
  <1>2. \A t \in Threads : Placing(t) = 0
    <2>1. \A t \in Threads : rem[t] \in Nat /\ pc[t] \in {"parked", "idle"}
      BY DEF SemInv, SemTypeOK, Quiescent, Calling
    <2> QED BY <2>1 DEF OwnersSound, ReleasePlaces, Placing
  <1>3. Reserved = 0 /\ InHand = 0
    BY <1>1, <1>2, SumZero DEF Reserved, InHand
  <1>4. permits \in Nat /\ leaked \in Nat /\ supply \in Int
    BY DEF SemInv, SemTypeOK
  <1> QED BY <1>3, <1>4 DEF Balance

(* Only futures that are dropped before they resolve cost permits: when    *)
(* nothing is under way, nobody holds a permit and every future is done,   *)
(* all others are available, for any number of threads and permits.        *)
THEOREM PermitsReturn == Spec => []PermitsComeBack
PROOF
  <1>1. SemInv /\ OwnersSound /\ Conservation /\ NoneLeaked => PermitsComeBack
    BY NothingUnderWay DEF PermitsComeBack, NoneLeaked, Conservation
  <1> QED BY <1>1, GivenUpInit, GivenUpNext, OwnersCorrect, PermitsConserved,
             SemInvariance, PTL DEF Spec

-----------------------------------------------------------------------------
(* Why calls end.                                                          *)

\* CallsAdvance, for one thread.
Advances(t) ==
  Calling(t) =>
    \/ rem'[t] < rem[t]
    \/ rem'[t] = rem[t] /\ (pc'[t] = pc[t] \/ PlacesLeft(t)' < PlacesLeft(t))

LEMMA OthersAdvance ==
  ASSUME NEW t \in Threads, OnlyActs(t), Advances(t)
  PROVE  \A u \in Threads : Advances(u)
PROOF BY DEF OnlyActs, Advances

LEMMA FutureAdvances ==
  ASSUME SemInv, NEW f \in Waiters,
         Poll(f) \/ PollSpuriously(f) \/ DropFuture(f)
  PROVE  Advances(f)
PROOF
  <1>1. pc \in [Threads -> Places] /\ f \in Threads
    BY DEF SemInv, SemTypeOK, Threads
  <1> USE DEF Advances, PlacesLeft, Calling, Resolve, Goto, releaseVars
  <1>2. CASE PollLoad(f) \/ PollAgain(f) \/ PollSpuriously(f) \/ DropFuture(f)
    BY <1>2 DEF PollLoad, PollAgain, PollSpuriously, DropFuture
  <1>3. CASE PollCas(f) \/ PollCasFails(f)
    BY <1>1, <1>3 DEF PollCas, PollCasFails
  <1>4. CASE PollEnqueue(f)
    BY <1>1, <1>4 DEF PollEnqueue
  <1>5. CASE PollCheck(f)
    <2>1. pc[f] = "check" /\ rem' = rem /\ pc'[f] \in {"idle", "setwaker"}
      <3>1. LookAtState(f) /\ state[f] # "ABSENT" /\ pc[f] = "check" /\ rem' = rem
        BY <1>5 DEF PollCheck, SemInv, CallsSound
      <3>2. state[f] \in {"WAITING", "NOTIFIED", "CANCELLED"}
        BY <3>1, StateKinds
      <3> QED BY <1>1, <3>1, <3>2 DEF LookAtState
    <2> QED BY <2>1
  <1>6. CASE PollSetWaker(f)
    BY <1>1, <1>6 DEF PollSetWaker
  <1> QED BY <1>2, <1>3, <1>4, <1>5, <1>6 DEF Poll

LEMMA ReleaseAdvances ==
  ASSUME SemInv, NEW t \in Threads, Release(t)
  PROVE  Advances(t)
PROOF
  <1>1. /\ pc \in [Threads -> Places] /\ rem \in [Threads -> Nat]
        /\ sel.assigned + sel.avail = sel.given
        /\ sel.assigned \in Nat /\ sel.avail \in Nat
        /\ pc[t] = "select" => rem[t] = sel.given
    BY DEF SemInv, WQInv, TypeOK, Selections, SemTypeOK, CallsSound
  <1> USE DEF Advances, PlacesLeft, Calling, Goto, releaseVars, AfterBatch
  <1>2. CASE ReleaseLocks(t) \/ ReleaseSelects(t) \/ ReleaseMayWake(t)
    BY <1>1, <1>2 DEF ReleaseLocks, ReleaseSelects, ReleaseMayWake
  <1>3. CASE ReleaseUnlocks(t)
    <2>1. rem'[t] = rem[t] - sel.assigned /\ pc[t] = "select"
      BY <1>1, <1>3 DEF ReleaseUnlocks, RemCharged
    <2>2. CASE sel.assigned = 0
      <3>1. rem'[t] = rem[t] /\ pc'[t] \in {"fetchadd", "idle"}
        BY <1>1, <1>3, <2>1, <2>2 DEF ReleaseUnlocks
      <3> QED BY <2>1, <3>1
    <2>3. CASE sel.assigned # 0
      BY <1>1, <2>1, <2>3
    <2> QED BY <2>2, <2>3
  <1>4. CASE ReleaseGivesBack(t) \/ ReleaseFetchAdd(t)
    <2>1. rem'[t] = 0 /\ pc'[t] = "idle" /\ pc[t] \in {"notified", "fetchadd"}
      BY <1>1, <1>4 DEF ReleaseGivesBack, ReleaseFetchAdd
    <2> QED BY <1>1, <2>1
  <1>5. CASE ReleaseWakes(t)
    <2>1. rem' = rem /\ pc[t] = "wake" /\ pc'[t] \in {"lock", "fetchadd", "idle"}
      BY <1>1, <1>5 DEF ReleaseWakes
    <2> QED BY <2>1
  <1> QED BY <1>2, <1>3, <1>4, <1>5 DEF Release

(* Every step of a call that goes to another place brings the call closer  *)
(* to its end or leaves it with fewer permits to place, for any number of  *)
(* threads: with SelectionEnds, no poll, release or close() runs for ever. *)
THEOREM CallsComeToAnEnd == Spec => CallsAdvance
PROOF
  <1>1. SemInv /\ [Next]_vars => [\A t \in Threads : Advances(t)]_vars
    <2> SUFFICES ASSUME SemInv, Next
                 PROVE  \A t \in Threads : Advances(t)
      OBVIOUS
    <2>1. ASSUME NEW f \in Waiters, Poll(f) \/ PollSpuriously(f) \/ DropFuture(f)
          PROVE  \A t \in Threads : Advances(t)
      <3>1. f \in Threads
        BY DEF Threads
      <3> QED BY <2>1, <3>1, FutureActs, FutureAdvances, OthersAdvance
    <2>2. ASSUME NEW t \in Threads, NEW n \in 1..MaxGrant,
                 DropPermit(t, n) \/ ForgetPermit(t, n) \/ Call(t, n)
          PROVE  \A u \in Threads : Advances(u)
      <3>1. pc[t] = "idle"
        BY <2>2 DEF DropPermit, ForgetPermit, Call, AddPermits, TryAcquireMany, ForgetPermits
      <3>2. Advances(t)
        BY <3>1 DEF Advances, Calling
      <3> QED BY <2>2, <3>2, CallActs, OthersAdvance
    <2>3. ASSUME NEW t \in Threads, Release(t)
          PROVE  \A u \in Threads : Advances(u)
      BY <2>3, ReleaseActs, ReleaseAdvances, OthersAdvance
    <2>4. ASSUME NEW c \in Callers, CloseSetsBit(c) \/ Closing(c)
          PROVE  \A t \in Threads : Advances(t)
      <3>1. c \in Threads /\ pc \in [Threads -> Places] /\ rem' = rem
        BY <2>4, CloseActs DEF Threads, SemInv, SemTypeOK
      <3>2. Advances(c)
        BY <2>4, <3>1 DEF CloseSetsBit, Closing, CloseLocks, CloseDrains, CloseUnlocks,
           Advances, PlacesLeft, Calling, Goto
      <3> QED BY <2>4, <3>1, <3>2, CloseActs, OthersAdvance
    <2> QED BY <2>1, <2>2, <2>3, <2>4 DEF Next, Threads
  <1> QED BY <1>1, SemInvariance, PTL DEF Spec, CallsAdvance, Advances

-----------------------------------------------------------------------------
(* What users see.                                                         *)

LEMMA HeldBounded == SemInv /\ Conservation => (~closed => Held <= supply)
PROOF
  <1> SUFFICES ASSUME SemInv, Balance
               PROVE  Held <= supply
    BY DEF Conservation
  <1>1. /\ permits \in Nat /\ supply \in Int /\ Held \in Nat /\ Reserved \in Nat
        /\ permits + Reserved <= supply - Held
    BY SumsTyped, Available DEF SemInv, SemTypeOK
  <1> QED BY <1>1

(* While the semaphore is open, the permits that are held are never more   *)
(* than were created and not forgotten.                                    *)
THEOREM NeverTooManyHeld == Spec => [](~closed => Held <= supply)
PROOF BY HeldBounded, PermitsConserved, SemInvariance, PTL
=============================================================================
