---------------------------- MODULE WakerProofs ----------------------------
(***************************************************************************)
(* Proofs about the wakers of the semaphore: one that a selection has      *)
(* taken out of its cell is called, or still on its way, as long as the    *)
(* semaphore is open.  WakersSound says where a waker is before it is      *)
(* taken, and what a selection and a release must still hold afterwards.   *)
(***************************************************************************)
EXTENDS ConservationProofs

WakerInv == WakersSound /\ WakerCarried

\* WakersSound and WakerCarried, for one future.
StoredOrTaken(f) ==
  /\ pc[f] = "parked" /\ (state[f] = "WAITING" \/ Taking(f)) => waker[f]
  /\ f \in ToSet(sel.wakes) \/ f = sel.cur => Need(f) <= sel.assigned

CalledOrCarried(f) ==
  state[f] = "NOTIFIED" /\ pc[f] = "parked" /\ ~waker[f] /\ Need(f) > 0
    => woken[f] \/ Carried(f)

ListsEmpty ==
  /\ sel.phase = "idle" => sel.wakes = <<>>
  /\ \A t \in Threads : pc[t] \notin {"notified", "wake"} => wakes[t] = <<>>

LEMMA WakerInvParts ==
  WakerInv <=> (/\ \A f \in Waiters : StoredOrTaken(f)
                /\ ListsEmpty
                /\ ~closed => \A f \in Waiters : CalledOrCarried(f))
PROOF BY DEF WakerInv, WakersSound, WakerCarried, StoredOrTaken, ListsEmpty,
             CalledOrCarried

LEMMA WakerInvNext ==
  ASSUME \A f \in Waiters : StoredOrTaken(f)', ListsEmpty',
         ~closed' => \A f \in Waiters : CalledOrCarried(f)'
  PROVE  WakerInv'
PROOF BY DEF WakerInv, WakersSound, WakerCarried, StoredOrTaken, ListsEmpty,
             CalledOrCarried

\* What is the same for a future that a step leaves alone.
Untouched(f) ==
  /\ state'[f] = state[f] /\ waker'[f] = waker[f] /\ woken'[f] = woken[f]
  /\ pc'[f] = "parked" => pc[f] = "parked"

LEMMA UntouchedKept ==
  ASSUME NEW f \in Waiters, Untouched(f), StoredOrTaken(f),
         sel' = sel, req' = req, wakes' = wakes
  PROVE  /\ StoredOrTaken(f)'
         /\ CalledOrCarried(f) => CalledOrCarried(f)'
PROOF
  <1>1. Need(f)' = Need(f) /\ (Taking(f)' <=> Taking(f)) /\ (Carried(f)' <=> Carried(f))
    BY DEF Need, Taking, Carried
  <1> QED BY <1>1 DEF Untouched, StoredOrTaken, CalledOrCarried

-----------------------------------------------------------------------------
(* The steps of a future, a call and close().                              *)

LEMMA FutureWakers ==
  ASSUME SemInv, WakerInv, NEW f \in Waiters,
         Poll(f) \/ PollSpuriously(f) \/ DropFuture(f)
  PROVE  WakerInv'
PROOF
  <1>1. /\ pc \in [Threads -> Places] /\ woken \in [Waiters -> BOOLEAN]
        /\ waker \in [Waiters -> BOOLEAN] /\ f \in Threads /\ Waiters \subseteq Threads
    BY DEF SemInv, WQInv, TypeOK, SemTypeOK, Threads
  <1>2. /\ OnlyActs(f) /\ sel' = sel /\ req' = req
        /\ \A w \in Waiters \ {f} : state'[w] = state[w]
    BY FutureActs, FutureQueueStep, QueueFrame DEF SemInv
  <1>3. /\ closed' = closed /\ wakes' = wakes
        /\ \A w \in Waiters \ {f} : waker'[w] = waker[w] /\ woken'[w] = woken[w]
        /\ pc'[f] = "parked" => waker'[f]
        /\ pc[f] \notin {"notified", "wake"}
    <2> USE DEF Resolve, Goto, wqVars, releaseVars, wordVars
    <2>1. CASE PollLoad(f)
      BY <1>1, <2>1 DEF PollLoad
    <2>2. CASE PollCas(f) \/ PollCasFails(f)
      BY <1>1, <2>2 DEF PollCas, PollCasFails
    <2>3. CASE PollEnqueue(f)
      BY <1>1, <2>3 DEF PollEnqueue, PushWaiter
    <2>4. CASE PollCheck(f) \/ PollAgain(f) \/ PollSpuriously(f)
      <3>1. LookAtState(f) /\ state[f] # "ABSENT"
        BY <2>4 DEF PollCheck, PollAgain, PollSpuriously, SemInv, CallsSound
      <3>2. state[f] \in {"WAITING", "NOTIFIED", "CANCELLED"}
        BY <3>1, StateKinds
      <3>3. waker' = waker /\ pc'[f] # "parked"
        BY <1>1, <3>1, <3>2 DEF LookAtState, Cancel
      <3> QED BY <1>1, <2>4, <3>3 DEF PollCheck, PollAgain, PollSpuriously
    <2>5. CASE PollSetWaker(f)
      BY <1>1, <2>5 DEF PollSetWaker, SetWaker
    <2>6. CASE DropFuture(f)
      BY <1>1, <2>6 DEF DropFuture, Cancel
    <2> QED BY <2>1, <2>2, <2>3, <2>4, <2>5, <2>6 DEF Poll
  <1>4. ListsEmpty'
    BY <1>2, <1>3, WakerInvParts DEF ListsEmpty, OnlyActs
  <1>5. ASSUME NEW w \in Waiters \ {f}
        PROVE  StoredOrTaken(w)' /\ (CalledOrCarried(w) => CalledOrCarried(w)')
    <2>1. Untouched(w)
      BY <1>1, <1>2, <1>3 DEF Untouched, OnlyActs
    <2> QED BY <1>2, <1>3, <2>1, UntouchedKept, WakerInvParts
  <1>6. StoredOrTaken(f)' /\ CalledOrCarried(f)'
    <2>1. Need(f)' = Need(f) /\ StoredOrTaken(f)
      BY <1>2, WakerInvParts DEF Need
    <2> QED BY <1>2, <1>3, <2>1 DEF StoredOrTaken, CalledOrCarried
  <1> QED BY <1>3, <1>4, <1>5, <1>6, WakerInvParts, WakerInvNext

LEMMA CallWakers ==
  ASSUME SemInv, WakerInv, NEW t \in Threads, NEW n \in 1..MaxGrant,
         DropPermit(t, n) \/ ForgetPermit(t, n) \/ Call(t, n)
  PROVE  WakerInv'
PROOF
  <1>1. pc \in [Threads -> Places] /\ Waiters \subseteq Threads
    BY DEF SemInv, SemTypeOK, Threads
  <1>2. UNCHANGED wqVars
    BY CallQueueStep
  <1>3. /\ closed' = closed /\ wakes' = wakes /\ woken' = woken /\ pc[t] = "idle"
        /\ pc' = pc \/ pc' = [pc EXCEPT ![t] = "lock"]
    BY DEF DropPermit, ForgetPermit, Call, AddPermits, TryAcquireMany, ForgetPermits,
           Goto, releaseVars, wordVars
  <1>4. ListsEmpty'
    BY <1>1, <1>2, <1>3, WakerInvParts DEF ListsEmpty, wqVars
  <1>5. ASSUME NEW w \in Waiters
        PROVE  StoredOrTaken(w)' /\ (CalledOrCarried(w) => CalledOrCarried(w)')
    <2>1. Untouched(w)
      BY <1>1, <1>2, <1>3 DEF Untouched, wqVars
    <2> QED BY <1>2, <1>3, <2>1, UntouchedKept, WakerInvParts DEF wqVars
  <1> QED BY <1>3, <1>4, <1>5, WakerInvParts, WakerInvNext

LEMMA CloseWakers ==
  ASSUME SemInv, WakerInv, NEW c \in Callers, CloseSetsBit(c) \/ Closing(c)
  PROVE  WakerInv'
PROOF
  <1>1. /\ pc \in [Threads -> Places] /\ c \in Threads /\ c \notin Waiters
        /\ Waiters \subseteq Threads /\ woken \in [Waiters -> BOOLEAN]
    BY SemaphoreAssumption DEF SemInv, SemTypeOK, Threads
  <1>2. /\ OnlyActs(c) /\ sel' = sel /\ req' = req
        /\ \A w \in Waiters : state'[w] = state[w] \/ state'[w] = "CANCELLED"
    BY CloseActs, CloseQueueStep, QueueFrame DEF SemInv
  <1>3. /\ closed => closed'
        /\ wakes' = wakes /\ waker' = waker
        /\ \A w \in Waiters : woken[w] => woken'[w]
        /\ pc[c] \notin {"notified", "wake"}
    <2> USE DEF wqVars, releaseVars, wordVars
    <2>1. CASE CloseSetsBit(c) \/ CloseUnlocks(c) \/ CloseLocks(c)
      BY <2>1 DEF CloseSetsBit, CloseUnlocks, CloseLocks, Close
    <2>2. CASE \E f \in Waiters : CloseDrains(c, f)
      BY <1>1, <2>2 DEF CloseDrains, CloseCancels
    <2> QED BY <2>1, <2>2 DEF Closing
  <1>4. ListsEmpty'
    BY <1>2, <1>3, WakerInvParts DEF ListsEmpty, OnlyActs
  <1>5. ASSUME NEW w \in Waiters
        PROVE  StoredOrTaken(w)' /\ (CalledOrCarried(w) => CalledOrCarried(w)')
    <2>1. Need(w)' = Need(w) /\ (Taking(w)' <=> Taking(w)) /\ (Carried(w)' <=> Carried(w))
      BY <1>2, <1>3 DEF Need, Taking, Carried
    <2>2. pc'[w] = pc[w] /\ StoredOrTaken(w)
      BY <1>1, <1>2, WakerInvParts DEF OnlyActs
    <2> QED BY <1>2, <1>3, <2>1, <2>2 DEF StoredOrTaken, CalledOrCarried
  <1> QED BY <1>3, <1>4, <1>5, WakerInvParts, WakerInvNext

-----------------------------------------------------------------------------
(* The steps of a release.                                                 *)

\* A step of a selection that neither notifies nor takes a waker.
OtherStep ==
  /\ state' = state /\ waker' = waker /\ sel'.wakes = sel.wakes
  /\ sel.phase # "take" /\ sel'.phase \notin {"take", "idle"}
  /\ \/ sel'.assigned = sel.assigned /\ sel'.cur \in {sel.cur, None}
     \/ /\ sel'.assigned = sel.assigned + Need(FrontWaiter)
        /\ sel'.cur = FrontWaiter /\ FrontWaiter \in Waiters

LEMMA SelectOther ==
  ASSUME WQInv, SelectStep, ~Notify, ~TakeWaker
  PROVE  OtherStep
PROOF
  <1>1. sel \in Selections /\ sel.loop \in Loops /\ sel.phase # "idle"
    BY DEF WQInv, TypeOK, Selections, SelectStep, DropCancelledFront, PopToNotify,
           NotifyFails, SingleEnds, OuterVisits, OuterEnds, InnerEnds, RetainStep,
           RetainEnds, Loops
  <1> USE DEF OtherStep, Loops
  <1>2. CASE DropCancelledFront
    BY <1>1, <1>2 DEF DropCancelledFront
  <1>3. CASE PopToNotify
    <2>1. Queue \in Seq(Waiters) /\ Queue # <<>>
      BY <1>3, LoopFacts DEF PopToNotify, MayContinue
    <2>2. FrontWaiter \in Waiters
      BY <2>1 DEF FrontWaiter
    <2>3. PICK n \in Nat : n = Need(FrontWaiter)
      BY <2>2, PriorityTyped DEF WQInv, TypeOK
    <2>4. /\ sel'.phase = "notify" /\ sel'.wakes = sel.wakes
          /\ sel'.assigned = sel.assigned + n /\ sel'.cur = FrontWaiter
      BY ONLY <1>1, <1>3, <2>3 DEF PopToNotify, Selections
    <2> QED BY <1>3, <2>2, <2>3, <2>4 DEF PopToNotify
  <1>4. CASE NotifyFails
    BY <1>1, <1>4 DEF NotifyFails, Selections
  <1>5. CASE SingleEnds \/ OuterEnds \/ InnerEnds
    BY <1>1, <1>5 DEF SingleEnds, OuterEnds, InnerEnds, Selections
  <1>6. CASE OuterVisits
    BY <1>1, <1>6 DEF OuterVisits, Selections
  <1>7. CASE RetainStep
    <2>1. sel.idx \in Nat /\ sel.removed \in Nat
      BY <1>1 DEF Selections
    <2>2. PICK i \in Nat, r \in Nat : i = sel.idx + 1 /\ r = sel.removed + 1
      BY <2>1
    <2>3. sel' = [sel EXCEPT !.removed = r] \/ sel' = [sel EXCEPT !.idx = i]
      BY ONLY <1>7, <2>2 DEF RetainStep
    <2> QED BY ONLY <1>1, <1>7, <2>3 DEF RetainStep, Selections, OtherStep
  <1>8. CASE RetainEnds
    BY <1>1, <1>8 DEF RetainEnds, Selections
  <1> QED BY <1>2, <1>3, <1>4, <1>5, <1>6, <1>7, <1>8 DEF SelectStep

LEMMA AppendAdds ==
  ASSUME NEW S, NEW q \in Seq(S), NEW x \in S
  PROVE  ToSet(Append(q, x)) = ToSet(q) \cup {x}
PROOF
  <1> DEFINE r == Append(q, x)
  <1>1. /\ r \in Seq(S) /\ Len(r) = Len(q) + 1 /\ Len(q) \in Nat
        /\ r[Len(q) + 1] = x
        /\ \A i \in 1..Len(q) : r[i] = q[i]
    OBVIOUS
  <1> HIDE DEF r
  <1>2. \A i \in 1..Len(r) : i = Len(q) + 1 \/ i \in 1..Len(q)
    BY <1>1
  <1>3. (\A i \in 1..Len(q) : i \in 1..Len(r)) /\ Len(q) + 1 \in 1..Len(r)
    BY <1>1
  <1>4. ASSUME NEW y \in ToSet(r)
        PROVE  y \in ToSet(q) \cup {x}
    BY <1>1, <1>2, ToSetElements
  <1>5. ASSUME NEW y \in ToSet(q) \cup {x}
        PROVE  y \in ToSet(r)
    BY <1>1, <1>3, ToSetElements
  <1>6. ToSet(r) = ToSet(q) \cup {x}
    BY <1>4, <1>5
  <1> QED BY <1>6 DEF r

LEMMA EmptyList == ToSet(<<>>) = {}
PROOF
  <1>1. <<>> \in Seq(Waiters)
    OBVIOUS
  <1> QED BY <1>1, ToSetElements

LEMMA SelectsWakers ==
  ASSUME SemInv, WakerInv, NEW t \in Threads, ReleaseSelects(t)
  PROVE  WakerInv'
PROOF
  <1>1. /\ sel \in Selections /\ sel.assigned \in Nat /\ sel.wakes \in Seq(Waiters)
        /\ sel.loop \in Loops /\ None \notin Waiters
        /\ waker \in [Waiters -> BOOLEAN] /\ WQInv
        /\ state \in [Waiters -> {"ABSENT", "WAITING", "NOTIFIED", "CANCELLED"}]
        /\ \A w \in Waiters : Need(w) \in Nat
    BY WaitQueueAssumption, PriorityTyped DEF SemInv, WQInv, TypeOK, Selections
  <1>2. /\ SelectStep /\ closed' = closed /\ pc' = pc /\ wakes' = wakes /\ woken' = woken
        /\ req' = req
    BY ReleaseQueueStep, QueueFrame DEF Release, ReleaseSelects, SemInv, releaseVars
  <1>3. /\ \A w \in Waiters : StoredOrTaken(w) /\ Need(w)' = Need(w)
        /\ ListsEmpty /\ (~closed => \A w \in Waiters : CalledOrCarried(w))
    BY <1>2, WakerInvParts DEF Need
  <1>4. sel'.phase # "idle" => ListsEmpty'
    BY <1>2, <1>3 DEF ListsEmpty
  <1>5. CASE OtherStep
    <2>1. ASSUME NEW w \in Waiters
          PROVE  StoredOrTaken(w)' /\ (CalledOrCarried(w) => CalledOrCarried(w)')
      <3>1. ~Taking(w) /\ ~Taking(w)' /\ (Carried(w)' <=> Carried(w))
        BY <1>2, <1>5 DEF OtherStep, Taking, Carried
      <3>2. w \in ToSet(sel.wakes)' \/ w = sel'.cur => Need(w) <= sel'.assigned
        <4>1. PICK a \in Nat : a = sel.assigned
          BY <1>1
        <4>2. PICK n \in Nat : n = Need(w)
          BY <1>1
        <4>3. w \in ToSet(sel.wakes) \/ w = sel.cur => n <= a
          BY <1>3, <4>1, <4>2 DEF StoredOrTaken
        <4>4. CASE sel'.assigned = sel.assigned /\ sel'.cur \in {sel.cur, None}
          BY <1>1, <1>5, <4>1, <4>2, <4>3, <4>4 DEF OtherStep
        <4>5. CASE /\ sel'.assigned = sel.assigned + Need(FrontWaiter)
                   /\ sel'.cur = FrontWaiter /\ FrontWaiter \in Waiters
          <5>1. PICK m \in Nat : m = Need(FrontWaiter)
            BY <1>1, <4>5
          <5>2. sel'.assigned = a + m /\ (w = sel'.cur => n = m)
            BY <4>1, <4>2, <4>5, <5>1
          <5> QED BY <1>5, <4>2, <4>3, <5>2 DEF OtherStep
        <4> QED BY <1>5, <4>4, <4>5 DEF OtherStep
      <3> QED BY <1>2, <1>3, <1>5, <3>1, <3>2
              DEF OtherStep, StoredOrTaken, CalledOrCarried
    <2> QED BY <1>2, <1>3, <1>4, <1>5, <2>1, WakerInvNext DEF OtherStep
  <1>6. CASE Notify
    <2>1. /\ sel.cur \in Waiters /\ state[sel.cur] = "WAITING"
          /\ state' = [state EXCEPT ![sel.cur] = "NOTIFIED"] /\ waker' = waker
          /\ sel.phase = "notify" /\ sel' = [sel EXCEPT !.phase = "take"]
      BY <1>6 DEF Notify, TryNotify, SemInv, WQInv, SelSound
    <2>2. /\ sel'.phase = "take" /\ sel'.wakes = sel.wakes
          /\ sel'.assigned = sel.assigned /\ sel'.cur = sel.cur
      BY <1>1, <2>1 DEF Selections
    <2>3. ASSUME NEW w \in Waiters
          PROVE  StoredOrTaken(w)' /\ (CalledOrCarried(w) => CalledOrCarried(w)')
      <3>1. CASE w = sel.cur
        BY <1>2, <1>3, <2>1, <2>2, <3>1
        DEF StoredOrTaken, CalledOrCarried, Carried, Taking
      <3>2. CASE w # sel.cur
        <4>1. ~Taking(w) /\ ~Taking(w)' /\ (Carried(w)' <=> Carried(w))
          BY <1>2, <2>1, <2>2, <3>2 DEF Taking, Carried
        <4> QED BY <1>1, <1>2, <1>3, <2>1, <2>2, <3>2, <4>1
                DEF StoredOrTaken, CalledOrCarried
      <3> QED BY <3>1, <3>2
    <2> QED BY <1>2, <1>3, <1>4, <2>2, <2>3, WakerInvNext
  <1>7. CASE TakeWaker
    <2>1. /\ sel.cur \in Waiters /\ sel.phase = "take"
          /\ state' = state /\ waker' = [waker EXCEPT ![sel.cur] = FALSE]
          /\ sel' = [sel EXCEPT !.phase = sel.loop, !.cur = None,
                                !.wakes = IF waker[sel.cur] THEN Append(@, sel.cur) ELSE @]
      BY <1>7 DEF TakeWaker, SemInv, WQInv, SelSound
    <2>2. /\ sel'.phase \in Loops /\ sel'.assigned = sel.assigned /\ sel'.cur = None
          /\ sel'.wakes = IF waker[sel.cur] THEN Append(sel.wakes, sel.cur) ELSE sel.wakes
      BY <1>1, <2>1 DEF Selections
    <2>3. ToSet(Append(sel.wakes, sel.cur)) = ToSet(sel.wakes) \cup {sel.cur}
      BY <1>1, <2>1, AppendAdds
    <2>4. ASSUME NEW w \in Waiters
          PROVE  StoredOrTaken(w)' /\ (CalledOrCarried(w) => CalledOrCarried(w)')
      <3>1. ~Taking(w)' /\ w # None
        BY <1>1, <2>2 DEF Taking, Loops
      <3>2. CASE w = sel.cur
        <4>1. state[w] \in {"NOTIFIED", "CANCELLED"}
          BY <2>1, <3>2 DEF SemInv, WQInv, PlacesSound
        <4>2. pc[w] = "parked" => waker[w] /\ w \in ToSet(sel'.wakes)
          BY <1>3, <2>1, <2>2, <2>3, <3>2 DEF StoredOrTaken, Taking
        <4>3. Need(w) <= sel.assigned
          BY <1>3, <3>2 DEF StoredOrTaken
        <4> QED BY <1>2, <1>3, <2>1, <2>2, <3>1, <4>1, <4>2, <4>3
                DEF StoredOrTaken, CalledOrCarried, Carried
      <3>3. CASE w # sel.cur
        <4>1. /\ ~Taking(w) /\ (Carried(w)' <=> Carried(w))
              /\ w \in ToSet(sel'.wakes) <=> (w \in ToSet(sel.wakes))
          BY <1>2, <2>1, <2>2, <2>3, <3>1, <3>3 DEF Taking, Carried
        <4> QED BY <1>1, <1>2, <1>3, <2>1, <2>2, <3>1, <3>3, <4>1
                DEF StoredOrTaken, CalledOrCarried
      <3> QED BY <3>2, <3>3
    <2> QED BY <1>2, <1>3, <1>4, <2>2, <2>4, WakerInvNext DEF Loops
  <1> QED BY <1>1, <1>2, <1>5, <1>6, <1>7, SelectOther

LEMMA ReleaseWakers ==
  ASSUME SemInv, WakerInv, NEW t \in Threads, Release(t)
  PROVE  WakerInv'
PROOF
  <1>1. /\ pc \in [Threads -> Places] /\ wakes \in [Threads -> Seq(Waiters)]
        /\ woken \in [Waiters -> BOOLEAN] /\ None \notin Waiters
        /\ sel.assigned \in Nat /\ sel.wakes \in Seq(Waiters)
        /\ Waiters \subseteq Threads
        /\ \A w \in Waiters : Need(w) \in Nat
    BY WaitQueueAssumption, PriorityTyped
    DEF SemInv, WQInv, TypeOK, Selections, SemTypeOK, Threads
  <1>2. req' = req /\ OnlyActs(t)
    BY ReleaseQueueStep, QueueFrame, ReleaseActs DEF SemInv
  <1>3. /\ \A w \in Waiters : StoredOrTaken(w) /\ Need(w)' = Need(w)
        /\ ListsEmpty /\ (~closed => \A w \in Waiters : CalledOrCarried(w))
    BY <1>2, WakerInvParts DEF Need
  <1>4. ASSUME ReleaseLocks(t)
        PROVE  WakerInv'
    <2>1. /\ closed' = closed /\ wakes' = wakes /\ woken' = woken /\ lock = None
          /\ pc[t] = "lock"
          /\ pc' = [pc EXCEPT ![t] = "fetchadd"] \/ pc' = [pc EXCEPT ![t] = "select"]
      BY <1>4 DEF ReleaseLocks, Goto, releaseVars, wordVars
    <2>2. CASE total = 0
      <3>1. UNCHANGED wqVars
        BY <1>4, <2>2 DEF ReleaseLocks
      <3>2. \A w \in Waiters : Untouched(w)
        BY <1>1, <2>1, <3>1 DEF Untouched, wqVars
      <3>3. ListsEmpty'
        BY <1>1, <1>3, <2>1, <3>1 DEF ListsEmpty, wqVars
      <3> QED BY <1>3, <2>1, <3>1, <3>2, <3>3, UntouchedKept, WakerInvNext DEF wqVars
    <2>3. CASE total # 0
      <3>1. SelectWaiters(rem[t])
        BY <1>4, <2>3 DEF ReleaseLocks
      <3>2. /\ state' = state /\ waker' = waker /\ sel.phase = "idle"
            /\ sel'.phase \in {"done", "single", "outer"}
            /\ sel'.wakes = <<>> /\ sel'.cur = None
        <4>1. SelInit.wakes = <<>> /\ SelInit.cur = None /\ SelInit \in Selections
          BY SelInitTyped DEF SelInit
        <4> QED BY <3>1, <4>1 DEF SelectWaiters, SelectNothing, SelectSingle, SelectMulti,
                                  Selections, Busy
      <3>3. sel.wakes = <<>> /\ ToSet(<<>>) = {}
        BY <1>3, <3>2, EmptyList DEF ListsEmpty
      <3>4. ASSUME NEW w \in Waiters
            PROVE  StoredOrTaken(w)' /\ (CalledOrCarried(w) => CalledOrCarried(w)')
        <4>1. /\ ~Taking(w) /\ ~Taking(w)' /\ (Carried(w)' <=> Carried(w))
              /\ pc'[w] = "parked" => pc[w] = "parked"
          BY <1>1, <2>1, <3>2, <3>3 DEF Taking, Carried
        <4> QED BY <1>1, <1>3, <2>1, <3>2, <3>3, <4>1 DEF StoredOrTaken, CalledOrCarried
      <3>5. ListsEmpty'
        BY <1>1, <1>3, <2>1, <3>2 DEF ListsEmpty
      <3> QED BY <1>3, <2>1, <3>4, <3>5, WakerInvNext
    <2> QED BY <2>2, <2>3
  <1>5. ASSUME ReleaseUnlocks(t)
        PROVE  WakerInv'
    <2>1. /\ sel.phase = "done" /\ sel' = SelInit /\ state' = state /\ waker' = waker
          /\ closed' = closed /\ woken' = woken /\ pc[t] = "select"
      BY <1>5 DEF ReleaseUnlocks, SelectReturns, wordVars
    <2>2. SelInit.phase = "idle" /\ SelInit.wakes = <<>> /\ SelInit.cur = None
      BY DEF SelInit
    <2>3. \/ /\ sel.assigned = 0 \/ sel.wakes = <<>>
             /\ pc'[t] \in {"fetchadd", "idle"} /\ wakes' = wakes
          \/ /\ sel.assigned # 0 /\ sel.wakes # <<>>
             /\ pc'[t] = "notified" /\ wakes' = [wakes EXCEPT ![t] = sel.wakes]
      BY <1>1, <1>5 DEF ReleaseUnlocks, AfterBatch, Goto
    <2>4. wakes[t] = <<>> /\ ToSet(<<>>) = {}
      BY <1>3, <2>1, EmptyList DEF ListsEmpty
    <2>5. ListsEmpty'
      BY <1>1, <1>2, <1>3, <2>1, <2>2, <2>3 DEF ListsEmpty, OnlyActs
    <2>6. ASSUME NEW w \in Waiters
          PROVE  StoredOrTaken(w)' /\ (CalledOrCarried(w) => CalledOrCarried(w)')
      <3>1. /\ ~Taking(w) /\ ~Taking(w)' /\ (pc'[w] = "parked" => pc[w] = "parked")
        BY <1>1, <1>2, <2>1, <2>2, <2>3 DEF Taking, OnlyActs
      <3>2. w \notin ToSet(sel'.wakes) /\ w # sel'.cur
        BY <1>1, <2>1, <2>2, <2>4
      <3>3. Carried(w) /\ Need(w) > 0 => Carried(w)'
        <4>1. SUFFICES ASSUME Carried(w), Need(w) > 0
                       PROVE  \E u \in Threads : w \in ToSet(wakes'[u])
          BY DEF Carried
        <4>2. CASE w \in ToSet(sel.wakes)
          <5>1. sel.assigned # 0 /\ sel.wakes # <<>>
            BY <1>1, <1>3, <2>4, <4>1, <4>2 DEF StoredOrTaken
          <5> QED BY <1>1, <2>3, <4>2, <5>1
        <4>3. CASE \E u \in Threads : w \in ToSet(wakes[u])
          BY <1>1, <2>3, <2>4, <4>3
        <4> QED BY <3>1, <4>1, <4>2, <4>3 DEF Carried
      <3> QED BY <1>3, <2>1, <3>1, <3>2, <3>3 DEF StoredOrTaken, CalledOrCarried
    <2> QED BY <1>3, <2>1, <2>5, <2>6, WakerInvNext
  <1>6. ASSUME ReleaseGivesBack(t) \/ ReleaseMayWake(t) \/ ReleaseWakes(t)
               \/ ReleaseFetchAdd(t)
        PROVE  WakerInv'
    <2>1. /\ UNCHANGED wqVars /\ closed' = closed /\ pc[t] # "parked"
          /\ \A w \in Waiters : pc'[w] = "parked" => pc[w] = "parked"
      BY <1>1, <1>6 DEF ReleaseGivesBack, ReleaseMayWake, ReleaseWakes, ReleaseFetchAdd,
                        AfterBatch, Goto, wordVars
    <2>2. \A u \in Threads \ {t} : wakes'[u] = wakes[u]
      BY <1>1, <1>6 DEF ReleaseGivesBack, ReleaseMayWake, ReleaseWakes, ReleaseFetchAdd,
                        releaseVars
    <2>3. pc'[t] \notin {"notified", "wake"} => wakes'[t] = <<>>
      BY <1>1, <1>3, <1>6
      DEF ReleaseGivesBack, ReleaseMayWake, ReleaseWakes, ReleaseFetchAdd, AfterBatch,
          Goto, WakeAll, ListsEmpty
    <2>4. ListsEmpty'
      BY <1>2, <1>3, <2>1, <2>2, <2>3 DEF ListsEmpty, OnlyActs, wqVars
    <2>5. \A w \in Waiters : StoredOrTaken(w)'
      BY <1>3, <2>1 DEF StoredOrTaken, Taking, wqVars
    <2>6. ASSUME NEW w \in Waiters, ~closed
          PROVE  CalledOrCarried(w)'
      <3>1. CalledOrCarried(w) /\ (Taking(w)' <=> Taking(w))
        BY <1>3, <2>1, <2>6 DEF Taking, wqVars
      <3>2. woken[w] => woken'[w]
        BY <1>1, <1>6 DEF ReleaseGivesBack, ReleaseMayWake, ReleaseWakes,
                          ReleaseFetchAdd, Woken
      <3>3. w \in ToSet(wakes[t]) => woken'[w] \/ wakes'[t] = wakes[t]
        BY <1>1, <1>6, <2>6 DEF ReleaseGivesBack, ReleaseMayWake, ReleaseWakes,
                                ReleaseFetchAdd, Woken, releaseVars
      <3>4. Carried(w) => woken'[w] \/ Carried(w)'
        BY <2>1, <2>2, <3>1, <3>3 DEF Carried, wqVars
      <3> QED BY <1>3, <2>1, <3>1, <3>2, <3>4 DEF CalledOrCarried, wqVars
    <2> QED BY <2>1, <2>4, <2>5, <2>6, WakerInvNext
  <1> QED BY <1>4, <1>5, <1>6, SelectsWakers DEF Release

-----------------------------------------------------------------------------
LEMMA WakersNext == SemInv /\ WakerInv /\ [Next]_vars => WakerInv'
PROOF
  <1> SUFFICES ASSUME SemInv, WakerInv, [Next]_vars
               PROVE  WakerInv'
    OBVIOUS
  <1>1. CASE UNCHANGED vars
    <2>1. \A w \in Waiters : Untouched(w)
      BY <1>1 DEF Untouched, vars, semVars, wqVars
    <2>2. ListsEmpty'
      BY <1>1, WakerInvParts DEF ListsEmpty, vars, semVars, wqVars
    <2>3. sel' = sel /\ req' = req /\ wakes' = wakes /\ closed' = closed
      BY <1>1 DEF vars, semVars, wqVars
    <2> QED BY <2>1, <2>2, <2>3, UntouchedKept, WakerInvParts, WakerInvNext
  <1>2. CASE \E c \in Callers, n \in 1..MaxGrant : Call(c, n)
    BY <1>2, CallWakers DEF Threads
  <1>3. CASE \E t \in Threads, n \in 1..MaxGrant : DropPermit(t, n) \/ ForgetPermit(t, n)
    BY <1>3, CallWakers
  <1> QED BY <1>1, <1>2, <1>3, FutureWakers, ReleaseWakers, CloseWakers DEF Next

LEMMA WakersInit == Init => WakerInv
PROOF
  <1> SUFFICES ASSUME Init
               PROVE  WakerInv
    OBVIOUS
  <1>1. /\ SelInit.phase = "idle" /\ SelInit.wakes = <<>> /\ SelInit.cur = None
        /\ None \notin Waiters /\ ToSet(<<>>) = {}
    BY WaitQueueAssumption, EmptyList DEF SelInit
  <1>2. /\ sel = SelInit /\ \A w \in Waiters : state[w] = "ABSENT"
        /\ \A t \in Threads : wakes[t] = <<>>
    BY DEF Init, WQInit
  <1> QED BY <1>1, <1>2, WakerInvParts
          DEF StoredOrTaken, CalledOrCarried, ListsEmpty, Taking

(* A future that sleeps in the queue has its waker stored until a          *)
(* selection takes it; a selection has assigned what the futures whose     *)
(* wakers it took asked for; a release does not return with a wake list.   *)
THEOREM SleepersHaveWakers == Spec => []WakersSound
PROOF
  <1>1. WakerInv => WakersSound
    BY DEF WakerInv
  <1> QED BY <1>1, WakersInit, WakersNext, SemInvariance, PTL DEF Spec

(* While the semaphore is open, no way out of the loops of a selection or  *)
(* of a release forgets a waker that was taken out of its cell, whatever   *)
(* polls and drops run beside it; only a request for no permits may lose   *)
(* its waker.                                                              *)
THEOREM NoWakerForgotten == Spec => []WakerCarried
PROOF
  <1>1. WakerInv => WakerCarried
    BY DEF WakerInv
  <1> QED BY <1>1, WakersInit, WakersNext, SemInvariance, PTL DEF Spec

-----------------------------------------------------------------------------
(* Who is woken has news.                                                  *)

NewsInv == NewsSound /\ WakesHaveNews

Settled(f) == state[f] \in {"NOTIFIED", "CANCELLED"}

\* NewsSound and WakesHaveNews, for one future.
WokenForNews(f) ==
  /\ woken[f] => state[f] # "WAITING" /\ pc[f] \notin {"cas", "enqueue"}
  /\ f \in ToSet(sel.wakes) \/ (\E t \in Threads : f \in ToSet(wakes[t])) => Settled(f)

LEMMA NewsParts == SemInv => (NewsInv <=> \A f \in Waiters : WokenForNews(f))
PROOF
  <1> SUFFICES ASSUME SemInv
               PROVE  NewsInv <=> \A f \in Waiters : WokenForNews(f)
    OBVIOUS
  <1>1. sel.wakes \in Seq(Waiters)
    BY DEF SemInv, WQInv, TypeOK, Selections
  <1>2. \A f \in ToSet(sel.wakes) : f \in Waiters
    BY <1>1, ToSetElements
  <1> QED BY <1>2 DEF NewsInv, NewsSound, WakesHaveNews, WokenForNews, Settled

\* A step that wakes nobody and takes no waker.
LEMMA NewsKept ==
  ASSUME \A f \in Waiters : WokenForNews(f), NEW w \in Waiters,
         Settled(w) => Settled(w)', woken'[w] => woken[w],
         woken[w] /\ state'[w] = "WAITING" => state[w] = "WAITING",
         pc'[w] \in {"cas", "enqueue"} => pc[w] \in {"cas", "enqueue"} \/ ~woken'[w],
         w \in ToSet(sel'.wakes) \/ (\E t \in Threads : w \in ToSet(wakes'[t])) =>
           w \in ToSet(sel.wakes) \/ (\E t \in Threads : w \in ToSet(wakes[t]))
  PROVE  WokenForNews(w)'
PROOF BY DEF WokenForNews

LEMMA FutureNews ==
  ASSUME SemInv, OwnersSound, \A w \in Waiters : WokenForNews(w), NEW f \in Waiters,
         Poll(f) \/ PollSpuriously(f) \/ DropFuture(f)
  PROVE  \A w \in Waiters : WokenForNews(w)'
PROOF
  <1>1. /\ pc \in [Threads -> Places] /\ woken \in [Waiters -> BOOLEAN]
        /\ state \in [Waiters -> {"ABSENT", "WAITING", "NOTIFIED", "CANCELLED"}]
        /\ f \in Threads /\ Waiters \subseteq Threads
    BY DEF SemInv, WQInv, TypeOK, SemTypeOK, Threads
  <1>2. OnlyActs(f) /\ sel' = sel /\ \A w \in Waiters \ {f} : state'[w] = state[w]
    BY FutureActs
  <1>3. /\ wakes' = wakes
        /\ woken' = woken \/ woken' = [woken EXCEPT ![f] = FALSE]
    BY DEF Poll, PollLoad, PollCas, PollCasFails, PollEnqueue, PollCheck, PollAgain,
       PollSetWaker, PollSpuriously, DropFuture, releaseVars
  <1>4. ASSUME NEW w \in Waiters \ {f}
        PROVE  WokenForNews(w)'
    <2>1. pc'[w] = pc[w] /\ state'[w] = state[w] /\ (woken'[w] => woken[w])
      BY <1>1, <1>2, <1>3 DEF OnlyActs
    <2> QED BY <1>2, <1>3, <2>1 DEF WokenForNews, Settled
  <1>5. /\ Settled(f) => Settled(f)'
        /\ woken[f] /\ state'[f] = "WAITING" => state[f] = "WAITING"
        /\ pc'[f] \in {"cas", "enqueue"} => pc[f] \in {"cas", "enqueue"} \/ ~woken'[f]
    <2> USE DEF Settled, Resolve, Goto, wqVars
    <2>1. CASE PollLoad(f)
      BY <1>1, <2>1 DEF PollLoad
    <2>2. CASE PollCas(f) \/ PollCasFails(f)
      BY <1>1, <2>2 DEF PollCas, PollCasFails
    <2>3. CASE PollEnqueue(f)
      <3>1. ~woken[f]
        BY <2>3 DEF PollEnqueue, WokenForNews
      <3> QED BY <1>1, <2>3, <3>1 DEF PollEnqueue, PushWaiter
    <2>4. CASE PollCheck(f) \/ PollAgain(f) \/ PollSpuriously(f)
      <3>1. LookAtState(f) /\ state[f] # "ABSENT"
        BY <2>4 DEF PollCheck, PollAgain, PollSpuriously, SemInv, CallsSound
      <3>2. state[f] \in {"WAITING", "NOTIFIED", "CANCELLED"}
        BY <3>1, StateKinds
      <3>3. CASE state[f] = "CANCELLED" \/ state[f] = "WAITING"
        BY <1>1, <3>1, <3>3 DEF LookAtState
      <3>4. CASE state[f] = "NOTIFIED"
        BY <1>1, <3>1, <3>4 DEF LookAtState, Cancel, CancelState
      <3> QED BY <3>2, <3>3, <3>4
    <2>5. CASE PollSetWaker(f)
      BY <1>1, <2>5 DEF PollSetWaker, SetWaker
    <2>6. CASE DropFuture(f)
      BY <1>1, <2>6 DEF DropFuture, Cancel, CancelState
    <2> QED BY <2>1, <2>2, <2>3, <2>4, <2>5, <2>6 DEF Poll
  <1>6. WokenForNews(f)'
    <2>1. woken'[f] => woken[f]
      BY <1>1, <1>3
    <2> QED BY <1>2, <1>3, <1>5, <2>1, NewsKept
  <1> QED BY <1>4, <1>6

LEMMA CallNews ==
  ASSUME SemInv, \A w \in Waiters : WokenForNews(w), NEW t \in Threads,
         NEW n \in 1..MaxGrant, DropPermit(t, n) \/ ForgetPermit(t, n) \/ Call(t, n)
  PROVE  \A w \in Waiters : WokenForNews(w)'
PROOF
  <1>1. pc \in [Threads -> Places] /\ Waiters \subseteq Threads
    BY DEF SemInv, SemTypeOK, Threads
  <1>2. UNCHANGED wqVars
    BY CallQueueStep
  <1>3. /\ wakes' = wakes /\ woken' = woken
        /\ pc' = pc \/ pc' = [pc EXCEPT ![t] = "lock"]
    BY DEF DropPermit, ForgetPermit, Call, AddPermits, TryAcquireMany, ForgetPermits,
           Goto, releaseVars
  <1> QED BY <1>1, <1>2, <1>3, NewsKept DEF Settled, wqVars

LEMMA CloseNews ==
  ASSUME SemInv, OwnersSound, \A w \in Waiters : WokenForNews(w), NEW c \in Callers,
         CloseSetsBit(c) \/ Closing(c)
  PROVE  \A w \in Waiters : WokenForNews(w)'
PROOF
  <1>1. /\ pc \in [Threads -> Places] /\ c \in Threads /\ c \notin Waiters
        /\ Waiters \subseteq Threads /\ woken \in [Waiters -> BOOLEAN]
        /\ state \in [Waiters -> {"ABSENT", "WAITING", "NOTIFIED", "CANCELLED"}]
    BY SemaphoreAssumption DEF SemInv, WQInv, TypeOK, SemTypeOK, Threads
  <1>2. /\ OnlyActs(c) /\ sel' = sel
        /\ \A w \in Waiters : state'[w] = state[w] \/ state'[w] = "CANCELLED"
    BY CloseActs
  <1>3. /\ wakes' = wakes /\ \A w \in Waiters : pc'[w] = pc[w]
    BY <1>1, <1>2 DEF CloseSetsBit, CloseUnlocks, CloseLocks, CloseDrains, Closing,
                      releaseVars, OnlyActs
  <1>4. ASSUME NEW w \in Waiters, woken'[w] => woken[w]
        PROVE  WokenForNews(w)'
    BY <1>2, <1>3, <1>4, NewsKept DEF Settled
  <1>5. CASE CloseSetsBit(c) \/ CloseUnlocks(c) \/ CloseLocks(c)
    BY <1>4, <1>5 DEF CloseSetsBit, CloseUnlocks, CloseLocks
  <1>6. ASSUME NEW f \in Waiters, CloseDrains(c, f)
        PROVE  \A w \in Waiters : WokenForNews(w)'
    <2>1. \A w \in Waiters \ {f} : woken'[w] = woken[w]
      BY <1>1, <1>6 DEF CloseDrains
    <2>2. f \in drained /\ state'[f] = "CANCELLED"
      BY <1>1, <1>6 DEF CloseDrains, CloseCancels, CancelState
    <2>3. pc[f] \notin {"cas", "enqueue"}
      BY <2>2 DEF SemInv, WQInv, PlacesSound, OwnersSound, PollPlaces
    <2>4. WokenForNews(f)'
      BY <1>3, <2>2, <2>3 DEF WokenForNews, Settled
    <2> QED BY <1>4, <2>1, <2>4
  <1> QED BY <1>5, <1>6 DEF Closing

LEMMA ReleaseNews ==
  ASSUME SemInv, OwnersSound, \A w \in Waiters : WokenForNews(w), NEW t \in Threads,
         Release(t)
  PROVE  \A w \in Waiters : WokenForNews(w)'
PROOF
  <1>1. /\ pc \in [Threads -> Places] /\ wakes \in [Threads -> Seq(Waiters)]
        /\ woken \in [Waiters -> BOOLEAN] /\ WQInv /\ sel \in Selections
        /\ sel.wakes \in Seq(Waiters) /\ Waiters \subseteq Threads
        /\ state \in [Waiters -> {"ABSENT", "WAITING", "NOTIFIED", "CANCELLED"}]
    BY DEF SemInv, WQInv, TypeOK, Selections, SemTypeOK, Threads
  <1>2. \A w \in Waiters : pc'[w] \in {"cas", "enqueue"} => pc[w] \in {"cas", "enqueue"}
    BY <1>1 DEF Release, ReleaseLocks, ReleaseSelects, ReleaseUnlocks, ReleaseGivesBack,
       ReleaseMayWake, ReleaseWakes, ReleaseFetchAdd, AfterBatch, Goto
  <1>3. CASE ReleaseLocks(t) \/ ReleaseUnlocks(t)
    <2>1. state' = state /\ woken' = woken
      BY <1>3 DEF ReleaseLocks, ReleaseUnlocks, SelectWaiters, SelectNothing,
         SelectSingle, SelectMulti, SelectReturns, wqVars
    <2>2. sel' = sel \/ sel'.wakes = <<>>
      <3>1. SelInit \in Selections /\ SelInit.wakes = <<>>
        BY SelInitTyped DEF SelInit
      <3> QED BY <1>3, <3>1 DEF ReleaseLocks, ReleaseUnlocks, SelectWaiters, SelectNothing,
                 SelectSingle, SelectMulti, SelectReturns, Selections, wqVars
    <2>3. wakes' = wakes \/ wakes' = [wakes EXCEPT ![t] = sel.wakes]
      BY <1>3 DEF ReleaseLocks, ReleaseUnlocks, releaseVars
    <2>4. ASSUME NEW w \in Waiters
          PROVE  WokenForNews(w)'
      <3>1. w \in ToSet(sel'.wakes) => w \in ToSet(sel.wakes)
        BY <2>2, EmptyList
      <3>2. (\E u \in Threads : w \in ToSet(wakes'[u])) =>
              w \in ToSet(sel.wakes) \/ (\E u \in Threads : w \in ToSet(wakes[u]))
        BY <1>1, <2>3
      <3> QED BY <1>2, <2>1, <3>1, <3>2, NewsKept DEF Settled
    <2> QED BY <2>4
  <1>4. CASE ReleaseSelects(t)
    <2>1. SelectStep /\ woken' = woken /\ wakes' = wakes /\ pc' = pc
      BY <1>4 DEF ReleaseSelects, releaseVars
    <2>2. \A w \in Waiters : state'[w] = state[w]
                             \/ (state[w] = "WAITING" /\ state'[w] = "NOTIFIED")
      <3>1. CASE Notify
        BY <1>1, <3>1 DEF Notify, TryNotify
      <3>2. CASE ~Notify
        BY <2>1, <3>2 DEF SelectStep, DropCancelledFront, PopToNotify, NotifyFails,
           TakeWaker, SingleEnds, OuterVisits, OuterEnds, InnerEnds, RetainStep, RetainEnds
      <3> QED BY <3>1, <3>2
    <2>3. CASE TakeWaker
      <3>1. /\ sel.cur \in Waiters /\ Settled(sel.cur) /\ state' = state
            /\ sel' = [sel EXCEPT !.phase = sel.loop, !.cur = None,
                                  !.wakes = IF waker[sel.cur] THEN Append(@, sel.cur) ELSE @]
        BY <1>1, <2>3 DEF TakeWaker, WQInv, SelSound, PlacesSound, Settled
      <3>2. sel'.wakes = IF waker[sel.cur] THEN Append(sel.wakes, sel.cur) ELSE sel.wakes
        BY <1>1, <3>1 DEF Selections
      <3>3. ToSet(Append(sel.wakes, sel.cur)) = ToSet(sel.wakes) \cup {sel.cur}
        BY <1>1, <3>1, AppendAdds
      <3> QED BY <2>1, <3>1, <3>2, <3>3 DEF WokenForNews, Settled
    <2>4. CASE ~TakeWaker
      <3>1. sel'.wakes = sel.wakes
        <4>1. CASE Notify
          BY <1>1, <4>1 DEF Notify, Selections
        <4>2. CASE ~Notify
          BY <1>1, <2>1, <2>4, <4>2, SelectOther DEF OtherStep
        <4> QED BY <4>1, <4>2
      <3> QED BY <2>1, <2>2, <3>1, NewsKept DEF Settled
    <2> QED BY <2>3, <2>4
  <1>5. CASE ReleaseWakes(t)
    <2>1. /\ UNCHANGED wqVars /\ woken' = Woken(wakes[t])
          /\ wakes' = [wakes EXCEPT ![t] = <<>>]
      BY <1>5 DEF ReleaseWakes, WakeAll
    <2>2. ASSUME NEW w \in Waiters
          PROVE  WokenForNews(w)'
      <3>1. CASE w \in ToSet(wakes[t])
        <4>1. Settled(w)
          BY <3>1 DEF WokenForNews
        <4>2. pc[w] \notin {"cas", "enqueue"}
          BY <4>1 DEF Settled, OwnersSound, PollPlaces
        <4> QED BY <1>2, <2>1, <4>1, <4>2 DEF WokenForNews, Settled, wqVars
      <3>2. CASE w \notin ToSet(wakes[t])
        <4>1. woken'[w] = woken[w]
          BY <1>1, <2>1, <3>2 DEF Woken
        <4>2. (\E u \in Threads : w \in ToSet(wakes'[u])) =>
                \E u \in Threads : w \in ToSet(wakes[u])
          BY <1>1, <2>1, EmptyList
        <4> QED BY <1>2, <2>1, <4>1, <4>2, NewsKept DEF Settled, wqVars
      <3> QED BY <3>1, <3>2
    <2> QED BY <2>2
  <1>6. CASE ReleaseGivesBack(t) \/ ReleaseMayWake(t) \/ ReleaseFetchAdd(t)
    <2>1. /\ UNCHANGED wqVars /\ woken' = woken
          /\ wakes' = wakes \/ wakes' = [wakes EXCEPT ![t] = <<>>]
      BY <1>6 DEF ReleaseGivesBack, ReleaseMayWake, ReleaseFetchAdd, releaseVars
    <2>2. \A w \in Waiters : (\E u \in Threads : w \in ToSet(wakes'[u])) =>
                               \E u \in Threads : w \in ToSet(wakes[u])
      BY <1>1, <2>1, EmptyList
    <2> QED BY <1>2, <2>1, <2>2, NewsKept DEF Settled, wqVars
  <1> QED BY <1>3, <1>4, <1>5, <1>6 DEF Release

LEMMA NewsNext == SemInv /\ OwnersSound /\ NewsInv /\ [Next]_vars => NewsInv'
PROOF
  <1> SUFFICES ASSUME SemInv, OwnersSound, NewsInv, [Next]_vars
               PROVE  NewsInv'
    OBVIOUS
  <1>1. \A w \in Waiters : WokenForNews(w)
    BY NewsParts
  <1>2. (SemInv => (NewsInv <=> \A f \in Waiters : WokenForNews(f)))'
    BY NewsParts, PTL
  <1>3. SemInv'
    BY SemNextInv
  <1>4. CASE UNCHANGED vars
    BY <1>4 DEF NewsInv, NewsSound, WakesHaveNews, vars, semVars, wqVars
  <1>5. CASE \E c \in Callers, n \in 1..MaxGrant : Call(c, n)
    BY <1>1, <1>2, <1>3, <1>5, CallNews DEF Threads
  <1>6. CASE \E t \in Threads, n \in 1..MaxGrant : DropPermit(t, n) \/ ForgetPermit(t, n)
    BY <1>1, <1>2, <1>3, <1>6, CallNews
  <1> QED BY <1>1, <1>2, <1>3, <1>4, <1>5, <1>6, FutureNews, ReleaseNews, CloseNews DEF Next

LEMMA NewsInit == Init => NewsInv
PROOF
  <1> SUFFICES ASSUME Init
               PROVE  NewsInv
    OBVIOUS
  <1>1. SemInv /\ SelInit.wakes = <<>> /\ ToSet(<<>>) = {} /\ Waiters \subseteq Threads
    BY SemInitInv, EmptyList DEF SelInit, Threads
  <1> QED BY <1>1, NewsParts DEF Init, WQInit, WokenForNews

(* A future that was woken, or whose waker a release is about to call, has *)
(* been notified or cancelled, at every step of any number of releases,    *)
(* polls and close() calls: no waker is spent on nothing.                  *)
THEOREM WokenHaveNews == Spec => []WakesHaveNews
PROOF
  <1>1. NewsInv => WakesHaveNews
    BY DEF NewsInv
  <1> QED BY <1>1, NewsInit, NewsNext, OwnersCorrect, SemInvariance, PTL DEF Spec

-----------------------------------------------------------------------------
(* close() and the sleepers.                                               *)

(* close() wakes everybody it finds asleep: a future that sleeps in the    *)
(* queue has its waker stored, whatever selections and polls came before.  *)
THEOREM SleepersHearOfClose == Spec => CloseWakesSleepers
PROOF
  <1>1. SemInv /\ WakersSound /\ [Next]_vars
          => [\A f \in Waiters :
                /\ state[f] = "WAITING" /\ state'[f] = "CANCELLED"
                /\ pc[f] = "parked" /\ pc'[f] = "parked"
                => woken'[f]]_vars
    <2> SUFFICES ASSUME SemInv, WakersSound, Next, NEW f \in Waiters,
                        state[f] = "WAITING", state'[f] = "CANCELLED",
                        pc[f] = "parked", pc'[f] = "parked"
                 PROVE  woken'[f]
      OBVIOUS
    <2>1. /\ pc \in [Threads -> Places] /\ woken \in [Waiters -> BOOLEAN]
          /\ state \in [Waiters -> {"ABSENT", "WAITING", "NOTIFIED", "CANCELLED"}]
          /\ f \in Threads /\ waker[f]
      BY DEF SemInv, WQInv, TypeOK, SemTypeOK, Threads, WakersSound
    <2>2. ASSUME NEW g \in Waiters, Poll(g) \/ PollSpuriously(g) \/ DropFuture(g)
          PROVE  FALSE
      <3>1. g = f
        BY <2>2, FutureActs
      <3>2. CASE PollAgain(f) \/ PollSpuriously(f)
        BY <3>2 DEF PollAgain, PollSpuriously, LookAtState, wqVars
      <3>3. CASE DropFuture(f)
        BY <2>1, <3>3 DEF DropFuture, Goto
      <3> QED BY <2>2, <3>1, <3>2, <3>3 DEF Poll, PollLoad, PollCas, PollCasFails,
                 PollEnqueue, PollCheck, PollSetWaker
    <2>3. ASSUME NEW t \in Threads, NEW n \in 1..MaxGrant,
                 DropPermit(t, n) \/ ForgetPermit(t, n) \/ Call(t, n)
          PROVE  FALSE
      BY <2>3, CallActs
    <2>4. ASSUME NEW t \in Threads, Release(t)
          PROVE  FALSE
      <3>1. CASE ReleaseSelects(t)
        <4>1. CASE Notify
          BY <2>1, <4>1 DEF Notify, TryNotify
        <4>2. CASE ~Notify
          BY <3>1, <4>2 DEF ReleaseSelects, SelectStep, DropCancelledFront, PopToNotify,
             NotifyFails, TakeWaker, SingleEnds, OuterVisits, OuterEnds, InnerEnds,
             RetainStep, RetainEnds
        <4> QED BY <4>1, <4>2
      <3>2. CASE ~ReleaseSelects(t)
        BY <2>4, <3>2 DEF Release, ReleaseLocks, ReleaseUnlocks, ReleaseGivesBack,
           ReleaseMayWake, ReleaseWakes, ReleaseFetchAdd, SelectWaiters, SelectNothing,
           SelectSingle, SelectMulti, SelectReturns, wqVars
      <3> QED BY <3>1, <3>2
    <2>5. ASSUME NEW c \in Callers, CloseSetsBit(c) \/ Closing(c)
          PROVE  woken'[f]
      <3>1. PICK g \in Waiters : CloseDrains(c, g)
        BY <2>5 DEF Closing, CloseSetsBit, CloseLocks, Close, CloseUnlocks, wqVars
      <3>2. g = f
        BY <2>1, <3>1 DEF CloseDrains, CloseCancels, CancelState
      <3> QED BY <2>1, <3>1, <3>2 DEF CloseDrains, IsCancelled
    <2> QED BY <2>2, <2>3, <2>4, <2>5 DEF Next, Threads
  <1> QED BY <1>1, SleepersHaveWakers, SemInvariance, PTL DEF Spec, CloseWakesSleepers

-----------------------------------------------------------------------------
(* The whole of the inductive invariant.                                   *)

(* At every point inside the calls: the queue, the mutex, the owners, the  *)
(* wakers and close(), for any number of threads, priorities and permits.  *)
THEOREM SemInductiveAlways == Spec => []SemInductive
PROOF
  <1>1. NewsInv => NewsSound
    BY DEF NewsInv
  <1>2. /\ SemInv /\ OwnersSound /\ WakersSound /\ ClosedQueueEmpty /\ NewsSound /\ GivenUp
          => SemInductive
    BY DEF SemInductive
  <1>3. Spec => []NewsInv
    BY NewsInit, NewsNext, OwnersCorrect, SemInvariance, PTL DEF Spec
  <1> QED BY <1>1, <1>2, <1>3, SemInvariance, OwnersCorrect, SleepersHaveWakers,
             ClosedQueueStaysEmpty, OnlyOwnersGiveUp, PTL
=============================================================================
