--------------------------- MODULE WaitQueueProofs ---------------------------
(***************************************************************************)
(* Proofs about the wait queue.  The first part is about sequences: what   *)
(* the four updates of a queue (push_back, push_front, pop_front, retain)  *)
(* do to the set of its waiters.  The second part lifts that to the queues *)
(* of all priorities.  The third proves the inductive invariant, with one  *)
(* step per action; the fourth the order in which waiters are served; the  *)
(* fifth that a selection ends.                                            *)
(***************************************************************************)
EXTENDS WaitQueue, FiniteSetTheorems, SequenceTheorems, TLAPS

(* The elements of a sequence, by index.                                   *)
LEMMA ToSetElements ==
  ASSUME NEW S, NEW q \in Seq(S)
  PROVE  /\ ToSet(q) \subseteq S
         /\ \A i \in 1..Len(q) : q[i] \in ToSet(q)
         /\ \A x \in ToSet(q) : \E i \in 1..Len(q) : q[i] = x
         /\ IsInjective(q) <=> \A i, j \in 1..Len(q) : q[i] = q[j] => i = j
         /\ q = <<>> <=> ToSet(q) = {}
PROOF
  <1>1. DOMAIN q = 1..Len(q) /\ Len(q) \in Nat
    OBVIOUS
  <1>2. \A i \in 1..Len(q) : q[i] \in S
    OBVIOUS
  <1>3. /\ \A i \in 1..Len(q) : q[i] \in ToSet(q)
        /\ \A x \in ToSet(q) : \E i \in 1..Len(q) : q[i] = x
    BY <1>1 DEF ToSet
  <1>4. q = <<>> <=> Len(q) = 0
    OBVIOUS
  <1>5. q = <<>> <=> ToSet(q) = {}
    <2>1. Len(q) # 0 => 1 \in 1..Len(q)
      BY <1>1
    <2>2. Len(q) = 0 => 1..Len(q) = {}
      OBVIOUS
    <2> QED BY <1>3, <1>4, <2>1, <2>2
  <1>6. IsInjective(q) <=> \A i, j \in 1..Len(q) : q[i] = q[j] => i = j
    BY <1>1 DEF IsInjective
  <1> QED BY <1>2, <1>3, <1>5, <1>6

(* push_back of a new element.                                             *)
LEMMA AppendNew ==
  ASSUME NEW S, NEW q \in Seq(S), NEW x \in S, x \notin ToSet(q), IsInjective(q)
  PROVE  /\ Append(q, x) \in Seq(S)
         /\ ToSet(Append(q, x)) = ToSet(q) \cup {x}
         /\ IsInjective(Append(q, x))
PROOF
  <1> DEFINE r == Append(q, x)
  <1>1. /\ r \in Seq(S) /\ Len(r) = Len(q) + 1 /\ Len(q) \in Nat
        /\ r[Len(q) + 1] = x
        /\ \A i \in 1..Len(q) : r[i] = q[i]
    OBVIOUS
  <1> HIDE DEF r
  <1>2. \A i \in 1..Len(r) : i = Len(q) + 1 \/ i \in 1..Len(q)
    BY <1>1
  <1>3. \A i \in 1..Len(q) : i \in 1..Len(r)
    BY <1>1
  <1>4. Len(q) + 1 \in 1..Len(r)
    BY <1>1
  <1>5. \A i \in 1..Len(q) : q[i] # x
    BY ToSetElements
  <1>6. ToSet(r) = ToSet(q) \cup {x}
    <2>1. ASSUME NEW y \in ToSet(r)
          PROVE  y \in ToSet(q) \cup {x}
      BY <1>1, <1>2, ToSetElements
    <2>2. ASSUME NEW y \in ToSet(q) \cup {x}
          PROVE  y \in ToSet(r)
      BY <1>1, <1>3, <1>4, ToSetElements
    <2> QED BY <2>1, <2>2
  <1>7. \A i, j \in 1..Len(r) : r[i] = r[j] => i = j
    <2>1. \A i, j \in 1..Len(q) : q[i] = q[j] => i = j
      BY ToSetElements
    <2>2. \A i \in 1..Len(q) : r[i] # r[Len(q) + 1]
      BY <1>1, <1>5
    <2> QED BY ONLY <1>1, <1>2, <2>1, <2>2
  <1>8. IsInjective(r)
    BY <1>1, <1>7, ToSetElements
  <1> QED BY <1>1, <1>6, <1>8 DEF r

(* push_front of a new element.                                            *)
LEMMA ConsNew ==
  ASSUME NEW S, NEW q \in Seq(S), NEW x \in S, x \notin ToSet(q), IsInjective(q)
  PROVE  /\ <<x>> \o q \in Seq(S)
         /\ ToSet(<<x>> \o q) = ToSet(q) \cup {x}
         /\ IsInjective(<<x>> \o q)
PROOF
  <1> DEFINE r == <<x>> \o q
  <1>0. <<x>> \in Seq(S) /\ Len(<<x>>) = 1 /\ <<x>>[1] = x /\ Len(q) \in Nat
    OBVIOUS
  <1>1. /\ r \in Seq(S) /\ Len(r) = Len(q) + 1
        /\ r[1] = x
        /\ \A i \in 1..Len(r) : i # 1 => r[i] = q[i - 1]
    BY <1>0, ConcatProperties
  <1> HIDE DEF r
  <1>2. \A i \in 1..Len(r) : i = 1 \/ i - 1 \in 1..Len(q)
    BY <1>0, <1>1
  <1>3. \A i \in 1..Len(q) : i + 1 \in 1..Len(r) /\ r[i + 1] = q[i]
    <2> TAKE i \in 1..Len(q)
    <2>1. i + 1 \in 1..Len(r) /\ i + 1 # 1 /\ (i + 1) - 1 = i
      BY <1>0, <1>1
    <2> QED BY <1>1, <2>1
  <1>4. 1 \in 1..Len(r)
    BY <1>0, <1>1
  <1>5. \A i \in 1..Len(q) : q[i] # x
    BY ToSetElements
  <1>6. ToSet(r) = ToSet(q) \cup {x}
    <2>1. ASSUME NEW y \in ToSet(r)
          PROVE  y \in ToSet(q) \cup {x}
      <3>1. PICK i \in 1..Len(r) : r[i] = y
        BY <1>1, ToSetElements
      <3>2. i = 1 \/ (i - 1 \in 1..Len(q) /\ r[i] = q[i - 1])
        BY <1>1, <1>2
      <3> QED BY <1>1, <3>1, <3>2, ToSetElements
    <2>2. ASSUME NEW y \in ToSet(q) \cup {x}
          PROVE  y \in ToSet(r)
      <3>1. CASE y = x
        BY <1>1, <1>4, <3>1, ToSetElements
      <3>2. CASE y \in ToSet(q)
        <4>1. PICK i \in 1..Len(q) : q[i] = y
          BY <3>2, ToSetElements
        <4> QED BY <1>1, <1>3, <4>1, ToSetElements
      <3> QED BY <3>1, <3>2
    <2> QED BY <2>1, <2>2
  <1>7. ASSUME NEW i \in 1..Len(r), NEW j \in 1..Len(r), r[i] = r[j]
        PROVE  i = j
    <2>1. i = 1 <=> j = 1
      BY <1>1, <1>2, <1>5, <1>7
    <2>2. CASE i # 1 /\ j # 1
      <3>1. \A k, l \in 1..Len(q) : q[k] = q[l] => k = l
        BY ToSetElements
      <3>2. i - 1 = j - 1
        BY ONLY <1>1, <1>2, <1>7, <2>2, <3>1
      <3> QED BY ONLY <3>2, <1>0, i \in 1..Len(r), j \in 1..Len(r)
    <2> QED BY <2>1, <2>2
  <1>8. IsInjective(r)
    BY <1>1, <1>7, ToSetElements
  <1> QED BY <1>1, <1>6, <1>8 DEF r

(* Removal of one element, wherever it is.                                 *)
LEMMA RemoveOne ==
  ASSUME NEW S, NEW q \in Seq(S), IsInjective(q), NEW k \in 1..Len(q),
         NEW r \in Seq(S), Len(r) = Len(q) - 1,
         \A i \in 1..Len(r) : r[i] = q[IF i < k THEN i ELSE i + 1]
  PROVE  ToSet(r) = ToSet(q) \ {q[k]} /\ IsInjective(r)
PROOF
  <1> DEFINE up(i) == IF i < k THEN i ELSE i + 1
  <1>1. Len(q) \in Nat /\ k \in Nat /\ 1 <= k /\ k <= Len(q)
    OBVIOUS
  <1>2. \A i \in 1..Len(r) : up(i) \in 1..Len(q) /\ up(i) # k
    BY <1>1
  <1>3. \A i, j \in 1..Len(r) : up(i) = up(j) => i = j
    BY <1>1
  <1>4. \A j \in 1..Len(q) : j # k => \E i \in 1..Len(r) : up(i) = j
    <2> TAKE j \in 1..Len(q)
    <2>1. CASE j < k
      <3>1. j \in 1..Len(r) /\ up(j) = j
        BY <1>1, <2>1
      <3> QED BY <3>1
    <2>2. CASE j > k
      <3>1. j - 1 \in 1..Len(r) /\ up(j - 1) = j
        BY <1>1, <2>2
      <3> QED BY <3>1
    <2> QED BY <1>1, <2>1, <2>2
  <1>5. \A i \in 1..Len(r) : r[i] = q[up(i)]
    OBVIOUS
  <1>6. \A i, j \in 1..Len(q) : q[i] = q[j] => i = j
    BY ToSetElements
  <1> HIDE DEF up
  <1>7. \A i, j \in 1..Len(r) : r[i] = r[j] => i = j
    BY <1>2, <1>3, <1>5, <1>6
  <1>8. IsInjective(r)
    BY <1>7, ToSetElements
  <1>9. ASSUME NEW x \in ToSet(r)
        PROVE  x \in ToSet(q) \ {q[k]}
    <2>1. PICK i \in 1..Len(r) : r[i] = x
      BY ToSetElements
    <2>2. x = q[up(i)] /\ up(i) \in 1..Len(q) /\ up(i) # k
      BY <1>2, <1>5, <2>1
    <2>3. x # q[k]
      BY <1>6, <2>2
    <2> QED BY <2>2, <2>3, ToSetElements
  <1>10. ASSUME NEW x \in ToSet(q) \ {q[k]}
         PROVE  x \in ToSet(r)
    <2>1. PICK j \in 1..Len(q) : q[j] = x
      BY ToSetElements
    <2>2. PICK i \in 1..Len(r) : up(i) = j
      BY <1>4, <2>1
    <2> QED BY <1>5, <2>1, <2>2, ToSetElements
  <1> QED BY <1>8, <1>9, <1>10

(* pop_front.                                                              *)
LEMMA TailRemoves ==
  ASSUME NEW S, NEW q \in Seq(S), IsInjective(q), q # <<>>
  PROVE  /\ Tail(q) \in Seq(S) /\ Head(q) \in ToSet(q)
         /\ ToSet(Tail(q)) = ToSet(q) \ {Head(q)} /\ IsInjective(Tail(q))
PROOF
  <1>1. /\ Tail(q) \in Seq(S) /\ Len(Tail(q)) = Len(q) - 1 /\ Head(q) = q[1]
        /\ 1 \in 1..Len(q)
        /\ \A i \in 1..Len(Tail(q)) : Tail(q)[i] = q[i + 1]
    OBVIOUS
  <1>2. \A i \in 1..Len(Tail(q)) : Tail(q)[i] = q[IF i < 1 THEN i ELSE i + 1]
    BY <1>1
  <1>3. ToSet(Tail(q)) = ToSet(q) \ {q[1]} /\ IsInjective(Tail(q))
    BY <1>1, <1>2, RemoveOne
  <1> QED BY <1>1, <1>3, ToSetElements

(* One removal of retain.                                                  *)
LEMMA RemoveAtElements ==
  ASSUME NEW S, NEW q \in Seq(S), NEW k \in 1..Len(q)
  PROVE  /\ RemoveAt(q, k) \in Seq(S) /\ Len(RemoveAt(q, k)) = Len(q) - 1
         /\ \A i \in 1..Len(RemoveAt(q, k)) :
              RemoveAt(q, k)[i] = q[IF i < k THEN i ELSE i + 1]
PROOF
  <1> DEFINE r == RemoveAt(q, k)
             a == SubSeq(q, 1, k - 1)
             b == SubSeq(q, k + 1, Len(q))
  <1>1. Len(q) \in Nat /\ k \in Nat /\ 1 <= k /\ k <= Len(q)
    OBVIOUS
  <1>2. /\ a \in Seq(S) /\ Len(a) = k - 1
        /\ \A i \in 1..Len(a) : a[i] = q[i]
    BY <1>1
  <1>3. /\ b \in Seq(S) /\ Len(b) = Len(q) - k
        /\ \A i \in 1..Len(b) : b[i] = q[k + i]
    BY <1>1
  <1>4. r = a \o b
    BY DEF RemoveAt
  <1> HIDE DEF a, b, r
  <1>5. /\ r \in Seq(S) /\ Len(r) = Len(a) + Len(b)
        /\ \A i \in 1..Len(a) + Len(b) :
             r[i] = IF i <= Len(a) THEN a[i] ELSE b[i - Len(a)]
    BY <1>2, <1>3, <1>4, ConcatProperties
  <1>6. Len(r) = Len(q) - 1
    BY <1>1, <1>2, <1>3, <1>5
  <1>7. ASSUME NEW i \in 1..Len(r)
        PROVE  r[i] = q[IF i < k THEN i ELSE i + 1]
    <2>1. CASE i < k
      <3>1. i \in 1..Len(a) /\ i \in 1..Len(a) + Len(b) /\ i <= Len(a)
        BY <1>1, <1>2, <1>3, <1>6, <2>1
      <3> QED BY <1>2, <1>5, <2>1, <3>1
    <2>2. CASE ~(i < k)
      <3>1. /\ i - Len(a) \in 1..Len(b) /\ k + (i - Len(a)) = i + 1
            /\ i \in 1..Len(a) + Len(b) /\ ~(i <= Len(a))
        BY <1>1, <1>2, <1>3, <1>6, <2>2
      <3> QED BY <1>3, <1>5, <2>2, <3>1
    <2> QED BY <2>1, <2>2
  <1> QED BY <1>5, <1>6, <1>7 DEF r

LEMMA RemoveAtRemoves ==
  ASSUME NEW S, NEW q \in Seq(S), IsInjective(q), NEW k \in 1..Len(q)
  PROVE  /\ RemoveAt(q, k) \in Seq(S) /\ q[k] \in ToSet(q)
         /\ ToSet(RemoveAt(q, k)) = ToSet(q) \ {q[k]} /\ IsInjective(RemoveAt(q, k))
PROOF
  <1> DEFINE r == RemoveAt(q, k)
  <1>1. /\ r \in Seq(S) /\ Len(r) = Len(q) - 1
        /\ \A i \in 1..Len(r) : r[i] = q[IF i < k THEN i ELSE i + 1]
    BY RemoveAtElements
  <1> HIDE DEF r
  <1>2. ToSet(r) = ToSet(q) \ {q[k]} /\ IsInjective(r)
    BY <1>1, RemoveOne
  <1> QED BY <1>1, <1>2, ToSetElements DEF r

-----------------------------------------------------------------------------
(* The queues of all priorities.                                           *)

LEMMA PriorityTyped ==
  ASSUME req \in Requests, NEW w \in Waiters
  PROVE  Priority(w) \in Prios /\ Need(w) \in Nat
PROOF
  <1>1. req \in [Waiters -> [need : Nat, prio : Prios]]
    BY WaitQueueAssumption
  <1> QED BY <1>1 DEF Priority, Need

LEMMA SameQueues ==
  ASSUME queues' = queues, req' = req
  PROVE  Queued' = Queued /\ (QueuesSound => QueuesSound')
PROOF BY DEF Queued, QueuesSound, Priority

LEMMA QueuedFinite == IsFiniteSet(Queued) /\ Queued \subseteq Waiters
PROOF
  <1>1. Queued \subseteq Waiters
    BY DEF Queued
  <1> QED BY <1>1, FS_Subset, WaitQueueAssumption

(* One queue is replaced by another one.                                   *)
LEMMA QueueReplaced ==
  ASSUME req \in Requests, queues \in [Prios -> Seq(Waiters)], QueuesSound,
         NEW p \in Prios, NEW r \in Seq(Waiters), IsInjective(r),
         \A w \in ToSet(r) : Priority(w) = p,
         queues' = [queues EXCEPT ![p] = r], req' = req
  PROVE  /\ queues' \in [Prios -> Seq(Waiters)]
         /\ QueuesSound'
         /\ Queued' = (Queued \ ToSet(queues[p])) \cup ToSet(r)
PROOF
  <1>1. /\ queues' \in [Prios -> Seq(Waiters)] /\ queues'[p] = r
        /\ \A s \in Prios \ {p} : queues'[s] = queues[s]
    OBVIOUS
  <1>2. \A w \in Waiters : Priority(w)' = Priority(w)
    BY DEF Priority
  <1>3. \A w \in ToSet(r) : Priority(w)' = p
    BY DEF Priority
  <1>4. QueuesSound'
    <2> SUFFICES ASSUME NEW s \in Prios
                 PROVE  /\ IsInjective(queues'[s])
                        /\ \A w \in ToSet(queues'[s]) : Priority(w)' = s
      BY DEF QueuesSound
    <2>1. CASE s = p
      BY <1>1, <1>3, <2>1
    <2>2. CASE s # p
      BY <1>1, <2>2 DEF QueuesSound, Priority
    <2> QED BY <2>1, <2>2
  <1>5. ToSet(r) \subseteq Waiters /\ ToSet(queues[p]) \subseteq Waiters
    <2>1. queues[p] \in Seq(Waiters)
      OBVIOUS
    <2> QED BY <2>1, ToSetElements
  <1>6. ASSUME NEW w \in Waiters
        PROVE  w \in ToSet(queues'[Priority(w)]) <=>
                 w \in (Queued \ ToSet(queues[p])) \cup ToSet(r)
    <2>1. Priority(w) \in Prios
      BY PriorityTyped
    <2>2. CASE Priority(w) = p
      BY <1>1, <2>2 DEF Queued
    <2>3. CASE Priority(w) # p
      BY <1>1, <2>1, <2>3 DEF Queued, QueuesSound
    <2> QED BY <2>2, <2>3
  <1>7. Queued' = {w \in Waiters : w \in ToSet(queues'[Priority(w)])}
    BY <1>2 DEF Queued
  <1> QED BY <1>1, <1>4, <1>5, <1>6, <1>7 DEF Queued

LEMMA QueueMembers ==
  ASSUME req \in Requests, queues \in [Prios -> Seq(Waiters)], QueuesSound,
         NEW p \in Prios
  PROVE  ToSet(queues[p]) \subseteq Queued
PROOF
  <1>1. queues[p] \in Seq(Waiters)
    OBVIOUS
  <1>2. ToSet(queues[p]) \subseteq Waiters
    BY <1>1, ToSetElements
  <1> QED BY <1>2 DEF Queued, QueuesSound

LEMMA PopShrinks ==
  ASSUME req \in Requests, queues \in [Prios -> Seq(Waiters)], QueuesSound,
         NEW p \in Prios, queues[p] # <<>>,
         queues' = [queues EXCEPT ![p] = Tail(@)], req' = req
  PROVE  /\ queues' \in [Prios -> Seq(Waiters)] /\ QueuesSound'
         /\ Head(queues[p]) \in Queued
         /\ Queued' = Queued \ {Head(queues[p])}
PROOF
  <1>1. queues[p] \in Seq(Waiters) /\ IsInjective(queues[p])
    BY DEF QueuesSound
  <1>2. /\ Tail(queues[p]) \in Seq(Waiters) /\ Head(queues[p]) \in ToSet(queues[p])
        /\ ToSet(Tail(queues[p])) = ToSet(queues[p]) \ {Head(queues[p])}
        /\ IsInjective(Tail(queues[p]))
    BY <1>1, TailRemoves
  <1>3. \A w \in ToSet(Tail(queues[p])) : Priority(w) = p
    BY <1>2 DEF QueuesSound
  <1>4. ToSet(queues[p]) \subseteq Queued
    BY QueueMembers
  <1>5. /\ queues' \in [Prios -> Seq(Waiters)] /\ QueuesSound'
        /\ Queued' = (Queued \ ToSet(queues[p])) \cup ToSet(Tail(queues[p]))
    BY <1>2, <1>3, QueueReplaced
  <1> QED BY <1>2, <1>4, <1>5

LEMMA RetainShrinks ==
  ASSUME req \in Requests, queues \in [Prios -> Seq(Waiters)], QueuesSound,
         NEW p \in Prios, NEW k \in 1..Len(queues[p]),
         queues' = [queues EXCEPT ![p] = RemoveAt(@, k)], req' = req
  PROVE  /\ queues' \in [Prios -> Seq(Waiters)] /\ QueuesSound'
         /\ queues[p][k] \in Queued
         /\ Queued' = Queued \ {queues[p][k]}
PROOF
  <1>1. queues[p] \in Seq(Waiters) /\ IsInjective(queues[p])
    BY DEF QueuesSound
  <1> DEFINE r == RemoveAt(queues[p], k)
  <1>2. /\ r \in Seq(Waiters) /\ queues[p][k] \in ToSet(queues[p])
        /\ ToSet(r) = ToSet(queues[p]) \ {queues[p][k]} /\ IsInjective(r)
    BY <1>1, RemoveAtRemoves
  <1>3. queues' = [queues EXCEPT ![p] = r]
    OBVIOUS
  <1> HIDE DEF r
  <1>4. \A w \in ToSet(r) : Priority(w) = p
    BY <1>2 DEF QueuesSound
  <1>5. ToSet(queues[p]) \subseteq Queued
    BY QueueMembers
  <1>6. /\ queues' \in [Prios -> Seq(Waiters)] /\ QueuesSound'
        /\ Queued' = (Queued \ ToSet(queues[p])) \cup ToSet(r)
    BY <1>2, <1>3, <1>4, QueueReplaced
  <1> QED BY <1>2, <1>5, <1>6

LEMMA EnqueueGrows ==
  ASSUME req \in Requests, queues \in [Prios -> Seq(Waiters)], QueuesSound,
         NEW w \in Waiters, w \notin Queued, Enqueue(w, Priority(w)), req' = req
  PROVE  /\ queues' \in [Prios -> Seq(Waiters)] /\ QueuesSound'
         /\ Queued' = Queued \cup {w}
         /\ \A p \in Prios : queues'[p] = <<>> <=> queues[p] = <<>> /\ p # Priority(w)
PROOF
  <1> DEFINE p == Priority(w)
             q == queues[p]
             r == IF Strategy[p] = "Fifo" THEN Append(q, w) ELSE <<w>> \o q
  <1>1. p \in Prios
    BY PriorityTyped
  <1>2. q \in Seq(Waiters) /\ IsInjective(q) /\ w \notin ToSet(q)
    BY <1>1 DEF QueuesSound, Queued
  <1>3. queues' = [queues EXCEPT ![p] = r]
    BY DEF Enqueue
  <1>4. r \in Seq(Waiters) /\ ToSet(r) = ToSet(q) \cup {w} /\ IsInjective(r)
    BY <1>2, AppendNew, ConsNew
  <1>5. \A v \in ToSet(r) : Priority(v) = p
    BY <1>1, <1>4 DEF QueuesSound
  <1>6. ToSet(q) \subseteq Queued
    BY <1>1, QueueMembers
  <1> HIDE DEF r
  <1>7. /\ queues' \in [Prios -> Seq(Waiters)] /\ QueuesSound'
        /\ Queued' = (Queued \ ToSet(q)) \cup ToSet(r)
    BY <1>1, <1>3, <1>4, <1>5, QueueReplaced
  <1>8. \A s \in Prios : queues'[s] = <<>> <=> queues[s] = <<>> /\ s # p
    <2>1. r # <<>>
      BY <1>4, ToSetElements
    <2> QED BY <1>1, <1>3, <2>1
  <1> QED BY <1>4, <1>6, <1>7, <1>8

-----------------------------------------------------------------------------
(* The inductive invariant, action by action.                              *)

LEMMA SelInitTyped == SelInit \in Selections
PROOF BY WaitQueueAssumption DEF SelInit, Selections, Phases, Loops, NoCounts

LEMMA InitInv == WQInit => WQInv
PROOF
  <1> SUFFICES ASSUME WQInit PROVE WQInv
    OBVIOUS
  <1> USE DEF WQInit
  <1>1. \A p \in Prios : queues[p] = <<>> /\ queues[p] \in Seq(Waiters)
    OBVIOUS
  <1>2. ToSet(<<>>) = {} /\ IsInjective(<<>>)
    BY DEF ToSet, IsInjective
  <1>3. Queued = {}
    BY <1>1, <1>2, PriorityTyped DEF Queued
  <1>5. TypeOK
    BY <1>1, SelInitTyped DEF TypeOK, NoCounts
  <1>6. QueuesSound
    BY <1>1, <1>2 DEF QueuesSound
  <1>7. SelSound /\ WakeRoom
    BY WaitQueueAssumption DEF SelSound, SelInit, Serving, Loops, WakeRoom, WakeListFits, CanPush
  <1>8. PlacesSound
    BY <1>3, WaitQueueAssumption DEF PlacesSound, SelInit, Queued
  <1>9. CountSound
    BY <1>3, FS_EmptySet DEF CountSound, SelInit
  <1>10. HeapSound
    BY <1>1 DEF HeapSound, SelInit, NoCounts
  <1>11. NoWaiterLost
    BY DEF NoWaiterLost
  <1> QED BY <1>5, <1>6, <1>7, <1>8, <1>9, <1>10, <1>11 DEF WQInv

LEMMA PushStep ==
  ASSUME WQInv, NEW w \in Waiters, PushWaiter(w)
  PROVE  WQInv'
PROOF
  <1> USE DEF WQInv, PushWaiter
  <1>1. /\ sel.phase = "idle" /\ drained = {} /\ sel.cur = None /\ w \notin Queued
        /\ sel' = sel /\ drained' = drained /\ req' = req /\ sel.removed = 0
    BY DEF Busy, SelSound, PlacesSound
  <1>2. /\ queues' \in [Prios -> Seq(Waiters)] /\ QueuesSound'
        /\ Queued' = Queued \cup {w}
        /\ \A p \in Prios : queues'[p] = <<>> <=> queues[p] = <<>> /\ p # Priority(w)
    BY <1>1, EnqueueGrows DEF TypeOK
  <1>3. Priority(w) \in Prios
    BY PriorityTyped DEF TypeOK
  <1>4. TypeOK'
    BY <1>2, <1>3 DEF TypeOK, Activate
  <1>5. SelSound' /\ WakeRoom'
    BY <1>1 DEF SelSound, WakeRoom, Serving, WakeListFits, CanPush
  <1>6. PlacesSound'
    BY <1>1, <1>2, WaitQueueAssumption DEF PlacesSound, TypeOK
  <1>7. CountSound'
    <2>1. Cardinality(Queued \cup {w}) = Cardinality(Queued) + 1
      BY <1>1, QueuedFinite, FS_AddElement
    <2>2. Cardinality(Queued) \in Nat
      BY QueuedFinite, FS_CardinalityType
    <2> QED BY <1>1, <1>2, <2>1, <2>2 DEF CountSound
  <1>8. HeapSound'
    <2>1. ~Serving /\ ~Serving' /\ active \in [Prios -> Nat]
      BY <1>1 DEF Serving, TypeOK
    <2>2. \A p \in Prios : sel.restore[p] \in Nat
      BY DEF TypeOK, Selections
    <2>3. \A p \in Prios : active'[p] = IF p = Priority(w) /\ queues[p] = <<>>
                                         THEN active[p] + 1 ELSE active[p]
      BY <2>1 DEF Activate
    <2>4. \A p \in Prios : active[p] + sel.restore[p] = IF queues[p] = <<>> THEN 0 ELSE 1
      BY <2>1 DEF HeapSound
    <2>5. \A p \in Prios : active'[p] + sel.restore[p] = IF queues'[p] = <<>> THEN 0 ELSE 1
      BY ONLY <1>2, <2>1, <2>2, <2>3, <2>4
    <2> QED BY ONLY <1>1, <2>1, <2>5 DEF HeapSound
  <1>9. NoWaiterLost'
    BY <1>1, <1>2 DEF NoWaiterLost, TypeOK
  <1> QED BY <1>2, <1>4, <1>5, <1>6, <1>7, <1>8, <1>9

(* Cancel, CloseCancels: a state word becomes CANCELLED.                   *)
LEMMA CancelStep ==
  ASSUME WQInv, NEW w \in Waiters, state[w] # "ABSENT", CancelState(w),
         drained' \in {drained, drained \ {w}},
         UNCHANGED <<req, waker, queues, active, total, sel, earlier>>
  PROVE  WQInv'
PROOF
  <1> USE DEF WQInv, CancelState
  <1>1. Queued' = Queued /\ QueuesSound'
    BY SameQueues
  <1>2. TypeOK'
    BY DEF TypeOK
  <1>3. SelSound' /\ WakeRoom' /\ HeapSound' /\ CountSound'
    BY <1>1 DEF SelSound, WakeRoom, HeapSound, CountSound, Serving, WakeListFits, CanPush
  <1>4. PlacesSound'
    BY <1>1, QueuedFinite DEF PlacesSound, TypeOK, SelSound
  <1>5. NoWaiterLost'
    BY <1>1 DEF NoWaiterLost, TypeOK
  <1> QED BY <1>1, <1>2, <1>3, <1>4, <1>5

LEMMA SetWakerStep ==
  ASSUME WQInv, NEW w \in Waiters, SetWaker(w)
  PROVE  WQInv'
PROOF
  <1> USE DEF WQInv, SetWaker
  <1>1. Queued' = Queued /\ QueuesSound'
    BY SameQueues
  <1>2. TypeOK'
    BY DEF TypeOK
  <1>3. /\ SelSound' /\ WakeRoom' /\ HeapSound' /\ CountSound' /\ PlacesSound'
        /\ NoWaiterLost'
    BY <1>1 DEF SelSound, WakeRoom, HeapSound, CountSound, PlacesSound, NoWaiterLost,
                Serving, WakeListFits, CanPush
  <1> QED BY <1>1, <1>2, <1>3

LEMMA CloseStep ==
  ASSUME WQInv, Close
  PROVE  WQInv'
PROOF
  <1> USE DEF WQInv, Close
  <1>1. sel.phase = "idle" /\ drained = {} /\ sel.removed = 0 /\ sel.cur = None
        /\ sel.restore = NoCounts
    BY DEF Busy, SelSound
  <1>2. ToSet(<<>>) = {} /\ IsInjective(<<>>) /\ <<>> \in Seq(Waiters)
    BY DEF ToSet, IsInjective
  <1>3. \A p \in Prios : queues'[p] = <<>>
    OBVIOUS
  <1>4. Queued' = {}
    <2>1. \A w \in Waiters : Priority(w)' \in Prios
      BY PriorityTyped DEF TypeOK, Priority
    <2> QED BY <1>2, <1>3, <2>1 DEF Queued
  <1>5. QueuesSound'
    BY <1>2, <1>3 DEF QueuesSound
  <1>6. TypeOK'
    BY <1>2, QueuedFinite DEF TypeOK, NoCounts
  <1>7. SelSound' /\ WakeRoom'
    BY <1>1 DEF SelSound, WakeRoom, Serving, WakeListFits, CanPush
  <1>8. PlacesSound'
    BY <1>1, <1>4, QueuedFinite, WaitQueueAssumption DEF PlacesSound
  <1>9. CountSound'
    BY <1>1, <1>4, FS_EmptySet DEF CountSound
  <1>10. HeapSound'
    BY <1>1, <1>3 DEF HeapSound, NoCounts
  <1>11. NoWaiterLost'
    BY <1>1, <1>4 DEF NoWaiterLost
  <1> QED BY <1>5, <1>6, <1>7, <1>8, <1>9, <1>10, <1>11

LEMMA SelectStartStep ==
  ASSUME WQInv, NEW n \in Nat, SelectWaiters(n)
  PROVE  WQInv'
PROOF
  <1> USE DEF WQInv
  <1>1. /\ ~Busy /\ UNCHANGED <<req, state, waker, queues, total, drained, earlier>>
    BY DEF SelectWaiters, SelectNothing, SelectSingle, SelectMulti
  <1>2. sel.phase = "idle" /\ drained = {} /\ sel.cur = None /\ sel.removed = 0
        /\ sel.restore = NoCounts /\ ~Serving
    BY <1>1 DEF Busy, SelSound, Serving
  <1>3. Queued' = Queued /\ QueuesSound'
    BY <1>1, SameQueues
  <1>4. /\ sel' \in Selections
        /\ active' \in [Prios -> Nat]
        /\ sel'.cur = None /\ sel'.removed = 0 /\ sel'.restore = NoCounts
        /\ sel'.wakes = <<>> /\ sel'.phase \in {"done", "single", "outer"}
        /\ sel'.phase = "single" => sel'.loop = "single" /\ sel'.prio \in Prios
        /\ sel'.phase = "outer" => sel'.loop = "inner"
        /\ \A p \in Prios : active'[p] = IF sel'.phase = "single" /\ p = sel'.prio
                                         THEN 0 ELSE active[p]
    <2>1. CASE SelectNothing(n)
      <3>1. sel' = [SelInit EXCEPT !.phase = "done", !.given = n, !.avail = n]
            /\ active' = active
        BY <2>1 DEF SelectNothing
      <3>2. sel' \in Selections
        BY <3>1, SelInitTyped DEF Selections, Phases
      <3>3. /\ sel'.cur = None /\ sel'.removed = 0 /\ sel'.restore = NoCounts
            /\ sel'.wakes = <<>> /\ sel'.phase = "done"
        BY <3>1 DEF SelInit
      <3> QED BY <3>1, <3>2, <3>3 DEF TypeOK
    <2>2. CASE SelectSingle(n)
      <3>1. PICK p \in Prios :
              /\ active' = [active EXCEPT ![p] = 0]
              /\ sel' = [SelInit EXCEPT !.phase = "single", !.loop = "single",
                                        !.given = n, !.avail = n, !.prio = p]
        BY <2>2 DEF SelectSingle
      <3>2. sel' \in Selections
        BY <3>1, SelInitTyped DEF Selections, Phases, Loops
      <3>3. /\ sel'.cur = None /\ sel'.removed = 0 /\ sel'.restore = NoCounts
            /\ sel'.wakes = <<>> /\ sel'.phase = "single" /\ sel'.loop = "single"
            /\ sel'.prio = p
        BY <3>1 DEF SelInit
      <3>4. active' \in [Prios -> Nat]
        BY <3>1 DEF TypeOK
      <3>5. \A r \in Prios : active'[r] = IF r = p THEN 0 ELSE active[r]
        BY <3>1 DEF TypeOK
      <3> QED BY <3>2, <3>3, <3>4, <3>5
    <2>3. CASE SelectMulti(n)
      <3>1. sel' = [SelInit EXCEPT !.phase = "outer", !.loop = "inner",
                                   !.given = n, !.avail = n]
            /\ active' = active
        BY <2>3 DEF SelectMulti
      <3>2. sel' \in Selections
        BY <3>1, SelInitTyped DEF Selections, Phases, Loops
      <3>3. /\ sel'.cur = None /\ sel'.removed = 0 /\ sel'.restore = NoCounts
            /\ sel'.wakes = <<>> /\ sel'.phase = "outer" /\ sel'.loop = "inner"
        BY <3>1 DEF SelInit
      <3> QED BY <3>1, <3>2, <3>3 DEF TypeOK
    <2> QED BY <2>1, <2>2, <2>3 DEF SelectWaiters
  <1>5. TypeOK'
    BY <1>1, <1>4 DEF TypeOK
  <1>6. SelSound'
    BY <1>1, <1>2, <1>4 DEF SelSound, Serving, Loops
  <1>7. PlacesSound' /\ NoWaiterLost'
    BY <1>1, <1>2, <1>3, <1>4 DEF PlacesSound, NoWaiterLost
  <1>8. CountSound'
    BY <1>1, <1>2, <1>3, <1>4 DEF CountSound
  <1>9. HeapSound'
    <2>1. \A p \in Prios : active[p] \in Nat
      BY DEF TypeOK
    <2>2. \A p \in Prios : active[p] = IF queues[p] = <<>> THEN 0 ELSE 1
      BY <1>2, <2>1 DEF HeapSound, NoCounts
    <2> SUFFICES ASSUME NEW p \in Prios
                 PROVE  active'[p] = IF queues[p] = <<>> \/ (Serving' /\ p = sel'.prio)
                                       THEN 0 ELSE 1
      BY <1>1, <1>4, <2>1 DEF HeapSound, NoCounts
    <2>3. Serving' <=> sel'.phase = "single"
      BY <1>4 DEF Serving
    <2> QED BY <1>4, <2>2, <2>3
  <1>10. WakeRoom'
    BY <1>4, WaitQueueAssumption DEF WakeRoom, WakeListFits, CanPush
  <1> QED BY <1>3, <1>5, <1>6, <1>7, <1>8, <1>9, <1>10

\* What is known while a queue is being processed.
LEMMA LoopFacts ==
  ASSUME WQInv, sel.phase \in Loops
  PROVE  /\ sel.prio \in Prios /\ Queue \in Seq(Waiters) /\ sel.cur = None
         /\ drained = {} /\ sel.removed = 0 /\ sel.avail \in Nat
         /\ sel.wakes \in Seq(Waiters) /\ Serving /\ sel.phase = sel.loop
         /\ Queue # <<>> => FrontWaiter \in Waiters
PROOF
  <1>1. sel.phase \in {"single", "inner"}
    BY DEF Loops
  <1>2. sel.prio \in Prios /\ sel.cur = None /\ drained = {} /\ sel.removed = 0 /\ Serving
        /\ sel.phase = sel.loop
    BY <1>1 DEF WQInv, SelSound, Serving, Loops
  <1>3. Queue \in Seq(Waiters) /\ sel.avail \in Nat /\ sel.wakes \in Seq(Waiters)
    BY <1>2 DEF WQInv, TypeOK, Queue, Selections
  <1> QED BY <1>2, <1>3 DEF FrontWaiter

\* The front waiter leaves the queue that is being processed.
LEMMA PopFacts ==
  ASSUME WQInv, sel.phase \in Loops, Queue # <<>>, PopFront, req' = req
  PROVE  /\ queues' \in [Prios -> Seq(Waiters)] /\ QueuesSound'
         /\ FrontWaiter \in Queued /\ Queued' = Queued \ {FrontWaiter}
         /\ total' \in Nat /\ total' = Cardinality(Queued')
         /\ \A p \in Prios \ {sel.prio} : queues'[p] = queues[p]
PROOF
  <1>1. /\ sel.prio \in Prios /\ sel.removed = 0
    BY LoopFacts
  <1>2. queues' = [queues EXCEPT ![sel.prio] = Tail(@)] /\ total' = total - 1
    BY DEF PopFront
  <1>3. /\ queues' \in [Prios -> Seq(Waiters)] /\ QueuesSound'
        /\ FrontWaiter \in Queued /\ Queued' = Queued \ {FrontWaiter}
    BY <1>1, <1>2, PopShrinks DEF WQInv, TypeOK, Queue, FrontWaiter
  <1>4. /\ Cardinality(Queued \ {FrontWaiter}) = Cardinality(Queued) - 1
        /\ Cardinality(Queued \ {FrontWaiter}) \in Nat
    BY <1>3, QueuedFinite, FS_RemoveElement, FS_CardinalityType
  <1>5. total = Cardinality(Queued) + 0 /\ Cardinality(Queued) \in Nat
    BY <1>1, QueuedFinite, FS_CardinalityType DEF WQInv, CountSound
  <1>6. \A p \in Prios \ {sel.prio} : queues'[p] = queues[p]
    BY <1>2 DEF WQInv, TypeOK
  <1> QED BY <1>2, <1>3, <1>4, <1>5, <1>6

LEMMA DropCancelledStep ==
  ASSUME WQInv, DropCancelledFront
  PROVE  WQInv'
PROOF
  <1> USE DEF WQInv, DropCancelledFront
  <1>1. Queue # <<>> /\ IsCancelled(FrontWaiter)
    BY DEF MayContinue
  <1>2. /\ queues' \in [Prios -> Seq(Waiters)] /\ QueuesSound'
        /\ FrontWaiter \in Queued /\ Queued' = Queued \ {FrontWaiter}
        /\ total' \in Nat /\ total' = Cardinality(Queued')
        /\ \A p \in Prios \ {sel.prio} : queues'[p] = queues[p]
    BY <1>1, PopFacts
  <1>3. sel.prio \in Prios /\ sel.removed = 0 /\ Serving
    BY LoopFacts
  <1>4. TypeOK'
    BY <1>2 DEF TypeOK
  <1>5. SelSound' /\ WakeRoom'
    BY DEF SelSound, WakeRoom, WakeListFits, CanPush, Serving
  <1>6. PlacesSound'
    BY <1>2 DEF PlacesSound
  <1>7. CountSound'
    BY <1>2, <1>3, QueuedFinite, FS_CardinalityType DEF CountSound
  <1>8. HeapSound'
    BY <1>2, <1>3 DEF HeapSound, Serving
  <1>9. NoWaiterLost'
    BY <1>1, <1>2 DEF NoWaiterLost, IsCancelled
  <1> QED BY <1>2, <1>4, <1>5, <1>6, <1>7, <1>8, <1>9

LEMMA PopToNotifyStep ==
  ASSUME WQInv, PopToNotify
  PROVE  WQInv'
PROOF
  <1> USE DEF WQInv, PopToNotify
  <1>1. Queue # <<>> /\ ~IsCancelled(FrontWaiter) /\ ~StopsAtFront /\ CanPush
    BY DEF MayContinue
  <1>2. /\ queues' \in [Prios -> Seq(Waiters)] /\ QueuesSound'
        /\ FrontWaiter \in Queued /\ Queued' = Queued \ {FrontWaiter}
        /\ total' \in Nat /\ total' = Cardinality(Queued')
        /\ \A p \in Prios \ {sel.prio} : queues'[p] = queues[p]
    BY <1>1, PopFacts
  <1>3. /\ sel.prio \in Prios /\ sel.removed = 0 /\ Serving /\ sel.avail \in Nat
        /\ drained = {} /\ FrontWaiter \in Waiters /\ sel.phase = sel.loop
        /\ sel.cur = None
    BY <1>1, LoopFacts
  <1>4. Need(FrontWaiter) \in Nat /\ Need(FrontWaiter) <= sel.avail
    <2>1. Fits(FrontWaiter)
      BY <1>1 DEF StopsAtFront
    <2> QED BY <1>3, <2>1, PriorityTyped DEF TypeOK, Fits
  <1>5. sel' \in Selections
    <2>1. sel.avail - Need(FrontWaiter) \in Nat /\ sel.assigned + Need(FrontWaiter) \in Nat
      BY <1>3, <1>4 DEF TypeOK, Selections
    <2>2. sel \in Selections
      BY DEF TypeOK
    <2>3. sel' = [sel EXCEPT !.phase = "notify", !.cur = FrontWaiter, !.processed = TRUE,
                             !.avail = sel.avail - Need(FrontWaiter),
                             !.assigned = sel.assigned + Need(FrontWaiter)]
      OBVIOUS
    <2> QED BY <1>3, <2>1, <2>2, <2>3 DEF Selections, Phases
  <1>6. /\ sel'.phase = "notify" /\ sel'.cur = FrontWaiter /\ sel'.prio = sel.prio
        /\ sel'.removed = 0 /\ sel'.restore = sel.restore /\ sel'.wakes = sel.wakes
        /\ sel'.loop = sel.loop
    BY <1>3 DEF TypeOK, Selections
  <1>7. TypeOK'
    BY <1>2, <1>5 DEF TypeOK
  <1>8. SelSound'
    BY <1>3, <1>6 DEF SelSound, Serving, Loops
  <1>9. WakeRoom'
    BY <1>1, <1>6 DEF WakeRoom, WakeListFits, CanPush
  <1>10. PlacesSound'
    BY <1>2, <1>3, <1>6 DEF PlacesSound
  <1>11. CountSound'
    BY <1>2, <1>6, QueuedFinite, FS_CardinalityType DEF CountSound
  <1>12. HeapSound'
    BY <1>2, <1>3, <1>6 DEF HeapSound, Serving
  <1>13. NoWaiterLost'
    BY <1>2, <1>3, <1>6, WaitQueueAssumption DEF NoWaiterLost
  <1> QED BY <1>2, <1>7, <1>8, <1>9, <1>10, <1>11, <1>12, <1>13

LEMMA NotifyStep ==
  ASSUME WQInv, Notify
  PROVE  WQInv'
PROOF
  <1> USE DEF WQInv, Notify, TryNotify
  <1>1. Queued' = Queued /\ QueuesSound'
    BY SameQueues
  <1>2. /\ sel.cur \in Waiters /\ sel.cur \notin Queued /\ drained = {}
        /\ sel.prio \in Prios /\ sel.removed = 0 /\ Serving
    BY DEF SelSound, PlacesSound, Serving
  <1>3. sel' \in Selections
    BY DEF TypeOK, Selections, Phases
  <1>4. /\ sel'.phase = "take" /\ sel'.cur = sel.cur /\ sel'.prio = sel.prio
        /\ sel'.removed = sel.removed /\ sel'.restore = sel.restore
        /\ sel'.wakes = sel.wakes /\ sel'.loop = sel.loop
    BY DEF TypeOK, Selections
  <1>5. TypeOK'
    BY <1>3 DEF TypeOK
  <1>6. SelSound' /\ WakeRoom'
    BY <1>2, <1>4 DEF SelSound, Serving, Loops, WakeRoom, WakeListFits, CanPush
  <1>7. PlacesSound'
    BY <1>1, <1>2, <1>4 DEF PlacesSound, TypeOK
  <1>8. CountSound' /\ HeapSound'
    BY <1>1, <1>2, <1>4 DEF CountSound, HeapSound, Serving
  <1>9. NoWaiterLost'
    BY <1>1, <1>2, <1>4 DEF NoWaiterLost, TypeOK
  <1> QED BY <1>1, <1>5, <1>6, <1>7, <1>8, <1>9

\* The end of a turn of a loop: back to the top, no waiter in hand.
LEMMA TurnEnds ==
  ASSUME WQInv, sel.phase \in {"notify", "take"}, state[sel.cur] # "WAITING",
         NEW list \in Seq(Waiters), Len(list) <= NumWakers,
         sel' = [sel EXCEPT !.phase = sel.loop, !.cur = None, !.wakes = list],
         waker' \in [Waiters -> BOOLEAN],
         UNCHANGED <<req, state, queues, active, total, drained, earlier>>
  PROVE  WQInv'
PROOF
  <1> USE DEF WQInv
  <1>1. Queued' = Queued /\ QueuesSound'
    BY SameQueues
  <1>2. sel \in Selections /\ sel.loop \in {"single", "inner"}
    BY DEF TypeOK, Selections, Loops
  <1>3. /\ sel.cur \in Waiters /\ drained = {} /\ sel.prio \in Prios
        /\ sel.removed = 0 /\ Serving
    BY DEF SelSound, Serving
  <1>4. sel' \in Selections
    BY <1>2 DEF Selections, Phases, Loops
  <1>5. /\ sel'.phase = sel.loop /\ sel'.cur = None /\ sel'.prio = sel.prio
        /\ sel'.removed = sel.removed /\ sel'.restore = sel.restore
        /\ sel'.wakes = list /\ sel'.loop = sel.loop
    BY <1>2 DEF Selections
  <1>6. TypeOK'
    BY <1>4 DEF TypeOK
  <1>7. SelSound' /\ WakeRoom'
    BY <1>2, <1>3, <1>5 DEF SelSound, Serving, Loops, WakeRoom, WakeListFits, CanPush
  <1>8. PlacesSound'
    BY <1>1, <1>2, <1>5, QueuedFinite, <1>3, WaitQueueAssumption DEF PlacesSound
  <1>9. CountSound' /\ HeapSound'
    BY <1>1, <1>2, <1>3, <1>5 DEF CountSound, HeapSound, Serving
  <1>10. NoWaiterLost'
    BY <1>1, <1>5 DEF NoWaiterLost
  <1> QED BY <1>1, <1>6, <1>7, <1>8, <1>9, <1>10

LEMMA NotifyFailsStep ==
  ASSUME WQInv, NotifyFails
  PROVE  WQInv'
PROOF
  <1> USE DEF WQInv, NotifyFails
  <1>1. sel \in Selections /\ sel.wakes \in Seq(Waiters)
    BY DEF TypeOK, Selections
  <1>2. Len(sel.wakes) <= NumWakers
    BY DEF WakeRoom, WakeListFits
  <1>3. sel' = [sel EXCEPT !.phase = sel.loop, !.cur = None, !.wakes = sel.wakes]
    BY <1>1 DEF Selections
  <1>4. waker' \in [Waiters -> BOOLEAN]
    BY DEF TypeOK
  <1> QED BY <1>1, <1>2, <1>3, <1>4, TurnEnds

LEMMA TakeWakerStep ==
  ASSUME WQInv, TakeWaker
  PROVE  WQInv'
PROOF
  <1> USE DEF WQInv, TakeWaker
  <1>1. sel.wakes \in Seq(Waiters) /\ sel.cur \in Waiters
    BY DEF TypeOK, Selections, SelSound
  <1> DEFINE list == IF waker[sel.cur] THEN Append(sel.wakes, sel.cur) ELSE sel.wakes
  <1>2. list \in Seq(Waiters) /\ Len(list) <= NumWakers
    BY <1>1, WaitQueueAssumption DEF WakeRoom, WakeListFits, CanPush
  <1>3. sel' = [sel EXCEPT !.phase = sel.loop, !.cur = None, !.wakes = list]
    OBVIOUS
  <1>4. waker' \in [Waiters -> BOOLEAN]
    BY DEF TypeOK
  <1>5. state[sel.cur] # "WAITING"
    BY DEF PlacesSound
  <1> HIDE DEF list
  <1> QED BY <1>2, <1>3, <1>4, <1>5, TurnEnds

LEMMA SingleEndsStep ==
  ASSUME WQInv, SingleEnds
  PROVE  WQInv'
PROOF
  <1> USE DEF WQInv, SingleEnds
  <1>1. Queued' = Queued /\ QueuesSound'
    BY SameQueues
  <1>2. /\ sel.prio \in Prios /\ sel.cur = None /\ drained = {} /\ sel.removed = 0
        /\ Serving /\ sel.loop = "single"
    BY LoopFacts DEF Loops
  <1>3. sel.restore = NoCounts
    BY <1>2 DEF SelSound
  <1>4. sel' \in Selections
    BY DEF TypeOK, Selections, Phases
  <1>5. /\ sel'.phase = "done" /\ sel'.cur = sel.cur
        /\ sel'.removed = sel.removed /\ sel'.restore = sel.restore
        /\ sel'.wakes = sel.wakes /\ sel'.loop = sel.loop
    BY DEF TypeOK, Selections
  <1>6. active' \in [Prios -> Nat]
    BY <1>2 DEF TypeOK
  <1>7. TypeOK'
    BY <1>4, <1>6 DEF TypeOK
  <1>8. SelSound' /\ WakeRoom'
    BY <1>2, <1>3, <1>5 DEF SelSound, Serving, Loops, WakeRoom, WakeListFits, CanPush
  <1>9. PlacesSound' /\ CountSound' /\ NoWaiterLost'
    BY <1>1, <1>5 DEF PlacesSound, CountSound, NoWaiterLost
  <1>10. HeapSound'
    <2>1. active[sel.prio] = 0
      BY <1>2, <1>3 DEF HeapSound, NoCounts, TypeOK
    <2>2. \A p \in Prios : active'[p] = IF p = sel.prio /\ Queue # <<>> THEN 1 ELSE active[p]
      BY <1>2, <2>1 DEF TypeOK
    <2>3. ~Serving'
      BY <1>5 DEF Serving
    <2>4. \A p \in Prios : active[p] = IF queues[p] = <<>> \/ p = sel.prio THEN 0 ELSE 1
      BY <1>2, <1>3 DEF HeapSound, NoCounts, TypeOK
    <2>5. \A p \in Prios : active'[p] = IF queues[p] = <<>> THEN 0 ELSE 1
      BY <2>1, <2>2, <2>4 DEF Queue
    <2> QED BY <1>3, <1>5, <2>3, <2>5 DEF HeapSound, NoCounts
  <1> QED BY <1>1, <1>7, <1>8, <1>9, <1>10

LEMMA InnerEndsStep ==
  ASSUME WQInv, InnerEnds
  PROVE  WQInv'
PROOF
  <1> USE DEF WQInv, InnerEnds
  <1>1. Queued' = Queued /\ QueuesSound'
    BY SameQueues
  <1>2. /\ sel.prio \in Prios /\ sel.cur = None /\ drained = {} /\ sel.removed = 0
        /\ Serving /\ sel.loop = "inner"
    BY LoopFacts DEF Loops
  <1>3. sel' \in Selections
    BY DEF TypeOK, Selections, Phases
  <1>4. /\ sel'.phase = "retain" /\ sel'.cur = sel.cur /\ sel'.prio = sel.prio
        /\ sel'.removed = 0 /\ sel'.restore = sel.restore /\ sel'.idx = 1
        /\ sel'.wakes = sel.wakes /\ sel'.loop = sel.loop
    BY DEF TypeOK, Selections
  <1>5. TypeOK'
    BY <1>3 DEF TypeOK
  <1>6. SelSound' /\ WakeRoom'
    BY <1>2, <1>4 DEF SelSound, Serving, Loops, WakeRoom, WakeListFits, CanPush
  <1>7. PlacesSound' /\ CountSound' /\ NoWaiterLost'
    BY <1>1, <1>2, <1>4 DEF PlacesSound, CountSound, NoWaiterLost
  <1>8. HeapSound'
    BY <1>2, <1>4 DEF HeapSound, Serving
  <1> QED BY <1>1, <1>5, <1>6, <1>7, <1>8

LEMMA RetainStepStep ==
  ASSUME WQInv, RetainStep
  PROVE  WQInv'
PROOF
  <1> USE DEF WQInv, RetainStep
  <1>1. /\ sel.prio \in Prios /\ sel.cur = None /\ drained = {} /\ Serving
        /\ sel.loop = "inner" /\ sel.idx \in Nat /\ sel.removed \in Nat
        /\ sel \in Selections
    BY DEF SelSound, Serving, TypeOK, Selections
  <1>2. CASE IsCancelled(Queue[sel.idx]) /\ sel.idx \in 1..Len(Queue)
    <2> DEFINE w == Queue[sel.idx]
    <2>1. /\ queues' = [queues EXCEPT ![sel.prio] = RemoveAt(@, sel.idx)]
          /\ sel' = [sel EXCEPT !.removed = sel.removed + 1]
      BY <1>2
    <2>2. /\ queues' \in [Prios -> Seq(Waiters)] /\ QueuesSound'
          /\ w \in Queued /\ Queued' = Queued \ {w}
      BY <1>1, <1>2, <2>1, RetainShrinks DEF TypeOK, Queue
    <2>3. \A p \in Prios \ {sel.prio} : queues'[p] = queues[p]
      BY <2>1 DEF TypeOK
    <2>4. sel' \in Selections
      <3>1. PICK n \in Nat : n = sel.removed + 1
        BY <1>1
      <3>2. sel' = [sel EXCEPT !.removed = n]
        BY <2>1, <3>1
      <3> QED BY <1>1, <3>2 DEF Selections
    <2>5. /\ sel'.phase = "retain" /\ sel'.cur = sel.cur /\ sel'.prio = sel.prio
          /\ sel'.removed = sel.removed + 1 /\ sel'.idx = sel.idx /\ sel'.restore = sel.restore
          /\ sel'.wakes = sel.wakes /\ sel'.loop = sel.loop
      BY <1>1, <2>1 DEF Selections
    <2>6. TypeOK'
      BY <2>2, <2>4 DEF TypeOK
    <2>7. SelSound' /\ WakeRoom'
      BY <1>1, <2>5 DEF SelSound, Serving, Loops, WakeRoom, WakeListFits, CanPush
    <2>8. PlacesSound'
      BY <1>1, <2>2, <2>5 DEF PlacesSound
    <2>9. CountSound'
      <3>1. Cardinality(Queued') = Cardinality(Queued) - 1
        BY <2>2, QueuedFinite, FS_RemoveElement
      <3>2. Cardinality(Queued) \in Nat
        BY QueuedFinite, FS_CardinalityType
      <3>3. total' = total /\ total = Cardinality(Queued) + sel.removed
        BY DEF CountSound
      <3>4. total' = Cardinality(Queued') + sel'.removed
        BY <1>1, <2>5, <3>1, <3>2, <3>3
      <3> QED BY <3>4 DEF CountSound
    <2>10. HeapSound'
      BY <1>1, <2>3, <2>5 DEF HeapSound, Serving
    <2>11. NoWaiterLost'
      BY <1>2, <2>2, <2>5 DEF NoWaiterLost, IsCancelled
    <2> QED BY <2>2, <2>6, <2>7, <2>8, <2>9, <2>10, <2>11
  <1>3. CASE ~IsCancelled(Queue[sel.idx])
    <2>1. queues' = queues /\ sel' = [sel EXCEPT !.idx = sel.idx + 1]
      BY <1>3
    <2>2. Queued' = Queued /\ QueuesSound'
      BY <2>1, SameQueues
    <2>3. sel' \in Selections
      <3>1. PICK n \in Nat : n = sel.idx + 1
        BY <1>1
      <3>2. sel' = [sel EXCEPT !.idx = n]
        BY <2>1, <3>1
      <3> QED BY <1>1, <3>2 DEF Selections
    <2>4. /\ sel'.phase = "retain" /\ sel'.cur = sel.cur /\ sel'.prio = sel.prio
          /\ sel'.idx = sel.idx + 1 /\ sel'.removed = sel.removed /\ sel'.restore = sel.restore
          /\ sel'.wakes = sel.wakes /\ sel'.loop = sel.loop
      BY <1>1, <2>1 DEF Selections
    <2>5. TypeOK'
      BY <2>1, <2>3 DEF TypeOK
    <2>6. SelSound' /\ WakeRoom'
      BY <1>1, <2>4 DEF SelSound, Serving, Loops, WakeRoom, WakeListFits, CanPush
    <2>7. PlacesSound' /\ CountSound' /\ NoWaiterLost'
      BY <1>1, <2>2, <2>4 DEF PlacesSound, CountSound, NoWaiterLost
    <2>8. HeapSound'
      BY <1>1, <2>1, <2>4 DEF HeapSound, Serving
    <2> QED BY <2>2, <2>5, <2>6, <2>7, <2>8
  <1>4. sel.idx \in 1..Len(Queue)
    <2>1. Queue \in Seq(Waiters)
      BY <1>1 DEF TypeOK, Queue
    <2> QED BY <1>1, <2>1 DEF SelSound
  <1> QED BY <1>2, <1>3, <1>4

LEMMA RetainEndsStep ==
  ASSUME WQInv, RetainEnds
  PROVE  WQInv'
PROOF
  <1> USE DEF WQInv, RetainEnds
  <1>1. Queued' = Queued /\ QueuesSound'
    BY SameQueues
  <1>2. /\ sel.prio \in Prios /\ sel.cur = None /\ drained = {} /\ Serving
        /\ sel.loop = "inner" /\ sel.removed \in Nat /\ sel \in Selections
        /\ sel.restore \in [Prios -> Nat]
    BY DEF SelSound, Serving, TypeOK, Selections
  <1> DEFINE ph == IF sel.processed /\ ~CanPush THEN "full" ELSE "outer"
             rs == ToRestore
  <1>3. sel' = [sel EXCEPT !.phase = ph, !.prio = None, !.idx = 0, !.removed = 0,
                           !.restore = rs]
    OBVIOUS
  <1>4. ph \in {"full", "outer"}
    OBVIOUS
  <1>5. /\ rs \in [Prios -> Nat]
        /\ \A p \in Prios : rs[p] = IF p = sel.prio /\ Queue # <<>>
                                      THEN sel.restore[p] + 1 ELSE sel.restore[p]
    BY <1>2 DEF ToRestore
  <1> HIDE DEF ph, rs
  <1>6. sel' \in Selections
    BY ONLY <1>2, <1>3, <1>4, <1>5 DEF Selections, Phases
  <1>7. /\ sel'.phase = ph /\ sel'.cur = None /\ sel'.removed = 0 /\ sel'.restore = rs
        /\ sel'.wakes = sel.wakes /\ sel'.loop = "inner"
    BY <1>2, <1>3 DEF Selections
  <1>8. total = Cardinality(Queued) + sel.removed /\ Cardinality(Queued) \in Nat
    BY QueuedFinite, FS_CardinalityType DEF CountSound
  <1>9. total' = Cardinality(Queued)
    BY <1>2, <1>8 DEF RemovedFromTotal
  <1>10. TypeOK'
    BY <1>6, <1>8, <1>9 DEF TypeOK
  <1>11. SelSound' /\ WakeRoom'
    BY <1>2, <1>4, <1>7 DEF SelSound, Serving, Loops, WakeRoom, WakeListFits, CanPush
  <1>12. PlacesSound' /\ NoWaiterLost'
    BY <1>1, <1>2, <1>4, <1>7 DEF PlacesSound, NoWaiterLost
  <1>13. CountSound'
    BY <1>1, <1>7, <1>8, <1>9 DEF CountSound
  <1>14. HeapSound'
    <2>1. ~Serving'
      BY <1>4, <1>7 DEF Serving
    <2>2. \A p \in Prios : active[p] \in Nat /\ sel.restore[p] \in Nat
      BY <1>2 DEF TypeOK
    <2>3. \A p \in Prios : active[p] + rs[p] = IF queues[p] = <<>> THEN 0 ELSE 1
      <3> TAKE p \in Prios
      <3>1. CASE p = sel.prio
        BY <1>2, <1>5, <2>2, <3>1 DEF HeapSound, Queue
      <3>2. CASE p # sel.prio
        BY <1>2, <1>5, <2>2, <3>2 DEF HeapSound
      <3> QED BY <3>1, <3>2
    <2> QED BY <1>7, <2>1, <2>3 DEF HeapSound
  <1> QED BY <1>1, <1>10, <1>11, <1>12, <1>13, <1>14

LEMMA OuterVisitsStep ==
  ASSUME WQInv, OuterVisits
  PROVE  WQInv'
PROOF
  <1> USE DEF WQInv, OuterVisits
  <1>1. Queued' = Queued /\ QueuesSound'
    BY SameQueues
  <1>2. /\ sel.cur = None /\ drained = {} /\ ~Serving /\ sel.loop = "inner"
        /\ sel.removed = 0 /\ sel \in Selections /\ sel.restore \in [Prios -> Nat]
    BY DEF SelSound, Serving, TypeOK, Selections
  <1>3. PICK p \in Prios :
          /\ active[p] > 0
          /\ active' = [active EXCEPT ![p] = @ - 1]
          /\ sel' = IF queues[p] = <<>> THEN sel
                    ELSE [sel EXCEPT !.phase = "inner", !.prio = p, !.processed = FALSE]
    BY DEF Peek
  <1>4. \A r \in Prios : active[r] \in Nat /\ sel.restore[r] \in Nat
    BY <1>2 DEF TypeOK
  <1>5. \A r \in Prios : active[r] + sel.restore[r] = IF queues[r] = <<>> THEN 0 ELSE 1
    BY <1>2 DEF HeapSound
  <1>6. queues[p] # <<>> /\ active[p] = 1 /\ sel.restore[p] = 0
    BY <1>3, <1>4, <1>5
  <1>7. sel' = [sel EXCEPT !.phase = "inner", !.prio = p, !.processed = FALSE]
    BY <1>3, <1>6
  <1>8. sel' \in Selections
    BY <1>2, <1>7 DEF Selections, Phases, Loops
  <1>9. /\ sel'.phase = "inner" /\ sel'.cur = sel.cur /\ sel'.removed = sel.removed
        /\ sel'.restore = sel.restore /\ sel'.wakes = sel.wakes /\ sel'.loop = sel.loop
        /\ sel'.prio = p
    BY <1>2, <1>7 DEF Selections
  <1>10. /\ active' \in [Prios -> Nat]
         /\ \A r \in Prios : active'[r] = IF r = p THEN 0 ELSE active[r]
    <2>1. active \in [Prios -> Nat]
      BY DEF TypeOK
    <2>2. PICK n \in Nat : n = active[p] - 1 /\ n = 0
      BY <1>6
    <2>3. active' = [active EXCEPT ![p] = n]
      BY ONLY <1>3, <2>2
    <2> QED BY ONLY <2>1, <2>2, <2>3
  <1>11. TypeOK'
    BY <1>8, <1>10 DEF TypeOK
  <1>12. SelSound' /\ WakeRoom'
    BY <1>2, <1>9 DEF SelSound, Serving, Loops, WakeRoom, WakeListFits, CanPush
  <1>13. PlacesSound' /\ NoWaiterLost' /\ CountSound'
    BY <1>1, <1>2, <1>9 DEF PlacesSound, NoWaiterLost, CountSound
  <1>14. HeapSound'
    <2>1. Serving'
      BY <1>9 DEF Serving
    <2>2. \A r \in Prios : active'[r] + sel.restore[r]
                             = IF queues[r] = <<>> \/ r = p THEN 0 ELSE 1
      BY <1>4, <1>5, <1>6, <1>10
    <2> QED BY <1>9, <2>1, <2>2 DEF HeapSound
  <1> QED BY <1>1, <1>11, <1>12, <1>13, <1>14

LEMMA OuterEndsStep ==
  ASSUME WQInv, OuterEnds
  PROVE  WQInv'
PROOF
  <1> USE DEF WQInv, OuterEnds
  <1>1. Queued' = Queued /\ QueuesSound'
    BY SameQueues
  <1>2. /\ sel.cur = None /\ drained = {} /\ ~Serving /\ sel.loop = "inner"
        /\ sel.removed = 0 /\ sel \in Selections /\ sel.restore \in [Prios -> Nat]
    BY DEF SelSound, Serving, TypeOK, Selections
  <1>3. sel' \in Selections
    BY <1>2 DEF Selections, Phases, NoCounts
  <1>4. /\ sel'.phase = "done" /\ sel'.cur = sel.cur /\ sel'.removed = sel.removed
        /\ sel'.restore = NoCounts /\ sel'.wakes = sel.wakes /\ sel'.loop = sel.loop
    BY <1>2 DEF Selections
  <1>5. /\ active' \in [Prios -> Nat]
        /\ \A p \in Prios : active'[p] = active[p] + sel.restore[p]
    BY <1>2 DEF TypeOK, Restore
  <1>6. TypeOK'
    BY <1>3, <1>5 DEF TypeOK
  <1>7. SelSound' /\ WakeRoom'
    BY <1>2, <1>4 DEF SelSound, Serving, Loops, WakeRoom, WakeListFits, CanPush
  <1>8. PlacesSound' /\ NoWaiterLost' /\ CountSound'
    BY <1>1, <1>2, <1>4 DEF PlacesSound, NoWaiterLost, CountSound
  <1>9. HeapSound'
    <2>1. ~Serving'
      BY <1>4 DEF Serving
    <2>2. \A p \in Prios : active'[p] = IF queues[p] = <<>> THEN 0 ELSE 1
      BY <1>2, <1>5 DEF HeapSound
    <2> QED BY <1>4, <2>1, <2>2 DEF HeapSound, NoCounts
  <1> QED BY <1>1, <1>6, <1>7, <1>8, <1>9

LEMMA SelectReturnsStep ==
  ASSUME WQInv, SelectReturns
  PROVE  WQInv'
PROOF
  <1> USE DEF WQInv, SelectReturns
  <1>1. Queued' = Queued /\ QueuesSound'
    BY SameQueues
  <1>2. /\ sel.cur = None /\ drained = {} /\ ~Serving /\ sel.removed = 0
        /\ sel.restore = NoCounts
    BY DEF SelSound, Serving
  <1>3. /\ sel'.phase = "idle" /\ sel'.cur = None /\ sel'.removed = 0
        /\ sel'.restore = NoCounts /\ sel'.wakes = <<>> /\ sel'.loop = "single"
    BY DEF SelInit
  <1>4. TypeOK'
    BY SelInitTyped DEF TypeOK
  <1>5. SelSound' /\ WakeRoom'
    BY <1>2, <1>3, WaitQueueAssumption
    DEF SelSound, Serving, Loops, WakeRoom, WakeListFits, CanPush
  <1>6. PlacesSound' /\ NoWaiterLost' /\ CountSound'
    BY <1>1, <1>2, <1>3 DEF PlacesSound, NoWaiterLost, CountSound
  <1>7. HeapSound'
    BY <1>2, <1>3 DEF HeapSound, Serving
  <1> QED BY <1>1, <1>4, <1>5, <1>6, <1>7

LEMMA SelectStepStep ==
  ASSUME WQInv, SelectStep
  PROVE  WQInv'
PROOF
  BY DropCancelledStep, PopToNotifyStep, NotifyStep, NotifyFailsStep, TakeWakerStep,
     SingleEndsStep, OuterVisitsStep, OuterEndsStep, InnerEndsStep, RetainStepStep,
     RetainEndsStep DEF SelectStep

LEMMA StutterStep ==
  ASSUME WQInv, UNCHANGED wqVars
  PROVE  WQInv'
PROOF
  <1>1. Queued' = Queued /\ QueuesSound'
    BY SameQueues DEF WQInv, wqVars
  <1> QED
    BY <1>1 DEF WQInv, wqVars, TypeOK, SelSound, PlacesSound, CountSound, HeapSound,
                WakeRoom, NoWaiterLost, Serving, WakeListFits, CanPush

LEMMA NextInv == WQInv /\ [WQNext]_wqVars => WQInv'
PROOF
  <1> SUFFICES ASSUME WQInv, [WQNext]_wqVars
               PROVE  WQInv'
    OBVIOUS
  <1>1. ASSUME NEW w \in Waiters, PushWaiter(w)
        PROVE  WQInv'
    BY <1>1, PushStep
  <1>2. ASSUME NEW w \in Waiters, Cancel(w)
        PROVE  WQInv'
    BY <1>2, CancelStep DEF Cancel
  <1>3. ASSUME NEW w \in Waiters, SetWaker(w)
        PROVE  WQInv'
    BY <1>3, SetWakerStep
  <1>4. ASSUME NEW w \in Waiters, CloseCancels(w)
        PROVE  WQInv'
    <2>1. state[w] # "ABSENT"
      BY <1>4 DEF CloseCancels, WQInv, PlacesSound
    <2> QED BY <1>4, <2>1, CancelStep DEF CloseCancels
  <1>5. ASSUME NEW n \in 0..MaxGrant, SelectWaiters(n)
        PROVE  WQInv'
    <2>1. n \in Nat
      BY WaitQueueAssumption
    <2> QED BY <1>5, <2>1, SelectStartStep
  <1>6. CASE SelectStep
    BY <1>6, SelectStepStep
  <1>7. CASE SelectReturns
    BY <1>7, SelectReturnsStep
  <1>8. CASE Close
    BY <1>8, CloseStep
  <1>9. CASE UNCHANGED wqVars
    BY <1>9, StutterStep
  <1> QED BY <1>1, <1>2, <1>3, <1>4, <1>5, <1>6, <1>7, <1>8, <1>9 DEF WQNext

-----------------------------------------------------------------------------
(* The theorems.                                                           *)

(* The invariant holds in every reachable state, whatever the number of    *)
(* waiters, the priorities, their strategies, the sizes of the requests    *)
(* and the capacity of a wake list.                                        *)
THEOREM Invariance == WQSpec => []WQInv
PROOF
  <1>1. WQInit => WQInv
    BY InitInv
  <1>2. WQInv /\ [WQNext]_wqVars => WQInv'
    BY NextInv
  <1> QED BY <1>1, <1>2, PTL DEF WQSpec

(* Type correctness: among others, no count of the queue underflows.       *)
THEOREM TypeCorrect == WQSpec => []TypeOK
PROOF
  <1>1. WQInv => TypeOK
    BY DEF WQInv
  <1> QED BY <1>1, Invariance, PTL

(* Between two selections the heap holds each priority that has waiters    *)
(* once, and no other.                                                     *)
THEOREM HeapCorrect == WQSpec => []HeapMatchesQueues
PROOF
  <1>1. WQInv => HeapMatchesQueues
    <2> SUFFICES ASSUME WQInv, sel.phase = "idle", NEW p \in Prios
                 PROVE  active[p] = IF queues[p] = <<>> THEN 0 ELSE 1
      BY DEF HeapMatchesQueues
    <2>1. sel.restore = NoCounts /\ ~Serving
      BY DEF WQInv, SelSound, Serving
    <2>2. active[p] \in Nat
      BY DEF WQInv, TypeOK
    <2> QED BY <2>1, <2>2 DEF WQInv, HeapSound, NoCounts
  <1> QED BY <1>1, Invariance, PTL

(* Between two selections total_waiters is the number of queued waiters.   *)
THEOREM CountCorrect == WQSpec => []CountMatchesQueues
PROOF
  <1>1. WQInv => CountMatchesQueues
    <2> SUFFICES ASSUME WQInv, sel.phase = "idle"
                 PROVE  total = Cardinality(Queued)
      BY DEF CountMatchesQueues
    <2>1. sel.removed = 0
      BY DEF WQInv, SelSound
    <2>2. Cardinality(Queued) \in Nat
      BY QueuedFinite, FS_CardinalityType
    <2> QED BY <2>1, <2>2 DEF WQInv, CountSound
  <1> QED BY <1>1, Invariance, PTL

(* No live waiter is forgotten.                                            *)
THEOREM LiveWaitersKept == WQSpec => []NoWaiterLost
PROOF
  <1>1. WQInv => NoWaiterLost
    BY DEF WQInv
  <1> QED BY <1>1, Invariance, PTL

(* A notified waiter is out of every queue.                                *)
THEOREM NotifiedOnce == WQSpec => []NotifiedNotQueued
PROOF
  <1>1. WQInv => NotifiedNotQueued
    BY DEF WQInv, PlacesSound, NotifiedNotQueued
  <1> QED BY <1>1, Invariance, PTL

(* The wake list never exceeds its array.                                  *)
THEOREM WakeListBounded == WQSpec => []WakeListFits
PROOF
  <1>1. WQInv => WakeListFits
    BY DEF WQInv, WakeRoom
  <1> QED BY <1>1, Invariance, PTL

-----------------------------------------------------------------------------
(* The order of service within a priority.                                 *)

InOrder(q) == \A i, j \in 1..Len(q) : i < j => ~ServedBefore(q[j], q[i])

LEMMA RemovalKeepsOrder ==
  ASSUME NEW q \in Seq(Waiters), NEW k \in 1..Len(q),
         NEW r \in Seq(Waiters), Len(r) = Len(q) - 1,
         \A i \in 1..Len(r) : r[i] = q[IF i < k THEN i ELSE i + 1],
         InOrder(q)
  PROVE  InOrder(r)
PROOF
  <1> DEFINE up(i) == IF i < k THEN i ELSE i + 1
  <1> SUFFICES ASSUME NEW i \in 1..Len(r), NEW j \in 1..Len(r), i < j
               PROVE  ~ServedBefore(r[j], r[i])
    BY DEF InOrder
  <1>1. up(i) \in 1..Len(q) /\ up(j) \in 1..Len(q) /\ up(i) < up(j)
    OBVIOUS
  <1>2. r[i] = q[up(i)] /\ r[j] = q[up(j)]
    OBVIOUS
  <1> HIDE DEF up
  <1> QED BY <1>1, <1>2 DEF InOrder

\* Who was served before whom is history that only a push adds to.
LEMMA SameHistory ==
  ASSUME earlier' = earlier, req' = req
  PROVE  \A v, w : ServedBefore(v, w)' <=> ServedBefore(v, w)
PROOF
  BY DEF ServedBefore, Priority

\* A step that leaves the queues and the history alone.
LEMMA OrderKept ==
  ASSUME OrderSound, UNCHANGED <<req, queues, earlier>>,
         \A w \in Waiters : state'[w] = "ABSENT" => state[w] = "ABSENT",
         sel'.phase = "notify" => sel' = sel
  PROVE  OrderSound'
PROOF
  <1>1. \A v, w : ServedBefore(v, w)' <=> ServedBefore(v, w)
    BY SameHistory
  <1> QED BY <1>1 DEF OrderSound, Priority

\* One queue is replaced by a shorter one, nothing is popped for notification.
LEMMA OrderKeptByRemoval ==
  ASSUME OrderSound, queues \in [Prios -> Seq(Waiters)],
         UNCHANGED <<req, state, earlier>>,
         NEW p \in Prios, NEW k \in 1..Len(queues[p]),
         NEW r \in Seq(Waiters), Len(r) = Len(queues[p]) - 1,
         \A i \in 1..Len(r) : r[i] = queues[p][IF i < k THEN i ELSE i + 1],
         queues' = [queues EXCEPT ![p] = r]
  PROVE  /\ \A v, w \in Waiters : state'[w] = "ABSENT" => w \notin earlier'[v]
         /\ \A s \in Prios : \A i, j \in 1..Len(queues'[s]) :
              i < j => ~ServedBefore(queues'[s][j], queues'[s][i])
PROOF
  <1>2. \A s \in Prios : InOrder(queues[s]) /\ queues[s] \in Seq(Waiters)
    BY DEF OrderSound, InOrder
  <1>3. InOrder(r)
    BY <1>2, RemovalKeepsOrder
  <1>4. \A s \in Prios : queues'[s] = IF s = p THEN r ELSE queues[s]
    OBVIOUS
  <1>5. \A s \in Prios : InOrder(queues'[s])
    BY <1>2, <1>3, <1>4
  <1> QED BY <1>5 DEF OrderSound, InOrder

LEMMA OrderPush ==
  ASSUME WQInv, OrderSound, NEW w \in Waiters, PushWaiter(w)
  PROVE  OrderSound'
PROOF
  <1> DEFINE p == Priority(w)
             q == queues[p]
             r == IF Strategy[p] = "Fifo" THEN Append(q, w) ELSE <<w>> \o q
             After(u, v) == IF Strategy[Priority(v)] = "Fifo" THEN u \in earlier'[v]
                                                              ELSE v \in earlier'[u]
  <1>1. p \in Prios /\ q \in Seq(Waiters) /\ queues \in [Prios -> Seq(Waiters)]
    BY PriorityTyped DEF WQInv, TypeOK
  <1>2. /\ state[w] = "ABSENT" /\ req' = req /\ sel' = sel /\ sel.phase = "idle"
        /\ queues' = [queues EXCEPT ![p] = r]
        /\ state' = [state EXCEPT ![w] = "WAITING"]
        /\ earlier' = [earlier EXCEPT ![w] = {v \in Waiters : state[v] # "ABSENT"}]
    BY DEF PushWaiter, Enqueue, Busy
  <1>3. /\ \A v \in Waiters \ {w} : earlier'[v] = earlier[v] /\ state'[v] = state[v]
        /\ earlier'[w] = {v \in Waiters : state[v] # "ABSENT"}
        /\ state'[w] = "WAITING"
    BY <1>2 DEF WQInv, TypeOK
  <1>4. \A u, v \in Waiters : state'[v] = "ABSENT" => v \notin earlier'[u]
    BY <1>3 DEF OrderSound
  <1>5. \A s \in Prios : \A v \in ToSet(queues[s]) : v \in Waiters \ {w} /\ Priority(v) = s
    <2> SUFFICES ASSUME NEW s \in Prios, NEW v \in ToSet(queues[s])
                 PROVE  v \in Waiters \ {w} /\ Priority(v) = s
      OBVIOUS
    <2>1. v \in Queued
      BY QueueMembers DEF WQInv, TypeOK
    <2>2. state[v] # "ABSENT"
      BY <2>1 DEF WQInv, PlacesSound
    <2> QED BY <1>2, <2>1, <2>2 DEF Queued, WQInv, QueuesSound
  <1>6. \A u, v \in Waiters \ {w} : After(u, v) <=> ServedBefore(u, v)
    BY <1>2, <1>3 DEF ServedBefore, Priority
  <1>7. \A s \in Prios : \A i \in 1..Len(queues[s]) : queues[s][i] \in ToSet(queues[s])
    BY <1>1, ToSetElements
  <1>8. \A s \in Prios : \A i, j \in 1..Len(queues[s]) :
          i < j => ~After(queues[s][j], queues[s][i])
    BY <1>5, <1>6, <1>7 DEF OrderSound
  <1>9. \A v \in Waiters \ {w} : w \notin earlier'[v]
    BY <1>2, <1>3 DEF OrderSound
  <1>10. \A i, j \in 1..Len(r) : i < j => ~After(r[j], r[i])
    <2> SUFFICES ASSUME NEW i \in 1..Len(r), NEW j \in 1..Len(r), i < j
                 PROVE  ~After(r[j], r[i])
      OBVIOUS
    <2>2. CASE Strategy[p] = "Fifo"
      <3>1. /\ Len(r) = Len(q) + 1 /\ Len(q) \in Nat /\ r[Len(q) + 1] = w
            /\ \A k \in 1..Len(q) : r[k] = q[k]
        BY <1>1, <2>2
      <3> HIDE DEF r
      <3>2. i \in 1..Len(q) /\ r[i] = q[i] /\ q[i] \in Waiters \ {w} /\ Priority(q[i]) = p
        BY <1>1, <1>5, <1>7, <3>1
      <3>3. CASE j \in 1..Len(q)
        BY <1>1, <1>8, <3>1, <3>2, <3>3
      <3>4. CASE j = Len(q) + 1
        BY <1>9, <2>2, <3>1, <3>2, <3>4
      <3> QED BY <3>1, <3>3, <3>4
    <2>3. CASE Strategy[p] # "Fifo"
      <3>0. <<w>> \in Seq(Waiters) /\ Len(<<w>>) = 1 /\ <<w>>[1] = w
        OBVIOUS
      <3>1. /\ Len(r) = Len(q) + 1 /\ Len(q) \in Nat /\ r[1] = w
            /\ \A k \in 1..Len(r) : k # 1 => r[k] = q[k - 1]
        BY <1>1, <2>3, <3>0, ConcatProperties
      <3> HIDE DEF r
      <3>2. /\ j - 1 \in 1..Len(q) /\ r[j] = q[j - 1]
            /\ q[j - 1] \in Waiters \ {w} /\ Priority(q[j - 1]) = p
        BY <1>1, <1>5, <1>7, <3>1
      <3>3. CASE i # 1
        <4>1. i - 1 \in 1..Len(q) /\ i - 1 < j - 1 /\ r[i] = q[i - 1]
          BY <3>1, <3>3
        <4> QED BY <1>1, <1>8, <3>2, <4>1
      <3>4. CASE i = 1
        BY <1>9, <2>3, <3>1, <3>2, <3>4
      <3> QED BY <3>3, <3>4
    <2> QED BY <2>2, <2>3
  <1> HIDE DEF r
  <1>11. \A s \in Prios : queues'[s] = IF s = p THEN r ELSE queues[s]
    BY <1>1, <1>2
  <1>12. \A s \in Prios : \A i, j \in 1..Len(queues'[s]) :
           i < j => ~After(queues'[s][j], queues'[s][i])
    BY <1>8, <1>10, <1>11
  <1> QED BY <1>2, <1>4, <1>12 DEF OrderSound, ServedBefore, Priority

LEMMA OrderClose ==
  ASSUME WQInv, OrderSound, Close
  PROVE  OrderSound'
PROOF
  <1>1. /\ UNCHANGED <<req, state, sel, earlier>> /\ sel.phase = "idle"
        /\ \A p \in Prios : queues'[p] = <<>>
    BY DEF Close, Busy
  <1>2. \A p \in Prios : 1..Len(queues'[p]) = {}
    BY <1>1
  <1> QED BY <1>1, <1>2 DEF OrderSound

\* The front of the queue of sel.prio, and what pop_front leaves.
LEMMA PopOrder ==
  ASSUME WQInv, OrderSound, sel.phase \in Loops, Queue # <<>>, PopFront,
         UNCHANGED <<req, state, earlier>>
  PROVE  /\ \A v, w \in Waiters : state'[w] = "ABSENT" => w \notin earlier'[v]
         /\ \A s \in Prios : \A i, j \in 1..Len(queues'[s]) :
              i < j => ~ServedBefore(queues'[s][j], queues'[s][i])
         /\ Priority(FrontWaiter) = sel.prio
         /\ \A v \in ToSet(queues'[sel.prio]) : ~ServedBefore(v, FrontWaiter)
PROOF
  <1> DEFINE p == sel.prio
             q == queues[p]
             r == Tail(q)
  <1>1. p \in Prios /\ q \in Seq(Waiters) /\ q # <<>>
    BY LoopFacts DEF Queue
  <1>2. queues \in [Prios -> Seq(Waiters)] /\ queues' = [queues EXCEPT ![p] = r]
    BY DEF PopFront, WQInv, TypeOK
  <1>3. /\ r \in Seq(Waiters) /\ Len(r) = Len(q) - 1 /\ Head(q) = q[1]
        /\ 1 \in 1..Len(q) /\ Len(q) \in Nat
        /\ \A i \in 1..Len(r) : r[i] = q[i + 1]
    BY <1>1
  <1>4. \A i \in 1..Len(r) : r[i] = q[IF i < 1 THEN i ELSE i + 1]
    BY <1>3
  <1> HIDE DEF r
  <1>5. /\ \A v, w \in Waiters : state'[w] = "ABSENT" => w \notin earlier'[v]
        /\ \A s \in Prios : \A i, j \in 1..Len(queues'[s]) :
             i < j => ~ServedBefore(queues'[s][j], queues'[s][i])
    BY <1>1, <1>2, <1>3, <1>4, OrderKeptByRemoval
  <1>6. Priority(Head(q)) = p
    <2>1. q[1] \in ToSet(q)
      BY <1>1, <1>3, ToSetElements
    <2> QED BY <1>1, <1>3, <2>1 DEF WQInv, QueuesSound
  <1>7. \A i, j \in 1..Len(q) : i < j => ~ServedBefore(q[j], q[i])
    BY <1>1 DEF OrderSound
  <1>8. ASSUME NEW v \in ToSet(r) PROVE ~ServedBefore(v, Head(q))
    <2>1. PICK i \in 1..Len(r) : r[i] = v
      BY <1>3, ToSetElements
    <2>2. v = q[i + 1] /\ i + 1 \in 1..Len(q) /\ 1 < i + 1
      BY <1>3, <2>1
    <2> QED BY <1>3, <1>7, <2>2
  <1>9. queues'[p] = r
    BY <1>1, <1>2
  <1> QED BY <1>5, <1>6, <1>8, <1>9 DEF FrontWaiter, Queue

LEMMA OrderDrop ==
  ASSUME WQInv, OrderSound, DropCancelledFront
  PROVE  OrderSound'
PROOF
  <1>1. /\ sel.phase \in Loops /\ Queue # <<>> /\ PopFront
        /\ UNCHANGED <<req, state, earlier>> /\ sel' = sel
    BY DEF DropCancelledFront, MayContinue
  <1>2. sel'.phase # "notify"
    BY <1>1 DEF Loops
  <1>3. /\ \A v, w \in Waiters : state'[w] = "ABSENT" => w \notin earlier'[v]
        /\ \A s \in Prios : \A i, j \in 1..Len(queues'[s]) :
             i < j => ~ServedBefore(queues'[s][j], queues'[s][i])
    BY <1>1, PopOrder
  <1> QED BY <1>1, <1>2, <1>3 DEF OrderSound, ServedBefore, Priority

LEMMA OrderPop ==
  ASSUME WQInv, OrderSound, PopToNotify
  PROVE  OrderSound'
PROOF
  <1>1. /\ sel.phase \in Loops /\ Queue # <<>> /\ PopFront
        /\ UNCHANGED <<req, state, earlier>>
    BY DEF PopToNotify, MayContinue
  <1>2. sel'.cur = FrontWaiter /\ sel'.prio = sel.prio
    BY DEF PopToNotify, WQInv, TypeOK, Selections
  <1>3. /\ \A v, w \in Waiters : state'[w] = "ABSENT" => w \notin earlier'[v]
        /\ \A s \in Prios : \A i, j \in 1..Len(queues'[s]) :
             i < j => ~ServedBefore(queues'[s][j], queues'[s][i])
        /\ Priority(FrontWaiter) = sel.prio
        /\ \A v \in ToSet(queues'[sel.prio]) : ~ServedBefore(v, FrontWaiter)
    BY <1>1, PopOrder
  <1> QED BY <1>1, <1>2, <1>3 DEF OrderSound, ServedBefore, Priority

LEMMA OrderRetain ==
  ASSUME WQInv, OrderSound, RetainStep
  PROVE  OrderSound'
PROOF
  <1> DEFINE p == sel.prio
             q == queues[p]
             k == sel.idx
             r == RemoveAt(q, k)
  <1>1. /\ p \in Prios /\ k \in Nat /\ k > 0 /\ sel \in Selections
        /\ queues \in [Prios -> Seq(Waiters)] /\ q \in Seq(Waiters)
    BY DEF RetainStep, WQInv, SelSound, Serving, TypeOK, Selections
  <1>2. k \in 1..Len(q) /\ UNCHANGED <<req, state, earlier>>
    BY <1>1 DEF RetainStep, Queue
  <1>3. sel'.phase = "retain"
    BY <1>1 DEF RetainStep, Selections
  <1>4. CASE queues' = queues
    BY <1>2, <1>3, <1>4, OrderKept
  <1>5. CASE queues' = [queues EXCEPT ![p] = r]
    <2>1. /\ r \in Seq(Waiters) /\ Len(r) = Len(q) - 1
          /\ \A i \in 1..Len(r) : r[i] = q[IF i < k THEN i ELSE i + 1]
      BY <1>1, <1>2, RemoveAtElements
    <2> HIDE DEF r
    <2>2. /\ \A v, w \in Waiters : state'[w] = "ABSENT" => w \notin earlier'[v]
          /\ \A s \in Prios : \A i, j \in 1..Len(queues'[s]) :
               i < j => ~ServedBefore(queues'[s][j], queues'[s][i])
      BY <1>1, <1>2, <1>5, <2>1, OrderKeptByRemoval
    <2> QED BY <1>2, <1>3, <2>2 DEF OrderSound, ServedBefore, Priority
  <1> QED BY <1>4, <1>5 DEF RetainStep, Queue

\* Every other step of a selection.
LEMMA OrderSelect ==
  ASSUME WQInv, OrderSound,
         \/ \E n \in Nat : SelectWaiters(n)
         \/ Notify \/ NotifyFails \/ TakeWaker \/ SingleEnds \/ OuterVisits
         \/ OuterEnds \/ InnerEnds \/ RetainEnds \/ SelectReturns
  PROVE  OrderSound'
PROOF
  <1>1. sel \in Selections /\ sel.loop \in {"single", "inner"}
    BY DEF WQInv, TypeOK, Selections, Loops
  <1>2. UNCHANGED <<req, queues, earlier>>
    BY DEF SelectWaiters, SelectNothing, SelectSingle, SelectMulti, Notify, NotifyFails,
           TakeWaker, SingleEnds, OuterVisits, OuterEnds, InnerEnds, RetainEnds,
           SelectReturns
  <1>3. \A w \in Waiters : state'[w] = "ABSENT" => state[w] = "ABSENT"
    <2>1. CASE Notify
      BY <2>1 DEF Notify, TryNotify, WQInv, TypeOK
    <2>2. CASE state' = state
      BY <2>2
    <2> QED
      BY <2>1, <2>2 DEF SelectWaiters, SelectNothing, SelectSingle, SelectMulti,
         NotifyFails, TakeWaker, SingleEnds, OuterVisits, OuterEnds, InnerEnds,
         RetainEnds, SelectReturns
  <1>4. sel'.phase # "notify"
    <2>1. CASE \E n \in Nat : SelectWaiters(n)
      BY <2>1 DEF SelectWaiters, SelectNothing, SelectSingle, SelectMulti, SelInit
    <2>2. CASE Notify \/ NotifyFails \/ TakeWaker
      BY <1>1, <2>2 DEF Notify, NotifyFails, TakeWaker, Selections
    <2>3. CASE SingleEnds
      BY <1>1, <2>3 DEF SingleEnds, Selections
    <2>4. CASE OuterEnds
      BY <1>1, <2>4 DEF OuterEnds, Selections
    <2>5. CASE InnerEnds
      BY <1>1, <2>5 DEF InnerEnds, Selections
    <2>6. CASE SelectReturns
      BY <2>6 DEF SelectReturns, SelInit
    <2>7. CASE OuterVisits
      <3>1. \/ sel' = sel
            \/ \E p \in Prios : sel' = [sel EXCEPT !.phase = "inner", !.prio = p,
                                               !.processed = FALSE]
        BY <2>7 DEF OuterVisits
      <3>2. sel.phase = "outer"
        BY <2>7 DEF OuterVisits
      <3> QED BY <1>1, <3>1, <3>2 DEF Selections
    <2>8. CASE RetainEnds
      <3> DEFINE ph == IF sel.processed /\ ~CanPush THEN "full" ELSE "outer"
                 rs == ToRestore
      <3>1. sel' = [sel EXCEPT !.phase = ph, !.prio = None, !.idx = 0, !.removed = 0,
                               !.restore = rs]
        BY <2>8 DEF RetainEnds
      <3>2. ph # "notify"
        OBVIOUS
      <3> HIDE DEF ph, rs
      <3> QED BY ONLY <1>1, <3>1, <3>2 DEF Selections
    <2> QED BY <2>1, <2>2, <2>3, <2>4, <2>5, <2>6, <2>7, <2>8
  <1> QED BY <1>2, <1>3, <1>4, OrderKept

LEMMA OrderNext ==
  ASSUME WQInv, OrderSound, [WQNext]_wqVars
  PROVE  OrderSound'
PROOF
  <1>1. ASSUME NEW w \in Waiters, Cancel(w) \/ SetWaker(w) \/ CloseCancels(w)
        PROVE  OrderSound'
    <2>1. /\ UNCHANGED <<req, queues, earlier, sel>>
          /\ \A v \in Waiters : state'[v] = "ABSENT" => state[v] = "ABSENT"
      BY <1>1 DEF Cancel, SetWaker, CloseCancels, CancelState, WQInv, TypeOK
    <2> QED BY <2>1, OrderKept
  <1>2. ASSUME NEW n \in 0..MaxGrant, SelectWaiters(n)
        PROVE  OrderSound'
    <2>1. n \in Nat
      BY WaitQueueAssumption
    <2> QED BY <1>2, <2>1, OrderSelect
  <1>3. CASE SelectStep \/ SelectReturns
    BY <1>3, OrderDrop, OrderPop, OrderRetain, OrderSelect DEF SelectStep
  <1>4. CASE UNCHANGED wqVars
    BY <1>4, OrderKept DEF wqVars
  <1> QED BY <1>1, <1>2, <1>3, <1>4, OrderPush, OrderClose DEF WQNext

-----------------------------------------------------------------------------
(* Requests for one permit: what a selection leaves behind.                *)

LEMMA UnitFits ==
  ASSUME WQInv, AllUnit, sel.phase \in Loops, MayContinue
  PROVE  ~StopsAtFront
PROOF
  <1>1. FrontWaiter \in Waiters /\ sel.avail \in Nat /\ sel.avail > 0
    BY LoopFacts DEF MayContinue
  <1>2. Fits(FrontWaiter)
    BY <1>1 DEF AllUnit, Fits
  <1> QED BY <1>2 DEF StopsAtFront

\* A loop over a queue that ends although it may serve emptied the queue.
LEMMA UnitLoopEnds ==
  ASSUME WQInv, AllUnit, sel.phase \in Loops, MayContinue => StopsAtFront, MayServe
  PROVE  Queue = <<>>
PROOF
  BY UnitFits DEF MayContinue, MayServe

\* Steps that change no queue and no local of a selection, or end idle.
LEMMA UnitKept ==
  ASSUME UnitSound, req' = req,
         \/ queues' = queues /\ sel' = sel
         \/ sel'.phase = "idle"
  PROVE  UnitSound'
PROOF
  <1>1. AllUnit' = AllUnit
    BY DEF AllUnit, Need
  <1> QED BY <1>1 DEF UnitSound, MayServe, CanPush, Queue

LEMMA UnitSelect ==
  ASSUME WQInv, NEW n \in Nat, SelectWaiters(n)
  PROVE  UnitSound'
PROOF
  <1>1. UNCHANGED <<req, queues>> /\ sel.phase = "idle" /\ drained = {}
    BY DEF SelectWaiters, SelectNothing, SelectSingle, SelectMulti, Busy
  <1>2. CASE SelectNothing(n)
    <2>1. /\ sel' = [SelInit EXCEPT !.phase = "done", !.given = n, !.avail = n]
          /\ n = 0 \/ total = 0
      BY <1>2 DEF SelectNothing
    <2>2. sel'.phase = "done" /\ sel'.avail = n
      BY <2>1 DEF SelInit
    <2>3. ASSUME n > 0, NEW p \in Prios
          PROVE  queues[p] = <<>>
      <3>1. Cardinality(Queued) = 0
        BY <1>1, <2>1, <2>3, QueuedFinite, FS_CardinalityType
        DEF WQInv, CountSound, SelSound
      <3>2. Queued = {}
        BY <3>1, QueuedFinite, FS_EmptySet
      <3>3. ToSet(queues[p]) = {}
        BY <3>2, QueueMembers DEF WQInv, TypeOK
      <3>4. queues[p] \in Seq(Waiters)
        BY DEF WQInv, TypeOK
      <3> QED BY <3>3, <3>4, ToSetElements
    <2> QED BY <1>1, <2>2, <2>3 DEF UnitSound, MayServe
  <1>3. CASE SelectSingle(n)
    <2>1. PICK p \in Prios :
            /\ OnlyPriority(p)
            /\ sel' = [SelInit EXCEPT !.phase = "single", !.loop = "single",
                                      !.given = n, !.avail = n, !.prio = p]
      BY <1>3 DEF SelectSingle
    <2>2. sel'.phase = "single" /\ sel'.loop = "single" /\ sel'.prio = p
      BY <2>1 DEF SelInit
    <2>3. ASSUME NEW q \in Prios \ {p} PROVE queues[q] = <<>>
      BY <1>1, <2>1 DEF OnlyPriority, WQInv, HeapSound, SelSound, NoCounts, Serving
    <2> QED BY <1>1, <2>2, <2>3 DEF UnitSound
  <1>4. CASE SelectMulti(n)
    <2>1. sel'.phase = "outer" /\ sel'.restore = NoCounts
      BY <1>4 DEF SelectMulti, SelInit
    <2> QED BY <2>1 DEF UnitSound
  <1> QED BY <1>2, <1>3, <1>4 DEF SelectWaiters

LEMMA UnitPop ==
  ASSUME WQInv, UnitSound, DropCancelledFront \/ PopToNotify
  PROVE  UnitSound'
PROOF
  <1>1. sel.phase \in {"single", "inner"} /\ sel.phase = sel.loop /\ sel.prio \in Prios
    BY LoopFacts DEF DropCancelledFront, PopToNotify, Loops
  <1>2. /\ req' = req /\ queues' = [queues EXCEPT ![sel.prio] = Tail(@)]
        /\ queues \in [Prios -> Seq(Waiters)] /\ sel \in Selections
    BY DEF DropCancelledFront, PopToNotify, PopFront, WQInv, TypeOK
  <1>3. \A q \in Prios \ {sel.prio} : queues'[q] = queues[q]
    BY <1>2
  <1>4. /\ sel'.phase \in {sel.phase, "notify"} /\ sel'.loop = sel.loop
        /\ sel'.prio = sel.prio /\ sel'.restore = sel.restore
    BY <1>2 DEF DropCancelledFront, PopToNotify, Selections
  <1>5. AllUnit' = AllUnit
    BY <1>2 DEF AllUnit, Need
  <1>6. \A q \in Prios : q > sel.prio => q # sel.prio
    BY <1>1, WaitQueueAssumption
  <1> QED BY <1>1, <1>3, <1>4, <1>5, <1>6 DEF UnitSound

LEMMA UnitTurn ==
  ASSUME WQInv, UnitSound, Notify \/ NotifyFails \/ TakeWaker
  PROVE  UnitSound'
PROOF
  <1>1. /\ UNCHANGED <<req, queues>> /\ sel \in Selections
        /\ sel.loop \in {"single", "inner"}
    BY DEF Notify, NotifyFails, TakeWaker, WQInv, TypeOK, Selections, Loops
  <1>2. /\ sel.phase \in {"notify", "take"}
        /\ sel'.phase \in {"take", sel.loop} /\ sel'.loop = sel.loop
        /\ sel'.prio = sel.prio /\ sel'.restore = sel.restore
    BY <1>1 DEF Notify, NotifyFails, TakeWaker, Selections
  <1>3. AllUnit' = AllUnit
    BY <1>1 DEF AllUnit, Need
  <1> QED BY <1>1, <1>2, <1>3 DEF UnitSound

LEMMA UnitSingleEnds ==
  ASSUME WQInv, UnitSound, SingleEnds
  PROVE  UnitSound'
PROOF
  <1>1. /\ UNCHANGED <<req, queues>> /\ sel \in Selections /\ sel.phase = "single"
        /\ sel' = [sel EXCEPT !.phase = "done", !.prio = None]
        /\ MayContinue => StopsAtFront
    BY DEF SingleEnds, WQInv, TypeOK
  <1>2. sel'.phase = "done" /\ sel'.avail = sel.avail /\ sel'.wakes = sel.wakes
    BY <1>1 DEF Selections
  <1>3. AllUnit' = AllUnit
    BY <1>1 DEF AllUnit, Need
  <1>4. MayServe' = MayServe
    BY <1>2 DEF MayServe, CanPush
  <1>5. ASSUME AllUnit, MayServe, NEW q \in Prios PROVE queues[q] = <<>>
    <2>1. sel.loop = "single" /\ sel.phase \in Loops
      BY <1>1 DEF WQInv, SelSound, Loops
    <2>2. Queue = <<>>
      BY <1>1, <1>5, <2>1, UnitLoopEnds
    <2> QED BY <1>1, <1>5, <2>1, <2>2 DEF UnitSound, Queue
  <1> QED BY <1>1, <1>2, <1>3, <1>4, <1>5 DEF UnitSound

LEMMA UnitInnerEnds ==
  ASSUME WQInv, UnitSound, InnerEnds
  PROVE  UnitSound'
PROOF
  <1>1. /\ UNCHANGED <<req, queues>> /\ sel \in Selections /\ sel.phase = "inner"
        /\ sel' = [sel EXCEPT !.phase = "retain", !.idx = 1, !.removed = 0]
        /\ MayContinue => StopsAtFront
    BY DEF InnerEnds, WQInv, TypeOK
  <1>2. /\ sel'.phase = "retain" /\ sel'.avail = sel.avail /\ sel'.wakes = sel.wakes
        /\ sel'.loop = sel.loop /\ sel'.prio = sel.prio /\ sel'.restore = sel.restore
    BY <1>1 DEF Selections
  <1>3. AllUnit' = AllUnit
    BY <1>1 DEF AllUnit, Need
  <1>4. MayServe' = MayServe /\ Queue' = Queue
    BY <1>1, <1>2 DEF MayServe, CanPush, Queue
  <1>5. sel.loop = "inner" /\ sel.phase \in Loops
    BY <1>1 DEF WQInv, SelSound, Loops
  <1>6. AllUnit /\ MayServe => Queue = <<>>
    BY <1>1, <1>5, UnitLoopEnds
  <1> QED BY <1>1, <1>2, <1>3, <1>4, <1>5, <1>6 DEF UnitSound

LEMMA UnitRetainStep ==
  ASSUME WQInv, UnitSound, RetainStep
  PROVE  UnitSound'
PROOF
  <1>1. /\ req' = req /\ sel \in Selections /\ sel.phase = "retain"
        /\ queues \in [Prios -> Seq(Waiters)] /\ sel.prio \in Prios
        /\ sel.idx \in Nat /\ sel.idx > 0 /\ sel.idx <= Len(Queue)
    BY DEF RetainStep, WQInv, TypeOK, SelSound, Serving, Selections
  <1>2. /\ sel'.phase = "retain" /\ sel'.avail = sel.avail /\ sel'.wakes = sel.wakes
        /\ sel'.loop = sel.loop /\ sel'.prio = sel.prio /\ sel'.restore = sel.restore
    BY <1>1 DEF RetainStep, Selections
  <1>3. AllUnit' = AllUnit
    BY <1>1 DEF AllUnit, Need
  <1>4. MayServe' = MayServe
    BY <1>2 DEF MayServe, CanPush
  <1>5. \A q \in Prios \ {sel.prio} : queues'[q] = queues[q]
    BY <1>1 DEF RetainStep
  <1>6. Queue # <<>>
    BY <1>1
  <1>7. \A q \in Prios : q > sel.prio => q # sel.prio
    BY <1>1, WaitQueueAssumption
  <1> QED BY <1>1, <1>2, <1>3, <1>4, <1>5, <1>6, <1>7 DEF UnitSound

LEMMA UnitRetainEnds ==
  ASSUME WQInv, UnitSound, RetainEnds
  PROVE  UnitSound'
PROOF
  <1> DEFINE ph == IF sel.processed /\ ~CanPush THEN "full" ELSE "outer"
             rs == ToRestore
  <1>1. /\ UNCHANGED <<req, queues>> /\ sel \in Selections /\ sel.phase = "retain"
        /\ sel' = [sel EXCEPT !.phase = ph, !.prio = None, !.idx = 0, !.removed = 0,
                              !.restore = rs]
        /\ sel.loop = "inner"
    BY DEF RetainEnds, WQInv, TypeOK, SelSound
  <1>2. ph \in {"full", "outer"} /\ (ph = "full" => ~CanPush)
    OBVIOUS
  <1>3. Queue = <<>> /\ sel.restore = NoCounts => rs = NoCounts
    BY DEF ToRestore, NoCounts
  <1> HIDE DEF ph, rs
  <1>4. /\ sel'.phase = ph /\ sel'.avail = sel.avail /\ sel'.wakes = sel.wakes
        /\ sel'.restore = rs
    BY ONLY <1>1 DEF Selections
  <1>5. AllUnit' = AllUnit
    BY <1>1 DEF AllUnit, Need
  <1>6. MayServe' = MayServe /\ CanPush' = CanPush
    BY <1>4 DEF MayServe, CanPush
  <1> QED BY <1>1, <1>2, <1>3, <1>4, <1>5, <1>6 DEF UnitSound

LEMMA UnitOuterVisits ==
  ASSUME WQInv, UnitSound, OuterVisits
  PROVE  UnitSound'
PROOF
  <1>1. /\ UNCHANGED <<req, queues>> /\ sel \in Selections /\ sel.phase = "outer"
        /\ MayServe /\ ~Serving /\ sel.loop = "inner"
        /\ sel.restore \in [Prios -> Nat] /\ active \in [Prios -> Nat]
    BY DEF OuterVisits, MayServe, WQInv, TypeOK, SelSound, Serving, Selections
  <1>2. PICK p \in Prios :
          /\ Peek(p)
          /\ sel' = IF queues[p] = <<>> THEN sel
                    ELSE [sel EXCEPT !.phase = "inner", !.prio = p, !.processed = FALSE]
    BY DEF OuterVisits
  <1>3. AllUnit' = AllUnit
    BY <1>1 DEF AllUnit, Need
  <1>4. CASE queues[p] = <<>>
    BY <1>1, <1>2, <1>4, UnitKept
  <1>5. CASE queues[p] # <<>>
    <2>1. /\ sel'.phase = "inner" /\ sel'.prio = p /\ sel'.restore = sel.restore
          /\ sel'.loop = "inner"
      BY <1>1, <1>2, <1>5 DEF Selections
    <2>2. AllUnit => sel.restore = NoCounts
      BY <1>1 DEF UnitSound
    <2>3. ASSUME AllUnit, NEW q \in Prios, q > p PROVE queues[q] = <<>>
      <3>1. active[q] = 0
        BY <1>1, <1>2, <2>3, WaitQueueAssumption DEF Peek
      <3>2. active[q] + sel.restore[q] = IF queues[q] = <<>> THEN 0 ELSE 1
        BY <1>1 DEF WQInv, HeapSound
      <3> QED BY <2>2, <2>3, <3>1, <3>2 DEF NoCounts
    <2> QED BY <1>1, <1>3, <2>1, <2>2, <2>3 DEF UnitSound
  <1> QED BY <1>4, <1>5

LEMMA UnitOuterEnds ==
  ASSUME WQInv, UnitSound, OuterEnds
  PROVE  UnitSound'
PROOF
  <1>1. /\ UNCHANGED <<req, queues>> /\ sel \in Selections
        /\ sel.phase = "full" \/ (sel.phase = "outer" /\ OuterStops)
        /\ sel' = [sel EXCEPT !.phase = "done", !.restore = NoCounts]
        /\ ~Serving
    BY DEF OuterEnds, WQInv, TypeOK, Serving
  <1>2. sel'.phase = "done" /\ sel'.avail = sel.avail /\ sel'.wakes = sel.wakes
    BY <1>1 DEF Selections
  <1>3. AllUnit' = AllUnit
    BY <1>1 DEF AllUnit, Need
  <1>4. MayServe' = MayServe
    BY <1>2 DEF MayServe, CanPush
  <1>5. ASSUME AllUnit, MayServe, NEW q \in Prios PROVE queues[q] = <<>>
    <2>1. sel.phase = "outer" /\ OuterStops
      BY <1>1, <1>5 DEF UnitSound, MayServe
    <2>2. sel.restore = NoCounts
      BY <1>5, <2>1 DEF UnitSound
    <2>3. \A p \in Prios : queues[p] # <<>> => Fits(Head(queues[p]))
      <3> SUFFICES ASSUME NEW p \in Prios, queues[p] # <<>>
                   PROVE  Need(Head(queues[p])) <= sel.avail
        BY DEF Fits
      <3>1. queues[p] \in Seq(Waiters)
        BY DEF WQInv, TypeOK
      <3>2. Head(queues[p]) \in Waiters
        BY <3>1
      <3> QED BY <1>1, <1>5, <3>2 DEF AllUnit, MayServe, Selections
    <2>4. active[q] = 0
      BY <1>1, <1>5, <2>1, <2>3 DEF OuterStops, MayServe, Selections
    <2> QED BY <1>1, <2>2, <2>4 DEF WQInv, HeapSound, NoCounts
  <1> QED BY <1>1, <1>2, <1>3, <1>4, <1>5 DEF UnitSound

LEMMA UnitNext ==
  ASSUME WQInv, UnitSound, [WQNext]_wqVars
  PROVE  UnitSound'
PROOF
  <1>1. ASSUME NEW w \in Waiters, Cancel(w) \/ SetWaker(w) \/ CloseCancels(w)
        PROVE  UnitSound'
    BY <1>1, UnitKept DEF Cancel, SetWaker, CloseCancels
  <1>2. ASSUME NEW w \in Waiters, PushWaiter(w) PROVE UnitSound'
    BY <1>2, UnitKept DEF PushWaiter, Busy
  <1>3. CASE Close
    BY <1>3, UnitKept DEF Close, Busy
  <1>4. ASSUME NEW n \in 0..MaxGrant, SelectWaiters(n) PROVE UnitSound'
    <2>1. n \in Nat
      BY WaitQueueAssumption
    <2> QED BY <1>4, <2>1, UnitSelect
  <1>5. CASE SelectStep
    BY <1>5, UnitPop, UnitTurn, UnitSingleEnds, UnitOuterVisits, UnitOuterEnds,
       UnitInnerEnds, UnitRetainStep, UnitRetainEnds DEF SelectStep
  <1>6. CASE SelectReturns
    <2>1. sel'.phase = "idle" /\ req' = req
      BY <1>6 DEF SelectReturns, SelInit
    <2> QED BY <2>1, UnitKept
  <1>7. CASE UNCHANGED wqVars
    BY <1>7, UnitKept DEF wqVars
  <1> QED BY <1>1, <1>2, <1>3, <1>4, <1>5, <1>6, <1>7 DEF WQNext

-----------------------------------------------------------------------------
LEMMA ServiceInit == WQInit => ServiceInv
PROOF
  <1> SUFFICES ASSUME WQInit PROVE ServiceInv
    OBVIOUS
  <1>1. sel.phase = "idle"
    BY DEF WQInit, SelInit
  <1>2. \A p \in Prios : 1..Len(queues[p]) = {}
    BY DEF WQInit
  <1>3. OrderSound
    BY <1>1, <1>2 DEF OrderSound, WQInit
  <1>4. UnitSound
    BY <1>1 DEF UnitSound
  <1> QED BY <1>3, <1>4 DEF ServiceInv

(* The order of the queues and what a selection leaves behind are as the   *)
(* proofs below need them, in every reachable state.                       *)
THEOREM ServiceInvariance == WQSpec => []ServiceInv
PROOF
  <1>1. WQInv /\ ServiceInv /\ [WQNext]_wqVars => ServiceInv'
    BY OrderNext, UnitNext DEF ServiceInv
  <1> QED BY <1>1, ServiceInit, Invariance, PTL DEF WQSpec

\* Only the CAS of a selection notifies, and only its current waiter; live
\* waiters are then in the queues of their priorities.
LEMMA OnlyNotifyNotifies ==
  ASSUME WQInv, [WQNext]_wqVars, NEW w \in Waiters,
         state[w] = "WAITING", state'[w] = "NOTIFIED"
  PROVE  /\ sel.phase = "notify" /\ w = sel.cur /\ sel.prio \in Prios
         /\ \A v \in Waiters \ {w} : state[v] = "WAITING" =>
              /\ Priority(v) \in Prios
              /\ v \in ToSet(queues[Priority(v)])
PROOF
  <1>1. Notify
    <2>1. CASE state' = state
      BY <2>1
    <2>2. ASSUME NEW v \in Waiters,
                 state' = [state EXCEPT ![v] = "CANCELLED"]
                   \/ state' = [state EXCEPT ![v] = "WAITING"]
          PROVE  FALSE
      BY <2>2 DEF WQInv, TypeOK
    <2>3. CASE SelectStep
      BY <2>1, <2>3 DEF SelectStep, DropCancelledFront, PopToNotify, NotifyFails,
         TakeWaker, SingleEnds, OuterVisits, OuterEnds, InnerEnds, RetainStep, RetainEnds
    <2>4. CASE UNCHANGED wqVars \/ SelectReturns \/ Close
               \/ \E n \in 0..MaxGrant : SelectWaiters(n)
      BY <2>1, <2>4 DEF wqVars, SelectReturns, Close, SelectWaiters, SelectNothing,
         SelectSingle, SelectMulti
    <2>5. ASSUME NEW v \in Waiters,
                 PushWaiter(v) \/ Cancel(v) \/ SetWaker(v) \/ CloseCancels(v)
          PROVE  FALSE
      BY <2>1, <2>2, <2>5 DEF PushWaiter, Cancel, SetWaker, CloseCancels, CancelState
    <2> QED BY <2>3, <2>4, <2>5 DEF WQNext
  <1>2. sel.phase = "notify" /\ state' = [state EXCEPT ![sel.cur] = "NOTIFIED"]
    BY <1>1 DEF Notify, TryNotify
  <1>3. w = sel.cur
    BY <1>2 DEF WQInv, TypeOK
  <1>4. drained = {} /\ sel.prio \in Prios
    BY <1>2 DEF WQInv, SelSound, Serving
  <1>5. ASSUME NEW v \in Waiters \ {w}, state[v] = "WAITING"
        PROVE  Priority(v) \in Prios /\ v \in ToSet(queues[Priority(v)])
    BY <1>3, <1>4, <1>5, PriorityTyped DEF WQInv, TypeOK, NoWaiterLost, Queued
  <1> QED BY <1>2, <1>3, <1>4, <1>5

(* Within a priority, live waiters are notified in the order of arrival    *)
(* (Fifo) or in its reverse (Lifo), for any number of waiters, whatever is *)
(* cancelled, removed or pushed between (insert_waiter_optimized, the pops *)
(* of both selection loops, retain).                                       *)
THEOREM ServedByStrategy == WQSpec => ServedInOrder
PROOF
  <1>1. ASSUME WQInv, ServiceInv, [WQNext]_wqVars, NEW v \in Waiters, NEW w \in Waiters,
               state[w] = "WAITING", state'[w] = "NOTIFIED",
               state[v] = "WAITING", v # w, Priority(v) = Priority(w)
        PROVE  ~ServedBefore(v, w)
    <2>1. /\ sel.phase = "notify" /\ w = sel.cur
          /\ v \in ToSet(queues[Priority(v)])
      BY <1>1, OnlyNotifyNotifies
    <2> QED BY <1>1, <2>1 DEF ServiceInv, OrderSound
  <1>2. WQInv /\ ServiceInv /\ [WQNext]_wqVars =>
          [\A v, w \in Waiters :
             /\ state[w] = "WAITING" /\ state'[w] = "NOTIFIED"
             /\ state[v] = "WAITING" /\ v # w /\ Priority(v) = Priority(w)
             => ~ServedBefore(v, w)]_wqVars
    BY <1>1
  <1> QED BY <1>2, Invariance, ServiceInvariance, PTL DEF ServedInOrder, WQSpec

(* When every request is for one permit, nobody is notified while a live   *)
(* waiter of a higher priority is left, for any number of priorities and   *)
(* any capacity of the wake list.                                          *)
THEOREM HighestPriorityServed == WQSpec => StrictPriority
PROOF
  <1>1. ASSUME WQInv, ServiceInv, [WQNext]_wqVars, AllUnit,
               NEW v \in Waiters, NEW w \in Waiters,
               state[w] = "WAITING", state'[w] = "NOTIFIED", state[v] = "WAITING"
        PROVE  Priority(v) <= Priority(w)
    <2>1. sel.phase = "notify" /\ w = sel.cur /\ sel.prio \in Prios
      BY <1>1, OnlyNotifyNotifies
    <2>2. Priority(w) = sel.prio
      BY <1>1, <2>1 DEF ServiceInv, OrderSound
    <2> DEFINE p == Priority(v)
               s == sel.prio
    <2>0. s \in Int
      BY <2>1, WaitQueueAssumption
    <2>3. CASE v = w
      <3>1. p = s
        BY <2>2, <2>3
      <3> QED BY ONLY <2>0, <2>2, <3>1
    <2>4. CASE v # w
      <3>1. Priority(v) \in Prios /\ v \in ToSet(queues[Priority(v)])
        BY <1>1, <2>4, OnlyNotifyNotifies
      <3>2. queues[Priority(v)] \in Seq(Waiters)
        BY <1>1, <3>1 DEF WQInv, TypeOK
      <3>3. queues[Priority(v)] # <<>>
        BY <3>1, <3>2, ToSetElements
      <3>4. sel.loop \in {"single", "inner"}
        BY <1>1 DEF WQInv, TypeOK, Selections, Loops
      <3>5. p \in Int
        BY <3>1, WaitQueueAssumption
      <3>6. \/ \A q \in Prios \ {s} : queues[q] = <<>>
            \/ \A q \in Prios : q > s => queues[q] = <<>>
        BY <1>1, <2>1, <3>4 DEF ServiceInv, UnitSound
      <3>7. ~(p > s)
        BY <2>0, <3>1, <3>3, <3>5, <3>6
      <3> QED BY ONLY <2>0, <2>2, <3>5, <3>7
    <2> QED BY <2>3, <2>4
  <1>2. WQInv /\ ServiceInv /\ [WQNext]_wqVars =>
          [AllUnit =>
             \A v, w \in Waiters :
               /\ state[w] = "WAITING" /\ state'[w] = "NOTIFIED"
               /\ state[v] = "WAITING"
               => Priority(v) <= Priority(w)]_wqVars
    BY <1>1
  <1> QED BY <1>2, Invariance, ServiceInvariance, PTL DEF StrictPriority, WQSpec

(* And a selection that ends with permits to spare and room in its wake    *)
(* list has notified every live waiter.                                    *)
THEOREM NobodyLeftWaiting == WQSpec => []SelectionExhausts
PROOF
  <1>1. ASSUME WQInv, ServiceInv, AllUnit, sel.phase = "done", MayServe,
               NEW w \in Waiters, state[w] = "WAITING"
        PROVE  FALSE
    <2>1. drained = {} /\ sel.cur = None /\ w # None
      BY <1>1, WaitQueueAssumption DEF WQInv, SelSound
    <2>2. w \in ToSet(queues[Priority(w)]) /\ Priority(w) \in Prios
      BY <1>1, <2>1, PriorityTyped DEF WQInv, TypeOK, NoWaiterLost, Queued
    <2>3. queues[Priority(w)] = <<>>
      BY <1>1, <2>2 DEF ServiceInv, UnitSound
    <2>4. queues[Priority(w)] \in Seq(Waiters)
      BY <1>1, <2>2 DEF WQInv, TypeOK
    <2> QED BY <2>2, <2>3, <2>4, ToSetElements
  <1>2. WQInv /\ ServiceInv => SelectionExhausts
    BY <1>1 DEF SelectionExhausts, MayServe
  <1> QED BY <1>2, Invariance, ServiceInvariance, PTL

(* Everything above at once: what holds at every point inside the methods  *)
(* of the queue.                                                           *)
THEOREM QueueInductiveAlways == WQSpec => []QueueInductive
PROOF
  <1>1. WQInv /\ ServiceInv => QueueInductive
    BY DEF QueueInductive
  <1> QED BY <1>1, Invariance, ServiceInvariance, PTL

-----------------------------------------------------------------------------
(* A selection comes to its end.                                           *)

LEMMA TurnTyped == WQInv /\ Selecting => TurnLeft \in 1..5
PROOF
  <1> SUFFICES ASSUME WQInv, Selecting
               PROVE  TurnLeft \in 1..5
    OBVIOUS
  <1>1. sel.phase \in Phases
    BY DEF WQInv, TypeOK, Selections
  <1> QED BY <1>1 DEF Selecting, Phases, Loops, TurnLeft

LEMMA UnseenFinite ==
  ASSUME WQInv
  PROVE  /\ Unseen \subseteq Queued
         /\ IsFiniteSet(Unseen) /\ Cardinality(Unseen) \in Nat
         /\ Cardinality(Unseen) <= Cardinality(Queued)
PROOF
  <1> USE DEF WQInv
  <1>1. ASSUME Serving, NEW i \in FirstUnseen..Len(Queue)
        PROVE  Queue[i] \in Queued
    <2>1. sel.prio \in Prios /\ Queue \in Seq(Waiters)
      BY <1>1 DEF SelSound, TypeOK, Queue
    <2>2. FirstUnseen \in Int /\ FirstUnseen > 0
      BY DEF FirstUnseen, SelSound, TypeOK, Selections
    <2>3. i \in 1..Len(Queue)
      BY <1>1, <2>1, <2>2
    <2>4. Queue[i] \in ToSet(Queue)
      BY <2>1, <2>3, ToSetElements
    <2>5. ToSet(queues[sel.prio]) \subseteq Queued
      BY <2>1, QueueMembers DEF TypeOK
    <2> QED BY <2>4, <2>5 DEF Queue
  <1>2. Unseen \subseteq Queued
    BY <1>1 DEF Unseen
  <1> QED BY <1>2, QueuedFinite, FS_Subset, FS_CardinalityType

\* A priority in the heap has a waiter in its queue.
LEMMA ToVisitFinite ==
  ASSUME WQInv
  PROVE  /\ IsFiniteSet(ToVisit) /\ Cardinality(ToVisit) \in Nat
         /\ Cardinality(ToVisit) <= Cardinality(Queued)
PROOF
  <1> USE DEF WQInv
  <1> DEFINE S == {w \in Queued : Priority(w) \in ToVisit}
             f == [w \in S |-> Priority(w)]
  <1>1. ASSUME NEW p \in ToVisit
        PROVE  \E w \in S : Priority(w) = p
    <2>1. p \in Prios /\ active[p] > 0 /\ active[p] \in Nat /\ sel.restore[p] \in Nat
      BY <1>1 DEF ToVisit, TypeOK, Selections
    <2>2. queues[p] # <<>> /\ queues[p] \in Seq(Waiters)
      BY <2>1 DEF HeapSound, TypeOK
    <2>3. PICK w : w \in ToSet(queues[p])
      BY <2>2, ToSetElements
    <2>4. Priority(w) = p /\ w \in Queued
      BY <2>1, <2>3, QueueMembers DEF QueuesSound, TypeOK
    <2> QED BY <2>4
  <1>2. f \in Surjection(S, ToVisit)
    <2>1. f \in [S -> ToVisit]
      OBVIOUS
    <2>2. \A p \in ToVisit : \E w \in S : f[w] = p
      BY <1>1
    <2> HIDE DEF f, S
    <2> QED BY <2>1, <2>2 DEF Surjection
  <1>3. S \subseteq Queued
    OBVIOUS
  <1>4. IsFiniteSet(S) /\ Cardinality(S) <= Cardinality(Queued)
    BY <1>3, QueuedFinite, FS_Subset
  <1> HIDE DEF f, S
  <1>5. IsFiniteSet(ToVisit) /\ Cardinality(ToVisit) <= Cardinality(S)
    BY <1>2, <1>4, FS_Surjection
  <1>6. /\ Cardinality(ToVisit) \in Nat /\ Cardinality(S) \in Nat
        /\ Cardinality(Queued) \in Nat
    BY <1>4, <1>5, QueuedFinite, FS_CardinalityType
  <1> QED BY <1>4, <1>5, <1>6

LEMMA LeftTyped ==
  WQInv => Cardinality(Unseen) \in Nat /\ Cardinality(ToVisit) \in Nat
PROOF BY UnseenFinite, ToVisitFinite

LEMMA LessLeft ==
  ASSUME NEW u \in Nat, NEW v \in Nat, NEW k \in 1..5,
         NEW u2 \in Nat, NEW v2 \in Nat, NEW k2 \in 1..5,
         u2 <= u, v2 <= v,
         k2 < k \/ (k2 <= k + 2 /\ (u2 # u \/ v2 # v))
  PROVE  3 * (u2 + v2) + k2 < 3 * (u + v) + k
PROOF OBVIOUS

\* A step that ends the turn sooner, or pays for a longer one with a waiter
\* or a priority that it has dealt with.
LEMMA StepsFall ==
  ASSUME WQInv, WQInv', Selecting, Selecting',
         Unseen' \subseteq Unseen, ToVisit' \subseteq ToVisit,
         \/ TurnLeft' < TurnLeft
         \/ TurnLeft' <= TurnLeft + 2 /\ (Unseen' # Unseen \/ ToVisit' # ToVisit)
  PROVE  StepsLeft' < StepsLeft
PROOF
  <1>1. (WQInv => Cardinality(Unseen) \in Nat /\ Cardinality(ToVisit) \in Nat)'
    BY LeftTyped, PTL
  <1>2. (WQInv /\ Selecting => TurnLeft \in 1..5)'
    BY TurnTyped, PTL
  <1>3. PICK u2 \in Nat, v2 \in Nat, k2 \in 1..5 :
          u2 = Cardinality(Unseen)' /\ v2 = Cardinality(ToVisit)' /\ k2 = TurnLeft'
    BY <1>1, <1>2
  <1>4. PICK u \in Nat, v \in Nat, k \in 1..5 :
          u = Cardinality(Unseen) /\ v = Cardinality(ToVisit) /\ k = TurnLeft
    BY LeftTyped, TurnTyped
  <1>5. u2 <= u /\ (Unseen' # Unseen => u2 # u)
    BY <1>3, <1>4, UnseenFinite, FS_Subset
  <1>6. v2 <= v /\ (ToVisit' # ToVisit => v2 # v)
    BY <1>3, <1>4, ToVisitFinite, FS_Subset
  <1>7. StepsLeft = 3 * (u + v) + k /\ StepsLeft' = 3 * (u2 + v2) + k2
    BY <1>3, <1>4 DEF StepsLeft
  <1>8. k2 < k \/ (k2 <= k + 2 /\ (u2 # u \/ v2 # v))
    BY <1>3, <1>4, <1>5, <1>6
  <1>9. 3 * (u2 + v2) + k2 < 3 * (u + v) + k
    BY ONLY <1>5, <1>6, <1>8, LessLeft
  <1> QED BY <1>7, <1>9

\* The end of a selection.
LEMMA StepsDone ==
  ASSUME WQInv, Selecting, sel'.phase = "done"
  PROVE  StepsLeft' < StepsLeft
PROOF
  <1> DEFINE u == Cardinality(Unseen)
             v == Cardinality(ToVisit)
             k == TurnLeft
  <1>1. u \in Nat /\ v \in Nat /\ k \in 1..5
    BY UnseenFinite, ToVisitFinite, TurnTyped
  <1>2. StepsLeft = 3 * (u + v) + k /\ StepsLeft' = 0
    BY DEF StepsLeft, Selecting
  <1> HIDE DEF u, v, k
  <1> QED BY ONLY <1>1, <1>2

\* The pass over the queue starts, or a step leaves queues and heap alone.
LEMMA SameUnseen ==
  ASSUME UNCHANGED <<req, queues, active>>, Serving, Serving',
         sel'.prio = sel.prio, FirstUnseen' = FirstUnseen
  PROVE  Unseen' = Unseen /\ ToVisit' = ToVisit
PROOF
  <1>1. Queued' = Queued /\ \A w : Priority(w)' = Priority(w)
    BY DEF Queued, Priority
  <1>2. Queue' = Queue
    BY DEF Queue
  <1> QED BY <1>1, <1>2 DEF Unseen, ToVisit

LEMMA UnseenQueued == WQInv => Unseen \subseteq Queued
PROOF BY UnseenFinite

\* Outside retain, all of the queue that is being processed is unseen.
LEMMA LoopUnseen ==
  ASSUME WQInv, Serving, sel.phase # "retain"
  PROVE  Unseen = {w \in Queued : active[Priority(w)] > 0} \cup ToSet(Queue)
PROOF
  <1>1. Queue \in Seq(Waiters)
    BY DEF WQInv, SelSound, TypeOK, Queue
  <1>2. ToSet(Queue) = {Queue[i] : i \in 1..Len(Queue)}
    BY <1>1, ToSetElements
  <1> QED BY <1>2 DEF Unseen, FirstUnseen

LEMMA LoopUnseenThen ==
  WQInv /\ Serving /\ sel.phase # "retain" =>
    Unseen = {w \in Queued : active[Priority(w)] > 0} \cup ToSet(Queue)
PROOF BY LoopUnseen

\* The front waiter has been dealt with.
LEMMA PopUnseen ==
  ASSUME WQInv, WQInv', sel.phase \in Loops, Queue # <<>>, PopFront,
         UNCHANGED <<req, active>>,
         sel'.prio = sel.prio, Serving', sel'.phase # "retain"
  PROVE  /\ Unseen' \subseteq Unseen /\ Unseen' # Unseen
         /\ ToVisit' \subseteq ToVisit
PROOF
  <1>1. /\ sel.prio \in Prios /\ Queue \in Seq(Waiters) /\ Serving
        /\ sel.phase # "retain"
    BY LoopFacts DEF Loops
  <1>2. Unseen = {w \in Queued : active[Priority(w)] > 0} \cup ToSet(Queue)
    BY <1>1, LoopUnseen
  <1>3. (WQInv /\ Serving /\ sel.phase # "retain" =>
           Unseen = {w \in Queued : active[Priority(w)] > 0} \cup ToSet(Queue))'
    BY LoopUnseenThen, PTL
  <1>4. FrontWaiter \in Queued /\ Queued' = Queued \ {FrontWaiter}
    BY PopFacts
  <1>5. Queue' = Tail(Queue) /\ FrontWaiter \in ToSet(Queue)
    BY <1>1, TailRemoves DEF WQInv, TypeOK, QueuesSound, PopFront, Queue, FrontWaiter
  <1>6. ToSet(Queue)' \subseteq ToSet(Queue)
    BY <1>1, <1>5, TailRemoves DEF WQInv, TypeOK, QueuesSound, Queue
  <1>7. {w \in Queued : active[Priority(w)] > 0}' \subseteq
          {w \in Queued : active[Priority(w)] > 0}
    BY <1>4 DEF Priority
  <1>8. (WQInv => Unseen \subseteq Queued)'
    BY UnseenQueued, PTL
  <1> QED BY <1>2, <1>3, <1>4, <1>5, <1>6, <1>7, <1>8 DEF ToVisit

LEMMA DropFalls ==
  ASSUME WQInv, WQInv', DropCancelledFront
  PROVE  StepsLeft' < StepsLeft
PROOF
  <1>1. /\ sel.phase \in Loops /\ Queue # <<>> /\ PopFront
        /\ UNCHANGED <<req, active, sel>>
    BY DEF DropCancelledFront, MayContinue
  <1>2. Selecting /\ Selecting' /\ Serving' /\ sel'.phase # "retain"
    BY <1>1 DEF Loops, Selecting, Serving
  <1>3. Unseen' \subseteq Unseen /\ Unseen' # Unseen /\ ToVisit' \subseteq ToVisit
    BY <1>1, <1>2, PopUnseen
  <1>4. TurnLeft' = TurnLeft /\ TurnLeft \in 1..5
    BY <1>1, <1>2, TurnTyped DEF TurnLeft
  <1> QED BY <1>2, <1>3, <1>4, StepsFall

LEMMA PopFalls ==
  ASSUME WQInv, WQInv', PopToNotify
  PROVE  StepsLeft' < StepsLeft
PROOF
  <1>1. /\ sel.phase \in Loops /\ Queue # <<>> /\ PopFront
        /\ UNCHANGED <<req, active>>
    BY DEF PopToNotify, MayContinue
  <1>2. sel'.phase = "notify" /\ sel'.prio = sel.prio
    BY DEF PopToNotify, WQInv, TypeOK, Selections
  <1>3. Selecting /\ Selecting' /\ Serving' /\ sel'.phase # "retain"
    BY <1>1, <1>2 DEF Loops, Selecting, Serving
  <1>4. Unseen' \subseteq Unseen /\ Unseen' # Unseen /\ ToVisit' \subseteq ToVisit
    BY <1>1, <1>2, <1>3, PopUnseen
  <1>5. TurnLeft' = 5 /\ TurnLeft = 3
    BY <1>1, <1>2 DEF TurnLeft, Loops
  <1>6. TurnLeft' <= TurnLeft + 2
    BY <1>5
  <1> QED BY <1>3, <1>4, <1>6, StepsFall

LEMMA TurnFalls ==
  ASSUME WQInv, WQInv', Notify \/ NotifyFails \/ TakeWaker \/ InnerEnds
  PROVE  StepsLeft' < StepsLeft
PROOF
  <1>1. sel \in Selections /\ sel.loop \in Loops
    BY DEF WQInv, TypeOK, Selections
  <1>2. UNCHANGED <<req, queues, active>> /\ sel'.prio = sel.prio
    BY <1>1 DEF Notify, NotifyFails, TakeWaker, InnerEnds, Selections
  <1>3. /\ Selecting /\ Selecting' /\ Serving /\ Serving'
        /\ FirstUnseen' = FirstUnseen
        /\ TurnLeft \in Nat /\ TurnLeft' \in Nat /\ TurnLeft' < TurnLeft
    <2>1. CASE Notify
      <3>1. sel.phase = "notify" /\ sel'.phase = "take"
        BY <1>1, <2>1 DEF Notify, Selections
      <3> QED BY <3>1 DEF Selecting, Serving, FirstUnseen, TurnLeft, Loops
    <2>2. CASE NotifyFails
      <3>1. sel.phase = "notify" /\ sel'.phase \in {"single", "inner"}
        BY <1>1, <2>2 DEF NotifyFails, Selections, Loops
      <3> QED BY <3>1 DEF Selecting, Serving, FirstUnseen, TurnLeft, Loops
    <2>3. CASE TakeWaker
      <3>1. sel.phase = "take" /\ sel'.phase \in {"single", "inner"}
        BY <1>1, <2>3 DEF TakeWaker, Selections, Loops
      <3> QED BY <3>1 DEF Selecting, Serving, FirstUnseen, TurnLeft, Loops
    <2>4. CASE InnerEnds
      <3>1. sel.phase = "inner" /\ sel'.phase = "retain" /\ sel'.idx = 1
        BY <1>1, <2>4 DEF InnerEnds, Selections
      <3> QED BY <3>1 DEF Selecting, Serving, FirstUnseen, TurnLeft, Loops
    <2> QED BY <2>1, <2>2, <2>3, <2>4
  <1>4. Unseen' = Unseen /\ ToVisit' = ToVisit
    BY <1>2, <1>3, SameUnseen
  <1> QED BY <1>3, <1>4, StepsFall

LEMMA EndFalls ==
  ASSUME WQInv, SingleEnds \/ OuterEnds
  PROVE  StepsLeft' < StepsLeft
PROOF
  <1>1. sel'.phase = "done" /\ Selecting
    BY DEF SingleEnds, OuterEnds, Selecting, WQInv, TypeOK, Selections
  <1> QED BY <1>1, StepsDone

LEMMA RetainEndFalls ==
  ASSUME WQInv, WQInv', RetainEnds
  PROVE  StepsLeft' < StepsLeft
PROOF
  <1>1. /\ sel.phase = "retain" /\ sel \in Selections /\ sel.idx > Len(Queue)
        /\ UNCHANGED <<req, queues, active>> /\ sel'.phase \in {"full", "outer"}
        /\ Queue \in Seq(Waiters)
    BY DEF RetainEnds, WQInv, TypeOK, Selections, SelSound, Serving, Queue
  <1>2. /\ Selecting /\ Selecting' /\ Serving /\ ~Serving'
        /\ TurnLeft' = 1 /\ TurnLeft = 2
    BY <1>1 DEF Selecting, Serving, TurnLeft, Loops
  <1>3. sel.idx..Len(Queue) = {}
    <2>1. sel.idx \in Nat /\ Len(Queue) \in Nat
      BY <1>1 DEF Selections
    <2> QED BY <1>1, <2>1
  <1>4. Unseen = {w \in Queued : active[Priority(w)] > 0}
    BY <1>1, <1>2, <1>3 DEF Unseen, FirstUnseen
  <1>5. Unseen' = Unseen /\ ToVisit' = ToVisit
    BY <1>1, <1>2, <1>4 DEF Unseen, ToVisit, Queued, Priority
  <1> QED BY <1>2, <1>5, StepsFall

LEMMA VisitFalls ==
  ASSUME WQInv, WQInv', OuterVisits
  PROVE  StepsLeft' < StepsLeft
PROOF
  <1>1. /\ sel.phase = "outer" /\ sel \in Selections /\ UNCHANGED <<req, queues>>
        /\ ~Serving /\ active \in [Prios -> Nat] /\ sel.restore \in [Prios -> Nat]
    BY DEF OuterVisits, WQInv, TypeOK, Selections, Serving
  <1>2. PICK p \in Prios :
          /\ active[p] > 0
          /\ active' = [active EXCEPT ![p] = @ - 1]
          /\ sel' = IF queues[p] = <<>> THEN sel
                    ELSE [sel EXCEPT !.phase = "inner", !.prio = p, !.processed = FALSE]
    BY DEF OuterVisits, Peek
  <1>3. active[p] = 1 /\ queues[p] # <<>>
    BY <1>1, <1>2 DEF WQInv, HeapSound
  <1>4. sel'.phase = "inner" /\ sel'.prio = p
    BY <1>1, <1>2, <1>3 DEF Selections
  <1>5. /\ Selecting /\ Selecting' /\ Serving' /\ sel'.phase # "retain"
        /\ TurnLeft' = 3 /\ TurnLeft = 1
    BY <1>1, <1>4 DEF Selecting, Serving, TurnLeft, Loops
  <1>6. \A q \in Prios : active'[q] = IF q = p THEN 0 ELSE active[q]
    BY <1>1, <1>2, <1>3
  <1>7. ToVisit' \subseteq ToVisit /\ p \in ToVisit /\ p \notin ToVisit'
    BY <1>2, <1>6 DEF ToVisit
  <1>8. (WQInv /\ Serving /\ sel.phase # "retain" =>
           Unseen = {w \in Queued : active[Priority(w)] > 0} \cup ToSet(Queue))'
    BY LoopUnseenThen, PTL
  <1>9. Queue' = queues[p] /\ Queued' = Queued /\ \A w : Priority(w)' = Priority(w)
    BY <1>1, <1>4 DEF Queue, Queued, Priority
  <1>10. \A w \in ToSet(queues[p]) : w \in Queued /\ Priority(w) = p
    BY <1>1, QueueMembers DEF WQInv, TypeOK, QueuesSound
  <1>11. \A w \in Queued : active'[Priority(w)] > 0 => active[Priority(w)] > 0
    <2> TAKE w \in Queued
    <2>1. Priority(w) \in Prios
      BY QueuedFinite, PriorityTyped DEF WQInv, TypeOK
    <2> QED BY <1>6, <2>1
  <1>12. Unseen = {w \in Queued : active[Priority(w)] > 0}
    BY <1>1 DEF Unseen
  <1>13. Unseen' \subseteq Unseen
    BY <1>2, <1>5, <1>8, <1>9, <1>10, <1>11, <1>12
  <1> QED BY <1>5, <1>7, <1>13, StepsFall

LEMMA RetainFalls ==
  ASSUME WQInv, WQInv', RetainStep
  PROVE  StepsLeft' < StepsLeft
PROOF
  <1>1. /\ sel.phase = "retain" /\ sel \in Selections /\ sel.prio \in Prios
        /\ UNCHANGED <<req, active>> /\ Serving /\ Queue \in Seq(Waiters)
        /\ sel.idx \in 1..Len(Queue) /\ IsInjective(Queue)
    <2>1. /\ sel.phase = "retain" /\ sel \in Selections /\ sel.prio \in Prios
          /\ UNCHANGED <<req, active>> /\ Serving /\ sel.idx \in Nat /\ sel.idx > 0
          /\ sel.idx <= Len(Queue)
      BY DEF RetainStep, WQInv, TypeOK, Selections, SelSound, Serving
    <2>2. Queue \in Seq(Waiters) /\ IsInjective(Queue)
      BY <2>1 DEF WQInv, TypeOK, Queue, QueuesSound
    <2>3. sel.idx \in 1..Len(Queue)
      BY <2>1, <2>2
    <2> QED BY <2>1, <2>2, <2>3
  <1> DEFINE w == Queue[sel.idx]
  <1>2. w \in Queued /\ Priority(w) = sel.prio
    BY <1>1, QueueMembers, ToSetElements DEF WQInv, TypeOK, QueuesSound, Queue
  <1>3. w \in Unseen
    BY <1>1 DEF Unseen, FirstUnseen
  <1>4. active[sel.prio] = 0
    <2>1. active[sel.prio] \in Nat /\ sel.restore[sel.prio] \in Nat
      BY <1>1 DEF WQInv, TypeOK, Selections
    <2>2. active[sel.prio] + sel.restore[sel.prio] = 0
      BY <1>1 DEF WQInv, HeapSound
    <2> QED BY <2>1, <2>2
  <1>5. sel'.phase = "retain" /\ sel'.prio = sel.prio
    BY <1>1 DEF RetainStep, Selections
  <1>6. /\ Selecting /\ Selecting' /\ Serving' /\ TurnLeft' = 2 /\ TurnLeft = 2
        /\ FirstUnseen = sel.idx /\ FirstUnseen' = sel'.idx
    BY <1>1, <1>5 DEF Selecting, Serving, TurnLeft, Loops, FirstUnseen
  <1>7. ToVisit' = ToVisit
    BY <1>1 DEF ToVisit
  <1>8. CASE ~IsCancelled(w)
    <2>1. queues' = queues /\ sel'.idx = sel.idx + 1
      BY <1>1, <1>8 DEF RetainStep, Selections
    <2>2. Queue' = Queue /\ Queued' = Queued /\ \A v : Priority(v)' = Priority(v)
      BY <1>1, <1>5, <2>1 DEF Queue, Queued, Priority
    <2>3. \A i \in sel'.idx..Len(Queue) : i \in sel.idx..Len(Queue) /\ Queue[i] # w
      <3> TAKE i \in sel'.idx..Len(Queue)
      <3>1. i \in sel.idx..Len(Queue) /\ i \in 1..Len(Queue) /\ i # sel.idx
        BY <1>1, <2>1
      <3> QED BY <1>1, <3>1, ToSetElements
    <2>4. Unseen' \subseteq Unseen /\ w \notin Unseen'
      BY <1>1, <1>2, <1>4, <1>6, <2>2, <2>3 DEF Unseen
    <2>5. Unseen' # Unseen
      BY <1>3, <2>4
    <2> QED BY <1>6, <1>7, <2>4, <2>5, StepsFall
  <1>9. CASE IsCancelled(w)
    <2>1. /\ queues' = [queues EXCEPT ![sel.prio] = RemoveAt(@, sel.idx)]
          /\ sel'.idx = sel.idx
      BY <1>1, <1>9 DEF RetainStep, Selections
    <2>2. Queued' = Queued \ {w}
      BY <1>1, <2>1, RetainShrinks DEF WQInv, TypeOK, Queue
    <2>3. Queue' = RemoveAt(Queue, sel.idx)
      BY <1>1, <1>5, <2>1 DEF WQInv, TypeOK, Queue
    <2>4. /\ Len(Queue') = Len(Queue) - 1
          /\ \A i \in 1..Len(Queue') : Queue'[i] = Queue[IF i < sel.idx THEN i ELSE i + 1]
      BY <1>1, <2>3, RemoveAtElements
    <2>5. \A i \in sel.idx..Len(Queue') :
            i + 1 \in sel.idx..Len(Queue) /\ Queue'[i] = Queue[i + 1]
      BY <1>1, <2>4
    <2>6. Unseen' \subseteq Unseen
      BY <1>1, <1>6, <2>1, <2>2, <2>5 DEF Unseen, Priority
    <2>7. (WQInv => Unseen \subseteq Queued)'
      BY UnseenQueued, PTL
    <2>8. Unseen' # Unseen
      BY <1>3, <2>2, <2>7
    <2> QED BY <1>6, <1>7, <2>6, <2>8, StepsFall
  <1> QED BY <1>8, <1>9

LEMMA SelectStepFalls ==
  ASSUME WQInv, WQInv', SelectStep
  PROVE  StepsLeft' < StepsLeft
PROOF
  BY DropFalls, PopFalls, TurnFalls, EndFalls, RetainEndFalls, VisitFalls, RetainFalls
  DEF SelectStep

LeftBounded ==
  /\ Cardinality(Unseen) \in Nat /\ Cardinality(ToVisit) \in Nat
  /\ Cardinality(Queued) \in Nat
  /\ Cardinality(Unseen) <= Cardinality(Queued)
  /\ Cardinality(ToVisit) <= Cardinality(Queued)

LEMMA LeftIsBounded == WQInv => LeftBounded
PROOF
  BY UnseenFinite, ToVisitFinite, QueuedFinite, FS_CardinalityType DEF LeftBounded

\* What starts a selection.
LEMMA StepsStart ==
  ASSUME WQInv, WQInv', NEW n \in 0..MaxGrant, SelectWaiters(n)
  PROVE  StepsLeft' <= 6 * total + 3
PROOF
  <1>1. total \in Nat /\ total' = total
    BY DEF WQInv, TypeOK, SelectWaiters, SelectNothing, SelectSingle, SelectMulti
  <1>2. CASE ~Selecting'
    BY <1>1, <1>2 DEF StepsLeft
  <1>3. CASE Selecting'
    <2>1. /\ sel'.phase \in {"single", "outer"} /\ sel'.removed = 0
      BY <1>3 DEF SelectWaiters, SelectNothing, SelectSingle, SelectMulti, SelInit, Selecting
    <2>2. TurnLeft' \in 1..3
      BY <2>1 DEF TurnLeft, Loops
    <2>3. (WQInv => LeftBounded)'
      BY LeftIsBounded, PTL
    <2>4. Cardinality(Queued)' = total
      BY <1>1, <2>1, <2>3 DEF WQInv, CountSound, LeftBounded
    <2>5. PICK u \in Nat, v \in Nat, k \in 1..3 :
            /\ u = Cardinality(Unseen)' /\ v = Cardinality(ToVisit)' /\ k = TurnLeft'
            /\ u <= total /\ v <= total
      BY <2>2, <2>3, <2>4 DEF LeftBounded
    <2>6. StepsLeft' = 3 * (u + v) + k
      BY <1>3, <2>5 DEF StepsLeft
    <2>7. 3 * (u + v) + k <= 6 * total + 3
      BY ONLY <1>1, <2>5
    <2> QED BY <2>6, <2>7
  <1> QED BY <1>2, <1>3

(* A selection ends, for any number of waiters and priorities and whatever *)
(* their owners do meanwhile: each of its steps (both loops and retain)    *)
(* lowers a bound on the steps it has left, which nothing else raises and  *)
(* which starts at six steps for a waiter of the queues and three more.    *)
THEOREM SelectionEnds == WQSpec => SelectionShrinks
PROOF
  <1>1. ASSUME WQInv, WQInv', WQNext, Selecting
        PROVE  StepsLeft' < StepsLeft \/ UNCHANGED <<queues, active, sel>>
    <2>1. Busy /\ sel.phase # "done"
      BY <1>1 DEF Selecting, Busy
    <2>2. \/ SelectStep
          \/ \E w \in Waiters : Cancel(w) \/ SetWaker(w) \/ CloseCancels(w)
      BY <1>1, <2>1 DEF WQNext, PushWaiter, SelectWaiters, SelectNothing, SelectSingle,
         SelectMulti, SelectReturns, Close
    <2> QED BY <1>1, <2>2, SelectStepFalls DEF Cancel, SetWaker, CloseCancels
  <1>2. ASSUME WQInv, WQInv', WQNext, ~Selecting
        PROVE  StepsLeft' <= 6 * total + 3
    <2>1. total \in Nat
      BY <1>2 DEF WQInv, TypeOK
    <2>2. CASE ~Selecting'
      BY <2>1, <2>2 DEF StepsLeft
    <2>3. CASE Selecting'
      <3>1. ~SelectStep /\ sel' # sel
        BY <1>2, <2>3 DEF Selecting, SelectStep, DropCancelledFront, PopToNotify, Notify,
           NotifyFails, TakeWaker, SingleEnds, OuterVisits, OuterEnds, InnerEnds,
           RetainStep, RetainEnds, Loops
      <3>2. ~SelectReturns
        BY <2>3 DEF SelectReturns, SelInit, Selecting
      <3>3. \E n \in 0..MaxGrant : SelectWaiters(n)
        BY <1>2, <3>1, <3>2 DEF WQNext, PushWaiter, Cancel, SetWaker, CloseCancels, Close
      <3> QED BY <1>2, <3>3, StepsStart
    <2> QED BY <2>2, <2>3
  <1>3. WQInv /\ WQInv' /\ [WQNext]_wqVars =>
          [IF Selecting THEN StepsLeft' < StepsLeft \/ UNCHANGED <<queues, active, sel>>
                        ELSE StepsLeft' <= 6 * total + 3]_wqVars
    BY <1>1, <1>2
  <1> QED BY <1>3, Invariance, PTL DEF SelectionShrinks, WQSpec

\* A finite set of priorities has a greatest one: one with the fewest above it.
LEMMA GreatestElement ==
  ASSUME NEW S, S \subseteq Int, IsFiniteSet(S), S # {}
  PROVE  \E m \in S : \A x \in S : x <= m
PROOF
  <1> DEFINE Above(x) == {y \in S : y > x}
             T == {Above(x) : x \in S}
  <1>1. \A x \in S : Above(x) \in FiniteSubsetsOf(S)
    BY FS_Subset DEF FiniteSubsetsOf
  <1>2. T \subseteq FiniteSubsetsOf(S) /\ T # {}
    BY <1>1
  <1>3. PICK A \in T : \A B \in T : ~(<<B, A>> \in StrictSubsetOrdering(S))
    <2> HIDE DEF T
    <2> QED BY <1>2, FS_StrictSubsetOrderingWellFounded, WFMin
  <1>4. PICK m \in S : A = Above(m)
    OBVIOUS
  <1>5. ASSUME NEW x \in S, x > m
        PROVE  FALSE
    <2>1. Above(x) \in T
      OBVIOUS
    <2>2. x \in Above(m) /\ x \notin Above(x)
      BY <1>5
    <2>3. ASSUME NEW y \in S, y > x PROVE y > m
      <3>1. x \in Int /\ y \in Int /\ m \in Int
        OBVIOUS
      <3> QED BY ONLY <1>5, <2>3, <3>1
    <2>4. <<Above(x), Above(m)>> \in StrictSubsetOrdering(S)
      BY <2>2, <2>3 DEF StrictSubsetOrdering
    <2> QED BY <1>3, <1>4, <2>1, <2>4
  <1> QED BY <1>5

\* The loop over the priorities has somebody to visit, or a reason to stop.
OuterGoesOn ==
  sel.phase = "outer" =>
    \/ OuterStops
    \/ \E p \in Prios :
         /\ Peek(p) /\ active[p] = 1
         /\ queues[p] # <<>> /\ Fits(Head(queues[p]))

(* The loop over the priorities is never stuck: the heap, unless it is     *)
(* empty, has a greatest priority, that priority is there once and its     *)
(* queue has somebody, whose request either fits or stops the loop.        *)
THEOREM OuterLoopGoesOn == WQSpec => []OuterGoesOn
PROOF
  <1>1. ASSUME WQInv, sel.phase = "outer", ~OuterStops
        PROVE  \E p \in Prios :
                 /\ Peek(p) /\ active[p] = 1
                 /\ queues[p] # <<>> /\ Fits(Head(queues[p]))
    <2>1. /\ \A p \in Prios : active[p] \in Nat /\ sel.restore[p] \in Nat
          /\ ~Serving
      BY <1>1 DEF WQInv, TypeOK, Selections, Serving
    <2>2. ToVisit # {} /\ ToVisit \subseteq Prios
      BY <1>1, <2>1 DEF OuterStops, ToVisit
    <2>3. ToVisit \subseteq Int /\ IsFiniteSet(ToVisit)
      BY <1>1, <2>2, ToVisitFinite, WaitQueueAssumption
    <2>4. PICK p \in ToVisit : \A q \in ToVisit : q <= p
      BY <2>2, <2>3, GreatestElement
    <2>5. Peek(p) /\ p \in Prios
      BY <2>1, <2>2, <2>4 DEF Peek, ToVisit
    <2>6. active[p] = 1 /\ queues[p] # <<>>
      BY <1>1, <2>1, <2>5 DEF WQInv, HeapSound, Peek
    <2>7. Fits(Head(queues[p]))
      BY <1>1, <2>5, <2>6 DEF OuterStops
    <2> QED BY <2>5, <2>6, <2>7
  <1>2. WQInv => OuterGoesOn
    BY <1>1 DEF OuterGoesOn
  <1> QED BY <1>2, Invariance, PTL
=============================================================================
