---------------------------- MODULE AtomicProofs ----------------------------
(***************************************************************************)
(* Proof that the permit words implement atomic counts, for every width of *)
(* usize and u32, in both builds, for any number of threads, semaphores    *)
(* and permit objects; where a request may be shifted out of the word, the *)
(* end of a poll that asked for that much is left out.                     *)
(***************************************************************************)
EXTENDS PermitWordProofs

-----------------------------------------------------------------------------
(* Remainders.                                                             *)

LEMMA Remainder ==
  ASSUME NEW c \in Nat \ {0}, NEW r \in 0..c - 1, NEW j \in Int, NEW z \in Int,
         z = j * c + r
  PROVE  z % c = r
PROOF
  <1>1. PICK q \in Int, d \in 0..c - 1 : z % c = d /\ z = c * q + d
    BY DivMod
  <1>2. PICK e \in Int : e = q - j
    OBVIOUS
  <1>3. r = c * e + d
    <2>1. c * e = c * q - j * c
      BY <1>2
    <2> QED BY <1>1, <2>1
  <1>4. e >= 1 => c * e >= c
    OBVIOUS
  <1>5. e <= -1 => c * e <= -c
    OBVIOUS
  <1>6. e = 0
    BY <1>3, <1>4, <1>5
  <1>7. c * 0 = 0
    OBVIOUS
  <1> QED BY <1>1, <1>3, <1>6, <1>7

(* A request as the word sees it.                                          *)
LEMMA ShiftMod ==
  ASSUME target \in Targets, NEW n \in Nat
  PROVE  n % Cap \in 0..Cap - 1 /\ Shift(n) = 2 * (n % Cap)
PROOF
  <1>1. PICK h \in Nat \ {0} : h = Cap
    BY TargetFacts
  <1>2. PICK k \in Nat, p \in Nat :
          p = k * h /\ Shift(n) = 2 * (n - p) /\ n - p \in 0..h - 1
    BY <1>1, ShiftIs
  <1>3. PICK r \in 0..h - 1 : r = n - p
    BY <1>2
  <1>4. n = k * h + r
    BY <1>2, <1>3
  <1>5. n % h = r
    BY <1>4, Remainder
  <1> QED BY <1>1, <1>2, <1>3, <1>5

LEMMA CountBelowCap ==
  ASSUME target \in Targets, NEW x \in 0..target.usize - 1
  PROVE  Count(x) \in 0..Cap - 1
PROOF
  <1>1. PICK h \in Nat \ {0} : h = Cap /\ target.usize = 2 * h
    BY TargetFacts
  <1>2. x \in Nat /\ x < 2 * h
    BY <1>1
  <1>3. x \div 2 \in Nat /\ x \div 2 < h
    BY ONLY <1>2, h \in Nat
  <1> QED BY <1>1, <1>3 DEF Count

(* A sum in the word is one modulo what the word can count.                *)
LEMMA PlusMod ==
  ASSUME target \in Targets, NEW n \in Nat, NEW x \in 0..target.usize - 1
  PROVE  /\ Count(Plus(x, n)) = (Count(x) + n) % Cap
         /\ Count(Plus(x, n)) = (Count(x) + (n % Cap)) % Cap
         /\ n % Cap = 0 => Count(Plus(x, n)) = Count(x)
PROOF
  <1>1. PICK h \in Nat \ {0} : h = Cap
    BY TargetFacts
  <1>2. PICK k \in Nat, p \in Nat : p = k * h /\ Count(Plus(x, n)) = Count(x) + n - p
    BY <1>1, PlusIs
  <1>3. PICK a \in 0..h - 1, b \in 0..h - 1 : a = Count(x) /\ b = Count(Plus(x, n))
    BY <1>1, PlusIs, CountBelowCap
  <1>4. a + n = k * h + b
    BY <1>2, <1>3
  <1>5. (a + n) % h = b
    <2>1. a + n \in Int /\ k \in Int
      OBVIOUS
    <2> QED BY <1>4, <2>1, Remainder
  <1>6. PICK q \in Int, r \in 0..h - 1 : n % h = r /\ n = h * q + r
    <2>1. n % h \in 0..h - 1 /\ n \div h \in Int /\ n = h * (n \div h) + (n % h)
      BY DivMod
    <2> QED BY <2>1
  <1>7. (a + r) % h = b
    <2>1. PICK j \in Int : j = k - q
      OBVIOUS
    <2>2. j * h = k * h - h * q
      BY <2>1
    <2>3. a + r = j * h + b /\ a + r \in Int
      BY <1>4, <1>6, <2>2
    <2> QED BY <2>3, Remainder
  <1>8. r = 0 => b = a
    BY <1>7, SmallMod
  <1> QED BY <1>1, <1>3, <1>5, <1>6, <1>7, <1>8
-----------------------------------------------------------------------------
(* What the refinement mapping makes of the state, and of one change to    *)
(* it.                                                                     *)

CountMap  == [s \in Sems |-> Count(words[s])]
ClosedMap == [s \in Sems |-> IsClosed(words[s])]
HeldMap   == [s \in Sems |-> HeldOf(s)]

LEMMA MapVars ==
  /\ UNCHANGED words => UNCHANGED <<CountMap, ClosedMap>>
  /\ UNCHANGED objects => UNCHANGED HeldMap
  /\ UNCHANGED target => UNCHANGED Cap
PROOF
  <1>1. UNCHANGED words => UNCHANGED <<CountMap, ClosedMap>>
    BY DEF CountMap, ClosedMap
  <1>2. UNCHANGED objects => UNCHANGED HeldMap
    BY DEF HeldMap, HeldOf, Of, Live
  <1>3. UNCHANGED target => UNCHANGED Cap
    BY DEF Cap
  <1> QED BY <1>1, <1>2, <1>3

LEMMA WordMaps ==
  ASSUME WordInv, NEW z \in Sems, NEW y, words' = [words EXCEPT ![z] = y]
  PROVE  /\ CountMap' = [CountMap EXCEPT ![z] = Count(y)]
         /\ ClosedMap' = [ClosedMap EXCEPT ![z] = IsClosed(y)]
         /\ CountMap[z] = Count(words[z]) /\ ClosedMap[z] = IsClosed(words[z])
PROOF
  <1>1. \A s \in Sems : words'[s] = IF s = z THEN y ELSE words[s]
    BY Facts DEF WordsType
  <1>2. CountMap' = [CountMap EXCEPT ![z] = Count(y)] /\ CountMap[z] = Count(words[z])
    <2>1. CountMap' = [s \in Sems |-> Count(words'[s])]
      BY DEF CountMap
    <2>2. [CountMap EXCEPT ![z] = Count(y)]
            = [s \in Sems |-> IF s = z THEN Count(y) ELSE Count(words[s])]
      BY DEF CountMap
    <2>3. \A s \in Sems : Count(words'[s])
                            = IF s = z THEN Count(y) ELSE Count(words[s])
      BY <1>1
    <2>4. CountMap[z] = Count(words[z])
      BY DEF CountMap
    <2> QED BY <2>1, <2>2, <2>3, <2>4
  <1>3. ClosedMap' = [s \in Sems |-> IsClosed(words'[s])]
    BY DEF ClosedMap
  <1>4. [ClosedMap EXCEPT ![z] = IsClosed(y)]
          = [s \in Sems |-> IF s = z THEN IsClosed(y) ELSE IsClosed(words[s])]
    BY DEF ClosedMap
  <1>5. \A s \in Sems : IsClosed(words'[s])
                          = IF s = z THEN IsClosed(y) ELSE IsClosed(words[s])
    BY <1>1
  <1>6. ClosedMap' = [ClosedMap EXCEPT ![z] = IsClosed(y)]
    BY <1>3, <1>4, <1>5
  <1>7. ClosedMap[z] = IsClosed(words[z])
    BY DEF ClosedMap
  <1> QED BY <1>2, <1>6, <1>7

(* A word whose CLOSED bit stays as it is.                                 *)
LEMMA SameClosed ==
  ASSUME WordInv, NEW z \in Sems, NEW y, words' = [words EXCEPT ![z] = y],
         IsClosed(y) <=> IsClosed(words[z])
  PROVE  UNCHANGED ClosedMap
PROOF
  <1>1. \A s \in Sems : IsClosed(words'[s]) <=> IsClosed(words[s])
    BY Facts DEF WordsType
  <1>2. \A s \in Sems : IsClosed(words'[s]) = IsClosed(words[s])
    BY <1>1 DEF IsClosed
  <1> QED BY <1>2 DEF ClosedMap

LEMMA HeldMaps ==
  ASSUME NEW z \in Sems, NEW y, HeldOf(z)' = y,
         \A s \in Sems \ {z} : HeldOf(s)' = HeldOf(s)
  PROVE  HeldMap' = [HeldMap EXCEPT ![z] = y] /\ HeldMap[z] = HeldOf(z)
PROOF
  <1>1. \A s \in Sems : HeldOf(s)' = IF s = z THEN y ELSE HeldOf(s)
    OBVIOUS
  <1> QED BY <1>1 DEF HeldMap

(* The steps of AtomicPermits under the mapping.                           *)
AtomicStep == [Atomic!Next]_(Atomic!vars)

LEMMA Stutters ==
  ASSUME UNCHANGED <<Cap, CountMap, ClosedMap, HeldMap, call>>
  PROVE  AtomicStep
PROOF
  BY DEF AtomicStep, Atomic!vars, CountMap, ClosedMap, HeldMap

(* A step of semaphore z that is one access.                               *)
LEMMA AddMaps ==
  ASSUME NEW z \in Sems, NEW n \in 1..Cap - 1,
         CountMap' = [CountMap EXCEPT ![z] = (CountMap[z] + n) % Cap],
         UNCHANGED <<Cap, ClosedMap, HeldMap, call>>
  PROVE  AtomicStep
PROOF
  <1>1. Atomic!Add(z)
    BY DEF Atomic!Add, CountMap, ClosedMap, HeldMap
  <1> QED BY <1>1 DEF AtomicStep, Atomic!Next

LEMMA DropMaps ==
  ASSUME NEW z \in Sems, NEW n \in 1..HeldMap[z],
         CountMap' = [CountMap EXCEPT ![z] = (CountMap[z] + n) % Cap],
         HeldMap' = [HeldMap EXCEPT ![z] = HeldMap[z] - n],
         UNCHANGED <<Cap, ClosedMap, call>>
  PROVE  AtomicStep
PROOF
  <1>1. Atomic!Drop(z)
    BY DEF Atomic!Drop, CountMap, ClosedMap, HeldMap
  <1> QED BY <1>1 DEF AtomicStep, Atomic!Next

LEMMA ForgetMaps ==
  ASSUME NEW z \in Sems, NEW n \in 1..HeldMap[z],
         HeldMap' = [HeldMap EXCEPT ![z] = HeldMap[z] - n],
         UNCHANGED <<Cap, CountMap, ClosedMap, call>>
  PROVE  AtomicStep
PROOF
  <1>1. Atomic!Forget(z)
    BY DEF Atomic!Forget, CountMap, ClosedMap, HeldMap
  <1> QED BY <1>1 DEF AtomicStep, Atomic!Next

LEMMA CloseMaps ==
  ASSUME NEW z \in Sems, ClosedMap' = [ClosedMap EXCEPT ![z] = TRUE],
         UNCHANGED <<Cap, CountMap, HeldMap, call>>
  PROVE  AtomicStep
PROOF
  <1>1. Atomic!Close(z)
    BY DEF Atomic!Close, CountMap, ClosedMap, HeldMap
  <1> QED BY <1>1 DEF AtomicStep, Atomic!Next
-----------------------------------------------------------------------------
(* The try_acquire family refuses requests that a word cannot count.       *)

TriesFit ==
  \A t \in Threads :
    call[t] # None /\ call[t].op \in {"one", "many"} => call[t].n < Cap

LEMMA BeginFits ==
  ASSUME WordInv, TriesFit, NEW t \in Threads, NEW s \in Sems, NEW n \in Nat,
         NEW op \in {"one", "many", "poll", "forget"},
         op \in {"one", "many"} => n < Cap, Begin(t, op, s, n)
  PROVE  TriesFit'
PROOF
  <1>1. call' = [call EXCEPT ![t] = [op |-> op, sem |-> s, n |-> n]] /\ Cap' = Cap
    BY DEF Begin, Cap
  <1> QED BY <1>1, Facts DEF TriesFit

LEMMA EndFits ==
  ASSUME WordInv, TriesFit, target' = target,
         call' = call \/ \E t \in Threads : call' = [call EXCEPT ![t] = None]
  PROVE  TriesFit'
PROOF
  <1>1. Cap' = Cap
    BY DEF Cap
  <1> QED BY <1>1, Facts DEF TriesFit

LEMMA StepFits ==
  ASSUME WordInv, TriesFit, [Next]_vars
  PROVE  TriesFit'
PROOF
  <1>1. target' = target
    BY TargetFixed
  <1>2. 1 < Cap /\ MAX_PERMITS < Cap /\ U32Args \subseteq Nat /\ UsizeArgs \subseteq Nat
    <2>1. PICK u \in Nat : u = target.usize /\ u % 8 = 0 /\ u > 1
      BY Facts, PermitWordAssumption
    <2>2. u \div 2 > 1
      BY <2>1
    <2> QED BY <2>1, <2>2, Facts, TargetFacts DEF Cap, U32Args, UsizeArgs
  <1>3. ASSUME NEW t \in Threads, NEW z \in Sems, WordCall(t, z)
        PROVE  TriesFit'
    <2>1. CASE TryAcquire(t, z)
      BY <1>2, <2>1, BeginFits DEF TryAcquire
    <2>2. CASE TryAcquireMany(t, z)
      <3>1. PICK n \in U32Args : n <= MAX_PERMITS /\ Begin(t, "many", z, n)
        BY <2>2 DEF TryAcquireMany
      <3>2. n \in Nat /\ n < Cap
        BY <1>2, <3>1, Facts, TargetFacts
      <3> QED BY <3>1, <3>2, BeginFits
    <2>3. CASE PollFastPath(t, z) \/ ForgetPermits(t, z)
      BY <1>2, <2>3, BeginFits DEF PollFastPath, ForgetPermits
    <2>4. CASE TryAcquireNone(t, z) \/ AddPermits(t, z) \/ Close(t, z)
      BY <1>1, <2>4, EndFits DEF TryAcquireNone, AddPermits, Close
    <2> QED BY <1>3, <2>1, <2>2, <2>3, <2>4 DEF WordCall
  <1>4. ASSUME NEW t \in Threads, WordStep(t)
        PROVE  TriesFit'
    BY <1>1, <1>4, EndFits
       DEF WordStep, Load, AcquireExchanges, ForgetExchanges, StrongFails, WeakFails,
           AfterWeakFailure, Look, Return
  <1>5. ASSUME NEW t \in Threads, NEW o \in Objects, ObjectCall(t, o)
        PROVE  TriesFit'
    BY <1>1, <1>5, EndFits
       DEF ObjectCall, DropPermit, ForgetPermit, Split, Merge, MergePanics
  <1>6. CASE UNCHANGED vars \/ \E t \in Threads : TryAcquireManyPanics(t) \/ Recover(t)
    BY <1>1, <1>6, EndFits DEF vars, TryAcquireManyPanics, Recover
  <1>7. target.threads \subseteq Threads /\ target.sems \subseteq Sems
    BY Facts, TargetFacts
  <1> QED BY <1>3, <1>4, <1>5, <1>6, <1>7 DEF Next

LEMMA TriesFitAlways == Spec => []TriesFit
PROOF
  <1>1. Init => TriesFit
    BY DEF Init, TriesFit
  <1>2. WordInv /\ TriesFit /\ [Next]_vars => TriesFit'
    BY StepFits
  <1> QED BY <1>1, <1>2, WordInvHolds, PTL DEF Spec

-----------------------------------------------------------------------------
(* The calls of a thread.                                                  *)

(* A call of t under the mapping: it is in one, and takes effect.          *)
LEMMA CallMaps ==
  ASSUME WordInv, NEW t \in Threads, pc[t] \in Busy,
         Atomic!Acquire(t) \/ Atomic!Refuse(t) \/ Atomic!Miss(t) \/ Atomic!Remove(t)
  PROVE  AtomicStep
PROOF
  <1>1. call[t] # None
    BY DEF WordInv, InCall
  <1> QED BY <1>1 DEF AtomicStep, Atomic!Next

LEMMA BeginMaps ==
  ASSUME WordInv, WordInv', NEW t \in Threads, NEW s \in Sems, NEW n \in Nat,
         NEW op \in {"one", "many", "poll", "forget"}, Begin(t, op, s, n)
  PROVE  AtomicStep
PROOF
  <1>1. pc[t] \notin Busy
    BY DEF Begin, Idle, Busy
  <1>2. call[t] = None
    BY <1>1 DEF WordInv, InCall
  <1>3. /\ call'[t] = [op |-> op, sem |-> s, n |-> n]
        /\ call' = [call EXCEPT ![t] = call'[t]]
    BY Facts DEF Begin
  <1>4. call'[t] \in Atomic!Calls
    BY <1>3 DEF Atomic!Calls
  <1>5. UNCHANGED <<Cap, CountMap, ClosedMap, HeldMap>>
    BY MapVars DEF Begin
  <1>6. Atomic!Begin(t)
    BY <1>2, <1>3, <1>4, <1>5 DEF Atomic!Begin, CountMap, ClosedMap, HeldMap
  <1> QED BY <1>2, <1>6 DEF AtomicStep, Atomic!Next

(* A call that looks at the word and gives up: an acquisition that could   *)
(* not be.                                                                 *)
LEMMA LookMaps ==
  ASSUME WordInv, WordInv', NEW t \in Threads, pc[t] \in Busy,
         Look(t, words[call[t].sem]), UNCHANGED <<target, words, objects, supply>>
  PROVE  AtomicStep
PROOF
  <1> DEFINE s == call[t].sem
             n == call[t].n
  <1>1. /\ call[t] \in CallType /\ s \in Sems /\ n \in Nat
        /\ words[s] \in 0..target.usize - 1 /\ target \in Targets
    BY InCallFacts, Facts
  <1>2. UNCHANGED <<Cap, CountMap, ClosedMap, HeldMap>>
    BY MapVars
  <1>3. CASE call[t].op = "forget" \/ MayTake(words[s], n)
    BY <1>2, <1>3, Stutters DEF Look
  <1>4. CASE ~(call[t].op = "forget" \/ MayTake(words[s], n))
    <2>1. Return(t) /\ call[t].op \in {"one", "many", "poll"}
      BY <1>1, <1>4 DEF Look, CallType
    <2>2. Atomic!Returns(t)
      BY <2>1 DEF Return, Atomic!Returns
    <2>3. CASE call[t].op = "poll"
      <3>1. Atomic!Miss(t)
        BY <1>2, <2>2, <2>3 DEF Atomic!Miss, CountMap, ClosedMap, HeldMap
      <3> QED BY <3>1, CallMaps
    <2>4. CASE call[t].op # "poll"
      <3>1. IsClosed(words[s]) \/ Count(words[s]) < n
        <4>1. PICK r \in Nat : r <= n /\ Shift(n) = 2 * r
          <5>1. PICK p \in Nat : Shift(n) = 2 * (n - p) /\ n - p \in 0..Cap - 1
            BY <1>1, ShiftIs
          <5>2. n - p \in Nat /\ n - p <= n
            BY <1>1, <5>1, TargetFacts
          <5> QED BY <5>1, <5>2
        <4>2. IsClosed(words[s]) \/ words[s] < 2 * r
          BY <1>1, <1>4, <4>1, TargetFacts DEF MayTake
        <4>3. PICK x \in Nat : x = words[s]
          BY <1>1, TargetFacts
        <4>4. x < 2 * r => x \div 2 < r /\ x \div 2 \in Nat
          OBVIOUS
        <4> QED BY <1>1, <4>1, <4>2, <4>3, <4>4 DEF Count
      <3>2. Atomic!Refuse(t)
        BY <1>1, <1>2, <2>1, <2>2, <2>4, <3>1
           DEF Atomic!Refuse, CountMap, ClosedMap, HeldMap
      <3> QED BY <3>2, CallMaps
    <2> QED BY <2>3, <2>4
  <1> QED BY <1>3, <1>4

LEMMA AcquireMaps ==
  ASSUME WordInv, WordInv', NEW t \in Threads, AcquireExchanges(t), TriesFit,
         ~OversizedPollEnds
  PROVE  AtomicStep
PROOF
  <1>1. PICK z, n : z = call[t].sem /\ n = call[t].n
    OBVIOUS
  <1>2. /\ z \in Sems /\ n \in Nat /\ n < target.u32
        /\ words[z] \in 0..target.usize - 1 /\ MayTake(words[z], n)
        /\ words' = [words EXCEPT ![z] = words[z] - Shift(n)]
    BY <1>1, AcquireFacts
  <1>3. /\ pc[t] \in Busy /\ call[t].op # "forget"
        /\ Return(t) /\ target' = target /\ target \in Targets
    BY Facts DEF AcquireExchanges, Busy
  <1>4. call[t].op \in {"one", "many", "poll"}
    BY <1>3, InCallFacts DEF CallType
  <1>5. ~IsClosed(words[z]) /\ words[z] >= Shift(n)
    BY <1>2 DEF MayTake
  <1>6. n <= Count(words[z]) /\ Count(words[z] - Shift(n)) = Count(words[z]) - n
    <2>1. PICK r \in Nat : r = n /\ Shift(n) = 2 * r
      <3>1. n < Cap
        <4>1. call[t] # None /\ call'[t] = None
          BY <1>3, Facts DEF WordInv, InCall, Return
        <4>2. CASE call[t].op = "poll"
          BY <1>1, <1>2, <1>3, <4>1, <4>2, TargetFacts DEF OversizedPollEnds
        <4>3. CASE call[t].op # "poll"
          BY <1>1, <1>4, <4>1, <4>3 DEF TriesFit
        <4> QED BY <4>2, <4>3
      <3>2. PICK p \in Nat : Shift(n) = 2 * (n - p) /\ p = 0
        BY <1>2, <1>3, <3>1, ShiftIs
      <3> QED BY <1>2, <3>2
    <2>2. PICK x \in Nat : x = words[z] /\ x >= 2 * r
      BY <1>2, <1>3, <1>5, <2>1, TargetFacts
    <2>3. r <= x \div 2 /\ (x - 2 * r) \div 2 = (x \div 2) - r
      BY ONLY <2>2, x \in Nat, r \in Nat
    <2> QED BY <2>1, <2>2, <2>3 DEF Count
  <1>7. IsClosed(words[z] - Shift(n)) <=> IsClosed(words[z])
    BY <1>2, <1>3, <1>5, TakeIs
  <1>8. /\ CountMap' = [CountMap EXCEPT ![z] = Count(words[z]) - n]
        /\ CountMap[z] = Count(words[z]) /\ ClosedMap[z] = IsClosed(words[z])
        /\ UNCHANGED ClosedMap
    <2>1. PICK y : y = words[z] - Shift(n)
      OBVIOUS
    <2>2. /\ words' = [words EXCEPT ![z] = y]
          /\ IsClosed(y) <=> IsClosed(words[z])
          /\ Count(y) = Count(words[z]) - n
      BY <2>1, <1>2, <1>6, <1>7
    <2>3. /\ CountMap' = [CountMap EXCEPT ![z] = Count(y)]
          /\ CountMap[z] = Count(words[z]) /\ ClosedMap[z] = IsClosed(words[z])
      BY <1>2, <2>2, WordMaps
    <2>4. UNCHANGED ClosedMap
      BY <1>2, <2>2, SameClosed
    <2> QED BY <2>2, <2>3, <2>4
  <1>9. HeldMap' = [HeldMap EXCEPT ![z] = HeldOf(z) + n] /\ HeldMap[z] = HeldOf(z)
    <2>1. \A s \in Sems : HeldOf(s)' = HeldOf(s) + (IF s = z THEN n ELSE 0)
      BY <1>1, <1>3, AcquireHeld, SystemFacts
    <2>2. \A s \in Sems : HeldOf(s) \in Nat
      BY <1>3, SystemFacts
    <2> QED BY <1>2, <2>1, <2>2, HeldMaps
  <1>10. Atomic!Returns(t) /\ UNCHANGED Cap
    BY <1>3, MapVars DEF Return, Atomic!Returns
  <1>11. Atomic!Acquire(t)
    <2>1. /\ call[t].op \in {"one", "many", "poll"}
          /\ ~ClosedMap[z] /\ n <= CountMap[z]
          /\ CountMap' = [CountMap EXCEPT ![z] = CountMap[z] - n]
          /\ HeldMap' = [HeldMap EXCEPT ![z] = HeldMap[z] + n]
      BY <1>4, <1>5, <1>6, <1>8, <1>9
    <2> QED BY <1>1, <1>8, <1>10, <2>1 DEF Atomic!Acquire, CountMap, ClosedMap, HeldMap
  <1> QED BY <1>3, <1>11, CallMaps

LEMMA RemoveMaps ==
  ASSUME WordInv, WordInv', NEW t \in Threads, ForgetExchanges(t)
  PROVE  AtomicStep
PROOF
  <1>1. PICK z, n, k : z = call[t].sem /\ n = call[t].n /\ k = Removed(curr[t], n)
    OBVIOUS
  <1>2. /\ z \in Sems
        /\ IsClosed(Without(words[z], k)) <=> IsClosed(words[z])
        /\ Count(Without(words[z], k)) = Count(words[z]) - k
        /\ words' = [words EXCEPT ![z] = Without(words[z], k)]
    BY <1>1, RemoveFacts
  <1>3. /\ pc[t] \in Busy /\ call[t].op = "forget" /\ Return(t)
        /\ UNCHANGED <<target, objects>> /\ curr[t] = words[z]
    BY <1>1 DEF ForgetExchanges, Busy, Unchanged
  <1>4. /\ CountMap' = [CountMap EXCEPT ![z] = Count(words[z]) - k]
        /\ CountMap[z] = Count(words[z]) /\ UNCHANGED ClosedMap
    <2>1. PICK y : y = Without(words[z], k)
      OBVIOUS
    <2>2. /\ words' = [words EXCEPT ![z] = y]
          /\ IsClosed(y) <=> IsClosed(words[z])
          /\ Count(y) = Count(words[z]) - k
      BY <2>1, <1>2
    <2>3. /\ CountMap' = [CountMap EXCEPT ![z] = Count(y)]
          /\ CountMap[z] = Count(words[z]) /\ ClosedMap[z] = IsClosed(words[z])
      BY <1>2, <2>2, WordMaps
    <2>4. UNCHANGED ClosedMap
      BY <1>2, <2>2, SameClosed
    <2> QED BY <2>2, <2>3, <2>4
  <1>5. Count(words[z]) \in Nat
    BY <1>2, <1>3, SystemFacts
  <1>6. Count(words[z]) - k = IF n <= CountMap[z] THEN CountMap[z] - n ELSE 0
    BY <1>1, <1>3, <1>4, <1>5 DEF Removed
  <1>7. Atomic!Returns(t) /\ UNCHANGED <<Cap, HeldMap>>
    BY <1>3, MapVars DEF Return, Atomic!Returns
  <1>8. Atomic!Remove(t)
    <2>1. CountMap' = [CountMap EXCEPT ![z] =
                         IF n <= CountMap[z] THEN CountMap[z] - n ELSE 0]
      BY <1>4, <1>6
    <2> QED BY <1>1, <1>3, <1>4, <1>7, <2>1
         DEF Atomic!Remove, CountMap, ClosedMap, HeldMap
  <1> QED BY <1>3, <1>8, CallMaps
-----------------------------------------------------------------------------
(* Operations that are one access to the word, or none.                    *)

LEMMA FetchAddMaps ==
  ASSUME WordInv, WordInv', target' = target, NEW z \in Sems, NEW n \in Nat,
         FetchAdd(z, n)
  PROVE  /\ CountMap' = [CountMap EXCEPT ![z] = (CountMap[z] + n) % Cap]
         /\ CountMap' = [CountMap EXCEPT ![z] = (CountMap[z] + (n % Cap)) % Cap]
         /\ n % Cap = 0 => UNCHANGED CountMap
         /\ UNCHANGED <<Cap, ClosedMap>>
PROOF
  <1>1. PICK y : y = Plus(words[z], n)
    OBVIOUS
  <1>2. words' = [words EXCEPT ![z] = y]
    BY <1>1 DEF FetchAdd
  <1>3. words[z] \in 0..target.usize - 1 /\ target \in Targets
    BY SystemFacts
  <1>4. /\ Count(y) = (Count(words[z]) + n) % Cap
        /\ Count(y) = (Count(words[z]) + (n % Cap)) % Cap
        /\ n % Cap = 0 => Count(y) = Count(words[z])
    BY <1>1, <1>3, PlusMod
  <1>5. IsClosed(y) <=> IsClosed(words[z])
    BY <1>1, <1>3, PlusIs
  <1>6. CountMap' = [CountMap EXCEPT ![z] = Count(y)] /\ CountMap[z] = Count(words[z])
    BY <1>2, WordMaps
  <1>7. n % Cap = 0 => UNCHANGED CountMap
    BY <1>4, <1>6 DEF CountMap
  <1>8. UNCHANGED ClosedMap
    BY <1>2, <1>5, SameClosed
  <1>9. UNCHANGED Cap
    BY MapVars
  <1> QED BY <1>4, <1>6, <1>7, <1>8, <1>9

LEMMA AddPermitsMaps ==
  ASSUME WordInv, WordInv', NEW t \in Threads, NEW z \in Sems, AddPermits(t, z)
  PROVE  AtomicStep
PROOF
  <1>1. PICK n \in Nat : FetchAdd(z, n)
    BY Facts, TargetFacts DEF AddPermits, UsizeArgs
  <1>2. UNCHANGED <<target, HeldMap, call>>
    BY MapVars DEF AddPermits
  <1>3. PICK r : r = n % Cap
    OBVIOUS
  <1>4. /\ CountMap' = [CountMap EXCEPT ![z] = (CountMap[z] + r) % Cap]
        /\ r = 0 => UNCHANGED CountMap
        /\ UNCHANGED <<Cap, ClosedMap>>
    BY <1>1, <1>2, <1>3, FetchAddMaps
  <1>5. r = 0 \/ r \in 1..Cap - 1
    <2>1. r \in 0..Cap - 1
      BY <1>3, ShiftMod, Facts
    <2> QED BY <2>1, Facts, TargetFacts
  <1>6. CASE r = 0
    BY <1>2, <1>4, <1>6, Stutters
  <1>7. CASE r \in 1..Cap - 1
    BY <1>2, <1>4, <1>7, AddMaps
  <1> QED BY <1>5, <1>6, <1>7

LEMMA CloseCallMaps ==
  ASSUME WordInv, WordInv', NEW t \in Threads, NEW z \in Sems, Close(t, z)
  PROVE  AtomicStep
PROOF
  <1>1. UNCHANGED <<Cap, HeldMap, call>> /\ target' = target
    BY MapVars DEF Close
  <1>2. CASE IsClosed(words[z])
    <2>1. words' = words
      BY <1>2, Facts DEF Close, WordsType
    <2> QED BY <1>1, <2>1, MapVars, Stutters
  <1>3. CASE ~IsClosed(words[z])
    <2>1. PICK y : y = words[z] + 1
      OBVIOUS
    <2>2. words' = [words EXCEPT ![z] = y]
      BY <1>3, <2>1 DEF Close
    <2>3. words[z] \in 0..target.usize - 1
      BY <1>1, SystemFacts
    <2>4. IsClosed(y) /\ Count(y) = Count(words[z])
      BY <1>3, <2>1, <2>3, CloseIs, Facts
    <2>5. IsClosed(y) = TRUE
      BY <2>4
    <2>6. /\ CountMap' = [CountMap EXCEPT ![z] = Count(y)]
          /\ CountMap[z] = Count(words[z])
          /\ ClosedMap' = [ClosedMap EXCEPT ![z] = TRUE]
      BY <2>2, <2>5, WordMaps
    <2>7. CountMap' = CountMap
      BY <2>4, <2>6 DEF CountMap
    <2> QED BY <1>1, <2>6, <2>7, CloseMaps
  <1> QED BY <1>2, <1>3

LEMMA ObjectGoneMaps ==
  ASSUME WordInv, WordInv', target' = target, NEW o \in Live,
         objects' = [objects EXCEPT ![o] = None],
         NEW z, z = objects[o].sem, NEW n, n = objects[o].permits
  PROVE  /\ z \in Sems /\ n \in Nat /\ (n = 0 \/ n \in 1..HeldMap[z])
         /\ HeldMap' = [HeldMap EXCEPT ![z] = HeldMap[z] - n]
         /\ n = 0 => UNCHANGED HeldMap
PROOF
  <1>1. z \in Sems /\ n \in Nat
    BY LiveFacts
  <1>2. \A s \in Sems : /\ HeldOf(s) \in Nat /\ HeldOf(s)' \in Nat
                        /\ s # z => HeldOf(s)' = HeldOf(s)
                        /\ s = z => HeldOf(s)' = HeldOf(s) - n
    BY ObjectGone, SystemFacts
  <1>3. HeldOf(z)' = HeldOf(z) - n /\ n <= HeldOf(z)
    BY <1>1, <1>2
  <1>4. HeldMap' = [HeldMap EXCEPT ![z] = HeldOf(z) - n] /\ HeldMap[z] = HeldOf(z)
    BY <1>1, <1>2, <1>3, HeldMaps
  <1>5. n = 0 \/ n \in 1..HeldMap[z]
    BY <1>1, <1>2, <1>3, <1>4
  <1>6. n = 0 => UNCHANGED HeldMap
    <2>1. n = 0 => HeldOf(z) - n = HeldOf(z)
      BY <1>1, <1>2
    <2> QED BY <1>4, <2>1 DEF HeldMap
  <1> QED BY <1>1, <1>4, <1>5, <1>6

LEMMA DropCallMaps ==
  ASSUME WordInv, WordInv', NEW o \in Live, objects' = [objects EXCEPT ![o] = None],
         FetchAdd(objects[o].sem, objects[o].permits), UNCHANGED <<target, call>>
  PROVE  AtomicStep
PROOF
  <1>1. PICK z, n : z = objects[o].sem /\ n = objects[o].permits
    OBVIOUS
  <1>2. /\ z \in Sems /\ n \in Nat /\ (n = 0 \/ n \in 1..HeldMap[z])
        /\ HeldMap' = [HeldMap EXCEPT ![z] = HeldMap[z] - n]
        /\ n = 0 => UNCHANGED HeldMap
    BY <1>1, ObjectGoneMaps
  <1>3. /\ CountMap' = [CountMap EXCEPT ![z] = (CountMap[z] + n) % Cap]
        /\ n % Cap = 0 => UNCHANGED CountMap
        /\ UNCHANGED <<Cap, ClosedMap>>
    BY <1>1, <1>2, FetchAddMaps
  <1>4. n = 0 => n % Cap = 0
    BY Facts, TargetFacts, SmallMod
  <1>5. CASE n = 0
    BY <1>2, <1>3, <1>4, <1>5, Stutters
  <1>6. CASE n \in 1..HeldMap[z]
    BY <1>2, <1>3, <1>6, DropMaps
  <1> QED BY <1>2, <1>5, <1>6

LEMMA ForgetCallMaps ==
  ASSUME WordInv, WordInv', NEW t \in Threads, NEW o \in Objects, ForgetPermit(t, o)
  PROVE  AtomicStep
PROOF
  <1>1. PICK z, n : z = objects[o].sem /\ n = objects[o].permits
    OBVIOUS
  <1>2. /\ o \in Live /\ UNCHANGED <<target, words, call>>
        /\ objects' = [objects EXCEPT ![o] = None]
    BY DEF ForgetPermit
  <1>3. /\ z \in Sems /\ n \in Nat /\ (n = 0 \/ n \in 1..HeldMap[z])
        /\ HeldMap' = [HeldMap EXCEPT ![z] = HeldMap[z] - n]
        /\ n = 0 => UNCHANGED HeldMap
    BY <1>1, <1>2, ObjectGoneMaps
  <1>4. UNCHANGED <<Cap, CountMap, ClosedMap>>
    BY <1>2, MapVars
  <1>5. CASE n = 0
    BY <1>2, <1>3, <1>4, <1>5, Stutters
  <1>6. CASE n \in 1..HeldMap[z]
    BY <1>2, <1>3, <1>4, <1>6, ForgetMaps
  <1> QED BY <1>3, <1>5, <1>6

(* A merge stutters unless the sum wraps; then permits are forgotten.      *)
LEMMA MergeMaps ==
  ASSUME WordInv, WordInv', NEW t \in Threads, NEW o \in Objects, NEW p \in Objects,
         Merge(t, o, p)
  PROVE  AtomicStep
PROOF
  <1>1. UNCHANGED <<target, words, call>> /\ p \in Live
    BY DEF Merge
  <1>2. PICK z, u : z = objects[p].sem /\ u = target.u32
    OBVIOUS
  <1>3. z \in Sems /\ u \in Nat /\ u > 1
    BY <1>1, <1>2, LiveFacts, Facts, TargetFacts
  <1>4. UNCHANGED <<Cap, CountMap, ClosedMap>>
    BY <1>1, MapVars
  <1>5. \A s \in Sems : HeldOf(s) \in Nat /\ HeldOf(s)' \in Nat
    BY <1>1, SystemFacts
  <1>6. CASE SumFits(o, p)
    <2>1. \A s \in Sems : HeldOf(s)' = HeldOf(s)
      BY <1>1, <1>5, <1>6, MergeHeld, SystemFacts
    <2>2. UNCHANGED HeldMap
      BY <2>1 DEF HeldMap
    <2> QED BY <1>1, <1>4, <2>2, Stutters
  <1>7. CASE ~SumFits(o, p)
    <2>1. \A s \in Sems : HeldOf(s)' = IF s = z THEN HeldOf(s) - u ELSE HeldOf(s)
      BY <1>1, <1>2, <1>5, <1>7, MergeHeld, SystemFacts
    <2>2. HeldMap' = [HeldMap EXCEPT ![z] = HeldOf(z) - u] /\ HeldMap[z] = HeldOf(z)
      BY <1>3, <2>1, HeldMaps
    <2>3. u \in 1..HeldMap[z]
      BY <1>3, <1>5, <2>1, <2>2
    <2> QED BY <1>1, <1>3, <1>4, <2>2, <2>3, ForgetMaps
  <1> QED BY <1>6, <1>7

(* Objects change, what each semaphore has in them does not.               *)
LEMMA SameHeldMaps ==
  ASSUME WordInv, WordInv', UNCHANGED <<target, words, call>>,
         \A s \in Sems : HeldIn(objects', s) = HeldIn(objects, s)
  PROVE  AtomicStep
PROOF
  <1>1. \A s \in Sems : HeldOf(s)' = HeldOf(s)
    BY HeldIs
  <1>2. UNCHANGED HeldMap
    BY <1>1 DEF HeldMap
  <1> QED BY <1>2, MapVars, Stutters

-----------------------------------------------------------------------------
LEMMA StepMaps ==
  ASSUME WordInv, WordInv', [Next]_vars, TriesFit, ~OversizedPollEnds
  PROVE  AtomicStep
PROOF
  <1>1. CASE UNCHANGED vars
    BY <1>1, SameHeldMaps DEF vars
  <1>2. ASSUME NEW t \in Threads, NEW z \in Sems, WordCall(t, z)
        PROVE  AtomicStep
    <2>1. CASE TryAcquireNone(t, z)
      BY <2>1, NoneHeld, SameHeldMaps DEF TryAcquireNone
    <2>2. CASE AddPermits(t, z)
      BY <2>2, AddPermitsMaps
    <2>3. CASE Close(t, z)
      BY <2>3, CloseCallMaps
    <2>4. CASE TryAcquire(t, z)
      BY <2>4, BeginMaps DEF TryAcquire
    <2>5. CASE TryAcquireMany(t, z) \/ PollFastPath(t, z)
      <3>1. U32Args \subseteq Nat
        BY Facts, TargetFacts DEF U32Args
      <3> QED BY <2>5, <3>1, BeginMaps DEF TryAcquireMany, PollFastPath
    <2>6. CASE ForgetPermits(t, z)
      <3>1. UsizeArgs \subseteq Nat
        BY Facts, TargetFacts DEF UsizeArgs
      <3> QED BY <2>6, <3>1, BeginMaps DEF ForgetPermits
    <2> QED BY <1>2, <2>1, <2>2, <2>3, <2>4, <2>5, <2>6 DEF WordCall
  <1>3. ASSUME NEW t \in Threads, TryAcquireManyPanics(t) \/ Recover(t)
        PROVE  AtomicStep
    BY <1>3, SameHeldMaps DEF TryAcquireManyPanics, Recover
  <1>4. ASSUME NEW t \in Threads, WordStep(t)
        PROVE  AtomicStep
    <2>1. CASE AcquireExchanges(t)
      BY <2>1, AcquireMaps
    <2>2. CASE ForgetExchanges(t)
      BY <2>2, RemoveMaps
    <2>3. CASE Load(t)
      BY <2>3, LookMaps DEF Load, Busy
    <2>4. CASE StrongFails(t)
      BY <2>4, SameHeldMaps DEF StrongFails
    <2>5. CASE WeakFails(t)
      <3>1. pc[t] \in Busy /\ UNCHANGED <<target, words, objects, supply>>
        BY <2>5 DEF WeakFails, Busy
      <3>2. CASE call[t].op = "poll"
        <4>1. Atomic!Returns(t)
          BY <2>5, <3>2 DEF WeakFails, AfterWeakFailure, Return, Atomic!Returns
        <4>2. UNCHANGED <<Cap, CountMap, ClosedMap, HeldMap>>
          BY <3>1, MapVars
        <4>3. Atomic!Miss(t)
          BY <3>2, <4>1, <4>2 DEF Atomic!Miss, CountMap, ClosedMap, HeldMap
        <4> QED BY <3>1, <4>3, CallMaps
      <3>3. CASE call[t].op # "poll"
        BY <2>5, <3>1, <3>3, LookMaps DEF WeakFails, AfterWeakFailure
      <3> QED BY <3>2, <3>3
    <2> QED BY <1>4, <2>1, <2>2, <2>3, <2>4, <2>5 DEF WordStep
  <1>5. ASSUME NEW t \in Threads, NEW o \in Objects, ObjectCall(t, o)
        PROVE  AtomicStep
    <2>1. CASE DropPermit(t, o)
      BY <2>1, DropCallMaps DEF DropPermit
    <2>2. CASE ForgetPermit(t, o)
      BY <2>2, ForgetCallMaps
    <2>3. CASE Split(t, o)
      BY <2>3, SplitHeld, SameHeldMaps DEF Split
    <2>4. ASSUME NEW p \in Objects, Merge(t, o, p) \/ MergePanics(t, o, p)
          PROVE  AtomicStep
      BY <2>4, MergeMaps, DropCallMaps DEF MergePanics
    <2> QED BY <1>5, <2>1, <2>2, <2>3, <2>4 DEF ObjectCall
  <1>6. target.threads \subseteq Threads /\ target.sems \subseteq Sems
    BY Facts, TargetFacts
  <1> QED BY <1>1, <1>2, <1>3, <1>4, <1>5, <1>6 DEF Next

LEMMA InitMaps == Init => Atomic!Init
PROOF
  <1> SUFFICES ASSUME Init PROVE Atomic!Init
    OBVIOUS
  <1>1. WordInv /\ Accounts /\ target \in Targets
    BY InitTyped, InitAccounts DEF WordInv, WordTypeOK
  <1>2. Cap \in Nat
    BY <1>1, TargetFacts
  <1>3. \A s \in Sems : words[s] \in 0..target.usize - 1
    BY <1>1 DEF WordInv, WordTypeOK
  <1>4. \A s \in Sems : Count(words[s]) \in Nat
    BY <1>1, <1>3, CountBelowCap, TargetFacts
  <1>5. \A s \in Sems : ~IsClosed(words[s])
    <2> SUFFICES ASSUME NEW s \in Sems PROVE ~IsClosed(words[s])
      OBVIOUS
    <2>1. PICK n \in Nat : words[s] = Shift(n)
      BY <1>1, TargetFacts DEF Init, UsizeArgs
    <2>2. PICK r \in Nat : words[s] = 2 * r
      BY <1>1, <2>1, ShiftMod, TargetFacts
    <2>3. (2 * r) % 2 = 0
      OBVIOUS
    <2> QED BY <2>2, <2>3 DEF IsClosed
  <1>6. \A s \in Sems : HeldOf(s) = 0
    <2> SUFFICES ASSUME NEW s \in Sems PROVE HeldOf(s) = 0
      OBVIOUS
    <2>1. HeldIn(objects, s) = 0
      BY SumZero DEF Init, HeldIn, WorthIn
    <2> QED BY <2>1, HeldIs
  <1>7. [s \in Sems |-> IsClosed(words[s])] = [s \in Sems |-> FALSE]
    <2>1. \A s \in Sems : IsClosed(words[s]) = FALSE
      BY <1>5 DEF IsClosed
    <2> QED BY <2>1
  <1>8. call = [t \in Threads |-> None]
    BY DEF Init
  <1> QED BY <1>2, <1>4, <1>6, <1>7, <1>8 DEF Atomic!Init

(* The words implement atomic counts: whatever the interleaving, each call *)
(* takes effect at one of its accesses, all of it or nothing, and fails    *)
(* only when the semaphore was closed or had too few permits.  The one     *)
(* exception is the end of a poll for more than a word can count.          *)
THEOREM AtomicImplemented == Spec => ImplementsAtomic
PROOF
  <1>1. ASSUME WordInv, WordInv', TriesFit, [Next]_vars
        PROVE  [~OversizedPollEnds => Atomic!Next]_(Atomic!vars)
    BY <1>1, StepMaps DEF AtomicStep
  <1> QED BY <1>1, InitMaps, TriesFitAlways, WordInvHolds, PTL
          DEF Spec, ImplementsAtomic
=============================================================================
