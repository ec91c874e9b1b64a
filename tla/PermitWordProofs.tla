-------------------------- MODULE PermitWordProofs --------------------------
(***************************************************************************)
(* Proofs about the permit word: for every width of usize and u32, in both *)
(* builds, for any number of threads, semaphores and permit objects, words *)
(* do not underflow, the CLOSED bit stays, and, where requests fit into a  *)
(* word and sums do not wrap, what is in words and permit objects is what  *)
(* was created.                                                            *)
(***************************************************************************)
EXTENDS PermitWord, SumsProofs

-----------------------------------------------------------------------------
(* Arithmetic.                                                             *)

LEMMA DivMod ==
  ASSUME NEW a \in Int, NEW b \in Nat \ {0}
  PROVE  /\ a % b \in 0..b - 1 /\ a \div b \in Int
         /\ a = b * (a \div b) + (a % b)
PROOF OBVIOUS

LEMMA Halves ==
  ASSUME NEW x \in Nat
  PROVE  /\ x \div 2 \in Nat /\ x % 2 \in {0, 1}
         /\ x = 2 * (x \div 2) + (x % 2)
PROOF OBVIOUS

(* A number below the modulus is its own remainder.                        *)
LEMMA SmallMod ==
  ASSUME NEW b \in Nat \ {0}, NEW a \in 0..b - 1
  PROVE  a % b = a
PROOF OBVIOUS

(* A remainder modulo an even number, by what was taken off.               *)
LEMMA EvenMod ==
  ASSUME NEW h \in Nat \ {0}, NEW a \in Nat
  PROVE  \E k \in Nat, p \in Nat :
           /\ p = k * h
           /\ a % (2 * h) = a - 2 * p
           /\ a % (2 * h) \in 0..2 * h - 1
           /\ a < 2 * h => p = 0
PROOF
  <1>1. 2 * h \in Nat \ {0}
    OBVIOUS
  <1>2. PICK q \in Int, r \in 0..2 * h - 1 :
          a % (2 * h) = r /\ a = (2 * h) * q + r
    <2>1. PICK b \in Nat \ {0} : b = 2 * h
      BY <1>1
    <2>2. a % b \in 0..b - 1 /\ a \div b \in Int /\ a = b * (a \div b) + (a % b)
      BY DivMod
    <2>3. PICK q \in Int, r \in 0..b - 1 : a % b = r /\ a = b * q + r
      BY <2>2
    <2> QED BY <2>1, <2>3
  <1>3. PICK p \in Int : p = q * h
    OBVIOUS
  <1>4. a = 2 * p + r
    <2>1. (2 * h) * q = 2 * p
      BY <1>3
    <2> QED BY <1>2, <2>1
  <1>5. q >= 0
    <2>1. q <= -1 => q * h <= -h
      OBVIOUS
    <2> QED BY <1>2, <1>3, <1>4, <2>1
  <1>6. p >= 0
    BY <1>3, <1>5
  <1>7. a < 2 * h => p = 0
    <2>1. q >= 1 => q * h >= h
      BY <1>5
    <2> QED BY <1>2, <1>3, <1>4, <1>5, <2>1
  <1>8. q \in Nat /\ p \in Nat
    BY <1>5, <1>6
  <1>9. a % (2 * h) = a - 2 * p
    BY ONLY <1>2, <1>4, a \in Nat, p \in Int, r \in 0..2 * h - 1, h \in Nat \ {0}
  <1> QED BY <1>2, <1>3, <1>7, <1>8, <1>9

-----------------------------------------------------------------------------
(* The word of a target.                                                   *)

LEMMA TargetFacts ==
  ASSUME target \in Targets
  PROVE  /\ Cap \in Nat \ {0} /\ target.usize = 2 * Cap /\ target.usize \in Nat \ {0}
         /\ MAX_PERMITS \in Nat /\ MAX_PERMITS < Cap
         /\ target.u32 \in Nat /\ target.u32 > 1 /\ target.u32 <= target.usize
         /\ target.checked \in BOOLEAN /\ target.args \subseteq Nat
         /\ target.threads \subseteq Threads /\ target.sems \subseteq Sems
PROOF
  <1>1. /\ target.usize \in Nat /\ target.usize % 8 = 0
        /\ target.u32 \in Nat /\ target.u32 > 1 /\ target.u32 <= target.usize
        /\ target.checked \in BOOLEAN /\ target.args \subseteq Nat
        /\ target.threads \subseteq Threads /\ target.sems \subseteq Sems
    BY PermitWordAssumption
  <1>2. PICK u \in Nat : u = target.usize
    BY <1>1
  <1>3. u % 8 = 0 /\ u > 1
    BY <1>1, <1>2
  <1>4. Cap = u \div 2 /\ MAX_PERMITS = (u - 1) \div 8
    BY <1>2 DEF Cap, MAX_PERMITS
  <1>5. /\ u \div 2 \in Nat \ {0} /\ u = 2 * (u \div 2)
        /\ (u - 1) \div 8 \in Nat /\ (u - 1) \div 8 < u \div 2
    BY ONLY <1>3, u \in Nat
  <1> QED BY <1>1, <1>2, <1>4, <1>5

(* A shift loses multiples of what a word can count.                       *)
LEMMA ShiftIs ==
  ASSUME target \in Targets, NEW n \in Nat
  PROVE  \E k \in Nat, p \in Nat :
           /\ p = k * Cap
           /\ Shift(n) = 2 * (n - p) /\ n - p \in 0..Cap - 1
           /\ n < Cap => p = 0
PROOF
  <1>1. PICK h \in Nat \ {0} : h = Cap /\ target.usize = 2 * h
    BY TargetFacts
  <1>2. PICK k \in Nat, p \in Nat :
          /\ p = k * h /\ (2 * n) % (2 * h) = 2 * n - 2 * p
          /\ (2 * n) % (2 * h) \in 0..2 * h - 1
          /\ 2 * n < 2 * h => p = 0
    <2>1. PICK a \in Nat : a = 2 * n
      OBVIOUS
    <2>2. \E k \in Nat, p \in Nat :
            /\ p = k * h /\ a % (2 * h) = a - 2 * p
            /\ a % (2 * h) \in 0..2 * h - 1
            /\ a < 2 * h => p = 0
      BY EvenMod
    <2> QED BY <2>1, <2>2
  <1>3. Shift(n) = 2 * n - 2 * p
    BY <1>1, <1>2 DEF Shift
  <1>4. 2 * n - 2 * p = 2 * (n - p) /\ n - p \in 0..h - 1 /\ (n < h => p = 0)
    BY ONLY <1>2, k \in Nat, p \in Nat, h \in Nat, n \in Nat
  <1> QED BY <1>1, <1>2, <1>3, <1>4

(* So does an addition to the word; it does not touch the CLOSED bit.      *)
LEMMA PlusIs ==
  ASSUME target \in Targets, NEW n \in Nat, NEW x \in 0..target.usize - 1
  PROVE  /\ Plus(x, n) \in 0..target.usize - 1
         /\ IsClosed(Plus(x, n)) <=> IsClosed(x)
         /\ \E k \in Nat, p \in Nat :
              /\ p = k * Cap
              /\ Count(Plus(x, n)) = Count(x) + n - p
              /\ Count(x) + n < Cap => p = 0
PROOF
  <1>1. PICK h \in Nat \ {0} : h = Cap /\ target.usize = 2 * h
    BY TargetFacts
  <1>2. PICK k1 \in Nat, p1 \in Nat :
          /\ p1 = k1 * h /\ Shift(n) = 2 * (n - p1) /\ n - p1 \in 0..h - 1
          /\ n < h => p1 = 0
    BY <1>1, ShiftIs
  <1>3. PICK a \in Nat : a = x + 2 * (n - p1)
    BY <1>1, <1>2
  <1>4. PICK k2 \in Nat, p2 \in Nat :
          /\ p2 = k2 * h /\ a % (2 * h) = a - 2 * p2
          /\ a % (2 * h) \in 0..2 * h - 1
          /\ a < 2 * h => p2 = 0
    BY EvenMod
  <1>5. PICK y \in 0..2 * h - 1 : y = Plus(x, n) /\ y = a - 2 * p2
    BY <1>1, <1>2, <1>3, <1>4 DEF Plus
  <1>6. x \in Nat
    BY <1>1
  <1>7. y = x + 2 * (n - (p1 + p2))
    BY ONLY <1>3, <1>5, <1>6, n \in Nat, p1 \in Nat, p2 \in Nat, h \in Nat
  <1>8. y % 2 = x % 2 /\ y \div 2 = (x \div 2) + n - (p1 + p2)
    BY ONLY <1>5, <1>6, <1>7, n \in Nat, p1 \in Nat, p2 \in Nat, h \in Nat
  <1>9. (x \div 2) + n < h => p1 + p2 = 0
    <2>1. (x \div 2) + n < h => n < h
      BY <1>6
    <2>2. p1 = 0 /\ (x \div 2) + n < h => a < 2 * h
      BY ONLY <1>3, <1>6, n \in Nat, p1 \in Nat, h \in Nat, a \in Nat
    <2> QED BY <1>2, <1>4, <2>1, <2>2
  <1>10. k1 + k2 \in Nat /\ p1 + p2 \in Nat /\ p1 + p2 = (k1 + k2) * h
    BY <1>2, <1>4
  <1> QED BY <1>1, <1>5, <1>8, <1>9, <1>10 DEF Count, IsClosed

(* What an exchange of an acquisition leaves in the word.                  *)
LEMMA TakeIs ==
  ASSUME target \in Targets, NEW n \in Nat, NEW x \in 0..target.usize - 1,
         x >= Shift(n)
  PROVE  /\ x - Shift(n) \in 0..target.usize - 1
         /\ IsClosed(x - Shift(n)) <=> IsClosed(x)
         /\ \E k \in Nat, p \in Nat :
              /\ p = k * Cap
              /\ Count(x - Shift(n)) = Count(x) - n + p
              /\ n < Cap => p = 0
PROOF
  <1>1. PICK h \in Nat \ {0} : h = Cap /\ target.usize = 2 * h
    BY TargetFacts
  <1>2. PICK k \in Nat, p \in Nat :
          /\ p = k * h /\ Shift(n) = 2 * (n - p) /\ n - p \in 0..h - 1
          /\ n < h => p = 0
    BY <1>1, ShiftIs
  <1>3. PICK m \in 0..h - 1 : m = n - p /\ Shift(n) = 2 * m
    BY <1>2
  <1>4. x \in Nat /\ x < 2 * h /\ x >= 2 * m
    BY <1>1, <1>3
  <1>5. /\ x - 2 * m \in 0..2 * h - 1
        /\ (x - 2 * m) % 2 = x % 2 /\ (x - 2 * m) \div 2 = (x \div 2) - m
    BY ONLY <1>4, m \in 0..h - 1, h \in Nat
  <1>6. (x \div 2) - m = (x \div 2) - n + p
    BY <1>3, <1>4, Halves
  <1> QED BY <1>1, <1>2, <1>3, <1>5, <1>6 DEF Count, IsClosed

(* What forget_permits leaves in the word.                                 *)
LEMMA WithoutIs ==
  ASSUME target \in Targets, NEW x \in 0..target.usize - 1, NEW n \in Nat
  PROVE  /\ Removed(x, n) \in Nat /\ Removed(x, n) <= Count(x)
         /\ Without(x, Removed(x, n)) \in 0..target.usize - 1
         /\ IsClosed(Without(x, Removed(x, n))) <=> IsClosed(x)
         /\ Count(Without(x, Removed(x, n))) = Count(x) - Removed(x, n)
PROOF
  <1>1. PICK h \in Nat \ {0} : h = Cap /\ target.usize = 2 * h
    BY TargetFacts
  <1>2. x \in Nat /\ x < 2 * h /\ Count(x) \in Nat
    BY <1>1, Halves DEF Count
  <1>3. PICK k \in Nat : k = Removed(x, n) /\ k <= Count(x)
    BY <1>2 DEF Removed
  <1>4. PICK c \in Nat : c = Count(x) - k /\ c <= Count(x)
    BY <1>2, <1>3
  <1>5. c < h
    BY <1>2, <1>4, Halves DEF Count
  <1>6. Shift(c) = 2 * c
    <2>1. 2 * c \in 0..2 * h - 1 /\ 2 * h \in Nat \ {0}
      BY <1>5
    <2> QED BY <1>1, <2>1, SmallMod DEF Shift
  <1>7. Without(x, k) = 2 * c + (x % 2)
    BY <1>4, <1>6 DEF Without
  <1>8. PICK b \in {0, 1} : b = x % 2
    BY <1>2, Halves
  <1>9. /\ 2 * c + b \in 0..2 * h - 1
        /\ (2 * c + b) % 2 = b /\ (2 * c + b) \div 2 = c
    BY ONLY <1>5, c \in Nat, b \in {0, 1}, h \in Nat
  <1> QED BY <1>1, <1>3, <1>4, <1>7, <1>8, <1>9 DEF Count, IsClosed

(* Closing an open word.                                                   *)
LEMMA CloseIs ==
  ASSUME target \in Targets, NEW x \in 0..target.usize - 1, ~IsClosed(x)
  PROVE  /\ x + 1 \in 0..target.usize - 1
         /\ IsClosed(x + 1) /\ Count(x + 1) = Count(x)
PROOF
  <1>1. PICK h \in Nat \ {0} : target.usize = 2 * h
    BY TargetFacts
  <1>2. x \in Nat /\ x < 2 * h /\ x % 2 # 1
    BY <1>1 DEF IsClosed
  <1>3. x + 1 < 2 * h /\ (x + 1) % 2 = 1 /\ (x + 1) \div 2 = x \div 2
    BY ONLY <1>2, h \in Nat
  <1> QED BY <1>1, <1>2, <1>3 DEF Count, IsClosed

-----------------------------------------------------------------------------
(* Types, and what pc says about the call and the loaded word.             *)

CallType   == [op : {"one", "many", "poll", "forget"}, sem : Sems,
               n : 0..target.usize - 1]
ObjectType == [sem : Sems, permits : 0..target.u32 - 1]
ObjectsType == [Objects -> {None} \cup ObjectType]
WordsType == [Sems -> 0..target.usize - 1]
Busy == {"load", "strong", "reload", "weak"}

InCall == \A t \in Threads : pc[t] \in Busy <=> call[t] # None
SmallCalls ==
  \A t \in Threads :
    call[t] # None /\ call[t].op # "forget" => call[t].n < target.u32
LoadedEnough ==
  \A t \in Threads :
    pc[t] \in {"strong", "weak"} /\ call[t].op # "forget"
      => MayTake(curr[t], call[t].n)

WordInv == WordTypeOK /\ InCall /\ SmallCalls /\ LoadedEnough

LEMMA NotNone ==
  ASSUME target \in Targets
  PROVE  None \notin CallType /\ None \notin ObjectType
PROOF
  <1>1. 0..target.usize - 1 \subseteq Nat /\ 0..target.u32 - 1 \subseteq Nat
    BY TargetFacts
  <1>2. CallType \subseteq [op : {"one", "many", "poll", "forget"}, sem : Sems, n : Nat]
    BY <1>1 DEF CallType
  <1>3. ObjectType \subseteq [sem : Sems, permits : Nat]
    BY <1>1 DEF ObjectType
  <1> QED BY <1>2, <1>3, PermitWordAssumption

(* One update of pc, call and curr, with the words, objects and supply of  *)
(* the right types.                                                        *)
LEMMA CallUpdate ==
  ASSUME WordInv, NEW t \in Threads,
         pc' = [pc EXCEPT ![t] = pc'[t]], pc'[t] \in Busy \cup {"idle", "panicked"},
         call' = [call EXCEPT ![t] = call'[t]], call'[t] \in {None} \cup CallType,
         curr' = [curr EXCEPT ![t] = curr'[t]], curr'[t] \in 0..target.usize - 1,
         pc'[t] \in Busy <=> call'[t] # None,
         call'[t] # None /\ call'[t].op # "forget" => call'[t].n < target.u32,
         pc'[t] \in {"strong", "weak"} /\ call'[t].op # "forget"
           => MayTake(curr'[t], call'[t].n),
         target' = target, words' \in WordsType, objects' \in ObjectsType,
         supply' \in [Sems -> Int]
  PROVE  WordInv'
PROOF
  <1> USE DEF CallType, ObjectType, ObjectsType, WordsType, Busy
  <1>1. WordTypeOK'
    BY DEF WordInv, WordTypeOK, Goto
  <1>2. InCall'
    BY DEF WordInv, WordTypeOK, InCall, Goto
  <1>3. SmallCalls'
    BY DEF WordInv, WordTypeOK, SmallCalls, Goto
  <1>4. LoadedEnough'
    BY DEF WordInv, WordTypeOK, LoadedEnough, Goto, MayTake, IsClosed, Shift
  <1> QED BY <1>1, <1>2, <1>3, <1>4 DEF WordInv
-----------------------------------------------------------------------------
(* What the permit objects of a semaphore hold, as a sum over all objects. *)

WorthIn(obj, o, s) ==
  IF obj[o] # None /\ obj[o].sem = s THEN obj[o].permits ELSE 0

HeldIn(obj, s) == SumOver([o \in Objects |-> WorthIn(obj, o, s)], Objects)

LEMMA WorthType ==
  ASSUME target \in Targets, NEW obj \in ObjectsType, NEW o \in Objects, NEW s
  PROVE  WorthIn(obj, o, s) \in 0..target.u32 - 1
PROOF
  BY TargetFacts DEF WorthIn, ObjectsType, ObjectType

LEMMA HeldAll ==
  ASSUME NEW obj, NEW s
  PROVE  LET L == {o \in Objects : obj[o] # None}
         IN  SumOver([o \in L |-> obj[o].permits], {o \in L : obj[o].sem = s})
               = HeldIn(obj, s)
PROOF
  <1> DEFINE L == {o \in Objects : obj[o] # None}
             K == {o \in L : obj[o].sem = s}
             f == [o \in L |-> obj[o].permits]
             g == [o \in Objects |-> WorthIn(obj, o, s)]
  <1>1. K \subseteq Objects
    OBVIOUS
  <1>2. \A o \in K : f[o] = g[o]
    BY DEF WorthIn
  <1>3. \A o \in Objects \ K : g[o] = 0
    BY DEF WorthIn
  <1> HIDE DEF f, g, K, L
  <1>4. Pile(f, K) = Pile(g, Objects)
    <2>1. Pile(f, K) \subseteq Pile(g, Objects)
      BY <1>1, <1>2 DEF Pile
    <2>2. ASSUME NEW o \in Objects, NEW y \in {o} \X (1..g[o])
          PROVE  y \in Pile(f, K)
      <3>1. CASE o \in K
        BY <3>1, <2>2, <1>2 DEF Pile
      <3>2. CASE o \notin K
        <4>1. 1..g[o] = {}
          BY <3>2, <1>3
        <4> QED BY <4>1, <2>2
      <3> QED BY <3>1, <3>2
    <2>3. Pile(g, Objects) \subseteq Pile(f, K)
      BY <2>2 DEF Pile
    <2> QED BY <2>1, <2>3
  <1> QED BY <1>4 DEF SumOver, HeldIn, f, g, K, L

LEMMA HeldIs ==
  ASSUME NEW s
  PROVE  HeldOf(s) = HeldIn(objects, s) /\ HeldOf(s)' = HeldIn(objects', s)
PROOF
  <1>1. HeldOf(s) = HeldIn(objects, s)
    BY HeldAll DEF HeldOf, Of, Live
  <1>2. HeldOf(s)' = HeldIn(objects', s)
    BY HeldAll DEF HeldOf, Of, Live
  <1> QED BY <1>1, <1>2

(* One object changes.                                                     *)
LEMMA OneObject ==
  ASSUME target \in Targets, NEW s, NEW o \in Objects,
         NEW obj \in ObjectsType, NEW new \in ObjectsType,
         \A q \in Objects \ {o} : new[q] = obj[q]
  PROVE  /\ HeldIn(new, s) = HeldIn(obj, s) - WorthIn(obj, o, s) + WorthIn(new, o, s)
         /\ HeldIn(obj, s) \in Nat /\ HeldIn(new, s) \in Nat
         /\ WorthIn(obj, o, s) <= HeldIn(obj, s)
PROOF
  <1> DEFINE f == [q \in Objects |-> WorthIn(obj, q, s)]
             g == [q \in Objects |-> WorthIn(new, q, s)]
  <1>1. \A q \in Objects : f[q] \in Nat /\ g[q] \in Nat
    BY WorthType, TargetFacts
  <1>2. \A q \in Objects \ {o} : g[q] = f[q]
    BY DEF WorthIn
  <1>3. HeldIn(obj, s) = SumOver(f, Objects) /\ HeldIn(new, s) = SumOver(g, Objects)
    BY DEF HeldIn
  <1>4. f[o] = WorthIn(obj, o, s) /\ g[o] = WorthIn(new, o, s)
    OBVIOUS
  <1> HIDE DEF f, g
  <1>5. IsFiniteSet(Objects)
    BY PermitWordAssumption
  <1>6. /\ SumOver(g, Objects) = SumOver(f, Objects) - f[o] + g[o]
        /\ SumOver(f, Objects) \in Nat /\ SumOver(g, Objects) \in Nat
        /\ f[o] <= SumOver(f, Objects)
    BY <1>1, <1>2, <1>5, SumChange
  <1> QED BY <1>3, <1>4, <1>6

(* Two objects change.                                                     *)
LEMMA TwoObjects ==
  ASSUME target \in Targets, NEW s, NEW o \in Objects, NEW p \in Objects \ {o},
         NEW obj \in ObjectsType, NEW new \in ObjectsType,
         \A q \in Objects \ {o, p} : new[q] = obj[q]
  PROVE  /\ HeldIn(new, s) = HeldIn(obj, s) - WorthIn(obj, o, s) - WorthIn(obj, p, s)
                               + WorthIn(new, o, s) + WorthIn(new, p, s)
         /\ HeldIn(obj, s) \in Nat /\ HeldIn(new, s) \in Nat
PROOF
  <1> DEFINE mid == [obj EXCEPT ![o] = new[o]]
  <1>1. /\ mid \in ObjectsType
        /\ \A q \in Objects \ {o} : mid[q] = obj[q]
        /\ \A q \in Objects \ {p} : new[q] = mid[q]
        /\ mid[o] = new[o] /\ mid[p] = obj[p]
    BY DEF ObjectsType
  <1> HIDE DEF mid
  <1>2. /\ HeldIn(mid, s) = HeldIn(obj, s) - WorthIn(obj, o, s) + WorthIn(mid, o, s)
        /\ HeldIn(obj, s) \in Nat /\ HeldIn(mid, s) \in Nat
    BY <1>1, OneObject
  <1>3. /\ HeldIn(new, s) = HeldIn(mid, s) - WorthIn(mid, p, s) + WorthIn(new, p, s)
        /\ HeldIn(new, s) \in Nat
    BY <1>1, OneObject
  <1>4. WorthIn(mid, o, s) = WorthIn(new, o, s) /\ WorthIn(mid, p, s) = WorthIn(obj, p, s)
    BY <1>1 DEF WorthIn
  <1>5. /\ WorthIn(obj, o, s) \in Nat /\ WorthIn(new, o, s) \in Nat
        /\ WorthIn(obj, p, s) \in Nat /\ WorthIn(new, p, s) \in Nat
    BY WorthType, TargetFacts
  <1> QED BY <1>2, <1>3, <1>4, <1>5
-----------------------------------------------------------------------------
(* Every step keeps the types and what pc says.                            *)

LEMMA Facts ==
  ASSUME WordInv
  PROVE  /\ target \in Targets /\ words \in WordsType /\ objects \in ObjectsType
         /\ supply \in [Sems -> Int]
         /\ pc \in [Threads -> Busy \cup {"idle", "panicked"}]
         /\ call \in [Threads -> {None} \cup CallType]
         /\ curr \in [Threads -> 0..target.usize - 1]
PROOF
  BY DEF WordInv, WordTypeOK, CallType, ObjectType, ObjectsType, WordsType, Busy

(* A thread that is in no call.                                            *)
LEMMA IdleUpdate ==
  ASSUME WordInv, NEW t \in Threads, pc[t] \in {"idle", "panicked"},
         pc' = pc \/ Goto(t, "idle") \/ Goto(t, "panicked"),
         UNCHANGED <<target, call, curr>>,
         words' \in WordsType, objects' \in ObjectsType, supply' \in [Sems -> Int]
  PROVE  WordInv'
PROOF
  <1> USE DEF CallType, ObjectType, ObjectsType, WordsType, Busy
  <1>1. WordTypeOK'
    BY DEF WordInv, WordTypeOK, Goto
  <1>2. InCall'
    BY DEF WordInv, WordTypeOK, InCall, Goto
  <1>3. SmallCalls'
    BY DEF WordInv, SmallCalls
  <1>4. LoadedEnough'
    BY DEF WordInv, WordTypeOK, LoadedEnough, Goto, MayTake, IsClosed, Shift
  <1> QED BY <1>1, <1>2, <1>3, <1>4 DEF WordInv

LEMMA InCallFacts ==
  ASSUME WordInv, NEW t \in Threads, pc[t] \in Busy
  PROVE  /\ call[t] \in CallType /\ call[t].sem \in Sems /\ call[t].n \in Nat
         /\ call[t].n < target.usize
         /\ call[t].op # "forget" => call[t].n < target.u32
         /\ words[call[t].sem] \in 0..target.usize - 1
         /\ curr[t] \in 0..target.usize - 1
PROOF
  <1>1. call[t] # None
    BY DEF WordInv, InCall
  <1>2. call[t] \in CallType
    BY <1>1, Facts
  <1>3. call[t].n \in 0..target.usize - 1 /\ call[t].sem \in Sems
    BY <1>2 DEF CallType
  <1> QED BY <1>1, <1>2, <1>3, Facts, TargetFacts DEF WordInv, SmallCalls, WordsType

LEMMA BeginTyped ==
  ASSUME WordInv, NEW t \in Threads, NEW s \in Sems, NEW n \in Nat,
         NEW op \in {"one", "many", "poll", "forget"},
         n < target.usize, op # "forget" => n < target.u32,
         Begin(t, op, s, n)
  PROVE  WordInv'
PROOF
  <1> DEFINE c == [op |-> op, sem |-> s, n |-> n]
  <1>1. c \in CallType /\ c.op = op /\ c.n = n
    BY TargetFacts, Facts DEF CallType
  <1>2. c # None
    BY <1>1, NotNone, Facts
  <1>3. call' = [call EXCEPT ![t] = c] /\ call'[t] = c
    BY Facts DEF Begin
  <1> HIDE DEF c
  <1>4. curr' = [curr EXCEPT ![t] = curr'[t]] /\ curr'[t] \in 0..target.usize - 1
    BY Facts DEF Begin
  <1>5. pc' = [pc EXCEPT ![t] = "load"] /\ pc'[t] = "load"
    BY Facts DEF Begin, Goto
  <1>6. /\ target' = target /\ words' \in WordsType /\ objects' \in ObjectsType
        /\ supply' \in [Sems -> Int]
    BY Facts DEF Begin
  <1>7. pc'[t] \in Busy /\ pc'[t] \notin {"strong", "weak"}
    BY <1>5 DEF Busy
  <1>8. /\ pc' = [pc EXCEPT ![t] = pc'[t]] /\ call' = [call EXCEPT ![t] = call'[t]]
        /\ call'[t] \in CallType /\ call'[t] # None
        /\ call'[t].op # "forget" => call'[t].n < target.u32
    BY <1>1, <1>2, <1>3, <1>5
  <1> QED BY <1>4, <1>6, <1>7, <1>8, CallUpdate

LEMMA ReturnTyped ==
  ASSUME WordInv, NEW t \in Threads, Return(t), target' = target,
         words' \in WordsType, objects' \in ObjectsType, supply' \in [Sems -> Int]
  PROVE  WordInv'
PROOF
  <1>1. 0 \in 0..target.usize - 1
    BY Facts, TargetFacts
  <1>2. /\ pc' = [pc EXCEPT ![t] = "idle"] /\ pc'[t] = "idle"
        /\ call' = [call EXCEPT ![t] = None] /\ call'[t] = None
        /\ curr' = [curr EXCEPT ![t] = 0] /\ curr'[t] = 0
    BY Facts DEF Return, Goto
  <1>3. pc'[t] \notin Busy /\ pc'[t] \notin {"strong", "weak"}
    BY <1>2 DEF Busy
  <1>4. /\ pc' = [pc EXCEPT ![t] = pc'[t]] /\ call' = [call EXCEPT ![t] = call'[t]]
        /\ curr' = [curr EXCEPT ![t] = curr'[t]] /\ curr'[t] \in 0..target.usize - 1
    BY <1>1, <1>2
  <1> QED BY <1>2, <1>3, <1>4, CallUpdate

LEMMA LookTyped ==
  ASSUME WordInv, NEW t \in Threads, pc[t] \in Busy,
         NEW x \in 0..target.usize - 1, Look(t, x),
         UNCHANGED <<target, words, objects, supply>>
  PROVE  WordInv'
PROOF
  <1>1. /\ words' \in WordsType /\ objects' \in ObjectsType
        /\ supply' \in [Sems -> Int]
    BY Facts
  <1>2. CASE call[t].op = "forget" \/ MayTake(x, call[t].n)
    <2>1. PICK l \in {"strong", "weak"} : Goto(t, l)
      BY <1>2 DEF Look
    <2>2. pc' = [pc EXCEPT ![t] = pc'[t]] /\ pc'[t] \in Busy
      BY <2>1, Facts DEF Goto, Busy
    <2>3. curr' = [curr EXCEPT ![t] = curr'[t]] /\ curr'[t] = x
      BY <1>2, Facts DEF Look
    <2>4. call' = [call EXCEPT ![t] = call'[t]] /\ call'[t] = call[t]
      BY <1>2, Facts DEF Look
    <2>5. /\ call'[t] \in CallType /\ call'[t] # None
          /\ call'[t].op # "forget" => call'[t].n < target.u32
      BY <2>4, InCallFacts DEF WordInv, InCall
    <2>6. call'[t].op # "forget" => MayTake(curr'[t], call'[t].n)
      BY <1>2, <2>3, <2>4
    <2> QED BY <1>1, <2>2, <2>3, <2>4, <2>5, <2>6, CallUpdate
  <1>3. CASE ~(call[t].op = "forget" \/ MayTake(x, call[t].n))
    <2>1. Return(t)
      BY <1>3 DEF Look
    <2> QED BY <1>1, <2>1, ReturnTyped
  <1> QED BY <1>2, <1>3

LEMMA LoadTyped ==
  ASSUME WordInv, NEW t \in Threads, Load(t)
  PROVE  WordInv'
PROOF
  <1>1. pc[t] \in Busy
    BY DEF Load, Busy
  <1>2. words[call[t].sem] \in 0..target.usize - 1
    BY <1>1, InCallFacts
  <1> QED BY <1>1, <1>2, LookTyped DEF Load

LEMMA WeakFailsTyped ==
  ASSUME WordInv, NEW t \in Threads, WeakFails(t)
  PROVE  WordInv'
PROOF
  <1>1. pc[t] \in Busy
    BY DEF WeakFails, Busy
  <1>2. words[call[t].sem] \in 0..target.usize - 1
    BY <1>1, InCallFacts
  <1>3. /\ words' \in WordsType /\ objects' \in ObjectsType
        /\ supply' \in [Sems -> Int] /\ target' = target
    BY Facts DEF WeakFails
  <1> QED BY <1>1, <1>2, <1>3, LookTyped, ReturnTyped DEF WeakFails, AfterWeakFailure

LEMMA StrongFailsTyped ==
  ASSUME WordInv, NEW t \in Threads, StrongFails(t)
  PROVE  WordInv'
PROOF
  <1>1. pc[t] \in Busy
    BY DEF StrongFails, Busy
  <1>2. pc' = [pc EXCEPT ![t] = "reload"] /\ pc'[t] = "reload"
    BY Facts DEF StrongFails, Goto
  <1>3. pc'[t] \in Busy /\ pc'[t] \notin {"strong", "weak"}
    BY <1>2 DEF Busy
  <1>4. /\ call' = [call EXCEPT ![t] = call'[t]] /\ call'[t] = call[t]
        /\ curr' = [curr EXCEPT ![t] = curr'[t]] /\ curr'[t] \in 0..target.usize - 1
    BY Facts DEF StrongFails
  <1>5. /\ call'[t] \in CallType /\ call'[t] # None
        /\ call'[t].op # "forget" => call'[t].n < target.u32
    BY <1>1, <1>4, InCallFacts DEF WordInv, InCall
  <1>6. /\ words' \in WordsType /\ objects' \in ObjectsType
        /\ supply' \in [Sems -> Int] /\ target' = target
    BY Facts DEF StrongFails
  <1> QED BY <1>2, <1>3, <1>4, <1>5, <1>6, CallUpdate

(* An exchange that takes permits.                                         *)
LEMMA AcquireFacts ==
  ASSUME WordInv, NEW t \in Threads, AcquireExchanges(t),
         NEW s, s = call[t].sem, NEW n, n = call[t].n
  PROVE  /\ s \in Sems /\ n \in Nat /\ n < target.u32
         /\ words[s] \in 0..target.usize - 1 /\ MayTake(words[s], n)
         /\ words' = [words EXCEPT ![s] = words[s] - Shift(n)]
         /\ words' \in WordsType /\ objects' \in ObjectsType
         /\ \E o \in Objects :
              /\ objects[o] = None
              /\ objects' = [objects EXCEPT ![o] = [sem |-> s, permits |-> n]]
PROOF
  <1>1. pc[t] \in Busy /\ pc[t] \in {"strong", "weak"} /\ call[t].op # "forget"
    BY DEF AcquireExchanges, Busy
  <1>2. /\ s \in Sems /\ n \in Nat /\ n < target.u32
        /\ words[s] \in 0..target.usize - 1 /\ curr[t] = words[s]
    BY <1>1, InCallFacts DEF AcquireExchanges, Unchanged
  <1>3. MayTake(words[s], n)
    BY <1>1, <1>2 DEF WordInv, LoadedEnough
  <1>4. words' = [words EXCEPT ![s] = words[s] - Shift(n)]
    BY <1>2 DEF AcquireExchanges
  <1>5. words' \in WordsType
    <2>1. words[s] >= Shift(n)
      BY <1>3 DEF MayTake
    <2>2. words[s] - Shift(n) \in 0..target.usize - 1
      BY <1>2, <2>1, TakeIs, Facts
    <2> QED BY <1>4, <2>2, Facts DEF WordsType, AcquireExchanges
  <1>6. PICK o \in Objects :
          /\ objects[o] = None
          /\ objects' = [objects EXCEPT ![o] = [sem |-> s, permits |-> n]]
    BY DEF AcquireExchanges, Create, Live
  <1>7. objects' \in ObjectsType
    <2>1. [sem |-> s, permits |-> n] \in ObjectType
      BY <1>2, Facts, TargetFacts DEF ObjectType
    <2> QED BY <1>6, <2>1, Facts DEF ObjectsType, AcquireExchanges
  <1> QED BY <1>2, <1>3, <1>4, <1>5, <1>6, <1>7
LEMMA AcquireTyped ==
  ASSUME WordInv, NEW t \in Threads, AcquireExchanges(t)
  PROVE  WordInv'
PROOF
  <1>1. words' \in WordsType /\ objects' \in ObjectsType
    BY AcquireFacts
  <1>2. Return(t) /\ target' = target /\ supply' \in [Sems -> Int]
    BY Facts DEF AcquireExchanges
  <1> QED BY <1>1, <1>2, ReturnTyped

(* An exchange that removes permits.                                       *)
LEMMA RemoveFacts ==
  ASSUME WordInv, NEW t \in Threads, ForgetExchanges(t),
         NEW s, s = call[t].sem, NEW k, k = Removed(curr[t], call[t].n)
  PROVE  /\ s \in Sems /\ k \in Nat /\ words[s] \in 0..target.usize - 1
         /\ IsClosed(Without(words[s], k)) <=> IsClosed(words[s])
         /\ Count(Without(words[s], k)) = Count(words[s]) - k
         /\ words' = [words EXCEPT ![s] = Without(words[s], k)]
         /\ supply' = [supply EXCEPT ![s] = supply[s] - k]
         /\ words' \in WordsType /\ supply' \in [Sems -> Int]
PROOF
  <1>1. pc[t] \in Busy
    BY DEF ForgetExchanges, Busy
  <1>2. /\ s \in Sems /\ call[t].n \in Nat
        /\ words[s] \in 0..target.usize - 1 /\ curr[t] = words[s]
    BY <1>1, InCallFacts DEF ForgetExchanges, Unchanged
  <1>3. /\ k \in Nat /\ Without(words[s], k) \in 0..target.usize - 1
        /\ IsClosed(Without(words[s], k)) <=> IsClosed(words[s])
        /\ Count(Without(words[s], k)) = Count(words[s]) - k
    BY <1>2, WithoutIs, Facts
  <1>4. /\ words' = [words EXCEPT ![s] = Without(words[s], k)]
        /\ supply' = [supply EXCEPT ![s] = supply[s] - k]
    BY <1>2 DEF ForgetExchanges
  <1>5. words' \in WordsType /\ supply' \in [Sems -> Int]
    BY <1>2, <1>3, <1>4, Facts DEF WordsType, ForgetExchanges
  <1> QED BY <1>2, <1>3, <1>4, <1>5

LEMMA RemoveTyped ==
  ASSUME WordInv, NEW t \in Threads, ForgetExchanges(t)
  PROVE  WordInv'
PROOF
  <1>1. words' \in WordsType /\ supply' \in [Sems -> Int]
    BY RemoveFacts
  <1>2. Return(t) /\ target' = target /\ objects' \in ObjectsType
    BY Facts DEF ForgetExchanges
  <1> QED BY <1>1, <1>2, ReturnTyped

(* A fetch_add.                                                            *)
LEMMA FetchAddTyped ==
  ASSUME WordInv, NEW s \in Sems, NEW n \in Nat, FetchAdd(s, n), target' = target
  PROVE  words' \in WordsType
PROOF
  <1>1. words[s] \in 0..target.usize - 1
    BY Facts DEF WordsType
  <1>2. Plus(words[s], n) \in 0..target.usize - 1
    BY <1>1, Facts, PlusIs
  <1> QED BY <1>2, Facts DEF FetchAdd, WordsType

LEMMA AddTyped ==
  ASSUME WordInv, NEW t \in Threads, NEW s \in Sems, AddPermits(t, s)
  PROVE  WordInv'
PROOF
  <1>1. PICK n \in Nat : FetchAdd(s, n) /\ supply' = [supply EXCEPT ![s] = @ + n]
    BY Facts, TargetFacts DEF AddPermits, UsizeArgs
  <1>2. UNCHANGED <<target, call, curr>> /\ objects' \in ObjectsType
    BY Facts DEF AddPermits
  <1>3. words' \in WordsType
    BY <1>1, <1>2, FetchAddTyped
  <1>4. supply' \in [Sems -> Int]
    BY <1>1, Facts
  <1>5. pc' = pc \/ Goto(t, "panicked")
    BY DEF AddPermits, Panics
  <1> QED BY <1>2, <1>3, <1>4, <1>5, IdleUpdate DEF AddPermits, Idle

LEMMA CloseTyped ==
  ASSUME WordInv, NEW t \in Threads, NEW s \in Sems, Close(t, s)
  PROVE  WordInv'
PROOF
  <1>1. words[s] \in 0..target.usize - 1
    BY Facts DEF WordsType
  <1>2. words' \in WordsType
    BY <1>1, Facts, CloseIs DEF Close, WordsType
  <1> QED BY <1>2, Facts, IdleUpdate DEF Close, Idle

(* What a live object is.                                                  *)
LEMMA LiveFacts ==
  ASSUME WordInv, NEW o \in Live
  PROVE  /\ o \in Objects /\ objects[o] \in ObjectType /\ objects[o] # None
         /\ objects[o].sem \in Sems /\ objects[o].permits \in Nat
         /\ objects[o].permits < target.u32
PROOF
  <1>1. o \in Objects /\ objects[o] # None
    BY DEF Live
  <1>2. objects[o] \in ObjectType
    BY <1>1, Facts DEF ObjectsType
  <1> QED BY <1>1, <1>2, Facts, TargetFacts DEF ObjectType

LEMMA DropTyped ==
  ASSUME WordInv, NEW t \in Threads, NEW o \in Objects, DropPermit(t, o)
  PROVE  WordInv'
PROOF
  <1>1. o \in Live /\ FetchAdd(objects[o].sem, objects[o].permits) /\ target' = target
    BY DEF DropPermit
  <1>2. words' \in WordsType
    BY <1>1, LiveFacts, FetchAddTyped
  <1>3. objects' \in ObjectsType
    BY Facts DEF DropPermit, ObjectsType
  <1>4. pc' = pc \/ Goto(t, "panicked")
    BY DEF DropPermit, Panics
  <1> QED BY <1>2, <1>3, <1>4, Facts, IdleUpdate DEF DropPermit, Idle

LEMMA ForgetTyped ==
  ASSUME WordInv, NEW t \in Threads, NEW o \in Objects, ForgetPermit(t, o)
  PROVE  WordInv'
PROOF
  <1>1. o \in Live
    BY DEF ForgetPermit
  <1>2. objects' \in ObjectsType
    BY Facts DEF ForgetPermit, ObjectsType
  <1>3. supply' \in [Sems -> Int]
    BY <1>1, LiveFacts, Facts DEF ForgetPermit
  <1> QED BY <1>2, <1>3, Facts, IdleUpdate DEF ForgetPermit, Idle

(* A merge of two objects of one semaphore.                                *)
LEMMA MergeFacts ==
  ASSUME WordInv, NEW t \in Threads, NEW o \in Objects, NEW p \in Objects, Merge(t, o, p)
  PROVE  /\ o \in Live /\ p \in Live \ {o} /\ objects[p].sem = objects[o].sem
         /\ \E m \in Nat :
              /\ m < target.u32 /\ m = MergedSum(o, p) % target.u32
              /\ objects' = [objects EXCEPT ![o] = [sem |-> objects[o].sem, permits |-> m],
                                            ![p] = None]
         /\ objects' \in ObjectsType
PROOF
  <1>1. o \in Live /\ p \in Live \ {o} /\ objects[p].sem = objects[o].sem
    BY DEF Merge, Mergeable
  <1>2. PICK u \in Nat \ {0} : u = target.u32
    BY Facts, TargetFacts
  <1>3. PICK a \in Nat : a = MergedSum(o, p)
    BY <1>1, LiveFacts DEF MergedSum
  <1>4. PICK m \in Nat : m = a % u /\ m < u
    BY DivMod
  <1>5. PICK z : z = [sem |-> objects[o].sem, permits |-> m]
    OBVIOUS
  <1>6. z \in ObjectType
    BY <1>1, <1>2, <1>4, <1>5, LiveFacts DEF ObjectType
  <1>7. [objects[o] EXCEPT !.permits = m] = z
    BY <1>1, <1>5, LiveFacts DEF ObjectType
  <1>8. objects' = [objects EXCEPT ![o] = z, ![p] = None]
    BY <1>2, <1>3, <1>4, <1>7 DEF Merge
  <1>9. objects' \in ObjectsType
    <2>1. [objects EXCEPT ![o] = z, ![p] = None] \in ObjectsType
      BY <1>6, Facts DEF ObjectsType
    <2> QED BY <1>8, <2>1, Facts DEF Merge, ObjectsType, ObjectType
  <1> QED BY <1>1, <1>2, <1>3, <1>4, <1>5, <1>8, <1>9

LEMMA MergeTyped ==
  ASSUME WordInv, NEW t \in Threads, NEW o \in Objects, NEW p \in Objects, Merge(t, o, p)
  PROVE  WordInv'
PROOF
  <1>1. objects' \in ObjectsType
    BY MergeFacts
  <1> QED BY <1>1, Facts, IdleUpdate DEF Merge, Idle

LEMMA MergePanicsTyped ==
  ASSUME WordInv, NEW t \in Threads, NEW o \in Objects, NEW p \in Objects,
         MergePanics(t, o, p)
  PROVE  WordInv'
PROOF
  <1>1. p \in Live /\ FetchAdd(objects[p].sem, objects[p].permits) /\ target' = target
    BY DEF MergePanics
  <1>2. words' \in WordsType
    BY <1>1, LiveFacts, FetchAddTyped
  <1>3. objects' \in ObjectsType
    BY Facts DEF MergePanics, ObjectsType
  <1>4. Goto(t, "panicked")
    BY DEF MergePanics, Panics
  <1> QED BY <1>2, <1>3, <1>4, Facts, IdleUpdate DEF MergePanics, Idle

(* A split.                                                                *)
LEMMA SplitFacts ==
  ASSUME WordInv, NEW t \in Threads, NEW o \in Objects, Split(t, o)
  PROVE  /\ o \in Live
         /\ \E n \in Nat, r \in Nat, q \in Objects \ Live :
              /\ n < target.u32 /\ r = objects[o].permits - n
              /\ objects' = [objects EXCEPT ![o] = [sem |-> objects[o].sem, permits |-> r],
                                            ![q] = [sem |-> objects[o].sem, permits |-> n]]
         /\ objects' \in ObjectsType
PROOF
  <1>1. o \in Live
    BY DEF Split
  <1>2. PICK n \in U32Args, q \in Objects \ Live :
          /\ n <= objects[o].permits
          /\ objects' = [objects EXCEPT ![o].permits = Rest(o, n),
                                        ![q] = [sem |-> objects[o].sem, permits |-> n]]
    BY DEF Split
  <1>3. n \in Nat /\ n < target.u32
    BY Facts, TargetFacts DEF U32Args
  <1>4. PICK r \in Nat : r = objects[o].permits - n /\ r = Rest(o, n)
    BY <1>1, <1>2, <1>3, LiveFacts DEF Rest
  <1>5. PICK y, z : /\ y = [sem |-> objects[o].sem, permits |-> n]
                    /\ z = [sem |-> objects[o].sem, permits |-> r]
    OBVIOUS
  <1>6. r < target.u32
    BY <1>1, <1>3, <1>4, LiveFacts, Facts, TargetFacts
  <1>7. y \in ObjectType /\ z \in ObjectType
    <2>1. objects[o].sem \in Sems
      BY <1>1, LiveFacts
    <2>2. n \in 0..target.u32 - 1 /\ r \in 0..target.u32 - 1
      BY <1>3, <1>6, Facts, TargetFacts
    <2> QED BY <1>5, <2>1, <2>2 DEF ObjectType
  <1>8. [objects[o] EXCEPT !.permits = r] = z
    BY <1>1, <1>5, LiveFacts DEF ObjectType
  <1>9. objects' = [objects EXCEPT ![o] = z, ![q] = y]
    BY <1>2, <1>4, <1>5, <1>8
  <1>10. objects' \in ObjectsType
    <2>1. [objects EXCEPT ![o] = z, ![q] = y] \in ObjectsType
      BY <1>7, Facts DEF ObjectsType
    <2> QED BY <1>9, <2>1, Facts DEF Split, ObjectsType, ObjectType
  <1> QED BY <1>1, <1>3, <1>4, <1>5, <1>9, <1>10

LEMMA SplitTyped ==
  ASSUME WordInv, NEW t \in Threads, NEW o \in Objects, Split(t, o)
  PROVE  WordInv'
PROOF
  BY SplitFacts, Facts, IdleUpdate DEF Split, Idle
LEMMA CallTyped ==
  ASSUME WordInv, NEW t \in Threads, NEW s \in Sems, WordCall(t, s)
  PROVE  WordInv'
PROOF
  <1>1. CASE TryAcquire(t, s)
    BY <1>1, BeginTyped, Facts, TargetFacts DEF TryAcquire
  <1>2. CASE TryAcquireMany(t, s)
    <2>1. PICK n \in U32Args : Begin(t, "many", s, n)
      BY <1>2 DEF TryAcquireMany
    <2>2. n \in Nat /\ n < target.u32 /\ n < target.usize
      BY Facts, TargetFacts DEF U32Args
    <2> QED BY <2>1, <2>2, BeginTyped
  <1>3. CASE TryAcquireNone(t, s)
    <2>1. PICK o \in Objects : objects' = [objects EXCEPT ![o] = [sem |-> s, permits |-> 0]]
      BY <1>3 DEF TryAcquireNone, Create
    <2>2. [sem |-> s, permits |-> 0] \in ObjectType
      BY Facts, TargetFacts DEF ObjectType
    <2>3. objects' \in ObjectsType
      BY <1>3, <2>1, <2>2, Facts DEF ObjectsType, TryAcquireNone
    <2> QED BY <1>3, <2>3, Facts, IdleUpdate DEF TryAcquireNone, Idle
  <1>4. CASE PollFastPath(t, s)
    <2>1. PICK n \in U32Args : Begin(t, "poll", s, n)
      BY <1>4 DEF PollFastPath
    <2>2. n \in Nat /\ n < target.u32 /\ n < target.usize
      BY Facts, TargetFacts DEF U32Args
    <2> QED BY <2>1, <2>2, BeginTyped
  <1>5. CASE ForgetPermits(t, s)
    <2>1. PICK n \in UsizeArgs : Begin(t, "forget", s, n)
      BY <1>5 DEF ForgetPermits
    <2>2. n \in Nat /\ n < target.usize
      BY Facts, TargetFacts DEF UsizeArgs
    <2> QED BY <2>1, <2>2, BeginTyped
  <1>6. CASE AddPermits(t, s)
    BY <1>6, AddTyped
  <1>7. CASE Close(t, s)
    BY <1>7, CloseTyped
  <1> QED BY <1>1, <1>2, <1>3, <1>4, <1>5, <1>6, <1>7 DEF WordCall

LEMMA StepTyped ==
  ASSUME WordInv, [Next]_vars
  PROVE  WordInv'
PROOF
  <1>1. CASE UNCHANGED vars
    BY <1>1 DEF vars, WordInv, WordTypeOK, InCall, SmallCalls, LoadedEnough,
                MayTake, IsClosed, Shift
  <1>2. ASSUME NEW t \in Threads, NEW s \in Sems, WordCall(t, s)
        PROVE  WordInv'
    BY <1>2, CallTyped
  <1>3. ASSUME NEW t \in Threads, TryAcquireManyPanics(t) \/ Recover(t)
        PROVE  WordInv'
    BY <1>3, Facts, IdleUpdate DEF TryAcquireManyPanics, Recover, Panics, Idle
  <1>4. ASSUME NEW t \in Threads, WordStep(t)
        PROVE  WordInv'
    BY <1>4, LoadTyped, AcquireTyped, RemoveTyped, StrongFailsTyped, WeakFailsTyped
       DEF WordStep
  <1>5. ASSUME NEW t \in Threads, NEW o \in Objects, ObjectCall(t, o)
        PROVE  WordInv'
    BY <1>5, DropTyped, ForgetTyped, SplitTyped, MergeTyped, MergePanicsTyped
       DEF ObjectCall
  <1>6. target.threads \subseteq Threads /\ target.sems \subseteq Sems
    BY Facts, TargetFacts
  <1> QED BY <1>1, <1>2, <1>3, <1>4, <1>5, <1>6 DEF Next

LEMMA InitTyped == Init => WordInv
PROOF
  <1> SUFFICES ASSUME Init PROVE WordInv
    OBVIOUS
  <1>1. target \in Targets
    BY DEF Init
  <1>2. 0 \in 0..target.usize - 1
    BY <1>1, TargetFacts
  <1>3. supply \in [Sems -> Nat]
    BY <1>1, TargetFacts DEF Init, UsizeArgs
  <1>4. \A n \in Nat : Shift(n) \in 0..target.usize - 1
    <2> SUFFICES ASSUME NEW n \in Nat PROVE Shift(n) \in 0..target.usize - 1
      OBVIOUS
    <2>1. PICK u \in Nat \ {0} : u = target.usize
      BY <1>1, TargetFacts
    <2>2. (2 * n) % u \in 0..u - 1
      BY DivMod
    <2> QED BY <2>1, <2>2 DEF Shift
  <1>5. WordTypeOK
    BY <1>1, <1>2, <1>3, <1>4 DEF Init, WordTypeOK
  <1> QED BY <1>5 DEF Init, WordInv, InCall, SmallCalls, LoadedEnough, Busy

LEMMA WordInvHolds == Spec => []WordInv
PROOF
  <1> QED BY InitTyped, StepTyped, PTL DEF Spec

(* Words and permit objects stay within usize and u32, whatever the widths *)
(* are: no exchange and no split takes more than there is.                 *)
THEOREM WordsDoNotUnderflow == Spec => []WordTypeOK
PROOF
  <1>1. WordInv => WordTypeOK
    BY DEF WordInv
  <1> QED BY <1>1, WordInvHolds, PTL
-----------------------------------------------------------------------------
(* What a step does to a semaphore: a closed word stays closed and hands   *)
(* out nothing; and what is in the word and the objects changes with the   *)
(* supply, but for what a sum loses that wraps.  Where requests fit that   *)
(* is nothing, or at least what can be counted.                            *)

Effect(s) ==
  /\ IsClosed(words[s]) => IsClosed(words'[s]) /\ HeldOf(s)' <= HeldOf(s)
  /\ \E d \in Int :
       /\ RequestsFit => d = 0 \/ d <= -Countable
       /\ InSystem(s)' - supply'[s] = InSystem(s) - supply[s] + d

LEMMA CountableFacts ==
  ASSUME target \in Targets
  PROVE  /\ Countable \in Nat /\ (RequestsFit => Countable <= Cap)
         /\ ~target.checked => Countable = target.u32
         /\ \A k \in Nat : RequestsFit => k * Cap = 0 \/ k * Cap >= Countable
PROOF
  <1>1. /\ Countable \in Nat /\ (RequestsFit => Countable <= Cap)
        /\ ~target.checked => Countable = target.u32
    BY TargetFacts DEF Countable, RequestsFit
  <1>2. PICK c \in Nat : c = Cap
    BY TargetFacts
  <1>3. \A k \in Nat : k = 0 \/ k * c >= c
    OBVIOUS
  <1>4. 0 * c = 0
    OBVIOUS
  <1> QED BY <1>1, <1>2, <1>3, <1>4

LEMMA SystemFacts ==
  ASSUME WordInv, WordInv', target' = target, NEW s \in Sems
  PROVE  /\ Count(words[s]) \in Nat /\ Count(words'[s]) \in Nat
         /\ HeldIn(objects, s) \in Nat /\ HeldIn(objects', s) \in Nat
         /\ supply[s] \in Int /\ supply'[s] \in Int
         /\ InSystem(s) = Count(words[s]) + HeldIn(objects, s)
         /\ InSystem(s)' = Count(words'[s]) + HeldIn(objects', s)
         /\ HeldOf(s) = HeldIn(objects, s) /\ HeldOf(s)' = HeldIn(objects', s)
         /\ objects \in ObjectsType /\ objects' \in ObjectsType
         /\ target \in Targets /\ words[s] \in 0..target.usize - 1
PROOF
  <1>1. /\ target \in Targets /\ words \in WordsType /\ words' \in WordsType
        /\ objects \in ObjectsType /\ objects' \in ObjectsType
        /\ supply \in [Sems -> Int] /\ supply' \in [Sems -> Int]
    BY DEF WordInv, WordTypeOK, WordsType, ObjectsType, ObjectType
  <1>2. words[s] \in 0..target.usize - 1 /\ words'[s] \in 0..target.usize - 1
    BY <1>1 DEF WordsType
  <1>3. Count(words[s]) \in Nat /\ Count(words'[s]) \in Nat
    BY <1>1, <1>2, TargetFacts, Halves DEF Count
  <1>4. ASSUME NEW obj \in ObjectsType PROVE HeldIn(obj, s) \in Nat
    <2>1. \A o \in Objects : WorthIn(obj, o, s) \in Nat
      BY <1>1, WorthType, TargetFacts
    <2> QED BY <2>1, PileFinite, PermitWordAssumption DEF HeldIn
  <1>5. HeldOf(s) = HeldIn(objects, s) /\ HeldOf(s)' = HeldIn(objects', s)
    BY HeldIs
  <1> QED BY <1>1, <1>2, <1>3, <1>4, <1>5 DEF InSystem

(* Objects may change; what a semaphore has in them does not.              *)
LEMMA SameHeldEffect ==
  ASSUME WordInv, WordInv', UNCHANGED <<target, words, supply>>, NEW s \in Sems,
         HeldIn(objects', s) = HeldIn(objects, s)
  PROVE  Effect(s)
PROOF
  <1>1. InSystem(s)' - supply'[s] = InSystem(s) - supply[s] + 0
    BY SystemFacts
  <1>2. HeldOf(s)' <= HeldOf(s)
    BY SystemFacts
  <1> QED BY <1>1, <1>2 DEF Effect

LEMMA NoEffect ==
  ASSUME WordInv, WordInv', UNCHANGED <<target, words, objects, supply>>, NEW s \in Sems
  PROVE  Effect(s)
PROOF
  BY SameHeldEffect

(* The sum of a fetch_add of permits that were in an object or are new.    *)
LEMMA AddEffect ==
  ASSUME WordInv, WordInv', target' = target, NEW z \in Sems, NEW n \in Nat,
         FetchAdd(z, n), NEW s \in Sems,
         s # z => supply'[s] = supply[s] /\ HeldIn(objects', s) = HeldIn(objects, s),
         s = z => supply'[s] - HeldIn(objects', s) = supply[s] - HeldIn(objects, s) + n,
         HeldIn(objects', s) <= HeldIn(objects, s)
  PROVE  Effect(s)
PROOF
  <1>1. CASE s # z
    <2>1. words'[s] = words[s]
      BY <1>1, Facts DEF FetchAdd, WordsType
    <2>2. InSystem(s)' - supply'[s] = InSystem(s) - supply[s] + 0
      BY <1>1, <2>1, SystemFacts
    <2> QED BY <2>1, <2>2, SystemFacts DEF Effect
  <1>2. CASE s = z
    <2>1. words'[s] = Plus(words[s], n)
      BY <1>2, Facts DEF FetchAdd, WordsType
    <2>2. PICK k \in Nat, p \in Nat :
            p = k * Cap /\ Count(words'[s]) = Count(words[s]) + n - p
      <3>1. words[s] \in 0..target.usize - 1 /\ target \in Targets
        BY SystemFacts
      <3> QED BY <2>1, <3>1, PlusIs
    <2>3. IsClosed(words'[s]) <=> IsClosed(words[s])
      <3>1. words[s] \in 0..target.usize - 1 /\ target \in Targets
        BY SystemFacts
      <3> QED BY <2>1, <3>1, PlusIs
    <2>4. -p \in Int /\ (RequestsFit => -p = 0 \/ -p <= -Countable)
      <3>1. Countable \in Nat /\ (RequestsFit => p = 0 \/ p >= Countable)
        BY <2>2, SystemFacts, CountableFacts
      <3> QED BY <3>1
    <2>5. InSystem(s)' - supply'[s] = InSystem(s) - supply[s] + (-p)
      <3>1. supply'[s] - HeldIn(objects', s) = supply[s] - HeldIn(objects, s) + n
        BY <1>2
      <3>2. /\ Count(words[s]) \in Nat /\ Count(words'[s]) \in Nat
            /\ HeldIn(objects, s) \in Nat /\ HeldIn(objects', s) \in Nat
            /\ supply[s] \in Int /\ supply'[s] \in Int
            /\ InSystem(s) = Count(words[s]) + HeldIn(objects, s)
            /\ InSystem(s)' = Count(words'[s]) + HeldIn(objects', s)
        BY SystemFacts
      <3> QED BY ONLY <2>2, <3>1, <3>2, n \in Nat, p \in Nat
    <2> QED BY <2>3, <2>4, <2>5, SystemFacts DEF Effect
  <1> QED BY <1>1, <1>2

(* An acquisition by exchange: the held permits grow by the request.       *)
LEMMA AcquireHeld ==
  ASSUME WordInv, WordInv', NEW t \in Threads, AcquireExchanges(t), NEW s \in Sems
  PROVE  HeldIn(objects', s) = HeldIn(objects, s)
           + (IF s = call[t].sem THEN call[t].n ELSE 0)
PROOF
  <1>1. PICK z, n : z = call[t].sem /\ n = call[t].n
    OBVIOUS
  <1>2. z \in Sems /\ n \in Nat
    BY <1>1, AcquireFacts
  <1>3. PICK o \in Objects :
          /\ objects[o] = None
          /\ objects' = [objects EXCEPT ![o] = [sem |-> z, permits |-> n]]
    BY <1>1, AcquireFacts
  <1>4. target' = target
    BY DEF AcquireExchanges
  <1>5. /\ objects \in ObjectsType /\ objects' \in ObjectsType
        /\ \A q \in Objects \ {o} : objects'[q] = objects[q]
        /\ objects'[o] = [sem |-> z, permits |-> n]
    BY <1>3, <1>4, SystemFacts DEF ObjectsType
  <1>6. HeldIn(objects', s) = HeldIn(objects, s) - WorthIn(objects, o, s)
                                + WorthIn(objects', o, s)
    BY <1>5, OneObject, Facts
  <1>7. [sem |-> z, permits |-> n] # None
    BY <1>2, PermitWordAssumption
  <1>8. /\ WorthIn(objects, o, s) = 0
        /\ WorthIn(objects', o, s) = IF s = z THEN n ELSE 0
    BY <1>3, <1>5, <1>7 DEF WorthIn
  <1>9. HeldIn(objects, s) \in Nat /\ n \in Nat
    BY <1>2, <1>4, SystemFacts
  <1>10. HeldIn(objects', s) = HeldIn(objects, s) + (IF s = z THEN n ELSE 0)
    BY ONLY <1>6, <1>8, <1>9
  <1> QED BY <1>1, <1>10

LEMMA AcquireEffect ==
  ASSUME WordInv, WordInv', NEW t \in Threads, AcquireExchanges(t), NEW s \in Sems
  PROVE  Effect(s)
PROOF
  <1>1. PICK z, n : z = call[t].sem /\ n = call[t].n
    OBVIOUS
  <1>2. /\ z \in Sems /\ n \in Nat /\ n < target.u32
        /\ words[z] \in 0..target.usize - 1 /\ MayTake(words[z], n)
        /\ words' = [words EXCEPT ![z] = words[z] - Shift(n)]
    BY <1>1, AcquireFacts
  <1>3. target' = target /\ supply' = supply
    BY DEF AcquireExchanges
  <1>4. HeldIn(objects', s) = HeldIn(objects, s) + (IF s = z THEN n ELSE 0)
    BY <1>1, AcquireHeld
  <1>5. CASE s # z
    <2>1. words'[s] = words[s] /\ HeldIn(objects', s) = HeldIn(objects, s)
      BY <1>2, <1>3, <1>4, <1>5, SystemFacts, Facts DEF WordsType
    <2>2. InSystem(s)' - supply'[s] = InSystem(s) - supply[s] + 0
      BY <1>3, <2>1, SystemFacts
    <2> QED BY <1>3, <2>1, <2>2, SystemFacts DEF Effect
  <1>6. CASE s = z
    <2>1. words'[s] = words[s] - Shift(n) /\ words[s] >= Shift(n) /\ ~IsClosed(words[s])
      BY <1>2, <1>6, Facts DEF WordsType, MayTake
    <2>2. PICK k \in Nat, p \in Nat :
            /\ p = k * Cap /\ Count(words'[s]) = Count(words[s]) - n + p
            /\ n < Cap => p = 0
      BY <1>2, <1>6, <2>1, TakeIs, Facts
    <2>3. RequestsFit => p = 0
      BY <1>2, <2>2, Facts, TargetFacts DEF RequestsFit
    <2>4. InSystem(s)' - supply'[s] = InSystem(s) - supply[s] + p
      <3>1. HeldIn(objects', s) = HeldIn(objects, s) + n /\ supply'[s] = supply[s]
        BY <1>3, <1>4, <1>6
      <3>2. /\ Count(words[s]) \in Nat /\ Count(words'[s]) \in Nat
            /\ HeldIn(objects, s) \in Nat /\ HeldIn(objects', s) \in Nat
            /\ supply[s] \in Int /\ supply'[s] \in Int
            /\ InSystem(s) = Count(words[s]) + HeldIn(objects, s)
            /\ InSystem(s)' = Count(words'[s]) + HeldIn(objects', s)
        BY <1>3, SystemFacts
      <3>3. n \in Nat
        BY <1>2
      <3> QED BY ONLY <2>2, <3>1, <3>2, <3>3, p \in Nat
    <2> QED BY <2>1, <2>3, <2>4, p \in Int DEF Effect
  <1> QED BY <1>5, <1>6

LEMMA RemoveEffect ==
  ASSUME WordInv, WordInv', NEW t \in Threads, ForgetExchanges(t), NEW s \in Sems
  PROVE  Effect(s)
PROOF
  <1>1. PICK z, k : z = call[t].sem /\ k = Removed(curr[t], call[t].n)
    OBVIOUS
  <1>2. /\ z \in Sems /\ k \in Nat
        /\ IsClosed(Without(words[z], k)) <=> IsClosed(words[z])
        /\ Count(Without(words[z], k)) = Count(words[z]) - k
        /\ words' = [words EXCEPT ![z] = Without(words[z], k)]
        /\ supply' = [supply EXCEPT ![z] = supply[z] - k]
    BY <1>1, RemoveFacts
  <1>3. target' = target /\ objects' = objects
    BY DEF ForgetExchanges
  <1>4. /\ IsClosed(words'[s]) <=> IsClosed(words[s])
        /\ HeldIn(objects', s) = HeldIn(objects, s)
        /\ Count(words'[s]) - supply'[s] = Count(words[s]) - supply[s]
    <2>1. CASE s # z
      BY <1>2, <1>3, <2>1, Facts, SystemFacts DEF WordsType
    <2>2. CASE s = z
      <3>1. words'[s] = Without(words[z], k) /\ supply'[s] = supply[s] - k
        BY <1>2, <2>2, Facts DEF WordsType
      <3>2. Count(words[s]) \in Nat /\ supply[s] \in Int
        BY <1>3, SystemFacts
      <3> QED BY <1>2, <1>3, <2>2, <3>1, <3>2
    <2> QED BY <2>1, <2>2
  <1>5. InSystem(s)' - supply'[s] = InSystem(s) - supply[s] + 0
    <2>1. /\ HeldIn(objects, s) \in Nat /\ supply[s] \in Int /\ supply'[s] \in Int
          /\ Count(words[s]) \in Nat /\ Count(words'[s]) \in Nat
          /\ InSystem(s) = Count(words[s]) + HeldIn(objects, s)
          /\ InSystem(s)' = Count(words'[s]) + HeldIn(objects', s)
      BY <1>3, SystemFacts
    <2> QED BY ONLY <1>4, <2>1
  <1> QED BY <1>3, <1>4, <1>5, SystemFacts DEF Effect

LEMMA AddPermitsEffect ==
  ASSUME WordInv, WordInv', NEW t \in Threads, NEW z \in Sems, AddPermits(t, z),
         NEW s \in Sems
  PROVE  Effect(s)
PROOF
  <1>1. PICK n \in Nat : FetchAdd(z, n) /\ supply' = [supply EXCEPT ![z] = @ + n]
    BY Facts, TargetFacts DEF AddPermits, UsizeArgs
  <1>2. target' = target /\ objects' = objects
    BY DEF AddPermits
  <1>3. /\ s # z => supply'[s] = supply[s]
        /\ s = z => supply'[s] = supply[s] + n
    BY <1>1, Facts
  <1>4. /\ HeldIn(objects', s) = HeldIn(objects, s) /\ HeldIn(objects', s) \in Nat
        /\ supply[s] \in Int
    BY <1>2, SystemFacts
  <1>5. s = z => supply'[s] - HeldIn(objects', s) = supply[s] - HeldIn(objects, s) + n
    BY <1>3, <1>4
  <1> QED BY <1>1, <1>2, <1>3, <1>4, <1>5, AddEffect

LEMMA CloseEffect ==
  ASSUME WordInv, WordInv', NEW t \in Threads, NEW z \in Sems, Close(t, z),
         NEW s \in Sems
  PROVE  Effect(s)
PROOF
  <1>1. UNCHANGED <<target, objects, supply>>
    BY DEF Close
  <1>2. /\ IsClosed(words[s]) => IsClosed(words'[s])
        /\ Count(words'[s]) = Count(words[s])
    <2>1. words'[s] = words[s] \/ (~IsClosed(words[s]) /\ words'[s] = words[s] + 1)
      BY Facts DEF Close, WordsType
    <2>2. words[s] \in 0..target.usize - 1
      BY <1>1, SystemFacts
    <2> QED BY <2>1, <2>2, Facts, CloseIs
  <1>3. InSystem(s)' - supply'[s] = InSystem(s) - supply[s] + 0
    BY <1>1, <1>2, SystemFacts
  <1>4. HeldOf(s)' <= HeldOf(s)
    BY <1>1, SystemFacts
  <1> QED BY <1>2, <1>3, <1>4 DEF Effect

(* One object goes away.                                                   *)
LEMMA ObjectGone ==
  ASSUME WordInv, WordInv', target' = target, NEW o \in Live,
         objects' = [objects EXCEPT ![o] = None], NEW s \in Sems
  PROVE  /\ s # objects[o].sem => HeldIn(objects', s) = HeldIn(objects, s)
         /\ s = objects[o].sem =>
              HeldIn(objects', s) = HeldIn(objects, s) - objects[o].permits
         /\ HeldIn(objects', s) <= HeldIn(objects, s)
PROOF
  <1>1. /\ o \in Objects /\ objects[o] # None
        /\ objects[o].sem \in Sems /\ objects[o].permits \in Nat
    BY LiveFacts
  <1>2. /\ objects \in ObjectsType /\ objects' \in ObjectsType
        /\ \A q \in Objects \ {o} : objects'[q] = objects[q]
        /\ objects'[o] = None
    BY <1>1, SystemFacts DEF ObjectsType
  <1>3. HeldIn(objects', s) = HeldIn(objects, s) - WorthIn(objects, o, s)
                                + WorthIn(objects', o, s)
    BY <1>1, <1>2, OneObject, Facts
  <1>4. /\ WorthIn(objects', o, s) = 0
        /\ WorthIn(objects, o, s) = IF s = objects[o].sem THEN objects[o].permits ELSE 0
    BY <1>1, <1>2 DEF WorthIn
  <1>5. HeldIn(objects, s) \in Nat /\ HeldIn(objects', s) \in Nat
    BY SystemFacts
  <1> QED BY <1>1, <1>3, <1>4, <1>5

LEMMA DropEffect ==
  ASSUME WordInv, WordInv', NEW o \in Live, objects' = [objects EXCEPT ![o] = None],
         FetchAdd(objects[o].sem, objects[o].permits), UNCHANGED <<target, supply>>,
         NEW s \in Sems
  PROVE  Effect(s)
PROOF
  <1>1. PICK z \in Sems, n \in Nat : z = objects[o].sem /\ n = objects[o].permits
    BY LiveFacts
  <1>2. /\ s # z => HeldIn(objects', s) = HeldIn(objects, s)
        /\ s = z => HeldIn(objects', s) = HeldIn(objects, s) - n
        /\ HeldIn(objects', s) <= HeldIn(objects, s)
    BY <1>1, ObjectGone
  <1>3. /\ HeldIn(objects, s) \in Nat /\ HeldIn(objects', s) \in Nat
        /\ supply[s] \in Int /\ supply'[s] = supply[s]
    BY SystemFacts
  <1>4. s = z => supply'[s] - HeldIn(objects', s) = supply[s] - HeldIn(objects, s) + n
    BY <1>2, <1>3
  <1>5. FetchAdd(z, n)
    BY <1>1
  <1> QED BY <1>2, <1>3, <1>4, <1>5, AddEffect

LEMMA ForgetEffect ==
  ASSUME WordInv, WordInv', NEW t \in Threads, NEW o \in Objects, ForgetPermit(t, o),
         NEW s \in Sems
  PROVE  Effect(s)
PROOF
  <1>1. o \in Live /\ UNCHANGED <<target, words>> /\ objects' = [objects EXCEPT ![o] = None]
    BY DEF ForgetPermit
  <1>2. PICK z \in Sems, n \in Nat : z = objects[o].sem /\ n = objects[o].permits
    BY <1>1, LiveFacts
  <1>3. /\ s # z => HeldIn(objects', s) = HeldIn(objects, s)
        /\ s = z => HeldIn(objects', s) = HeldIn(objects, s) - n
        /\ HeldIn(objects', s) <= HeldIn(objects, s)
    BY <1>1, <1>2, ObjectGone
  <1>4. /\ s # z => supply'[s] = supply[s]
        /\ s = z => supply'[s] = supply[s] - n
    BY <1>2, Facts DEF ForgetPermit
  <1>5. InSystem(s)' - supply'[s] = InSystem(s) - supply[s] + 0
    <2>1. /\ HeldIn(objects, s) \in Nat /\ HeldIn(objects', s) \in Nat
          /\ supply[s] \in Int /\ Count(words[s]) \in Nat
          /\ InSystem(s) = Count(words[s]) + HeldIn(objects, s)
          /\ InSystem(s)' = Count(words[s]) + HeldIn(objects', s)
      BY <1>1, SystemFacts
    <2> QED BY ONLY <1>3, <1>4, <2>1, n \in Nat
  <1>6. HeldOf(s)' <= HeldOf(s)
    BY <1>1, <1>3, SystemFacts
  <1> QED BY <1>1, <1>5, <1>6 DEF Effect
LEMMA SumWraps ==
  ASSUME NEW u \in Nat \ {0}, NEW a \in 0..u - 1, NEW b \in 0..u - 1
  PROVE  /\ a + b < u => (a + b) % u = a + b
         /\ a + b >= u => (a + b) % u = a + b - u
PROOF
  <1>1. PICK c \in Int : c = a + b /\ c >= 0 /\ c < 2 * u
    OBVIOUS
  <1>2. PICK q \in Int, r \in 0..u - 1 : c % u = r /\ c = u * q + r
    BY DivMod
  <1>3. q >= 2 => u * q >= 2 * u
    OBVIOUS
  <1>4. q <= -1 => u * q <= -u
    OBVIOUS
  <1>5. q = 0 \/ q = 1
    BY <1>1, <1>2, <1>3, <1>4
  <1>6. u * 0 = 0 /\ u * 1 = u
    OBVIOUS
  <1> QED BY <1>1, <1>2, <1>5, <1>6

(* A merge: only a sum that wraps changes what is held.                    *)
LEMMA MergeHeld ==
  ASSUME WordInv, WordInv', NEW t \in Threads, NEW o \in Objects, NEW p \in Objects,
         Merge(t, o, p), NEW s \in Sems
  PROVE  LET lost == s = objects[p].sem /\ ~SumFits(o, p)
         IN  HeldIn(objects', s) = HeldIn(objects, s) - (IF lost THEN target.u32 ELSE 0)
PROOF
  <1>1. /\ o \in Live /\ p \in Live \ {o} /\ objects[p].sem = objects[o].sem
        /\ UNCHANGED <<target, words>>
    BY MergeFacts DEF Merge
  <1>2. PICK z \in Sems, a \in Nat, b \in Nat, u \in Nat \ {0} :
          /\ z = objects[o].sem /\ z = objects[p].sem
          /\ a = objects[o].permits /\ b = objects[p].permits /\ u = target.u32
          /\ a < u /\ b < u
    BY <1>1, LiveFacts, Facts, TargetFacts
  <1>3. PICK m \in Nat :
          /\ m = (a + b) % u
          /\ objects' = [objects EXCEPT ![o] = [sem |-> z, permits |-> m], ![p] = None]
    BY <1>2, MergeFacts DEF MergedSum
  <1>4. /\ a + b < u => m = a + b
        /\ a + b >= u => m = a + b - u
    BY <1>2, <1>3, SumWraps
  <1>5. SumFits(o, p) <=> a + b < u
    BY <1>2 DEF SumFits, MergedSum
  <1>6. /\ objects \in ObjectsType /\ objects' \in ObjectsType
        /\ o \in Objects /\ p \in Objects \ {o} /\ objects[o] # None /\ objects[p] # None
        /\ \A q \in Objects \ {o, p} : objects'[q] = objects[q]
        /\ objects'[o] = [sem |-> z, permits |-> m] /\ objects'[p] = None
    BY <1>1, <1>3, LiveFacts, SystemFacts DEF ObjectsType
  <1>7. HeldIn(objects', s) = HeldIn(objects, s)
          - WorthIn(objects, o, s) - WorthIn(objects, p, s)
          + WorthIn(objects', o, s) + WorthIn(objects', p, s)
    BY <1>6, TwoObjects, Facts
  <1>8. [sem |-> z, permits |-> m] # None
    BY PermitWordAssumption
  <1>9. /\ WorthIn(objects, o, s) = IF s = z THEN a ELSE 0
        /\ WorthIn(objects, p, s) = IF s = z THEN b ELSE 0
        /\ WorthIn(objects', o, s) = IF s = z THEN m ELSE 0
        /\ WorthIn(objects', p, s) = 0
    BY <1>2, <1>6, <1>8 DEF WorthIn
  <1>10. HeldIn(objects, s) \in Nat /\ HeldIn(objects', s) \in Nat
    BY <1>1, SystemFacts
  <1>11. LET lost == s = z /\ ~(a + b < u)
         IN  HeldIn(objects', s) = HeldIn(objects, s) - (IF lost THEN u ELSE 0)
    <2>1. CASE s # z
      BY ONLY <2>1, <1>7, <1>9, <1>10
    <2>2. CASE s = z
      BY ONLY <2>2, <1>4, <1>7, <1>9, <1>10, a \in Nat, b \in Nat, m \in Nat,
              u \in Nat
    <2> QED BY <2>1, <2>2
  <1> QED BY <1>2, <1>5, <1>11

LEMMA MergeEffect ==
  ASSUME WordInv, WordInv', NEW t \in Threads, NEW o \in Objects, NEW p \in Objects,
         Merge(t, o, p), NEW s \in Sems
  PROVE  Effect(s)
PROOF
  <1>1. UNCHANGED <<target, words, supply>>
    BY DEF Merge
  <1>2. PICK u \in Nat : u = target.u32
    BY Facts, TargetFacts
  <1>3. PICK x \in {0, u} : /\ HeldIn(objects', s) = HeldIn(objects, s) - x
                            /\ x = u /\ u # 0 => ~SumFits(o, p)
    BY <1>2, MergeHeld
  <1>4. x = 0 \/ x = Countable
    <2>1. ~SumFits(o, p) => ~target.checked
      BY DEF Merge
    <2> QED BY <1>2, <1>3, <2>1, Facts, CountableFacts
  <1>5. /\ HeldIn(objects, s) \in Nat /\ HeldIn(objects', s) \in Nat
        /\ supply[s] \in Int /\ Count(words[s]) \in Nat
        /\ InSystem(s) = Count(words[s]) + HeldIn(objects, s)
        /\ InSystem(s)' = Count(words[s]) + HeldIn(objects', s)
    BY <1>1, SystemFacts
  <1>6. /\ InSystem(s)' - supply[s] = InSystem(s) - supply[s] + (-x)
        /\ HeldIn(objects', s) <= HeldIn(objects, s) /\ -x \in Int
    BY ONLY <1>3, <1>5, u \in Nat
  <1>7. HeldOf(s)' <= HeldOf(s)
    BY <1>1, <1>6, SystemFacts
  <1>8. -x = 0 \/ -x <= -Countable
    BY <1>3, <1>4
  <1> QED BY <1>1, <1>6, <1>7, <1>8 DEF Effect

(* A split divides what an object holds.                                   *)
LEMMA SplitHeld ==
  ASSUME WordInv, WordInv', NEW t \in Threads, NEW o \in Objects, Split(t, o),
         NEW s \in Sems
  PROVE  HeldIn(objects', s) = HeldIn(objects, s)
PROOF
  <1>1. o \in Live /\ UNCHANGED <<target, words, supply>>
    BY DEF Split
  <1>2. PICK z \in Sems, a \in Nat : z = objects[o].sem /\ a = objects[o].permits
    BY <1>1, LiveFacts
  <1>3. PICK n \in Nat, r \in Nat, q \in Objects \ Live :
          /\ r = a - n
          /\ objects' = [objects EXCEPT ![o] = [sem |-> z, permits |-> r],
                                        ![q] = [sem |-> z, permits |-> n]]
    BY <1>2, SplitFacts
  <1>4. /\ objects \in ObjectsType /\ objects' \in ObjectsType
        /\ o \in Objects /\ q \in Objects \ {o} /\ objects[o] # None /\ objects[q] = None
        /\ \A i \in Objects \ {o, q} : objects'[i] = objects[i]
        /\ objects'[o] = [sem |-> z, permits |-> r]
        /\ objects'[q] = [sem |-> z, permits |-> n]
    <2>1. o \in Objects /\ objects[o] # None /\ q \in Objects \ {o} /\ objects[q] = None
      BY <1>1, LiveFacts DEF Live
    <2> QED BY <1>1, <1>3, <2>1, SystemFacts DEF ObjectsType
  <1>5. HeldIn(objects', s) = HeldIn(objects, s)
          - WorthIn(objects, o, s) - WorthIn(objects, q, s)
          + WorthIn(objects', o, s) + WorthIn(objects', q, s)
    BY <1>4, TwoObjects, Facts
  <1>6. [sem |-> z, permits |-> r] # None /\ [sem |-> z, permits |-> n] # None
    BY PermitWordAssumption
  <1>7. /\ WorthIn(objects, o, s) = IF s = z THEN a ELSE 0
        /\ WorthIn(objects, q, s) = 0
        /\ WorthIn(objects', o, s) = IF s = z THEN r ELSE 0
        /\ WorthIn(objects', q, s) = IF s = z THEN n ELSE 0
    BY <1>2, <1>4, <1>6 DEF WorthIn
  <1>8. HeldIn(objects, s) \in Nat /\ HeldIn(objects', s) \in Nat
    BY <1>1, SystemFacts
  <1> QED BY ONLY <1>3, <1>5, <1>7, <1>8, a \in Nat, n \in Nat, r \in Nat

(* A permit object of no permits.                                          *)
LEMMA NoneHeld ==
  ASSUME WordInv, WordInv', NEW t \in Threads, NEW z \in Sems, TryAcquireNone(t, z),
         NEW s \in Sems
  PROVE  HeldIn(objects', s) = HeldIn(objects, s)
PROOF
  <1>1. UNCHANGED <<target, words, supply>>
    BY DEF TryAcquireNone
  <1>2. PICK o \in Objects :
          /\ objects[o] = None
          /\ objects' = [objects EXCEPT ![o] = [sem |-> z, permits |-> 0]]
    BY DEF TryAcquireNone, Create, Live
  <1>3. /\ objects \in ObjectsType /\ objects' \in ObjectsType
        /\ \A q \in Objects \ {o} : objects'[q] = objects[q]
        /\ objects'[o] = [sem |-> z, permits |-> 0]
    BY <1>1, <1>2, SystemFacts DEF ObjectsType
  <1>4. HeldIn(objects', s) = HeldIn(objects, s) - WorthIn(objects, o, s)
                                + WorthIn(objects', o, s)
    BY <1>3, OneObject, Facts
  <1>5. WorthIn(objects, o, s) = 0 /\ WorthIn(objects', o, s) = 0
    BY <1>2, <1>3 DEF WorthIn
  <1> QED BY <1>1, <1>4, <1>5, SystemFacts

LEMMA StepEffect ==
  ASSUME WordInv, WordInv', [Next]_vars, NEW s \in Sems
  PROVE  Effect(s)
PROOF
  <1>1. CASE UNCHANGED vars
    BY <1>1, NoEffect DEF vars
  <1>2. ASSUME NEW t \in Threads, NEW z \in Sems, WordCall(t, z)
        PROVE  Effect(s)
    <2>1. CASE TryAcquireNone(t, z)
      BY <2>1, NoneHeld, SameHeldEffect DEF TryAcquireNone
    <2>2. CASE AddPermits(t, z)
      BY <2>2, AddPermitsEffect
    <2>3. CASE Close(t, z)
      BY <2>3, CloseEffect
    <2>4. CASE TryAcquire(t, z) \/ TryAcquireMany(t, z) \/ PollFastPath(t, z)
                 \/ ForgetPermits(t, z)
      BY <2>4, NoEffect DEF TryAcquire, TryAcquireMany, PollFastPath, ForgetPermits, Begin
    <2> QED BY <1>2, <2>1, <2>2, <2>3, <2>4 DEF WordCall
  <1>3. ASSUME NEW t \in Threads, TryAcquireManyPanics(t) \/ Recover(t)
        PROVE  Effect(s)
    BY <1>3, NoEffect DEF TryAcquireManyPanics, Recover
  <1>4. ASSUME NEW t \in Threads, WordStep(t)
        PROVE  Effect(s)
    <2>1. CASE AcquireExchanges(t)
      BY <2>1, AcquireEffect
    <2>2. CASE ForgetExchanges(t)
      BY <2>2, RemoveEffect
    <2>3. CASE Load(t) \/ StrongFails(t) \/ WeakFails(t)
      BY <2>3, NoEffect DEF Load, StrongFails, WeakFails
    <2> QED BY <1>4, <2>1, <2>2, <2>3 DEF WordStep
  <1>5. ASSUME NEW t \in Threads, NEW o \in Objects, ObjectCall(t, o)
        PROVE  Effect(s)
    <2>1. CASE DropPermit(t, o)
      BY <2>1, DropEffect DEF DropPermit
    <2>2. CASE ForgetPermit(t, o)
      BY <2>2, ForgetEffect
    <2>3. CASE Split(t, o)
      BY <2>3, SplitHeld, SameHeldEffect DEF Split
    <2>4. ASSUME NEW p \in Objects, Merge(t, o, p) \/ MergePanics(t, o, p)
          PROVE  Effect(s)
      BY <2>4, MergeEffect, DropEffect DEF MergePanics
    <2> QED BY <1>5, <2>1, <2>2, <2>3, <2>4 DEF ObjectCall
  <1>6. target.threads \subseteq Threads /\ target.sems \subseteq Sems
    BY Facts, TargetFacts
  <1> QED BY <1>1, <1>2, <1>3, <1>4, <1>5, <1>6 DEF Next

(* "Once closed, a semaphore cannot be reopened", in any interleaving and  *)
(* whatever sums wrap: fetch_add adds even numbers to the word.            *)
THEOREM NeverReopened == Spec => ClosedForever
PROOF
  <1>1. ASSUME WordInv, WordInv', [Next]_vars
        PROVE  [\A s \in Sems : IsClosed(words[s]) => IsClosed(words'[s])]_vars
    BY <1>1, StepEffect DEF Effect
  <1> QED BY <1>1, WordInvHolds, PTL DEF Spec, ClosedForever

(* No thread that loaded the word before close() gets permits after it.    *)
THEOREM ClosedIssuesNothing == Spec => NothingIssuedAfterClose
PROOF
  <1>1. ASSUME WordInv, WordInv', [Next]_vars
        PROVE  [\A s \in Sems : IsClosed(words[s]) => HeldOf(s)' <= HeldOf(s)]_vars
    BY <1>1, StepEffect DEF Effect
  <1> QED BY <1>1, WordInvHolds, PTL DEF Spec, NothingIssuedAfterClose

-----------------------------------------------------------------------------
(* The account.                                                            *)

(* Where requests fit, all permits are there, or as many as can be counted *)
(* were lost: then at least so many were created.                          *)
Accounts ==
  RequestsFit =>
    \A s \in Sems : \/ InSystem(s) = supply[s]
                    \/ InSystem(s) <= supply[s] - Countable

LEMMA InitAccounts == Init => Accounts
PROOF
  <1> SUFFICES ASSUME Init, NEW s \in Sems PROVE InSystem(s) = supply[s]
    BY DEF Accounts
  <1>1. WordInv /\ target \in Targets
    BY InitTyped DEF WordInv, WordTypeOK
  <1>2. PICK n \in Nat, h \in Nat \ {0} :
          n = supply[s] /\ h = Cap /\ target.usize = 2 * h /\ n < h
    BY <1>1, TargetFacts DEF Init, UsizeArgs
  <1>3. Shift(n) = 2 * n
    <2>1. 2 * n \in 0..2 * h - 1 /\ 2 * h \in Nat \ {0}
      BY <1>2
    <2> QED BY <1>2, <2>1, SmallMod DEF Shift
  <1>4. Count(words[s]) = n
    <2>1. words[s] = 2 * n
      BY <1>2, <1>3 DEF Init
    <2>2. (2 * n) \div 2 = n
      OBVIOUS
    <2> QED BY <2>1, <2>2 DEF Count
  <1>5. HeldIn(objects, s) = 0
    BY SumZero DEF Init, HeldIn, WorthIn
  <1> QED BY <1>2, <1>4, <1>5, HeldIs DEF InSystem

LEMMA TargetFixed == [Next]_vars => target' = target
PROOF
  BY DEF Next, vars, WordCall, WordStep, ObjectCall, Begin, TryAcquire,
         TryAcquireMany, TryAcquireNone, PollFastPath, ForgetPermits,
         AddPermits, Close, Load, AcquireExchanges, ForgetExchanges,
         StrongFails, WeakFails, DropPermit, ForgetPermit, Split, Merge,
         MergePanics, TryAcquireManyPanics, Recover

LEMMA StepAccounts ==
  ASSUME WordInv, WordInv', [Next]_vars, Accounts
  PROVE  Accounts'
PROOF
  <1>1. target' = target
    BY TargetFixed
  <1>2. RequestsFit' = RequestsFit /\ Countable' = Countable
    BY <1>1 DEF RequestsFit, Countable, Cap
  <1> SUFFICES ASSUME RequestsFit, NEW s \in Sems
               PROVE  \/ InSystem(s)' = supply'[s]
                      \/ InSystem(s)' <= supply'[s] - Countable
    BY <1>2 DEF Accounts
  <1>3. InSystem(s) = supply[s] \/ InSystem(s) <= supply[s] - Countable
    BY DEF Accounts
  <1>4. PICK d \in Int : /\ d = 0 \/ d <= -Countable
                         /\ InSystem(s)' - supply'[s] = InSystem(s) - supply[s] + d
    BY StepEffect DEF Effect
  <1>5. /\ InSystem(s) \in Nat /\ InSystem(s)' \in Nat
        /\ supply[s] \in Int /\ supply'[s] \in Int
    <2>1. /\ Count(words[s]) \in Nat /\ Count(words'[s]) \in Nat
          /\ HeldIn(objects, s) \in Nat /\ HeldIn(objects', s) \in Nat
          /\ supply[s] \in Int /\ supply'[s] \in Int
          /\ InSystem(s) = Count(words[s]) + HeldIn(objects, s)
          /\ InSystem(s)' = Count(words'[s]) + HeldIn(objects', s)
      BY <1>1, SystemFacts
    <2> QED BY ONLY <2>1
  <1>6. Countable \in Nat
    BY Facts, CountableFacts
  <1>7. InSystem(s)' - supply'[s] = 0 \/ InSystem(s)' - supply'[s] <= -Countable
    BY ONLY <1>3, <1>4, <1>5, <1>6, d \in Int
  <1> QED BY ONLY <1>5, <1>6, <1>7

LEMMA AccountsHold == Spec => []Accounts
PROOF
  <1>1. WordInv /\ WordInv' /\ [Next]_vars /\ Accounts => Accounts'
    BY StepAccounts
  <1> QED BY <1>1, InitAccounts, WordInvHolds, PTL DEF Spec

(* What is in the word and the objects of a semaphore.                     *)
LEMMA InSystemNat ==
  ASSUME WordInv, NEW s \in Sems
  PROVE  InSystem(s) \in Nat /\ supply[s] \in Int
PROOF
  <1>1. words[s] \in 0..target.usize - 1 /\ target \in Targets /\ supply[s] \in Int
    BY Facts DEF WordsType
  <1>2. Count(words[s]) \in Nat
    BY <1>1, TargetFacts, Halves DEF Count
  <1>3. \A o \in Objects : WorthIn(objects, o, s) \in Nat
    BY Facts, WorthType, TargetFacts
  <1>4. HeldIn(objects, s) \in Nat
    BY <1>3, PileFinite, PermitWordAssumption DEF HeldIn
  <1> QED BY <1>1, <1>2, <1>4, HeldIs DEF InSystem

(* No permit is lost and none is made up while fewer than Countable were   *)
(* created and not forgotten, where requests fit: loads, exchanges,        *)
(* panics, merges and splits of any number of threads keep what is in the  *)
(* word and the objects of a semaphore equal to the supply.                *)
THEOREM AllPermitsAccounted == Spec => []PermitsAccounted
PROOF
  <1>1. ASSUME WordInv, Accounts PROVE PermitsAccounted
    <2> SUFFICES ASSUME RequestsFit, NEW s \in Sems, supply[s] < Countable
                 PROVE  InSystem(s) = supply[s]
      BY DEF PermitsAccounted
    <2>1. InSystem(s) \in Nat /\ supply[s] \in Int /\ Countable \in Nat
      BY <1>1, InSystemNat, Facts, CountableFacts
    <2>2. InSystem(s) = supply[s] \/ InSystem(s) <= supply[s] - Countable
      BY <1>1 DEF Accounts
    <2> QED BY <2>1, <2>2
  <1> QED BY <1>1, WordInvHolds, AccountsHold, PTL

(* On a target where a u32 request fits into a shifted word, which every   *)
(* 64-bit target is, nobody gets a permit that was not created.            *)
THEOREM NothingMadeUp == Spec => []NeverMoreThanCreated
PROOF
  <1>1. ASSUME WordInv, Accounts PROVE NeverMoreThanCreated
    <2> SUFFICES ASSUME RequestsFit, NEW s \in Sems PROVE InSystem(s) <= supply[s]
      BY DEF NeverMoreThanCreated
    <2>1. InSystem(s) \in Nat /\ supply[s] \in Int /\ Countable \in Nat
      BY <1>1, InSystemNat, Facts, CountableFacts
    <2>2. InSystem(s) = supply[s] \/ InSystem(s) <= supply[s] - Countable
      BY <1>1 DEF Accounts
    <2> QED BY <2>1, <2>2
  <1> QED BY <1>1, WordInvHolds, AccountsHold, PTL

-----------------------------------------------------------------------------
(* add_permits.                                                            *)

(* Only add_permits makes the supply grow.                                 *)
LEMMA SupplyGrows ==
  ASSUME WordInv, [Next]_vars, NEW s \in Sems, supply'[s] > supply[s]
  PROVE  \E t \in Threads : AddPermits(t, s)
PROOF
  <1>1. supply[s] \in Int /\ supply'[s] # supply[s] /\ supply' # supply
    BY Facts
  <1>2. PICK t \in Threads :
          \/ \E z \in Sems : AddPermits(t, z)
          \/ ForgetExchanges(t)
          \/ \E o \in Objects : ForgetPermit(t, o)
    <2>1. target.threads \subseteq Threads /\ target.sems \subseteq Sems
      BY Facts, TargetFacts
    <2> QED BY <1>1, <2>1
         DEF Next, vars, WordCall, WordStep, ObjectCall, Begin, TryAcquire,
             TryAcquireMany, TryAcquireNone, PollFastPath, ForgetPermits,
             Close, Load, AcquireExchanges, StrongFails, WeakFails, DropPermit,
             Split, Merge, MergePanics, TryAcquireManyPanics, Recover
  <1>3. ASSUME NEW z \in Sems, AddPermits(t, z) PROVE AddPermits(t, s)
    <2>1. CASE z = s
      BY <1>3, <2>1
    <2>2. CASE z # s
      BY <1>1, <1>3, <2>2, Facts DEF AddPermits
    <2> QED BY <2>1, <2>2
  <1>4. ~ForgetExchanges(t)
    <2> SUFFICES ASSUME ForgetExchanges(t) PROVE FALSE
      OBVIOUS
    <2>1. PICK z \in Sems, k \in Nat : supply' = [supply EXCEPT ![z] = supply[z] - k]
      BY RemoveFacts
    <2> QED BY <1>1, <2>1, Facts
  <1>5. ASSUME NEW o \in Objects, ForgetPermit(t, o) PROVE FALSE
    <2>1. o \in Live
      BY <1>5 DEF ForgetPermit
    <2> QED BY <1>1, <1>5, <2>1, LiveFacts, Facts DEF ForgetPermit
  <1> QED BY <1>2, <1>3, <1>4, <1>5

(* An add_permits that returns has added all its permits, although the     *)
(* addition to the word wraps and is checked only afterwards.              *)
THEOREM AddsCounted == Spec => AddsAreCounted
PROOF
  <1>1. ASSUME WordInv, [Next]_vars, NEW s \in Sems, NEW n, n = supply'[s] - supply[s],
               n > 0, \A t \in Threads : pc'[t] = pc[t], target.checked \/ n <= Cap
        PROVE  /\ Count(words'[s]) = Count(words[s]) + n
               /\ Count(words'[s]) <= MAX_PERMITS
    <2>1. supply[s] \in Int /\ supply'[s] \in Int /\ target \in Targets
      BY <1>1, StepTyped, Facts DEF WordInv, WordTypeOK
    <2>2. PICK t \in Threads : AddPermits(t, s)
      BY <1>1, <2>1, SupplyGrows
    <2>3. PICK m \in Nat :
            /\ FetchAdd(s, m) /\ supply' = [supply EXCEPT ![s] = @ + m]
            /\ IF AddOverflows(words[s], m) THEN Panics(t) ELSE UNCHANGED pc
      BY <2>1, <2>2, TargetFacts DEF AddPermits, UsizeArgs
    <2>4. m = n
      BY <1>1, <2>1, <2>3, Facts
    <2>5. ~AddOverflows(words[s], n)
      <3>1. pc[t] = "idle" /\ pc \in [Threads -> Busy \cup {"idle", "panicked"}]
        BY <1>1, <2>2, Facts DEF AddPermits, Idle
      <3> QED BY <1>1, <2>3, <2>4, <3>1 DEF Panics, Goto
    <2>6. words'[s] = Plus(words[s], n) /\ words[s] \in 0..target.usize - 1
      BY <1>1, <2>3, <2>4, Facts DEF FetchAdd, WordsType
    <2>7. PICK k \in Nat, p \in Nat :
            /\ p = k * Cap /\ Count(words'[s]) = Count(words[s]) + n - p
            /\ Count(words[s]) + n < Cap => p = 0
      BY <2>1, <2>4, <2>6, PlusIs
    <2>8. PICK h \in Nat \ {0}, x \in Nat, M \in Nat :
            /\ h = Cap /\ target.usize = 2 * h /\ M = MAX_PERMITS /\ M < h
            /\ x = Count(words[s]) /\ x < h
      <3>1. Count(words[s]) \in Nat /\ Count(words[s]) < Cap
        BY <2>1, <2>6, TargetFacts, Halves DEF Count
      <3> QED BY <2>1, <3>1, TargetFacts
    <2>9. x + n < 2 * h
      BY <1>1, <2>4, <2>5, <2>8 DEF AddOverflows
    <2>10. (x + n) % (2 * h) = x + n
      <3>1. PICK b \in Nat \ {0} : b = 2 * h
        OBVIOUS
      <3>2. x + n \in 0..b - 1
        BY <2>4, <2>9, <3>1
      <3> QED BY <3>1, <3>2, SmallMod
    <2>11. x + n <= M
      BY <2>4, <2>5, <2>8, <2>10 DEF AddOverflows
    <2> QED BY <2>4, <2>7, <2>8, <2>11
  <1>2. ASSUME WordInv, [Next]_vars
        PROVE  [\A s \in Sems :
                  LET n == supply'[s] - supply[s] IN
                  /\ n > 0 /\ (\A t \in Threads : pc'[t] = pc[t])
                  /\ target.checked \/ n <= Cap
                  => /\ Count(words'[s]) = Count(words[s]) + n
                     /\ Count(words'[s]) <= MAX_PERMITS]_vars
    BY <1>1, <1>2
  <1> QED BY <1>2, WordInvHolds, PTL DEF Spec, AddsAreCounted
=============================================================================
