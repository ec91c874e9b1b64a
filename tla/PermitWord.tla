------------------------------ MODULE PermitWord ------------------------------
(***************************************************************************)
(* The atomic word of a semaphore (semaphore/core.rs), bit by bit, the     *)
(* operations that read and write it without the mutex (core.rs,           *)
(* methods.rs and the first half of poll in futures.rs), and the permit    *)
(* objects they create (permits.rs).                                       *)
(*                                                                         *)
(* A word holds 2 * count + closed in a usize, so it wraps; a permit       *)
(* object holds a u32.  What a usize and a u32 hold depends on the target: *)
(* a u32 request fits into a word shifted by one on a 64-bit target and    *)
(* may not on a 32-bit one.  Whether u32 and usize sums panic or wrap      *)
(* depends on the build.                                                   *)
(*                                                                         *)
(* A step is one access to a word with the thread-local work after it.     *)
(* There are several semaphores because permit objects of different ones   *)
(* can meet, in merge().  Waiters and what a release gives to them are in  *)
(* RankedSemaphore.                                                        *)
(*                                                                         *)
(* A definition marked "Mutant:" is a wrong form of the one that follows.  *)
(***************************************************************************)
EXTENDS Integers, FiniteSets, Sums

CONSTANTS
  Threads,
  Sems,        \* the semaphores
  Objects,     \* identities of permit objects; bound: how many there are
  Targets,     \* usize values, u32 values, overflow checks, and as bounds the
               \* arguments to try, the threads and semaphores that take part
  MinSupply,   \* bound: nothing is forgotten once there are fewer permits; on
               \* 64-bit targets there are never fewer than none
  MaxSupply,   \* bound: no add_permits once that many permits were created
  None         \* no permit object, no call

ASSUME PermitWordAssumption ==
  /\ IsFiniteSet(Objects)
  /\ None \notin Sems \cup [sem : Sems, permits : Nat]
                     \cup [op : {"one", "many", "poll", "forget"}, sem : Sems, n : Nat]
  /\ Targets \subseteq [usize : Nat, u32 : Nat, checked : BOOLEAN, args : SUBSET Nat,
                        threads : SUBSET Threads, sems : SUBSET Sems]
  /\ \A g \in Targets : g.usize % 8 = 0 /\ g.u32 > 1 /\ g.u32 <= g.usize
  /\ MinSupply \in Int /\ MaxSupply \in Nat

VARIABLES
  target,      \* the target and build, never changed
  words,       \* permits: the word of a semaphore
  pc,          \* where a thread is
  call,        \* the call it is in: operation, semaphore and argument
  curr,        \* the word it has loaded
  objects,     \* the permit objects: their semaphore and their u32
  supply       \* history: permits created minus permits forgotten

vars == <<target, words, pc, call, curr, objects, supply>>

-----------------------------------------------------------------------------
(* The word.                                                               *)

UsizeArgs == {n \in target.args : n < target.usize}
U32Args   == {n \in target.args : n < target.u32}

Cap         == target.usize \div 2         \* what a word can count
MAX_PERMITS == (target.usize - 1) \div 8   \* usize::MAX >> 3

Shift(n)    == (2 * n) % target.usize      \* n << PERMIT_SHIFT
Count(x)    == x \div 2                    \* x >> PERMIT_SHIFT
IsClosed(x) == x % 2 = 1                   \* x & CLOSED

\* fetch_add: atomic addition wraps in every build.
Plus(x, n) == (x + Shift(n)) % target.usize

FetchAdd(s, n) == words' = [words EXCEPT ![s] = Plus(@, n)]

\* Mutant: the sum is looked at after it was stored.
AddOverflowsLate(x, n) == Count(Plus(x, n)) > MAX_PERMITS

\* The check after the fetch_add: the sum of two usize values panics or wraps.
AddOverflows(x, n) ==
  \/ target.checked /\ Count(x) + n >= target.usize
  \/ (Count(x) + n) % target.usize > MAX_PERMITS

-----------------------------------------------------------------------------
(* Permit objects.                                                         *)

Live == {o \in Objects : objects[o] # None}
Of(s) == {o \in Live : objects[o].sem = s}
HeldOf(s) == SumOver([o \in Live |-> objects[o].permits], Of(s))

\* Bound: every call that may create an object finds an identity for it.
Creating == {t \in Threads : call[t] # None /\ call[t].op # "forget"}
Room == Cardinality(Live) + Cardinality(Creating) < Cardinality(Objects)

Create(s, n) ==
  \E o \in Objects \ Live : objects' = [objects EXCEPT ![o] = [sem |-> s, permits |-> n]]

Idle(t) == pc[t] = "idle"
Goto(t, l) == pc' = [pc EXCEPT ![t] = l]
Panics(t) == Goto(t, "panicked")

-----------------------------------------------------------------------------
(* Calls that load the word and compare and exchange it.  A thread is at   *)
(* "load" before its first load, at "strong" before the first exchange of  *)
(* try_acquire(), at "reload" before the load of try_acquire_retry_loop()  *)
(* and at "weak" before any other exchange.                                *)

Begin(t, op, s, n) ==
  /\ Idle(t)
  /\ op # "forget" => Room
  /\ call' = [call EXCEPT ![t] = [op |-> op, sem |-> s, n |-> n]]
  /\ Goto(t, "load")
  /\ UNCHANGED <<target, words, curr, objects, supply>>

TryAcquire(t, s) == Begin(t, "one", s, 1)

\* Mutant: n is not compared with MAX_PERMITS.
TryAcquireManyAny(t, s) ==
  \E n \in U32Args \ {0} : Begin(t, "many", s, n)

\* try_acquire_many(_owned), and try_acquire_owned with n = 1.
TryAcquireMany(t, s) ==
  \E n \in U32Args \ {0} : n <= MAX_PERMITS /\ Begin(t, "many", s, n)

TryAcquireManyPanics(t) ==
  /\ Idle(t)
  /\ \E n \in U32Args : n > MAX_PERMITS
  /\ Panics(t)
  /\ UNCHANGED <<target, words, call, curr, objects, supply>>

\* No permits: a permit object without a look at the word, even when closed.
TryAcquireNone(t, s) ==
  /\ Idle(t) /\ Room
  /\ Create(s, 0)
  /\ UNCHANGED <<target, words, pc, call, curr, supply>>

\* The first poll of an acquire future: n is not compared with MAX_PERMITS.
PollFastPath(t, s) == \E n \in U32Args : Begin(t, "poll", s, n)

ForgetPermits(t, s) ==
  /\ supply[s] >= MinSupply
  /\ \E n \in UsizeArgs \ {0} : Begin(t, "forget", s, n)

Return(t) ==
  /\ Goto(t, "idle")
  /\ call' = [call EXCEPT ![t] = None]
  /\ curr' = [curr EXCEPT ![t] = 0]

\* Mutants: the CLOSED bit is not looked at; one permit too few will do.
MayTakeIfEnough(x, n) == x >= Shift(n)
MayTakeOneMore(x, n) == ~IsClosed(x) /\ x + 2 >= Shift(n)
MayTake(x, n) == ~IsClosed(x) /\ x >= Shift(n)

\* What follows a load of x, and an exchange that failed and returned x.
Look(t, x) ==
  IF call[t].op = "forget" \/ MayTake(x, call[t].n)
    THEN /\ Goto(t, IF pc[t] = "load" /\ call[t].op = "one" THEN "strong" ELSE "weak")
         /\ curr' = [curr EXCEPT ![t] = x]
         /\ UNCHANGED call
    ELSE Return(t)

Load(t) ==
  /\ pc[t] \in {"load", "reload"}
  /\ Look(t, words[call[t].sem])
  /\ UNCHANGED <<target, words, objects, supply>>

\* Mutant: a store.
UnchangedAny(t) == TRUE
Unchanged(t) == words[call[t].sem] = curr[t]

AcquireExchanges(t) ==
  LET s == call[t].sem  n == call[t].n IN
  /\ pc[t] \in {"strong", "weak"} /\ call[t].op # "forget"
  /\ Unchanged(t)
  /\ words' = [words EXCEPT ![s] = curr[t] - Shift(n)]
  /\ Create(s, n)
  /\ Return(t)
  /\ UNCHANGED <<target, supply>>

\* What forget_permits(n) removes from a word x.
Removed(x, n) == IF n <= Count(x) THEN n ELSE Count(x)

\* Mutant: the CLOSED bit is dropped.
WithoutOpened(x, k) == Shift(Count(x) - k)
Without(x, k) == Shift(Count(x) - k) + (x % 2)

ForgetExchanges(t) ==
  LET s == call[t].sem  k == Removed(curr[t], call[t].n) IN
  /\ pc[t] = "weak" /\ call[t].op = "forget"
  /\ Unchanged(t)
  /\ words' = [words EXCEPT ![s] = Without(curr[t], k)]
  /\ supply' = [supply EXCEPT ![s] = @ - k]
  /\ Return(t)
  /\ UNCHANGED <<target, objects>>

\* compare_exchange fails only if the word has changed; the retry loop loads
\* it again.
StrongFails(t) ==
  /\ pc[t] = "strong"
  /\ words[call[t].sem] # curr[t]
  /\ Goto(t, "reload")
  /\ UNCHANGED <<target, words, call, curr, objects, supply>>

\* Mutant: one attempt only.
AfterWeak(t) == Return(t)

\* compare_exchange_weak may fail for no reason.  A poll has one attempt.
AfterWeakFailure(t) ==
  IF call[t].op = "poll" THEN Return(t) ELSE Look(t, words[call[t].sem])

WeakFails(t) ==
  /\ pc[t] = "weak"
  /\ AfterWeakFailure(t)
  /\ UNCHANGED <<target, words, objects, supply>>

-----------------------------------------------------------------------------
(* Calls that are one access to the word.                                  *)

\* add_permits(n): what no waiter takes.
AddPermits(t, s) ==
  /\ Idle(t)
  /\ supply[s] < MaxSupply
  /\ \E n \in UsizeArgs \ {0} :
       /\ FetchAdd(s, n)
       /\ supply' = [supply EXCEPT ![s] = @ + n]
       /\ IF AddOverflows(words[s], n) THEN Panics(t) ELSE UNCHANGED pc
  /\ UNCHANGED <<target, call, curr, objects>>

Close(t, s) ==
  /\ Idle(t)
  /\ words' = [words EXCEPT ![s] = IF IsClosed(@) THEN @ ELSE @ + 1]
  /\ UNCHANGED <<target, pc, call, curr, objects, supply>>

\* Drop of a permit object.  With nobody in the queue there is no check; with
\* waiters, what they do not take goes through that of add_permits_locked.
DropPermit(t, o) ==
  /\ Idle(t) /\ o \in Live
  /\ objects' = [objects EXCEPT ![o] = None]
  /\ FetchAdd(objects[o].sem, objects[o].permits)
  /\ \/ UNCHANGED pc
     \/ /\ objects[o].permits > 0
        /\ AddOverflows(words[objects[o].sem], objects[o].permits)
        /\ Panics(t)
  /\ UNCHANGED <<target, call, curr, supply>>

-----------------------------------------------------------------------------
(* Calls that touch permit objects only.                                   *)

\* forget(): the permits leave circulation.
ForgetPermit(t, o) ==
  /\ Idle(t) /\ o \in Live
  /\ supply[objects[o].sem] >= MinSupply
  /\ objects' = [objects EXCEPT ![o] = None]
  /\ supply' = [supply EXCEPT ![objects[o].sem] = @ - objects[o].permits]
  /\ UNCHANGED <<target, words, pc, call, curr>>

\* Mutant: the pointers are not compared.
MergeableAny(o, p) == TRUE
Mergeable(o, p) == objects[o].sem = objects[p].sem

MergedSum(o, p) == objects[o].permits + objects[p].permits
SumFits(o, p) == MergedSum(o, p) < target.u32

\* o.merge(p).  In a build without overflow checks a sum beyond u32 wraps:
\* permits are lost.
Merge(t, o, p) ==
  /\ Idle(t) /\ o \in Live /\ p \in Live \ {o}
  /\ Mergeable(o, p)
  /\ SumFits(o, p) \/ ~target.checked
  /\ objects' = [objects EXCEPT ![o].permits = MergedSum(o, p) % target.u32, ![p] = None]
  /\ UNCHANGED <<target, words, pc, call, curr, supply>>

\* A merge that panics drops p while it unwinds.
MergePanics(t, o, p) ==
  /\ Idle(t) /\ o \in Live /\ p \in Live \ {o}
  /\ ~Mergeable(o, p) \/ (target.checked /\ ~SumFits(o, p))
  /\ objects' = [objects EXCEPT ![p] = None]
  /\ FetchAdd(objects[p].sem, objects[p].permits)
  /\ Panics(t)
  /\ UNCHANGED <<target, call, curr, supply>>

\* Mutant: the count of the split object is left as it was.
RestAll(o, n) == objects[o].permits
Rest(o, n) == objects[o].permits - n

\* split(n) makes an object of n permits, also of none and of all.
Split(t, o) ==
  /\ Idle(t) /\ o \in Live /\ Room
  /\ \E n \in U32Args : \E q \in Objects \ Live :
       /\ n <= objects[o].permits
       /\ objects' = [objects EXCEPT ![o].permits = Rest(o, n),
                                     ![q] = [sem |-> objects[o].sem, permits |-> n]]
  /\ UNCHANGED <<target, words, pc, call, curr, supply>>

\* Somebody catches the panic.
Recover(t) ==
  /\ pc[t] = "panicked"
  /\ Goto(t, "idle")
  /\ UNCHANGED <<target, words, call, curr, objects, supply>>

-----------------------------------------------------------------------------
\* The constructors refuse more than MAX_PERMITS.
Init ==
  /\ target \in Targets
  /\ supply \in [Sems -> {n \in UsizeArgs : n <= MAX_PERMITS}]
  /\ words = [s \in Sems |-> Shift(supply[s])]
  /\ pc = [t \in Threads |-> "idle"]
  /\ call = [t \in Threads |-> None]
  /\ curr = [t \in Threads |-> 0]
  /\ objects = [o \in Objects |-> None]

\* The calls that use the word of one semaphore.
WordCall(t, s) ==
  \/ TryAcquire(t, s) \/ TryAcquireMany(t, s) \/ TryAcquireNone(t, s)
  \/ PollFastPath(t, s) \/ ForgetPermits(t, s) \/ AddPermits(t, s) \/ Close(t, s)

WordStep(t) ==
  \/ Load(t) \/ AcquireExchanges(t) \/ ForgetExchanges(t)
  \/ StrongFails(t) \/ WeakFails(t)

ObjectCall(t, o) ==
  \/ DropPermit(t, o) \/ ForgetPermit(t, o) \/ Split(t, o)
  \/ \E p \in Objects : Merge(t, o, p) \/ MergePanics(t, o, p)

Next ==
  \E t \in target.threads :
    \/ \E s \in target.sems : WordCall(t, s)
    \/ TryAcquireManyPanics(t)
    \/ WordStep(t)
    \/ \E o \in Objects : ObjectCall(t, o)
    \/ Recover(t)

Spec == Init /\ [][Next]_vars

-----------------------------------------------------------------------------
(* Words and permit objects stay within usize and u32: no subtraction      *)
(* underflows.                                                             *)
WordTypeOK ==
  /\ target \in Targets
  /\ words \in [Sems -> 0..target.usize - 1]
  /\ pc \in [Threads -> {"idle", "load", "strong", "reload", "weak", "panicked"}]
  /\ call \in [Threads -> {None} \cup
                 [op : {"one", "many", "poll", "forget"}, sem : Sems,
                  n : 0..target.usize - 1]]
  /\ curr \in [Threads -> 0..target.usize - 1]
  /\ objects \in [Objects -> {None} \cup [sem : Sems, permits : 0..target.u32 - 1]]
  /\ supply \in [Sems -> Int]

InSystem(s) == Count(words[s]) + HeldOf(s)

(* A u32 request fits into a shifted word, as on every 64-bit target.  On  *)
(* a 32-bit target acquire_many(1 << 31) takes nothing from the word       *)
(* (futures.rs:69).                                                        *)
RequestsFit == target.u32 <= Cap

(* Sums of permits that reach this may wrap: of words in every build, of   *)
(* permit objects in a build without overflow checks.                      *)
Countable == IF target.checked THEN Cap ELSE target.u32

(* Nothing is lost and nothing is made up while requests fit and less than *)
(* Countable was created and not forgotten: that much is in the word and   *)
(* the permit objects of a semaphore.  Loads, exchanges, failed ones,      *)
(* merges, panics and splits of any number of threads keep it.  What is    *)
(* excluded does lose permits: additions that wrap the word, and merges    *)
(* that wrap a u32, against permits.rs:100.                                *)
PermitsAccounted ==
  RequestsFit => \A s \in Sems : supply[s] < Countable => InSystem(s) = supply[s]

(* Where requests fit, no permit is handed out that was not created,       *)
(* however many there are and whatever wraps.                              *)
NeverMoreThanCreated ==
  RequestsFit => \A s \in Sems : InSystem(s) <= supply[s]

(* "Once closed, a semaphore cannot be reopened": no exchange that started *)
(* before, no sum that wraps and no removal clears the bit.                *)
ClosedForever ==
  [][\A s \in Sems : IsClosed(words[s]) => IsClosed(words'[s])]_vars

(* After close() the permits in permit objects only become fewer, whatever *)
(* the threads had loaded before.                                          *)
NothingIssuedAfterClose ==
  [][\A s \in Sems : IsClosed(words[s]) => HeldOf(s)' <= HeldOf(s)]_vars

(* An add_permits that returns has added all its permits and stayed below  *)
(* MAX_PERMITS, although it adds first and checks afterwards.  In a build  *)
(* without overflow checks the sum in the check may wrap when more than    *)
(* half of the values of a usize are added; then it need not.              *)
AddsAreCounted ==
  [][\A s \in Sems :
       LET n == supply'[s] - supply[s] IN
       /\ n > 0 /\ (\A t \in Threads : pc'[t] = pc[t])
       /\ target.checked \/ n <= Cap
       => /\ Count(words'[s]) = Count(words[s]) + n
          /\ Count(words'[s]) <= MAX_PERMITS]_vars

(* A poll that asked for more than a word counts ends: its request was     *)
(* shifted out of the word.  The try_acquire family panics instead.        *)
OversizedPollEnds ==
  \E t \in Threads :
    /\ call[t] # None /\ call[t].op = "poll" /\ call[t].n >= Cap
    /\ call'[t] = None

(* The words implement atomic counts: every call takes effect at one of    *)
(* its accesses, all of it or nothing, and a try_acquire fails only if the *)
(* semaphore was closed or had too few permits at one moment of the call.  *)
(* Only the end of an oversized poll is excluded: that poll may be granted *)
(* from an empty semaphore.  It exists on 32-bit targets.                  *)
Atomic == INSTANCE AtomicPermits WITH
  NoCall <- None,
  cap <- Cap,
  count <- [s \in Sems |-> Count(words[s])],
  closed <- [s \in Sems |-> IsClosed(words[s])],
  held <- [s \in Sems |-> HeldOf(s)]
ImplementsAtomic ==
  Atomic!Init /\ [][~OversizedPollEnds => Atomic!Next]_(Atomic!vars)
=============================================================================
