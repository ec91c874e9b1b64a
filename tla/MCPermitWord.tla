---------------------------- MODULE MCPermitWord ----------------------------
(* Constants of the TLC run of PermitWord.                                 *)
EXTENDS PermitWord, TLC

CONSTANTS t1, t2, s1, s2, o1, o2

MCThreads == {t1, t2}
MCSems    == {s1, s2}
MCObjects == {o1, o2}

\* Like a 64-bit target: MAX_PERMITS is 3 and a u32 is at most 3.  Two threads.
Wide == [usize |-> 32, u32 |-> 4, checked |-> TRUE, args |-> 0..3,
         threads |-> MCThreads, sems |-> {s1}]

\* One thread has permits of two semaphores.
TwoSems == [Wide EXCEPT !.args = {1, 3}, !.threads = {t1}, !.sems = MCSems]

\* add_permits(usize::MAX), with and without overflow checks.
Edge(checks) == [Wide EXCEPT !.args = {0, 1, 3, 31}, !.threads = {t1},
                             !.checked = checks]

\* Like a 32-bit target: MAX_PERMITS is 1, a word counts up to 7 and a u32
\* may be 8 or more.
Narrow == [Wide EXCEPT !.usize = 16, !.u32 = 16, !.args = {0, 1, 2, 8, 9},
                       !.threads = {t1}]

MCTargets == {Wide, TwoSems, Narrow} \cup {Edge(checks) : checks \in BOOLEAN}

MCSymmetry == Permutations(MCObjects)
=============================================================================
