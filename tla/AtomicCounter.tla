---------------------------- MODULE AtomicCounter ----------------------------
(***************************************************************************)
(* What TD3/ex06-mutex/mutex.c promises (comment at line 20): NTHREADS     *)
(* threads, "each thread adding 1 to the counter".  Seen from outside, a   *)
(* thread prints the number of additions made before its own and makes its *)
(* own in one indivisible step; the main thread may print the total, once  *)
(* all of them are in.  The process may stop early, and then prints        *)
(* nothing more.                                                           *)
(***************************************************************************)
EXTENDS Integers, FiniteSets, Sequences

CONSTANT NTHREADS  \* how many threads add 1

VARIABLES
    added,   \* the threads that have added their 1
    output   \* the numbers on standard output, in order

avars == <<added, output>>

Threads == 0 .. NTHREADS - 1

Init ==
    /\ added = {}
    /\ output = <<>>

\* A thread prints the current value and adds 1 to it.
Add(t) ==
    /\ t \in Threads \ added
    /\ output' = Append(output, Cardinality(added))
    /\ added' = added \union {t}

\* The main thread prints the total, once, after every addition.
Report ==
    /\ added = Threads
    /\ Len(output) = NTHREADS
    /\ output' = Append(output, NTHREADS)
    /\ UNCHANGED added

Next ==
    \/ \E t \in Threads : Add(t)
    \/ Report

Spec == Init /\ [][Next]_avars
=============================================================================
