---------------------------- MODULE MutexCounter ----------------------------
(***************************************************************************)
(* TD3/ex06-mutex/mutex.c: the main thread creates NTHREADS threads, joins *)
(* them in the order it created them, and prints a counter each of them    *)
(* has incremented.  The increment is three unsynchronised accesses to the *)
(* counter (printf, read, write) inside a pthread mutex.  If               *)
(* pthread_create fails main returns at once, and the return ends the      *)
(* process with every thread in it, wherever that thread is.               *)
(***************************************************************************)
EXTENDS Integers, FiniteSets, Sequences

CONSTANT NTHREADS  \* #define NTHREADS

ASSUME NThreadsAssumption == NTHREADS \in Nat \ {0}

VARIABLES
    mpc,      \* where main is
    i,        \* main's loop variable, of whichever loop it is in
    tpc,      \* where each thread is
    lock,     \* the owner of the mutex, or Unlocked
    counter,  \* the shared counter
    reg,      \* each thread's local i, the value it read
    output    \* the numbers printed, in order

vars == <<mpc, i, tpc, lock, counter, reg, output>>

Threads == 0 .. NTHREADS - 1

Unlocked == -1

MainPc == {"create", "join", "print", "returned", "failed"}
ThreadPc == {"none", "usleep", "print", "read", "write", "unlock", "done"}

TypeOK ==
    /\ mpc \in MainPc
    /\ i \in Threads
    /\ tpc \in [Threads -> ThreadPc]
    /\ lock \in Threads \union {Unlocked}
    /\ counter \in 0 .. NTHREADS
    /\ reg \in [Threads -> 0 .. NTHREADS]
    /\ output \in Seq(0 .. NTHREADS)

Init ==
    /\ mpc = "create"
    /\ i = 0
    /\ tpc = [t \in Threads |-> "none"]
    /\ lock = Unlocked
    /\ counter = 0
    /\ reg = [t \in Threads |-> 0]
    /\ output = <<>>

-----------------------------------------------------------------------------
\* The main thread.

\* Mutant: the loops run while i <= NTHREADS.
NextRoundOffByOne(next) ==
    \/ /\ i < NTHREADS
       /\ i' = i + 1
       /\ UNCHANGED mpc
    \/ /\ i = NTHREADS
       /\ i' = 0
       /\ mpc' = next

\* The end of one round of a loop over the threads array.
NextRound(next) ==
    \/ /\ i + 1 < NTHREADS
       /\ i' = i + 1
       /\ UNCHANGED mpc
    \/ /\ i + 1 = NTHREADS
       /\ i' = 0
       /\ mpc' = next

Create ==
    /\ mpc = "create"
    /\ tpc' = [tpc EXCEPT ![i] = "usleep"]
    /\ NextRound("join")
    /\ UNCHANGED <<lock, counter, reg, output>>

CreateFails ==
    /\ mpc = "create"
    /\ mpc' = "failed"
    /\ UNCHANGED <<i, tpc, lock, counter, reg, output>>

\* Mutant: main does not wait for the thread.
JoinNoWait ==
    /\ mpc = "join"
    /\ NextRound("print")
    /\ UNCHANGED <<tpc, lock, counter, reg, output>>

Join ==
    /\ mpc = "join"
    /\ tpc[i] = "done"
    /\ NextRound("print")
    /\ UNCHANGED <<tpc, lock, counter, reg, output>>

\* main prints the counter without taking the lock, and returns.
PrintFinal ==
    /\ mpc = "print"
    /\ output' = Append(output, counter)
    /\ mpc' = "returned"
    /\ UNCHANGED <<i, tpc, lock, counter, reg>>

Main == Create \/ CreateFails \/ Join \/ PrintFinal

-----------------------------------------------------------------------------
\* increase_counter, in thread t.

\* Threads run only until main returns.
ProcessAlive == mpc \notin {"returned", "failed"}

At(t, from, to) ==
    /\ ProcessAlive
    /\ tpc[t] = from
    /\ tpc' = [tpc EXCEPT ![t] = to]

\* Mutant: the mutex is taken while another thread owns it.
LockNoMutex(t) ==
    /\ At(t, "usleep", "print")
    /\ lock' = t
    /\ UNCHANGED <<mpc, i, counter, reg, output>>

\* usleep is over, and the mutex is free.
Lock(t) ==
    /\ At(t, "usleep", "print")
    /\ lock = Unlocked
    /\ lock' = t
    /\ UNCHANGED <<mpc, i, counter, reg, output>>

PrintCurrent(t) ==
    /\ At(t, "print", "read")
    /\ output' = Append(output, counter)
    /\ UNCHANGED <<mpc, i, lock, counter, reg>>

ReadCounter(t) ==
    /\ At(t, "read", "write")
    /\ reg' = [reg EXCEPT ![t] = counter]
    /\ UNCHANGED <<mpc, i, lock, counter, output>>

WriteCounter(t) ==
    /\ At(t, "write", "unlock")
    /\ counter' = reg[t] + 1
    /\ UNCHANGED <<mpc, i, lock, reg, output>>

\* Mutant: the mutex is not released.
UnlockForgotten(t) ==
    /\ At(t, "unlock", "done")
    /\ UNCHANGED <<mpc, i, lock, counter, reg, output>>

Unlock(t) ==
    /\ At(t, "unlock", "done")
    /\ lock' = Unlocked
    /\ UNCHANGED <<mpc, i, counter, reg, output>>

IncreaseCounter(t) ==
    \/ Lock(t)
    \/ PrintCurrent(t)
    \/ ReadCounter(t)
    \/ WriteCounter(t)
    \/ Unlock(t)

Next == Main \/ \E t \in Threads : IncreaseCounter(t)

Spec == Init /\ [][Next]_vars

\* Every thread is scheduled, and a free mutex is eventually acquired: each
\* thread locks once, so a waiting thread competes with finitely many others.
Fairness ==
    /\ WF_vars(Main)
    /\ \A t \in Threads : WF_vars(IncreaseCounter(t))

FairSpec == Spec /\ Fairness

-----------------------------------------------------------------------------
\* Properties.

\* The threads whose printf has run, and those whose increment is stored.
Announced == {t \in Threads : tpc[t] \in {"read", "write", "unlock", "done"}}
Stored == {t \in Threads : tpc[t] \in {"unlock", "done"}}

\* No increment is lost or made twice, whatever the interleaving of the read
\* and the write (mutex.c:41-42): the counter is always the number of threads
\* that have stored theirs.
EveryIncrementCounts == counter = Cardinality(Stored)

\* The values printed under the lock (mutex.c:40) are 0, 1, 2, ... without a
\* gap or a repetition, and when main has returned normally there is one line
\* per thread and main's own, which says NTHREADS (mutex.c:31).
OutputCountsUp ==
    /\ \A k \in 1 .. Len(output) : output[k] = k - 1
    /\ mpc = "returned" => Len(output) = NTHREADS + 1

\* Each print-read-write sequence appears to other threads as one indivisible
\* addition, and main reports only the complete total (the comment at
\* mutex.c:20).
Atomic == INSTANCE AtomicCounter WITH added <- Announced
IsAtomicCounter == Atomic!Spec

\* Once every thread is created the total is printed: no thread waits for the
\* mutex forever, and main never joins a thread that cannot finish
\* (mutex.c:28-31).
TotalIsPrinted == mpc = "join" ~> Len(output) = NTHREADS + 1
=============================================================================
