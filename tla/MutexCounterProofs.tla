------------------------- MODULE MutexCounterProofs -------------------------
(***************************************************************************)
(* For every number of threads, mutex.c loses no increment, prints a count *)
(* without gaps and implements AtomicCounter.  The inductive invariant     *)
(* adds to the properties who is inside the mutex, that the value about to *)
(* be written is computed from the current counter, and which threads main *)
(* has created or joined.                                                  *)
(***************************************************************************)
EXTENDS MutexCounter, FiniteSetTheorems, TLAPS

\* The owner of the mutex is the one thread between Lock and Unlock.
OwnerInside ==
    \A t \in Threads :
        lock = t <=> tpc[t] \in {"print", "read", "write", "unlock"}

\* Nobody changed the counter since the thread about to write has read it.
ReadIsFresh == \A t \in Threads : tpc[t] = "write" => reg[t] = counter

\* The loops have created the threads up to i, or joined them up to i.
LoopProgress ==
    /\ mpc = "create" => \A t \in Threads : t >= i => tpc[t] = "none"
    /\ mpc = "join" => \A t \in Threads : t < i => tpc[t] = "done"
    /\ mpc \in {"print", "returned"} => \A t \in Threads : tpc[t] = "done"

\* One line for each announced thread, and main's.
LinesPrinted ==
    Len(output) = Cardinality(Announced) + (IF mpc = "returned" THEN 1 ELSE 0)

LinesCountUp == \A k \in 1 .. Len(output) : output[k] = k - 1

IInv ==
    /\ TypeOK
    /\ OwnerInside
    /\ ReadIsFresh
    /\ EveryIncrementCounts
    /\ LoopProgress
    /\ LinesPrinted
    /\ LinesCountUp

-----------------------------------------------------------------------------

\* A set of threads is finite, and has NTHREADS elements only if it is all of
\* them.
LEMMA ThreadSets ==
    ASSUME NEW S \in SUBSET Threads
    PROVE  /\ IsFiniteSet(S)
           /\ Cardinality(S) \in 0 .. NTHREADS
           /\ Cardinality(Threads) = NTHREADS
<1>1. IsFiniteSet(Threads) /\ Cardinality(Threads) = NTHREADS
  BY NThreadsAssumption, FS_Interval DEF Threads
<1>2. IsFiniteSet(S) /\ Cardinality(S) <= NTHREADS
  BY <1>1, FS_Subset
<1>3. Cardinality(S) \in Nat
  BY <1>2, FS_CardinalityType
<1> QED BY <1>1, <1>2, <1>3, NThreadsAssumption

\* While a thread is about to print, the threads that have printed are those
\* that have stored: nobody else is inside the mutex.
LEMMA AnnouncedIsStored ==
    ASSUME OwnerInside, NEW t \in Threads, tpc[t] = "print"
    PROVE  Announced = Stored
<1>1. lock = t
  BY DEF OwnerInside
<1>2. \A u \in Threads : tpc[u] \notin {"read", "write"}
  BY <1>1 DEF OwnerInside
<1> QED BY <1>2 DEF Announced, Stored

\* Printing the number of lines printed so far makes one line more, and keeps
\* the lines counting up.
LEMMA AppendCountsUp ==
    ASSUME NEW S, NEW s \in Seq(S), Len(s) \in S
    PROVE  /\ Len(Append(s, Len(s))) = Len(s) + 1
           /\ (\A k \in 1 .. Len(s) : s[k] = k - 1)
              => LET a == Append(s, Len(s))
                 IN  \A k \in 1 .. Len(a) : a[k] = k - 1
<1> DEFINE a == Append(s, Len(s))
<1>1. Len(a) = Len(s) + 1 /\ Len(s) \in Nat
  OBVIOUS
<1>2. \A k \in 1 .. Len(s) + 1 : a[k] = IF k = Len(s) + 1 THEN Len(s) ELSE s[k]
  OBVIOUS
<1> QED BY <1>1, <1>2

\* The invariant holds when main starts.
LEMMA InitIInv == Init => IInv
<1> SUFFICES ASSUME Init PROVE IInv
  OBVIOUS
<1> USE NThreadsAssumption DEF Init, Threads, MainPc, ThreadPc
<1>1. Stored = {} /\ Announced = {}
  BY DEF Stored, Announced
<1>2. Cardinality({}) = 0
  BY FS_EmptySet
<1>3. TypeOK
  BY DEF TypeOK, Unlocked
<1>4. OwnerInside /\ ReadIsFresh /\ LoopProgress
  BY DEF OwnerInside, ReadIsFresh, LoopProgress, Unlocked
<1>5. EveryIncrementCounts /\ LinesPrinted /\ LinesCountUp
  BY <1>1, <1>2 DEF EveryIncrementCounts, LinesPrinted, LinesCountUp
<1> QED BY <1>3, <1>4, <1>5 DEF IInv

\* The main thread's steps preserve the invariant: none of them moves a thread
\* that has printed or stored.
LEMMA MainIInv == IInv /\ Main => IInv'
<1> SUFFICES ASSUME IInv, Main PROVE IInv'
  OBVIOUS
<1> USE NThreadsAssumption DEF MainPc, ThreadPc
<1>1. CASE Create
  <2> USE <1>1 DEF Create
  <2>1. tpc[i] = "none" /\ i \in Threads /\ tpc \in [Threads -> ThreadPc]
    BY DEF IInv, LoopProgress, TypeOK, Threads
  <2>2. Stored' = Stored /\ Announced' = Announced
    BY <2>1 DEF Stored, Announced
  <2>3. mpc' \in {"create", "join"}
    BY DEF NextRound
  <2>4. TypeOK'
    BY <2>1, <2>3 DEF IInv, TypeOK, NextRound, Threads
  <2>5. OwnerInside' /\ ReadIsFresh'
    BY <2>1 DEF IInv, OwnerInside, ReadIsFresh
  <2>6. LoopProgress'
    BY <2>1 DEF IInv, LoopProgress, NextRound, Threads
  <2>7. EveryIncrementCounts' /\ LinesPrinted' /\ LinesCountUp'
    BY <2>2, <2>3 DEF IInv, EveryIncrementCounts, LinesPrinted, LinesCountUp
  <2> QED BY <2>4, <2>5, <2>6, <2>7 DEF IInv
<1>2. CASE CreateFails
  <2> USE <1>2 DEF CreateFails
  <2>1. Stored' = Stored /\ Announced' = Announced
    BY DEF Stored, Announced
  <2>2. TypeOK' /\ OwnerInside' /\ ReadIsFresh' /\ LoopProgress'
    BY DEF IInv, TypeOK, OwnerInside, ReadIsFresh, LoopProgress
  <2>3. EveryIncrementCounts' /\ LinesPrinted' /\ LinesCountUp'
    BY <2>1 DEF IInv, EveryIncrementCounts, LinesPrinted, LinesCountUp
  <2> QED BY <2>2, <2>3 DEF IInv
<1>3. CASE Join
  <2> USE <1>3 DEF Join
  <2>1. Stored' = Stored /\ Announced' = Announced
    BY DEF Stored, Announced
  <2>2. mpc' \in {"join", "print"}
    BY DEF NextRound
  <2>3. TypeOK' /\ OwnerInside' /\ ReadIsFresh'
    BY <2>2 DEF IInv, TypeOK, OwnerInside, ReadIsFresh, NextRound, Threads
  <2>4. LoopProgress'
    BY DEF IInv, TypeOK, LoopProgress, NextRound, Threads
  <2>5. EveryIncrementCounts' /\ LinesPrinted' /\ LinesCountUp'
    BY <2>1, <2>2 DEF IInv, EveryIncrementCounts, LinesPrinted, LinesCountUp
  <2> QED BY <2>3, <2>4, <2>5 DEF IInv
<1>4. CASE PrintFinal
  <2> USE <1>4 DEF PrintFinal
  <2>1. Stored' = Stored /\ Announced' = Announced
    BY DEF Stored, Announced
  <2>2. Announced = Stored
    BY DEF IInv, LoopProgress, Announced, Stored
  <2>3. TypeOK'
    BY DEF IInv, TypeOK
  <2>4. OwnerInside' /\ ReadIsFresh' /\ LoopProgress' /\ EveryIncrementCounts'
    BY <2>1 DEF IInv, OwnerInside, ReadIsFresh, LoopProgress, EveryIncrementCounts
  <2>5. Len(output) = counter /\ counter \in Nat
    BY <2>2 DEF IInv, TypeOK, LinesPrinted, EveryIncrementCounts
  <2>6. LinesCountUp'
    BY <2>5, AppendCountsUp DEF IInv, TypeOK, LinesCountUp
  <2>7. LinesPrinted'
    BY <2>1, <2>2, <2>5, AppendCountsUp DEF IInv, TypeOK, LinesPrinted, EveryIncrementCounts
  <2> QED BY <2>3, <2>4, <2>6, <2>7 DEF IInv
<1> QED BY <1>1, <1>2, <1>3, <1>4 DEF Main

\* The steps of increase_counter preserve the invariant.
LEMMA ThreadIInv ==
    ASSUME IInv, NEW t \in Threads, IncreaseCounter(t)
    PROVE  IInv'
<1> USE NThreadsAssumption DEF MainPc, ThreadPc
<1>1. t \in Threads /\ TypeOK /\ mpc' = mpc /\ mpc \notin {"returned", "failed"}
  BY DEF IInv, IncreaseCounter, Lock, PrintCurrent, ReadCounter, WriteCounter,
         Unlock, At, ProcessAlive
<1>2. CASE Lock(t)
  <2> USE <1>2 DEF Lock, At
  <2>1. Stored' = Stored /\ Announced' = Announced
    BY <1>1 DEF TypeOK, Stored, Announced
  <2>2. TypeOK' /\ ReadIsFresh' /\ LoopProgress'
    BY <1>1 DEF IInv, TypeOK, ReadIsFresh, LoopProgress
  <2>3. OwnerInside'
    BY <1>1 DEF IInv, TypeOK, OwnerInside, Unlocked, Threads
  <2>4. EveryIncrementCounts' /\ LinesPrinted' /\ LinesCountUp'
    BY <2>1 DEF IInv, EveryIncrementCounts, LinesPrinted, LinesCountUp
  <2> QED BY <2>2, <2>3, <2>4 DEF IInv
<1>3. CASE PrintCurrent(t)
  <2> USE <1>3 DEF PrintCurrent, At
  <2>1. Stored' = Stored /\ Announced' = Announced \union {t} /\ t \notin Announced
    BY <1>1 DEF TypeOK, Stored, Announced
  <2>2. TypeOK' /\ OwnerInside' /\ ReadIsFresh' /\ LoopProgress'
    BY <1>1 DEF IInv, TypeOK, OwnerInside, ReadIsFresh, LoopProgress
  <2>3. Len(output) = counter /\ counter = Cardinality(Announced)
    BY <1>1, AnnouncedIsStored
       DEF IInv, TypeOK, LinesPrinted, EveryIncrementCounts
  <2>4. Cardinality(Announced') = Cardinality(Announced) + 1
    BY <2>1, ThreadSets, FS_AddElement DEF Announced
  <2>5. LinesCountUp'
    BY <1>1, <2>3, AppendCountsUp DEF IInv, TypeOK, LinesCountUp
  <2>6. LinesPrinted'
    BY <1>1, <2>3, <2>4, AppendCountsUp DEF TypeOK, LinesPrinted
  <2>7. EveryIncrementCounts'
    BY <2>1 DEF IInv, EveryIncrementCounts
  <2> QED BY <2>2, <2>5, <2>6, <2>7 DEF IInv
<1>4. CASE ReadCounter(t)
  <2> USE <1>4 DEF ReadCounter, At
  <2>1. Stored' = Stored /\ Announced' = Announced
    BY <1>1 DEF TypeOK, Stored, Announced
  <2>2. TypeOK' /\ OwnerInside' /\ ReadIsFresh' /\ LoopProgress'
    BY <1>1 DEF IInv, TypeOK, OwnerInside, ReadIsFresh, LoopProgress
  <2>3. EveryIncrementCounts' /\ LinesPrinted' /\ LinesCountUp'
    BY <2>1 DEF IInv, EveryIncrementCounts, LinesPrinted, LinesCountUp
  <2> QED BY <2>2, <2>3 DEF IInv
<1>5. CASE WriteCounter(t)
  <2> USE <1>5 DEF WriteCounter, At
  <2>1. Announced' = Announced /\ Stored' = Stored \union {t} /\ t \notin Stored
    BY <1>1 DEF TypeOK, Stored, Announced
  <2>2. counter' = counter + 1
    BY <1>1 DEF IInv, ReadIsFresh
  <2>3. Cardinality(Stored') = Cardinality(Stored) + 1
    BY <2>1, ThreadSets, FS_AddElement DEF Stored
  <2>4. EveryIncrementCounts'
    BY <2>2, <2>3 DEF IInv, EveryIncrementCounts
  <2>5. counter' \in 0 .. NTHREADS
    BY <1>1, <2>1, <2>4, ThreadSets DEF EveryIncrementCounts, Stored
  <2>6. TypeOK' /\ OwnerInside' /\ LoopProgress'
    BY <1>1, <2>5 DEF IInv, TypeOK, OwnerInside, LoopProgress
  <2>7. \A u \in Threads : tpc'[u] # "write"
    BY <1>1 DEF IInv, TypeOK, OwnerInside
  <2>8. ReadIsFresh' /\ LinesPrinted' /\ LinesCountUp'
    BY <2>1, <2>7 DEF IInv, ReadIsFresh, LinesPrinted, LinesCountUp
  <2> QED BY <2>4, <2>6, <2>8 DEF IInv
<1>6. CASE Unlock(t)
  <2> USE <1>6 DEF Unlock, At
  <2>1. Stored' = Stored /\ Announced' = Announced
    BY <1>1 DEF TypeOK, Stored, Announced
  <2>2. TypeOK' /\ ReadIsFresh' /\ LoopProgress'
    BY <1>1 DEF IInv, TypeOK, ReadIsFresh, LoopProgress
  <2>3. OwnerInside'
    BY <1>1 DEF IInv, TypeOK, OwnerInside, Unlocked, Threads
  <2>4. EveryIncrementCounts' /\ LinesPrinted' /\ LinesCountUp'
    BY <2>1 DEF IInv, EveryIncrementCounts, LinesPrinted, LinesCountUp
  <2> QED BY <2>2, <2>3, <2>4 DEF IInv
<1> QED BY <1>2, <1>3, <1>4, <1>5, <1>6 DEF IncreaseCounter

\* IInv is inductive, and so holds in every reachable state.
THEOREM Invariant == Spec => []IInv
<1>1. IInv /\ UNCHANGED vars => IInv'
  BY DEF vars, IInv, TypeOK, OwnerInside, ReadIsFresh, LoopProgress, LinesPrinted,
         LinesCountUp, EveryIncrementCounts, Stored, Announced
<1>2. IInv /\ [Next]_vars => IInv'
  BY <1>1, MainIInv, ThreadIInv DEF Next
<1> QED BY InitIInv, <1>2, PTL DEF Spec

-----------------------------------------------------------------------------

\* The shape of the state, for every number of threads.
THEOREM TypeCorrect == Spec => []TypeOK
<1>1. IInv => TypeOK
  BY DEF IInv
<1> QED BY <1>1, Invariant, PTL

\* No interleaving loses an increment (mutex.c:41-42).
THEOREM NoLostIncrement == Spec => []EveryIncrementCounts
<1>1. IInv => EveryIncrementCounts
  BY DEF IInv
<1> QED BY <1>1, Invariant, PTL

\* The numbers printed are 0 to NTHREADS, in that order (mutex.c:31, 40).
THEOREM CorrectOutput == Spec => []OutputCountsUp
<1>1. ASSUME IInv, mpc = "returned"
      PROVE  Len(output) = NTHREADS + 1
  <2>1. Announced = Threads
    BY <1>1 DEF IInv, LoopProgress, Announced
  <2> QED BY <1>1, <2>1, ThreadSets, NThreadsAssumption DEF IInv, LinesPrinted
<1>2. IInv => OutputCountsUp
  BY <1>1 DEF IInv, OutputCountsUp, LinesCountUp
<1> QED BY <1>2, Invariant, PTL

\* The threads and main implement the atomic counter: PrintCurrent is the
\* indivisible addition, PrintFinal the report, every other step a stutter.
THEOREM Refinement == Spec => IsAtomicCounter
<1> USE DEF Atomic!avars
<1>0. \A S : Atomic!Cardinality(S) = Cardinality(S)
  BY DEF Atomic!Cardinality, Cardinality
<1>1. Init => Atomic!Init
  BY DEF Init, Atomic!Init, Announced
<1>2. ASSUME IInv, Main
      PROVE  [Atomic!Next]_(Atomic!avars)
  <2>1. CASE Create \/ CreateFails \/ Join
    <3>1. mpc = "create" => i \in Threads /\ tpc[i] = "none"
      BY <1>2 DEF IInv, LoopProgress, TypeOK, Threads
    <3>2. Announced' = Announced /\ output' = output
      BY <1>2, <2>1, <3>1 DEF Create, CreateFails, Join, IInv, TypeOK, Announced
    <3> QED BY <3>2
  <2>2. CASE PrintFinal
    <3>1. Announced = Threads /\ Stored = Threads /\ Announced' = Announced
      BY <1>2, <2>2 DEF PrintFinal, IInv, LoopProgress, Announced, Stored
    <3>2. counter = NTHREADS /\ Len(output) = NTHREADS
      BY <1>2, <2>2, <3>1, ThreadSets, NThreadsAssumption
         DEF PrintFinal, IInv, EveryIncrementCounts, LinesPrinted
    <3>3. Atomic!Report
      BY <2>2, <3>1, <3>2
         DEF PrintFinal, Atomic!Report, Atomic!Threads, Threads
    <3> QED BY <3>3 DEF Atomic!Next
  <2> QED BY <1>2, <2>1, <2>2 DEF Main
<1>3. ASSUME IInv, NEW t \in Threads, IncreaseCounter(t)
      PROVE  [Atomic!Next]_(Atomic!avars)
  <2>1. CASE PrintCurrent(t)
    <3>1. Announced' = Announced \union {t} /\ t \notin Announced
      BY <1>3, <2>1 DEF PrintCurrent, At, IInv, TypeOK, Announced
    <3>2. counter = Cardinality(Announced)
      BY <1>3, <2>1, AnnouncedIsStored
         DEF PrintCurrent, At, IInv, EveryIncrementCounts
    <3>3. Atomic!Add(t)
      BY <1>0, <2>1, <3>1, <3>2
         DEF PrintCurrent, Atomic!Add, Atomic!Threads, Threads
    <3> QED BY <3>3 DEF Atomic!Next, Atomic!Threads, Threads
  <2>2. CASE Lock(t) \/ ReadCounter(t) \/ WriteCounter(t) \/ Unlock(t)
    <3>1. Announced' = Announced /\ output' = output
      BY <1>3, <2>2 DEF Lock, ReadCounter, WriteCounter, Unlock, At, IInv,
                        TypeOK, Announced
    <3> QED BY <3>1
  <2> QED BY <1>3, <2>1, <2>2 DEF IncreaseCounter
<1>4. UNCHANGED vars => [Atomic!Next]_(Atomic!avars)
  BY DEF vars, Announced
<1>5. IInv /\ [Next]_vars => [Atomic!Next]_(Atomic!avars)
  BY <1>2, <1>3, <1>4 DEF Next
<1> QED BY <1>1, <1>5, Invariant, PTL DEF Spec, IsAtomicCounter, Atomic!Spec
=============================================================================
