\* Four threads: enough for three to wait for the mutex while one holds it.
CONSTANT NTHREADS = 4
SPECIFICATION FairSpec
INVARIANTS TypeOK EveryIncrementCounts OutputCountsUp
PROPERTIES IsAtomicCounter TotalIsPrinted
\* the process ends
CHECK_DEADLOCK FALSE
