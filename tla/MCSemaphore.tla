----------------------------- MODULE MCSemaphore ----------------------------
(* Small instances of Semaphore.                                           *)
EXTENDS Semaphore

CONSTANTS t1, t2, t3

\* Two threads of equal priority and one above them.
MCThreads == {t1, t2, t3}
MCprio == [t \in MCThreads |-> IF t = t3 THEN 2 ELSE 1]
============================================================================
