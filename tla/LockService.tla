---------------------------- MODULE LockService ----------------------------
(***************************************************************************)
(* What pthread_mutex_lock() and its variants promise, whatever the lock   *)
(* word, the queue or the kernel do: a caller asks for the mutex, gets it  *)
(* when nobody has it, or is told that it did not, and gives it back.      *)
(***************************************************************************)
CONSTANT Threads

VARIABLE state   \* "idle", "asking" or "holding" for each thread

Init == state = [t \in Threads |-> "idle"]

Available == \A t \in Threads : state[t] # "holding"

Ask(t) ==
    /\ state[t] = "idle"
    /\ state' = [state EXCEPT ![t] = "asking"]

\* An uncontended lock is obtained without asking first.
Obtain(t) ==
    /\ state[t] # "holding" /\ Available
    /\ state' = [state EXCEPT ![t] = "holding"]

Fail(t) ==
    /\ state[t] = "asking"
    /\ state' = [state EXCEPT ![t] = "idle"]

GiveBack(t) ==
    /\ state[t] = "holding"
    /\ state' = [state EXCEPT ![t] = "idle"]

Next == \E t \in Threads : Ask(t) \/ Obtain(t) \/ Fail(t) \/ GiveBack(t)

Spec == Init /\ [][Next]_state
============================================================================
