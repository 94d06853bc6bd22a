-------------------------------- MODULE Cond -------------------------------
(***************************************************************************)
(* One Cobalt condition variable and the mutex it is used with:            *)
(* lib/cobalt/cond.c, kernel/cobalt/posix/cond.c and the part of the mutex *)
(* release that delivers signals (kernel/cobalt/posix/mutex.c).            *)
(*                                                                         *)
(* Signalling never enters the kernel: it leaves a count in memory shared  *)
(* with the kernel and flags the mutex, the next release of the mutex does *)
(* the rest.  The words involved are written without protection, by user   *)
(* space (pending_signals, the flag) and by the kernel before it takes or  *)
(* after it drops nklock (mutex_state_offset); an action is one access to  *)
(* such a word, or one nklock section.                                     *)
(*                                                                         *)
(* The mutex is the service that Mutex implements (LockService): an owner, *)
(* granted to any thread that asks for it.                                 *)
(***************************************************************************)
EXTENDS Integers, Sequences, PrioList

CONSTANTS
    Threads,      \* the threads
    None,         \* no thread
    All,          \* ~0U in pending_signals: a broadcast
    prio,         \* weighted priority of each thread
    MaxPending,   \* bound on undelivered signals
    MaxDepth,     \* bound on recursive locks
    Profiles      \* the applications considered, records of sets of threads:
                  \*   waiters    call pthread_cond_wait()
                  \*   signalers  signal and broadcast, holding the mutex
                  \*   outside    signal and broadcast without holding it
                  \*   timed      wait with a timeout
                  \*   kicked     receive Linux signals
                  \*   cancelled  are cancelled while they wait
                  \*   destroyers destroy the condition variable

VARIABLES
    app,        \* the application, one of Profiles
    owner,      \* the owner of the mutex
    lockcnt,    \* mutex->lockcnt, the recursion count in the user-space shadow
    depth,      \* what each thread takes its recursion count to be
    sigflag,    \* COBALT_MUTEX_COND_SIGNAL in the flags of the mutex state
    pending,    \* cond_state->pending_signals
    offset,     \* cond_state->mutex_state_offset is set
    bound,      \* cond->mutex is set, and the variable on the list mutex->conds
    pendq,      \* cond->synchbase.pendq
    live,       \* the condition variable exists
    pc,         \* where each thread is
    intr,       \* the wait was interrupted (-EINTR): the epilogue must be called
    gone,       \* the thread was cancelled
    tmp         \* the count a signaler has read

vars == <<app, owner, lockcnt, depth, sigflag, pending, offset, bound, pendq, live,
          pc, intr, gone, tmp>>

----------------------------------------------------------------------------
Init ==
    /\ app \in Profiles
    /\ owner = None /\ lockcnt = 0
    /\ depth = [t \in Threads |-> 0]
    /\ sigflag = FALSE /\ pending = 0
    /\ offset = FALSE /\ bound = FALSE
    /\ pendq = <<>> /\ live = TRUE
    /\ pc = [t \in Threads |-> "out"]
    /\ intr = [t \in Threads |-> FALSE]
    /\ gone = [t \in Threads |-> FALSE]
    /\ tmp = [t \in Threads |-> 0]

Goto(t, loc) == pc' = [pc EXCEPT ![t] = loc]

\* Mutant: a broadcast wakes one sleeper.
SignalledOne ==
    IF sigflag /\ bound /\ pendq # <<>> THEN {Head(pendq)} ELSE {}

\* cobalt_cond_deferred_signals(): the sleepers a release of the mutex wakes.
Signalled ==
    LET n == IF ~(sigflag /\ bound) THEN 0
             ELSE IF pending = All \/ pending > Len(pendq) THEN Len(pendq)
             ELSE pending
    IN  {pendq[i] : i \in 1 .. n}

\* cobalt_mutex_release(): deliver the signals, then give up the mutex.  A waiter
\* joins the queue in the same nklock section.
ReleaseMutex(t, loc, queued) ==
    /\ owner' = None
    /\ sigflag' = FALSE
    /\ pending' = IF sigflag /\ bound THEN 0 ELSE pending
    /\ LET left == SelectSeq(pendq, LAMBDA u : u \notin Signalled)
       IN  pendq' = IF queued THEN AddPriff(left, t, prio) ELSE left
    /\ pc' = [u \in Threads |-> IF u = t THEN loc
                                ELSE IF u \in Signalled THEN "woken" ELSE pc[u]]

----------------------------------------------------------------------------
(* The mutex: lib/cobalt/mutex.c                                           *)

Lock(t) ==
    /\ pc[t] = "out" /\ ~gone[t] /\ owner = None
    /\ owner' = t /\ lockcnt' = 1 /\ depth' = [depth EXCEPT ![t] = 1]
    /\ Goto(t, "in")
    /\ UNCHANGED <<app, sigflag, pending, offset, bound, pendq, live, intr, gone, tmp>>

Relock(t) ==
    /\ pc[t] = "in" /\ depth[t] < MaxDepth /\ t \in app.waiters
    /\ lockcnt' = lockcnt + 1 /\ depth' = [depth EXCEPT ![t] = @ + 1]
    /\ UNCHANGED <<app, owner, sigflag, pending, offset, bound, pendq, live, pc, intr, gone, tmp>>

\* pthread_mutex_unlock(): a flagged mutex is released by the kernel.
Unlock(t) ==
    /\ pc[t] = "in"
    /\ \/ /\ lockcnt > 1
          /\ lockcnt' = lockcnt - 1 /\ depth' = [depth EXCEPT ![t] = @ - 1]
          /\ UNCHANGED <<owner, sigflag, pending, pendq, pc>>
       \/ /\ lockcnt <= 1
          /\ ReleaseMutex(t, "out", FALSE)
          /\ depth' = [depth EXCEPT ![t] = 0]
          /\ UNCHANGED lockcnt
    /\ UNCHANGED <<app, offset, bound, live, intr, gone, tmp>>

----------------------------------------------------------------------------
(* Waiting                                                                 *)

\* __cobalt_cond_wait_prologue(), before nklock: publish the mutex.
WaitBegin(t) ==
    /\ t \in app.waiters /\ pc[t] = "in" /\ live /\ ~gone[t]
    /\ offset' = (offset \/ ~bound)
    /\ Goto(t, "prologue")
    /\ UNCHANGED <<app, owner, lockcnt, depth, sigflag, pending, bound, pendq, live, intr, gone, tmp>>

\* cobalt_cond_timedwait_prologue(): release the mutex and sleep, atomically.
\* The date of a timed wait may have passed, a signal may be pending.
WaitSleep(t) ==
    /\ pc[t] = "prologue"
    /\ \/ /\ ReleaseMutex(t, "pend", TRUE)
          /\ UNCHANGED intr
       \/ /\ t \in app.timed
          /\ ReleaseMutex(t, "woken", FALSE)
          /\ UNCHANGED intr
       \/ /\ t \in app.kicked
          /\ ReleaseMutex(t, "tail", FALSE)
          /\ intr' = [intr EXCEPT ![t] = TRUE]
    /\ bound' = TRUE
    /\ UNCHANGED <<app, lockcnt, depth, offset, live, gone, tmp>>

\* The timeout elapses.
Timeout(t) ==
    /\ t \in app.timed /\ pc[t] = "pend"
    /\ pendq' = Delete(pendq, t)
    /\ Goto(t, "woken")
    /\ UNCHANGED <<app, owner, lockcnt, depth, sigflag, pending, offset, bound, live, intr, gone, tmp>>

\* A Linux signal ends the wait for the condition, or the one for the mutex.
Kick(t) ==
    /\ t \in app.kicked
    /\ \/ pc[t] = "pend" /\ pendq' = Delete(pendq, t)
       \/ pc[t] \in {"woken", "again"} /\ UNCHANGED pendq
    /\ intr' = [intr EXCEPT ![t] = TRUE]
    /\ Goto(t, "tail")
    /\ UNCHANGED <<app, owner, lockcnt, depth, sigflag, pending, offset, bound, live, gone, tmp>>

\* cobalt_cond_timedwait_epilogue(): get the mutex back, undo the binding when
\* nobody sleeps.
Epilogue(t) ==
    /\ pc[t] \in {"woken", "again"} /\ owner = None
    /\ owner' = t
    /\ bound' = (bound /\ pendq # <<>>)
    /\ intr' = [intr EXCEPT ![t] = FALSE]
    /\ Goto(t, "tail")
    /\ UNCHANGED <<app, lockcnt, depth, sigflag, pending, offset, pendq, live, gone, tmp>>

\* Mutant: the recursion count is left as the other owners made it.
WaitReturnKeep(t) ==
    /\ Goto(t, IF intr[t] THEN "again" ELSE "in")
    /\ UNCHANGED lockcnt

\* Back to user space, which calls the epilogue again if interrupted, and else
\* restores the recursion count.  A cancelled thread runs the cleanup handler
\* instead, which restores the count field of its record: nobody sets it.
WaitReturn(t) ==
    IF intr[t]
    THEN /\ Goto(t, "again")
         /\ UNCHANGED lockcnt
    ELSE /\ Goto(t, "in")
         /\ lockcnt' = IF gone[t] THEN 0 ELSE depth[t]

\* Mutant: whoever leaves retracts the mutex.
TailTestAlways(t) ==
    /\ pc[t] = "tail"
    /\ Goto(t, "retract")
    /\ UNCHANGED <<app, owner, lockcnt, depth, sigflag, pending, offset, bound, pendq, live, intr, gone, tmp>>

\* The end of both system calls, without nklock: an unbound variable no longer
\* publishes a mutex.  The test and the write are separate accesses.
TailTest(t) ==
    /\ pc[t] = "tail"
    /\ \/ ~bound /\ Goto(t, "retract") /\ UNCHANGED lockcnt
       \/ bound /\ WaitReturn(t)
    /\ UNCHANGED <<app, owner, depth, sigflag, pending, offset, bound, pendq, live, intr, gone, tmp>>

TailRetract(t) ==
    /\ pc[t] = "retract"
    /\ offset' = FALSE
    /\ WaitReturn(t)
    /\ UNCHANGED <<app, owner, depth, sigflag, pending, bound, pendq, live, intr, gone, tmp>>

\* Asynchronous cancellation of an interrupted wait.
Cancel(t) ==
    /\ t \in app.cancelled /\ pc[t] = "again" /\ ~gone[t]
    /\ gone' = [gone EXCEPT ![t] = TRUE]
    /\ UNCHANGED <<app, owner, lockcnt, depth, sigflag, pending, offset, bound, pendq, live, pc, intr, tmp>>

----------------------------------------------------------------------------
(* Signalling: lib/cobalt/cond.c                                           *)

MaySignal(t) ==
    \/ t \in app.signalers /\ pc[t] = "in"
    \/ t \in app.outside /\ pc[t] = "out"

Idle(t) == IF owner = t THEN "in" ELSE "out"

\* pthread_cond_signal() and pthread_cond_broadcast(): without a published
\* mutex there is no waiter, and nothing to do; else flag the mutex.
Signal(t) ==
    /\ MaySignal(t) /\ live /\ offset
    /\ pending # All /\ pending < MaxPending
    /\ sigflag' = TRUE
    /\ \/ Goto(t, "read") \/ Goto(t, "write")
    /\ UNCHANGED <<app, owner, lockcnt, depth, pending, offset, bound, pendq, live, intr, gone, tmp>>

\* A signal is counted by a read and a write.
SignalRead(t) ==
    /\ pc[t] = "read"
    /\ tmp' = [tmp EXCEPT ![t] = pending]
    /\ Goto(t, "count")
    /\ UNCHANGED <<app, owner, lockcnt, depth, sigflag, pending, offset, bound, pendq, live, intr, gone>>

SignalCount(t) ==
    /\ pc[t] = "count"
    /\ pending' = IF tmp[t] = All THEN pending ELSE tmp[t] + 1
    /\ Goto(t, Idle(t))
    /\ UNCHANGED <<app, owner, lockcnt, depth, sigflag, offset, bound, pendq, live, intr, gone, tmp>>

\* A broadcast overrides the count.
BroadcastWrite(t) ==
    /\ pc[t] = "write"
    /\ pending' = All
    /\ Goto(t, Idle(t))
    /\ UNCHANGED <<app, owner, lockcnt, depth, sigflag, offset, bound, pendq, live, intr, gone, tmp>>

----------------------------------------------------------------------------
\* pthread_cond_destroy(): -EBUSY while a thread sleeps or a mutex is bound.
Destroy(t) ==
    /\ t \in app.destroyers /\ pc[t] \in {"in", "out"} /\ live
    /\ pendq = <<>> /\ ~bound
    /\ live' = FALSE
    /\ UNCHANGED <<app, owner, lockcnt, depth, sigflag, pending, offset, bound, pendq, pc, intr, gone, tmp>>

\* What a thread does by itself once it has called a service.
Step(t) ==
    \/ WaitSleep(t) \/ Epilogue(t) \/ TailTest(t) \/ TailRetract(t)
    \/ SignalRead(t) \/ SignalCount(t) \/ BroadcastWrite(t)

Next ==
    \E t \in Threads :
        \/ Lock(t) \/ Relock(t) \/ Unlock(t) \/ WaitBegin(t)
        \/ Signal(t) \/ Destroy(t) \/ Step(t)
        \/ Timeout(t) \/ Kick(t) \/ Cancel(t)

\* A runnable thread is given the CPU, and releases the mutex it holds.
Fairness == \A t \in Threads : WF_vars(Step(t)) /\ WF_vars(Unlock(t))

Spec == Init /\ [][Next]_vars
FairSpec == Spec /\ Fairness

----------------------------------------------------------------------------
(* Properties                                                              *)

\* A condition variable with sleepers is on the list of its mutex: releasing
\* the mutex finds it, whoever left in between and for whatever reason.
SleepersBound == pendq # <<>> => bound

\* "Fast path, no waiter" (pthread_cond_signal): while a thread sleeps, the
\* mutex is published, so that a signal is not dropped.
SleepersVisible == pendq # <<>> => offset

\* The same, for threads that receive no Linux signal while they wait.
SleepersVisibleUnkicked == app.kicked = {} => SleepersVisible

\* Signals given with the mutex held are delivered by the release that follows:
\* the mutex is flagged as long as signals are left to deliver.
SignalArmed ==
    app.outside = {} /\ app.kicked = {} /\ pending # 0 => sigflag /\ owner # None

\* A signal finds its sleepers: pthread_cond_signal() sees that there are some,
\* what it posts is left to the release of the mutex, and the release finds the
\* condition variable on the list of the mutex.
SignalsReach == SleepersBound /\ SleepersVisibleUnkicked /\ SignalArmed

\* The recursion count the owner of the mutex finds is the one it had before it
\* waited.
RecursionRestored ==
    \A t \in Threads : pc[t] = "in" => lockcnt = depth[t]

RecursionRestoredUncancelled == app.cancelled = {} => RecursionRestored

\* pthread_cond_destroy(), "EBUSY, some thread is currently using the condition
\* variable": no thread is left inside a wait on a destroyed variable.
DestroyedUnused ==
    ~live => \A t \in Threads : pc[t] \notin {"pend", "woken", "tail", "retract", "again"}

\* The owner of the mutex has called pthread_cond_broadcast(), t sleeps.
BroadcastDue(t) ==
    app.outside = {} /\ pc[t] = "pend" /\ pending = All /\ sigflag

\* pthread_cond_broadcast(), "unblocks all threads blocked on the condition
\* variable": each of them is eventually woken.
BroadcastWakes == \A t \in Threads : BroadcastDue(t) ~> pc[t] # "pend"
============================================================================
