------------------------------- MODULE Mutex -------------------------------
(***************************************************************************)
(* One Cobalt mutex: the user-space fast path on the lock word             *)
(* (lib/cobalt/mutex.c), the mutex system calls (kernel/cobalt/posix/      *)
(* mutex.c) and the xnsynch object underneath (kernel/cobalt/synch.c).     *)
(*                                                                         *)
(* The lock word is the only state both worlds change.  User space touches *)
(* it with compare-and-exchange and no other protection; the kernel also   *)
(* holds nklock.  Hence an action here is either one user-space exchange   *)
(* or one stretch of nklock-protected code up to the next access of the    *)
(* lock word that user space can race with.  nklock is recursive and taken *)
(* by the system call, so xnsynch_acquire() keeps it until the caller      *)
(* blocks or returns, its redo loop included.                              *)
(*                                                                         *)
(* The mutex has no priority inheritance (PTHREAD_PRIO_NONE, the default   *)
(* protocol), so the weighted priority of a thread is a constant.          *)
(***************************************************************************)
EXTENDS Integers, Sequences, PrioList

CONSTANTS
    Threads,      \* the Cobalt threads sharing the mutex
    None,         \* XN_NO_HANDLE / a NULL owner
    prio,         \* weighted priority (wprio) of each thread
    Type,         \* "NORMAL", "ERRORCHECK" or "RECURSIVE"
    MaxCount,     \* bound standing for UINT32_MAX in lockcnt
    Weak,         \* threads of the SCHED_WEAK class (XNWEAK)
    Calls,        \* the locking services used: subset of LockCalls
    Relockers,    \* threads that may lock a mutex they already hold
    Released,     \* threads others send SIGRELS to (xnthread_unblock)
    Kicked,       \* threads others send SIGKICK to (xnthread_kick)
    Signalled,    \* threads Linux signals are sent to (handle_sigwake_event)
    Suspendable   \* threads others send SIGSUSP to (xnthread_suspend)

LockCalls == {"lock", "timedlock", "trylock"}

ASSUME ConstantsAssumption ==
    /\ None \notin Threads
    /\ prio \in [Threads -> Int]
    /\ Type \in {"NORMAL", "ERRORCHECK", "RECURSIVE"}
    /\ MaxCount \in Nat \ {0}
    /\ Calls \subseteq LockCalls
    /\ Weak \subseteq Threads /\ Relockers \subseteq Threads
    /\ Released \subseteq Threads /\ Kicked \subseteq Threads
    /\ Signalled \subseteq Threads /\ Suspendable \subseteq Threads

VARIABLES
    lock,     \* the lock word: [id |-> owner handle, claim |-> XNSYNCH_FLCLAIM]
    owner,    \* synch->owner
    pendq,    \* synch->pendq, the queue of sleepers
    live,     \* the mutex is registered (magic == COBALT_MUTEX_MAGIC)
    lockcnt,  \* the recursion count in the user-space shadow
    pc,       \* where each thread is
    call,     \* the service each thread executes
    ret,      \* what the system call handler returned
    info,     \* thread->info, and "SIG" for signal_pending()
    susp,     \* the XNSUSP bit of thread->state
    res,      \* thread->res_count
    held      \* the thread's own view: locks it was granted, minus unlocks

vars == <<lock, owner, pendq, live, lockcnt, pc, call, ret, info, susp, res, held>>
kernel == <<lock, owner, pendq, live>>

----------------------------------------------------------------------------
Locations == {"user", "sys", "try", "claim", "pend", "ready", "ret"}
Services  == LockCalls \cup {"relock", "unlock", "none"}
Results   == {"OK", "EINTR", "ETIMEDOUT", "EINVAL", "EBUSY"}
Wakeup    == {"RMID", "TIMEO", "BREAK"}
InfoBits  == Wakeup \cup {"WAKEN", "ROBBED", "KICKED", "SIG"}

\* What xnthread_suspend() clears when it blocks a runnable thread.
BlockClears == Wakeup \cup {"WAKEN", "ROBBED", "KICKED"}

Free == [id |-> None, claim |-> FALSE]

\* Mutant: the claim bit is never set.
WordUnclaimed(t, c) == [id |-> t, claim |-> FALSE]

Word(t, c) == [id |-> t, claim |-> c]

\* What the system call handler returns once xnsynch_acquire() is done.
AcquireResult(t, bits) ==
    IF call[t] = "relock" THEN "EBUSY"
    ELSE IF "BREAK" \in bits THEN "EINTR"
    ELSE IF "TIMEO" \in bits THEN "ETIMEDOUT"
    ELSE IF "RMID"  \in bits THEN "EINVAL"
    ELSE "OK"

CountResource(t) == res' = [res EXCEPT ![t] = IF t \in Weak THEN @ + 1 ELSE @]
DropResource(t) ==
    res' = [res EXCEPT ![t] = IF t \in Weak /\ @ > 0 THEN @ - 1 ELSE @]

Running(t, loc) == pc[t] = loc /\ ~susp[t]

\* nklock is kept from one step to the next inside xnsynch_acquire() only.
NklockFree == \A u \in Threads : pc[u] \notin {"try", "claim"}

Goto(t, loc)    == pc' = [pc EXCEPT ![t] = loc]
Return(t, r)    == Goto(t, "ret") /\ ret' = [ret EXCEPT ![t] = r]

SetOwner(t) == owner' = t
SetInfo(t, bits) == info' = [info EXCEPT ![t] = bits]

Init ==
    /\ lock = Free /\ owner = None /\ pendq = <<>> /\ live = TRUE
    /\ lockcnt = 0
    /\ pc = [t \in Threads |-> "user"]
    /\ call = [t \in Threads |-> "none"]
    /\ ret = [t \in Threads |-> "OK"]
    /\ info = [t \in Threads |-> {}]
    /\ susp = [t \in Threads |-> FALSE]
    /\ res = [t \in Threads |-> 0]
    /\ held = [t \in Threads |-> 0]

----------------------------------------------------------------------------
(* User space: lib/cobalt/mutex.c                                          *)

\* Mutant: the recursion count of the previous owner is kept.
LockFastKeepCount(t) ==
    /\ Running(t, "user") /\ held[t] = 0 /\ live
    /\ t \notin Weak
    /\ lock = Free
    /\ lock' = Word(t, FALSE)
    /\ held' = [held EXCEPT ![t] = @ + 1]
    /\ UNCHANGED <<owner, pendq, live, lockcnt, pc, call, ret, info, susp, res>>

\* pthread_mutex_{lock,timedlock,trylock}: the compare-and-exchange succeeds.
LockFast(t) ==
    /\ Running(t, "user") /\ held[t] = 0 /\ live
    /\ t \notin Weak
    /\ lock = Free
    /\ lock' = Word(t, FALSE)
    /\ lockcnt' = 1
    /\ held' = [held EXCEPT ![t] = @ + 1]
    /\ UNCHANGED <<owner, pendq, live, pc, call, ret, info, susp, res>>

\* The exchange failed, or the caller is relaxed or weak and may not use it.
LockSyscall(t) ==
    /\ Running(t, "user") /\ held[t] = 0 /\ live
    /\ lock.id # t
    /\ \E c \in Calls : call' = [call EXCEPT ![t] = c]
    /\ Goto(t, "sys")
    /\ UNCHANGED <<kernel, lockcnt, ret, info, susp, res, held>>

\* Locking a mutex the lock word says the caller owns: counted when recursive
\* (EAGAIN at the maximum), refused when error-checking, sent to the kernel
\* when normal.
Relock(t) ==
    /\ Running(t, "user") /\ live
    /\ lock.id = t /\ (held[t] > 0 => t \in Relockers)
    /\ \/ /\ Type = "RECURSIVE" /\ lockcnt < MaxCount
          /\ lockcnt' = lockcnt + 1
          /\ held' = [held EXCEPT ![t] = @ + 1]
          /\ UNCHANGED <<pc, call>>
       \/ /\ Type = "NORMAL"
          /\ Goto(t, "sys")
          /\ call' = [call EXCEPT ![t] = "lock"]
          /\ UNCHANGED <<lockcnt, held>>
    /\ UNCHANGED <<kernel, ret, info, susp, res>>

\* pthread_mutex_unlock: not the owner (EPERM), a nested level, the
\* compare-and-exchange, or the system call when it fails.
Unlock(t) ==
    /\ Running(t, "user") /\ held[t] > 0 /\ live
    /\ \/ /\ lock.id # t
          /\ held' = [held EXCEPT ![t] = @ - 1]
          /\ UNCHANGED <<lock, lockcnt, pc, call>>
       \/ /\ lock.id = t /\ lockcnt > 1
          /\ lockcnt' = lockcnt - 1
          /\ held' = [held EXCEPT ![t] = @ - 1]
          /\ UNCHANGED <<lock, pc, call>>
       \/ /\ lock = Word(t, FALSE) /\ lockcnt <= 1 /\ t \notin Weak
          /\ lock' = Free
          /\ held' = [held EXCEPT ![t] = @ - 1]
          /\ UNCHANGED <<lockcnt, pc, call>>
       \/ /\ lock.id = t /\ lockcnt <= 1
          /\ lock.claim \/ t \in Weak
          /\ held' = [held EXCEPT ![t] = @ - 1]
          /\ Goto(t, "sys")
          /\ call' = [call EXCEPT ![t] = "unlock"]
          /\ UNCHANGED <<lock, lockcnt>>
    /\ UNCHANGED <<owner, pendq, live, ret, info, susp, res>>

----------------------------------------------------------------------------
(* System calls: kernel/cobalt/posix/mutex.c                               *)

\* __cobalt_mutex_timedlock_break(): a caller that owns a normal mutex is
\* made to hang on it, any other caller goes for xnsynch_acquire().
SysLock(t) ==
    /\ Running(t, "sys") /\ call[t] \in {"lock", "timedlock"} /\ NklockFree
    /\ \/ /\ ~live
          /\ Return(t, "EINVAL")
          /\ UNCHANGED call
       \/ /\ live /\ lock.id # t
          /\ Goto(t, "try")
          /\ UNCHANGED <<call, ret>>
       \/ /\ live /\ lock.id = t /\ Type = "NORMAL"
          /\ Goto(t, "try")
          /\ call' = [call EXCEPT ![t] = "relock"]
          /\ UNCHANGED ret
       \/ /\ live /\ lock.id = t /\ Type # "NORMAL"
          /\ Return(t, "EINVAL")
          /\ UNCHANGED call
    /\ UNCHANGED <<kernel, lockcnt, info, susp, res, held>>

\* mutex_trylock: xnsynch_fast_acquire() under nklock.
SysTrylock(t) ==
    /\ Running(t, "sys") /\ call[t] = "trylock" /\ NklockFree
    /\ \/ /\ live /\ lock = Free
          /\ lock' = Word(t, FALSE)
          /\ CountResource(t)
          /\ Return(t, "OK")
       \/ /\ live /\ lock.id \notin {None, t}
          /\ Return(t, "EBUSY")
          /\ UNCHANGED <<lock, res>>
       \/ /\ ~live \/ lock.id = t
          /\ Return(t, "EINVAL")
          /\ UNCHANGED <<lock, res>>
    /\ UNCHANGED <<owner, pendq, live, lockcnt, call, info, susp, held>>

----------------------------------------------------------------------------
(* xnsynch_acquire(), xnsynch_release(): kernel/cobalt/synch.c             *)

\* Label redo: the exchange of xnsynch_acquire().
AcquireTry(t) ==
    /\ Running(t, "try")
    /\ \/ /\ lock = Free
          /\ lock' = Word(t, FALSE)
          /\ SetOwner(t)
          /\ SetInfo(t, info[t] \ Wakeup)
          /\ CountResource(t)
          /\ Return(t, AcquireResult(t, {}))
       \/ /\ lock # Free
          /\ Goto(t, "claim")
          /\ UNCHANGED <<lock, owner, info, res, ret>>
    /\ UNCHANGED <<pendq, live, lockcnt, call, susp, held>>

\* Mutants: one of the two conditions for stealing is dropped.
CanStealAny(t, o) == t # o /\ "WAKEN" \in info[o]
CanStealHeld(t, o) == prio[t] > prio[o]

\* The owner was handed the mutex but has not run since, and the caller has a
\* higher priority.
CanSteal(t, o) == prio[t] > prio[o] /\ "WAKEN" \in info[o]

\* The caller steals the pending ownership.
Steal(t) ==
    LET o == lock.id IN
    /\ CanSteal(t, o)
    /\ SetOwner(t)
    /\ info' = [info EXCEPT ![t] = @ \ Wakeup, ![o] = @ \cup {"ROBBED"}]
    /\ CountResource(t)
    /\ lock' = Word(t, pendq # <<>>)
    /\ Return(t, AcquireResult(t, {}))
    /\ UNCHANGED pendq

\* Mutant: a pending kick is ignored.
AlwaysBlock(t) == TRUE

\* xnthread_suspend() does not block a thread that must relax.
MayBlock(t) == "KICKED" \notin info[t]

\* The caller queues up; xnthread_suspend() may refuse to block it because it
\* was kicked, or because its absolute timeout has passed already.
Block(t) ==
    LET o == lock.id IN
    /\ ~CanSteal(t, o)
    /\ lock' = Word(o, TRUE)
    /\ SetOwner(o)
    /\ \/ /\ ~MayBlock(t)
          /\ SetInfo(t, (info[t] \ {"RMID", "TIMEO", "WAKEN"}) \cup {"BREAK"})
          /\ Return(t, AcquireResult(t, {"BREAK"}))
          /\ UNCHANGED pendq
       \/ /\ MayBlock(t) /\ call[t] = "timedlock"
          /\ SetInfo(t, (info[t] \ BlockClears) \cup {"TIMEO"})
          /\ Return(t, AcquireResult(t, {"TIMEO"}))
          /\ UNCHANGED pendq
       \/ /\ MayBlock(t)
          /\ SetInfo(t, info[t] \ BlockClears)
          /\ pendq' = AddPriff(pendq, t, prio)
          /\ Goto(t, "pend")
          /\ UNCHANGED ret
    /\ UNCHANGED res

\* Under nklock: set the claim bit, unless the mutex was released meanwhile.
AcquireClaim(t) ==
    /\ Running(t, "claim")
    /\ \/ /\ lock.id = None
          /\ Goto(t, "try")
          /\ UNCHANGED <<lock, owner, pendq, info, res, ret>>
       \/ lock.id # None /\ Steal(t)
       \/ lock.id # None /\ Block(t)
    /\ UNCHANGED <<live, lockcnt, call, susp, held>>

\* The caller runs again, returning from xnthread_suspend().
AcquireWake(t) ==
    LET bits == info[t] \ {"WAKEN"} IN
    /\ Running(t, "ready") /\ NklockFree
    /\ SetInfo(t, bits)
    /\ \/ /\ bits \cap Wakeup # {}
          /\ Return(t, AcquireResult(t, bits))
          /\ UNCHANGED <<lock, res>>
       \/ /\ bits \cap Wakeup = {} /\ "ROBBED" \in bits
          /\ Goto(t, "try")
          /\ UNCHANGED <<lock, res, ret>>
       \/ /\ bits \cap Wakeup = {} /\ "ROBBED" \notin bits
          /\ lock' = Word(t, pendq # <<>>)
          /\ CountResource(t)
          /\ Return(t, AcquireResult(t, {}))
    /\ UNCHANGED <<owner, pendq, live, lockcnt, call, susp, held>>

\* transfer_ownership(): the first sleeper becomes the owner, with XNWAKEN to
\* say that it has not run yet.
TransferOwnership ==
    \/ /\ pendq = <<>>
       /\ owner' = None
       /\ lock' = Free
       /\ UNCHANGED <<pendq, info>>
    \/ /\ pendq # <<>>
       /\ pendq' = Tail(pendq)
       /\ SetOwner(Head(pendq))
       /\ SetInfo(Head(pendq), info[Head(pendq)] \cup {"WAKEN"})
       /\ lock' = Word(Head(pendq), Len(pendq) > 1)

\* xnsynch_release(): the compare-and-exchange fails when the word is claimed.
\* It is not checked that the word names the caller, user space did.
Release(t) ==
    /\ DropResource(t)
    /\ \/ /\ lock = Word(t, FALSE)
          /\ lock' = Free
          /\ UNCHANGED <<owner, pendq, info>>
       \/ lock # Word(t, FALSE) /\ TransferOwnership

Wakes(t, u) == lock # Word(t, FALSE) /\ pendq # <<>> /\ u = Head(pendq)

\* mutex_unlock.
SysUnlock(t) ==
    /\ Running(t, "sys") /\ call[t] = "unlock" /\ NklockFree
    /\ \/ /\ ~live
          /\ Return(t, "EINVAL")
          /\ UNCHANGED <<lock, owner, pendq, info, res>>
       \/ /\ live /\ Release(t)
          /\ ret' = [ret EXCEPT ![t] = "OK"]
          /\ pc' = [u \in Threads |->
                      IF u = t THEN "ret"
                      ELSE IF Wakes(t, u) THEN "ready" ELSE pc[u]]
    /\ UNCHANGED <<live, lockcnt, call, susp, held>>

\* mutex_destroy: refused while the lock word names an owner.  Sleepers, if
\* there were any, would be flushed with XNRMID by xnsynch_destroy().
Destroy(t) ==
    /\ Running(t, "user") /\ held[t] = 0 /\ live /\ NklockFree
    /\ lock.id = None
    /\ live' = FALSE
    /\ pendq' = <<>>
    /\ info' = [u \in Threads |->
                  IF pc[u] = "pend" THEN info[u] \cup {"RMID"} ELSE info[u]]
    /\ pc' = [u \in Threads |-> IF pc[u] = "pend" THEN "ready" ELSE pc[u]]
    /\ UNCHANGED <<lock, owner, lockcnt, call, ret, susp, res, held>>

----------------------------------------------------------------------------
(* Return to user space: kernel/cobalt/posix/syscall.c                     *)

\* prepare_for_signal() turns any result into -EINTR or -ERESTARTSYS when the
\* caller was kicked and a Linux signal is pending.
Interrupted(t) == {"KICKED", "SIG"} \subseteq info[t]

\* The kicked caller relaxes.  A restart, or the loop around the call in
\* lib/cobalt/mutex.c, issues the same call again.
SysReturn(t) ==
    LET again == Interrupted(t) \/ ret[t] = "EINTR"
        got   == ret[t] = "OK" /\ call[t] \in LockCalls
    IN
    /\ Running(t, "ret")
    /\ SetInfo(t, IF "KICKED" \in info[t] THEN {} ELSE info[t])
    /\ \/ /\ again
          /\ Goto(t, "sys")
          /\ call' = [call EXCEPT ![t] = IF @ = "relock" THEN "lock" ELSE @]
          /\ UNCHANGED <<lockcnt, held>>
       \/ /\ ~again
          /\ Goto(t, "user")
          /\ lockcnt' = IF got THEN 1 ELSE lockcnt
          /\ held' = [held EXCEPT ![t] = IF got THEN @ + 1 ELSE @]
          /\ call' = [call EXCEPT ![t] = "none"]
    /\ ret' = [ret EXCEPT ![t] = "OK"]
    /\ UNCHANGED <<kernel, susp, res>>

\* The mayday trap relaxes a thread kicked while it was running user code.
Mayday(t) ==
    /\ Running(t, "user") /\ "KICKED" \in info[t]
    /\ SetInfo(t, {})
    /\ UNCHANGED <<kernel, lockcnt, pc, call, ret, susp, res, held>>

----------------------------------------------------------------------------
(* What others do to a thread: kernel/cobalt/thread.c, under nklock        *)

\* xnsynch_forget_sleeper() and xnthread_resume(): the sleeper leaves the
\* queue with some wakeup reason, and runs unless forcibly suspended.
WakeSleeper(t, bits) ==
    /\ pc[t] = "pend"
    /\ pendq' = Delete(pendq, t)
    /\ Goto(t, "ready")
    /\ SetInfo(t, info[t] \cup bits)

\* timeout_handler(): the timer armed by a timed lock elapses.
Timeout(t) ==
    /\ call[t] = "timedlock" /\ NklockFree
    /\ WakeSleeper(t, {"TIMEO"})
    /\ UNCHANGED <<lock, owner, live, lockcnt, call, ret, susp, res, held>>

\* Mutant: XNBREAK is raised for a thread that is awake already.
UnblockAwake(t) ==
    /\ t \in Released /\ NklockFree
    /\ \/ WakeSleeper(t, {"BREAK"})
       \/ /\ pc[t] = "ready"
          /\ SetInfo(t, info[t] \cup {"BREAK"})
          /\ UNCHANGED <<pendq, pc>>
    /\ UNCHANGED <<lock, owner, live, lockcnt, call, ret, susp, res, held>>

\* SIGRELS: xnthread_unblock(), harmless unless the target sleeps.
Unblock(t) ==
    /\ t \in Released /\ NklockFree
    /\ WakeSleeper(t, {"BREAK"})
    /\ UNCHANGED <<lock, owner, live, lockcnt, call, ret, susp, res, held>>

\* __xnthread_kick(), for SIGKICK or, bits having SIG, for a Linux signal: the
\* target leaves its wait and any forced suspension, and will relax.
Kick(t, bits) ==
    /\ NklockFree
    /\ \/ /\ "KICKED" \in info[t] /\ bits \ info[t] # {}
          /\ SetInfo(t, info[t] \cup bits)
          /\ UNCHANGED <<pendq, pc, susp>>
       \/ /\ "KICKED" \notin info[t]
          /\ WakeSleeper(t, bits \cup {"BREAK"})
          /\ susp' = [susp EXCEPT ![t] = FALSE]
       \/ /\ "KICKED" \notin info[t] /\ pc[t] # "pend"
          /\ SetInfo(t, info[t] \cup bits)
          /\ susp' = [susp EXCEPT ![t] = FALSE]
          /\ UNCHANGED <<pendq, pc>>
    /\ UNCHANGED <<lock, owner, live, lockcnt, call, ret, res, held>>

\* SIGSUSP: xnthread_suspend(XNSUSP).  A runnable target that was kicked gets
\* XNBREAK instead of being suspended; any other runnable target loses its
\* wakeup information.
Suspend(t) ==
    /\ t \in Suspendable /\ ~susp[t] /\ NklockFree
    /\ \/ /\ pc[t] = "pend"
          /\ susp' = [susp EXCEPT ![t] = TRUE]
          /\ UNCHANGED info
       \/ /\ pc[t] # "pend" /\ "KICKED" \notin info[t]
          /\ susp' = [susp EXCEPT ![t] = TRUE]
          /\ SetInfo(t, info[t] \ BlockClears)
       \/ /\ pc[t] # "pend" /\ "KICKED" \in info[t]
          /\ SetInfo(t, (info[t] \ {"RMID", "TIMEO"}) \cup {"BREAK"})
          /\ UNCHANGED susp
    /\ UNCHANGED <<kernel, lockcnt, pc, call, ret, res, held>>

\* SIGRESM: xnthread_resume(XNSUSP).
Resume(t) ==
    /\ susp[t] /\ NklockFree
    /\ susp' = [susp EXCEPT ![t] = FALSE]
    /\ UNCHANGED <<kernel, lockcnt, pc, call, ret, info, res, held>>

----------------------------------------------------------------------------
\* The steps a thread takes by itself inside a system call.
KernelStep(t) ==
    \/ SysLock(t) \/ SysTrylock(t) \/ SysUnlock(t)
    \/ AcquireTry(t) \/ AcquireClaim(t) \/ AcquireWake(t)
    \/ SysReturn(t)

Next ==
    \E t \in Threads :
        \/ LockFast(t) \/ LockSyscall(t) \/ Relock(t) \/ Unlock(t) \/ Destroy(t)
        \/ KernelStep(t) \/ Mayday(t)
        \/ Timeout(t) \/ Unblock(t)
        \/ t \in Kicked /\ Kick(t, {"KICKED"})

Spec == Init /\ [][Next]_vars

\* The same with Linux signals and forced suspension.
DisturbedNext ==
    \/ Next
    \/ \E t \in Signalled : Kick(t, {"KICKED", "SIG"})
    \/ \E t \in Threads : Suspend(t) \/ Resume(t)

DisturbedSpec == Init /\ [][DisturbedNext]_vars

\* A runnable thread is eventually given the CPU, and an application that
\* holds the mutex eventually releases it.
Fairness == \A t \in Threads : WF_vars(KernelStep(t)) /\ WF_vars(Unlock(t))

FairSpec == Spec /\ Fairness

----------------------------------------------------------------------------
TypeOK ==
    /\ lock \in [id : Threads \cup {None}, claim : BOOLEAN]
    /\ owner \in Threads \cup {None}
    /\ pendq \in Seq(Threads)
    /\ live \in BOOLEAN
    /\ lockcnt \in 0 .. MaxCount
    /\ pc \in [Threads -> Locations]
    /\ call \in [Threads -> Services]
    /\ ret \in [Threads -> Results]
    /\ info \in [Threads -> SUBSET InfoBits]
    /\ susp \in [Threads -> BOOLEAN]
    /\ res \in [Threads -> Nat]
    /\ held \in [Threads -> Nat]

\* The lock word is marked claimed whenever a thread sleeps on the mutex, else
\* the compare-and-exchange of a user-space unlock succeeds and nobody wakes
\* the sleepers.
SleepersClaim == pendq # <<>> => lock.id # None /\ lock.claim

\* synch->owner, which the kernel sets lazily because user space cannot, is the
\* thread the lock word names whenever a thread sleeps on the mutex.
OwnerTracked == pendq # <<>> => owner = lock.id

\* At most one thread at a time was told by the locking services that it has
\* the mutex and has not yet called the unlocking service.
MutualExclusion == \A t, u \in Threads : held[t] > 0 /\ held[u] > 0 => t = u

\* A thread was granted the mutex by the kernel but does not know it yet.
Granted(t) ==
    \/ pc[t] = "ready" /\ info[t] \cap (Wakeup \cup {"ROBBED"}) = {}
    \/ pc[t] = "ret" /\ call[t] \in LockCalls /\ ret[t] = "OK"

\* The lock word never names a thread that neither holds the mutex, nor is
\* about to learn that it does, nor is about to release it: a call that
\* obtained the mutex is never reported as interrupted or timed out.
NoOrphan ==
    \A t \in Threads : lock.id = t =>
        held[t] > 0 \/ Granted(t) \/ (pc[t] = "sys" /\ call[t] = "unlock")

\* The recursion count, which every owner writes without protection, is the
\* number of locks its owner has to undo.
RecursionCount ==
    \A t \in Threads : held[t] > 0 => lockcnt = held[t]

\* A thread that was kicked, or that has a Linux signal to handle, neither
\* sleeps on the mutex nor stays forcibly suspended: a signal sent just before
\* the thread blocks is not forgotten until the mutex is released.
KickedAwake ==
    \A t \in Threads : info[t] \cap {"KICKED", "SIG"} # {} => pc[t] # "pend" /\ ~susp[t]

\* The sleepers are queued by decreasing priority, so that a release hands
\* the mutex to the highest-priority one.
PriorityQueue == Sorted(pendq, prio)

\* What a release relies on: the lock word tells user space of the sleepers,
\* the kernel knows the owner they wait for, and the first one is the right one.
SleepersKnown == SleepersClaim /\ OwnerTracked /\ PriorityQueue

\* A thread that joins the sleepers goes behind those of at least its priority.
NoOvertaking ==
    [][\A t, u \in Threads :
         (pc[t] = "pend" /\ pc[u] # "pend" /\ pc'[u] = "pend" /\ prio[t] >= prio[u]) =>
            \E i, j \in 1 .. Len(pendq') : i < j /\ pendq'[i] = t /\ pendq'[j] = u]_vars

\* The resources counted for a weak thread are the mutexes it has, so that the
\* core relaxes it exactly when it holds none.
ResourceCount ==
    \A t \in Weak : pc[t] = "user" => res[t] = IF held[t] > 0 THEN 1 ELSE 0

\* The counts that lock and unlock keep on behalf of the owner are exact, over
\* fast paths that skip the kernel, timeouts and stolen ownerships.
OwnerCounts == RecursionCount /\ ResourceCount

\* Once the kernel has handed the mutex to a sleeper, it passes to another
\* thread before that sleeper runs only if the other has a higher priority.
StealsByPriority ==
    [][\A t \in Threads :
         (lock.id = t /\ pc[t] = "ready" /\ lock'.id # t) =>
            lock'.id # None /\ prio[lock'.id] > prio[t]]_vars

\* A sleeper that no other thread outranks eventually gets the mutex.
TopSleeperServed ==
    \A t \in Threads :
        (\A u \in Threads : prio[u] <= prio[t]) => (pc[t] = "pend" ~> held[t] > 0)

\* The mutex as LockService sees it.
serviceState ==
    [t \in Threads |-> IF held[t] > 0 THEN "holding"
                       ELSE IF call[t] \in LockCalls THEN "asking"
                       ELSE "idle"]

Service == INSTANCE LockService WITH state <- serviceState

\* The mutex implements the abstract locking service.
ServiceSpec == Service!Spec
============================================================================
