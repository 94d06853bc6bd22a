----------------------------- MODULE Semaphore -----------------------------
(***************************************************************************)
(* One unnamed Cobalt semaphore: the count shared with user space          *)
(* (lib/cobalt/semaphore.c) and the system calls on it (kernel/cobalt/     *)
(* posix/sem.c), with the sleepers of its xnsynch object.                  *)
(*                                                                         *)
(* A negative count says how many callers wait.  User space changes the    *)
(* count by compare-and-exchange; the kernel by atomic operations, holding *)
(* nklock.  A loop of exchanges that fails and starts over has no effect,  *)
(* so a user-space operation is one step.  A kernel stretch that touches   *)
(* the count twice is two steps, between which nklock is kept.             *)
(***************************************************************************)
EXTENDS Integers, Sequences, FiniteSets, PrioList

CONSTANTS
    Threads,
    prio,         \* weighted priority (wprio) of each thread
    Flags,        \* the sets of flags given to sem_init_np()
    InitValue,    \* the value given to sem_init()
    MaxValue,     \* SEM_VALUE_MAX, the largest value of an int
    MaxCredit,    \* bound on the posts outstanding, and on the waits satisfied by none
    Calls,        \* the waiting services used: subset of {"wait", "timedwait"}
    Broadcasters, \* threads that call sem_broadcast_np()
    Destroyers,   \* threads that call sem_destroy()
    Released,     \* threads others send SIGRELS to (xnthread_unblock)
    Kicked        \* threads a signal may reach just before they block

ASSUME ConstantsAssumption ==
    /\ IsFiniteSet(Threads)
    /\ prio \in [Threads -> Int]
    /\ Flags \subseteq SUBSET {"FIFO", "PULSE", "NOBUSYDEL"}
    /\ MaxValue \in Nat /\ MaxCredit \in Nat /\ InitValue <= MaxCredit
    /\ InitValue \in 0 .. MaxValue
    /\ Calls \subseteq {"wait", "timedwait"}

VARIABLES
    value,   \* sem->state->value
    pendq,   \* sem->synchbase.pendq
    flags,   \* sem->flags
    live,    \* the semaphore is registered (magic == COBALT_SEM_MAGIC)
    pc,      \* where each thread is
    call,    \* the service each thread executes
    why,     \* why a sleeper was woken: its XNRMID, XNTIMEO or XNBREAK bit
    credit   \* ghost: initial value, plus posts, minus waits satisfied

vars == <<value, pendq, flags, live, pc, call, why, credit>>

Fifo      == "FIFO" \in flags
Pulse     == "PULSE" \in flags
NoBusyDel == "NOBUSYDEL" \in flags

Locations == {"user", "sys", "probed", "again", "undo", "post", "pulse",
              "pend", "ready", "del"}
Services  == {"none", "wait", "timedwait", "post", "broadcast"}
Reasons   == {"none", "RMID", "TIMEO", "BREAK"}

\* The locations at which a thread keeps nklock between two steps.
NklockFree == \A u \in Threads : pc[u] \notin {"probed", "undo", "post", "pulse"}

\* An increment of an int.
Wrap(n) == IF n > MaxValue THEN -MaxValue - 1 ELSE n

Goto(t, loc) == pc' = [pc EXCEPT ![t] = loc]
Back(t) == Goto(t, "user") /\ call' = [call EXCEPT ![t] = "none"]
Enter(t, c) == Goto(t, "sys") /\ call' = [call EXCEPT ![t] = c]

\* The application does not post for ever.
Posters == {u \in Threads : call[u] = "post" /\ pc[u] # "pulse"}
MayPost == credit + Cardinality(Posters) < MaxCredit

\* Nor is it interrupted for ever.
MayBreak == credit > -MaxCredit

\* sem_init_np() refuses a pulse semaphore with units.
Init ==
    /\ flags \in Flags
    /\ value = IF Pulse THEN 0 ELSE InitValue
    /\ pendq = <<>> /\ live = TRUE
    /\ pc = [t \in Threads |-> "user"]
    /\ call = [t \in Threads |-> "none"]
    /\ why = [t \in Threads |-> "none"]
    /\ credit = value

----------------------------------------------------------------------------
(* User space: lib/cobalt/semaphore.c                                      *)

\* sem_trywait(), which sem_wait() and sem_timedwait() call first.
TryWait(t) ==
    /\ pc[t] = "user" /\ live
    /\ value > 0
    /\ value' = value - 1
    /\ credit' = credit - 1
    /\ UNCHANGED <<pendq, live, flags, pc, call, why>>

\* sem_wait() and sem_timedwait() on a depleted semaphore.
Wait(t) ==
    /\ pc[t] = "user" /\ live
    /\ value <= 0
    /\ \E c \in Calls : Enter(t, c)
    /\ UNCHANGED <<value, pendq, live, flags, why, credit>>

\* sem_post() without a system call.  In pulse mode nothing is counted.
PostFast(t) ==
    /\ pc[t] = "user" /\ live /\ MayPost
    /\ value >= 0 /\ ~Pulse
    /\ value' = Wrap(value + 1)
    /\ credit' = credit + 1
    /\ UNCHANGED <<pendq, live, flags, pc, call, why>>

\* sem_post() when the count says that threads wait.
Post(t) ==
    /\ pc[t] = "user" /\ live
    /\ value < 0
    /\ MayPost /\ Enter(t, "post")
    /\ UNCHANGED <<value, pendq, live, flags, why, credit>>

\* sem_broadcast_np() when the count says that threads wait.
Broadcast(t) ==
    /\ t \in Broadcasters /\ pc[t] = "user" /\ live
    /\ value < 0
    /\ Enter(t, "broadcast")
    /\ UNCHANGED <<value, pendq, live, flags, why, credit>>

----------------------------------------------------------------------------
(* System calls: kernel/cobalt/posix/sem.c                                 *)

Dead(t) == ~live /\ Back(t) /\ UNCHANGED <<value, pendq, why, credit>>

\* Mutant: a count of zero passes for a unit.
TakeAtZero(t) ==
    /\ live /\ value >= 0
    /\ value' = value - 1
    /\ credit' = credit - 1
    /\ Back(t)
    /\ UNCHANGED <<pendq, why>>

\* sem_trywait_inner() finds a unit.
Take(t) ==
    /\ live /\ value > 0
    /\ value' = value - 1
    /\ credit' = credit - 1
    /\ Back(t)
    /\ UNCHANGED <<pendq, why>>

\* sem_trywait_inner() finds none, xnsynch_sleep_on() blocks the caller; or
\* not, because it was kicked, or because its date has passed.
Sleep(t) ==
    /\ live /\ value <= 0
    /\ value' = value - 1
    /\ \/ /\ pendq' = IF Fifo THEN Append(pendq, t) ELSE AddPriff(pendq, t, prio)
          /\ why' = [why EXCEPT ![t] = "none"]
          /\ Goto(t, "pend")
       \/ /\ t \in Kicked /\ MayBreak
          /\ Goto(t, IF call[t] = "wait" THEN "post" ELSE "undo")
          /\ UNCHANGED <<pendq, why>>
       \/ /\ call[t] = "timedwait"
          /\ Goto(t, "undo")
          /\ UNCHANGED <<pendq, why>>
    /\ UNCHANGED <<call, credit>>

\* sem_wait.
SysWait(t) ==
    /\ pc[t] = "sys" /\ call[t] = "wait" /\ NklockFree
    /\ Dead(t) \/ Take(t) \/ Sleep(t)
    /\ UNCHANGED <<live, flags>>

\* __cobalt_sem_timedwait(), first turn: the date is not fetched unless the
\* semaphore is depleted.
SysProbe(t) ==
    /\ pc[t] = "sys" /\ call[t] = "timedwait" /\ NklockFree
    /\ \/ Dead(t) \/ Take(t)
       \/ /\ live /\ value <= 0
          /\ value' = value - 1
          /\ Goto(t, "probed")
          /\ UNCHANGED <<pendq, call, why, credit>>
    /\ UNCHANGED <<live, flags>>

\* The count is restored, nklock dropped and the date fetched, in vain if it
\* is invalid.
SysFetch(t) ==
    /\ pc[t] = "probed"
    /\ value' = Wrap(value + 1)
    /\ Back(t) \/ (Goto(t, "again") /\ UNCHANGED call)
    /\ UNCHANGED <<pendq, live, flags, why, credit>>

\* Second turn.
SysTimedWait(t) ==
    /\ pc[t] = "again" /\ NklockFree
    /\ Dead(t) \/ Take(t) \/ Sleep(t)
    /\ UNCHANGED <<live, flags>>

\* Mutant: the count is not restored.
UndoNothing(t) ==
    /\ pc[t] = "undo"
    /\ Back(t)
    /\ UNCHANGED <<value, pendq, live, flags, why, credit>>

\* A timed wait that was not satisfied restores the count; that of a semaphore
\* destroyed in between is memory given back, whose contents no step looks at.
Undo(t) ==
    /\ pc[t] = "undo"
    /\ value' = IF live THEN Wrap(value + 1) ELSE value
    /\ Back(t)
    /\ UNCHANGED <<pendq, live, flags, why, credit>>

\* sem_post_inner() checks the semaphore before it increments the count.
PostInner(t) ==
    \/ (~live \/ value = MaxValue) /\ Back(t)
    \/ live /\ value # MaxValue /\ Goto(t, "post") /\ UNCHANGED call

\* A sleeper runs again, holding nklock.
Wake(t) ==
    /\ pc[t] = "ready" /\ NklockFree
    /\ \/ why[t] \in {"none", "RMID"} /\ Back(t)
       \/ why[t] \in {"TIMEO", "BREAK"} /\ call[t] = "timedwait" /\ Goto(t, "undo") /\ UNCHANGED call
       \/ why[t] = "BREAK" /\ call[t] = "wait" /\ PostInner(t)
    /\ UNCHANGED <<value, pendq, live, flags, why, credit>>

\* sem_post.
SysPost(t) ==
    /\ pc[t] = "sys" /\ call[t] = "post" /\ NklockFree
    /\ PostInner(t)
    /\ UNCHANGED <<value, pendq, live, flags, why, credit>>

\* Mutant: a sleeper is woken only if others keep waiting.
WakesBelow(n) == n < 0

\* sem_post_inner() wakes a sleeper when the count it stored is not positive.
Wakes(n) == n <= 0

\* sem_post_inner() increments the count, for sem_post() or for a sem_wait()
\* that was interrupted.
SysPostInc(t) ==
    LET n == Wrap(value + 1)
        c == credit + IF call[t] = "post" THEN 1 ELSE 0
    IN
    /\ pc[t] = "post"
    /\ value' = n
    /\ \/ /\ Wakes(n) /\ pendq # <<>>
          /\ pendq' = Tail(pendq)
          /\ pc' = [pc EXCEPT ![t] = "user", ![Head(pendq)] = "ready"]
          /\ call' = [call EXCEPT ![t] = "none"]
          /\ credit' = c - 1
       \/ /\ Wakes(n) /\ pendq = <<>>
          /\ Back(t)
          /\ credit' = c
          /\ UNCHANGED pendq
       \/ /\ ~Wakes(n) /\ Pulse
          /\ Goto(t, "pulse")
          /\ credit' = c
          /\ UNCHANGED <<pendq, call>>
       \/ /\ ~Wakes(n) /\ ~Pulse
          /\ Back(t)
          /\ credit' = c
          /\ UNCHANGED pendq
    /\ UNCHANGED <<live, flags, why>>

\* Mutant: a pulse nobody waited for is counted.
KeepPulse(t) ==
    /\ pc[t] = "pulse"
    /\ Back(t)
    /\ UNCHANGED <<value, pendq, live, flags, why, credit>>

\* A pulse nobody waited for is lost.
SysPulse(t) ==
    /\ pc[t] = "pulse"
    /\ value' = 0
    /\ credit' = credit - value
    /\ Back(t)
    /\ UNCHANGED <<pendq, live, flags, why>>

\* sem_broadcast_np: every sleeper is let through.
SysBroadcast(t) ==
    /\ pc[t] = "sys" /\ call[t] = "broadcast" /\ NklockFree
    /\ \/ /\ ~live \/ value >= 0
          /\ Back(t)
          /\ UNCHANGED <<value, pendq>>
       \/ /\ live /\ value < 0
          /\ value' = 0
          /\ pendq' = <<>>
          /\ pc' = [u \in Threads |-> IF u = t THEN "user"
                                      ELSE IF pc[u] = "pend" THEN "ready" ELSE pc[u]]
          /\ call' = [call EXCEPT ![t] = "none"]
    /\ UNCHANGED <<live, flags, why, credit>>

\* sem_destroy() checks the semaphore, then drops nklock.
Destroy(t) ==
    /\ t \in Destroyers /\ pc[t] = "user" /\ live /\ NklockFree
    /\ NoBusyDel => pendq = <<>>
    /\ Goto(t, "del")
    /\ UNCHANGED <<value, pendq, live, flags, call, why, credit>>

\* __cobalt_sem_destroy().
SysDestroy(t) ==
    /\ pc[t] = "del" /\ NklockFree
    /\ live' = FALSE
    /\ pendq' = <<>>
    /\ pc' = [u \in Threads |-> IF u = t THEN "user"
                                ELSE IF pc[u] = "pend" THEN "ready" ELSE pc[u]]
    /\ why' = [u \in Threads |-> IF pc[u] = "pend" THEN "RMID" ELSE why[u]]
    /\ UNCHANGED <<value, flags, call, credit>>

----------------------------------------------------------------------------
(* What others do to a sleeper: kernel/cobalt/thread.c                     *)

WakeSleeper(t, reason) ==
    /\ pc[t] = "pend" /\ NklockFree
    /\ pendq' = Delete(pendq, t)
    /\ Goto(t, "ready")
    /\ why' = [why EXCEPT ![t] = reason]
    /\ UNCHANGED <<value, live, flags, call, credit>>

\* timeout_handler().
Timeout(t) == call[t] = "timedwait" /\ WakeSleeper(t, "TIMEO")

\* xnthread_unblock().
Unblock(t) == t \in Released /\ MayBreak /\ WakeSleeper(t, "BREAK")

----------------------------------------------------------------------------
Next ==
    \E t \in Threads :
        \/ TryWait(t) \/ Wait(t) \/ PostFast(t) \/ Post(t)
        \/ SysWait(t) \/ SysProbe(t) \/ SysFetch(t) \/ SysTimedWait(t)
        \/ Undo(t) \/ Wake(t)
        \/ SysPost(t) \/ SysPostInc(t) \/ SysPulse(t)
        \/ Destroy(t) \/ SysDestroy(t)
        \/ Timeout(t) \/ Unblock(t)

Spec == Init /\ [][Next]_vars

\* The same with sem_broadcast_np().
BroadcastNext == Next \/ \E t \in Threads : Broadcast(t) \/ SysBroadcast(t)

----------------------------------------------------------------------------
TypeOK ==
    /\ value \in -MaxValue - 1 .. MaxValue
    /\ pendq \in Seq(Threads)
    /\ flags \in Flags
    /\ live \in BOOLEAN
    /\ pc \in [Threads -> Locations]
    /\ call \in [Threads -> Services]
    /\ why \in [Threads -> Reasons]
    /\ credit \in Int

\* A caller that did not get a unit and has not given back the one it took off
\* the count.
Owes(t) ==
    \/ pc[t] \in {"probed", "undo"}
    \/ pc[t] = "post" /\ call[t] = "wait"
    \/ pc[t] = "ready" /\ why[t] \in {"TIMEO", "BREAK"}

\* The callers that took a unit off the count without getting one.
Debtors == {t \in Threads : pc[t] = "pend" \/ Owes(t)}

\* The count, plus one for every sleeper and for every caller yet to restore
\* it, is what the posts have brought and the waits have not consumed: no
\* interleaving of the user-space exchanges with the kernel loses or forges a
\* unit.
Conservation == live => value + Cardinality(Debtors) = credit

\* A wait is satisfied only by the initial value or by a post.
NoExcess == credit >= 0

\* With nobody about to restore the count, a negative one is the number of
\* sleepers, as SEM_REPORT makes sem_getvalue() tell.
WaitersReported ==
    live /\ (\A t \in Threads : ~Owes(t)) => Len(pendq) = IF value < 0 THEN -value ELSE 0

\* A post on a semaphore with sleepers unblocks the first one.
PostStep ==
    \A t \in Threads :
        PostFast(t) \/ (call[t] = "post" /\ SysPostInc(t)) =>
            (pendq # <<>> => pendq' = Tail(pendq))
PostUnblocks == [][PostStep]_vars

\* A post never makes the count smaller.
PostsCount ==
    [][\A t \in Threads : PostFast(t) => value' > value]_vars

\* In pulse mode the count stays at zero, or says how many wait.
PulseNotCounted == Pulse /\ NklockFree => value <= 0

\* Nobody sleeps on a semaphore that is destroyed.
DeadEmpty == ~live => pendq = <<>>

\* sem_getvalue(), pulses and sem_destroy() account for all the sleepers: a
\* negative count is their number, a pulse wakes them and leaves no unit behind,
\* and destruction releases them.
CountExact == WaitersReported /\ PulseNotCounted /\ DeadEmpty

\* A semaphore created with SEM_NOBUSYDEL is not destroyed while threads sleep.
NoBusyDelete == [][NoBusyDel /\ live /\ ~live' => pendq = <<>>]_vars
============================================================================
