------------------------------ MODULE Monitor ------------------------------
(***************************************************************************)
(* One Cobalt monitor: kernel/cobalt/posix/monitor.c and its user-space    *)
(* half in lib/cobalt/internal.c.  A gate serializes its users; a thread   *)
(* inside waits for a grant given to it, or for the monitor to drain.      *)
(*                                                                         *)
(* The gate is the service that Mutex implements.  The flag word is shared *)
(* with the kernel, and every update of it is a read and a write: the      *)
(* owner of the gate makes them in user space, a thread that goes to sleep *)
(* or leaves a wait makes them in the kernel, without the gate.  An action *)
(* is one such access, or what a thread does between two of them; the      *)
(* variable nklock tells the owner of that lock between two actions.       *)
(***************************************************************************)
EXTENDS Integers, Sequences, FiniteSets, PrioList

CONSTANTS
    Threads,    \* the threads
    None,       \* no thread
    prio,       \* weighted priority of each thread
    Uses        \* the uses considered: records
                \*   smp      kernel and user space run in parallel
                \*   waits    the threads that wait, and for what: a function
                \*            to subsets of {"grant", "drain"}
                \*   signals  the threads that signal, and what: a function
                \*            to subsets of {"grant", "grant_all", "drain", "drain_all"}
                \*   events   what may happen, among "timeout" and "kick"
                \*   destroy  the threads that destroy the monitor

VARIABLES
    use,        \* the use made of the monitor, one of Uses
    owner,      \* the owner of the gate
    flags,      \* state->flags
    granted,    \* u_window->grant_value of each thread
    waiters,    \* mon->waiters: the threads linked to wait for a grant
    drain,      \* mon->drain.pendq
    live,       \* the monitor exists
    nklock,     \* the thread in the kernel, between two of its actions
    pc,         \* where each thread is
    tmp,        \* the flags a thread has read and not yet written back
    unlinked    \* a thread that was not asleep was taken off its sleep queue

vars == <<use, owner, flags, granted, waiters, drain, live, nklock, pc, tmp, unlinked>>

Signaled == {"GRANTED", "DRAINED"}

Init ==
    /\ use \in Uses
    /\ owner = None /\ flags = {} /\ waiters = {} /\ drain = <<>>
    /\ granted = [t \in Threads |-> FALSE]
    /\ live = TRUE /\ nklock = None
    /\ pc = [t \in Threads |-> "out"]
    /\ tmp = [t \in Threads |-> {}]
    /\ unlinked = FALSE

Goto(t, loc) == pc' = [pc EXCEPT ![t] = loc]
Read(t) == tmp' = [tmp EXCEPT ![t] = flags]
Forget(t) == tmp' = [tmp EXCEPT ![t] = {}]

\* User space runs beside the kernel on another CPU only.
UserRuns == use.smp \/ nklock = None

Asleep(t) == pc[t] \in {"grant", "drain"}

----------------------------------------------------------------------------
(* The gate                                                                *)

\* cobalt_monitor_enter(), the fast path: the CAS, then the flags are cleared.
EnterFast(t) ==
    /\ UserRuns /\ live
    /\ pc[t] = "out" /\ owner = None
    /\ owner' = t
    /\ Read(t)
    /\ Goto(t, "clear")
    /\ UNCHANGED <<use, flags, granted, waiters, drain, live, nklock, unlinked>>

EnterClear(t) ==
    /\ UserRuns /\ pc[t] = "clear"
    /\ flags' = tmp[t] \ (Signaled \cup {"BROADCAST"})
    /\ Forget(t)
    /\ Goto(t, "in")
    /\ UNCHANGED <<use, owner, granted, waiters, drain, live, nklock, unlinked>>

\* The gate is closed: the caller goes to the kernel.
EnterSlow(t) ==
    /\ UserRuns /\ live
    /\ pc[t] = "out" /\ owner # None
    /\ Goto(t, "enter")
    /\ UNCHANGED <<use, owner, flags, granted, waiters, drain, live, nklock, tmp, unlinked>>

\* monitor_enter(), in the kernel: for a caller that found the gate closed, or
\* one that comes back from a wait.
Enter(t) ==
    /\ nklock = None
    /\ pc[t] = "enter"
    /\ \/ /\ live /\ owner = None
          /\ owner' = t
          /\ flags' = flags \ (Signaled \cup {"BROADCAST"})
          /\ Goto(t, "in")
       \/ /\ ~live                                            \* -EINVAL
          /\ Goto(t, "gone")
          /\ UNCHANGED <<owner, flags>>
    /\ UNCHANGED <<use, granted, waiters, drain, live, nklock, tmp, unlinked>>


\* monitor_wakeup(): the threads it wakes.
GrantWoken ==
    IF "GRANTED" \notin flags THEN {}
    ELSE {t \in waiters : "BROADCAST" \in flags \/ (granted[t] /\ pc[t] = "grant")}

DrainWoken ==
    IF "DRAINED" \notin flags \/ drain = <<>> THEN {}
    ELSE IF "BROADCAST" \in flags THEN {drain[i] : i \in DOMAIN drain}
    ELSE {Head(drain)}

\* monitor_wakeup() for the caller t, which goes on at loc.
Wakeup(t, loc) ==
    IF flags \cap Signaled = {}
    THEN Goto(t, loc) /\ UNCHANGED <<flags, waiters, drain, unlinked>>
    ELSE LET woken == GrantWoken \cup DrainWoken
         IN  /\ waiters' = waiters \ GrantWoken
             /\ drain' = SelectSeq(drain, LAMBDA u : u \notin DrainWoken)
             /\ flags' = IF waiters' = {} /\ drain' = <<>> THEN flags \ {"PENDED"} ELSE flags
             /\ pc' = [u \in Threads |-> IF u = t THEN loc
                                         ELSE IF u \in woken /\ Asleep(u) THEN "enter" ELSE pc[u]]
             /\ unlinked' = (unlinked \/ \E u \in GrantWoken : ~Asleep(u))

\* Mutant: only a gate somebody waits at is opened by the kernel.
ExitFastAlways(t) ==
    /\ UserRuns /\ pc[t] = "in"
    /\ owner' = None
    /\ Goto(t, "out")
    /\ UNCHANGED <<use, flags, granted, waiters, drain, live, nklock, tmp, unlinked>>

\* cobalt_monitor_exit(), the fast path: nobody waits, or nothing was signalled.
ExitFast(t) ==
    /\ UserRuns /\ pc[t] = "in"
    /\ "PENDED" \notin flags \/ flags \cap Signaled = {}
    /\ owner' = None
    /\ Goto(t, "out")
    /\ UNCHANGED <<use, flags, granted, waiters, drain, live, nklock, tmp, unlinked>>

\* monitor_exit, and the slow path of the above.
Exit(t) ==
    /\ nklock = None /\ pc[t] = "in"
    /\ "PENDED" \in flags /\ flags \cap Signaled # {}
    /\ Wakeup(t, "out")
    /\ owner' = None
    /\ UNCHANGED <<use, granted, live, nklock, tmp>>

----------------------------------------------------------------------------
(* Signals, from inside the monitor                                        *)

Raised(sig) ==
    CASE sig = "grant"     -> {"GRANTED"}
      [] sig = "grant_all" -> {"GRANTED", "BROADCAST"}
      [] sig = "drain"     -> {"DRAINED"}
      [] sig = "drain_all" -> {"DRAINED", "BROADCAST"}

\* cobalt_monitor_grant(), _grant_all(), _drain() and _drain_all(): the flags
\* are read, then written, then the grant is given.
SignalRead(t) ==
    /\ UserRuns /\ pc[t] = "in" /\ use.signals[t] # {}
    /\ Read(t)
    /\ Goto(t, "signal")
    /\ UNCHANGED <<use, owner, flags, granted, waiters, drain, live, nklock, unlinked>>

SignalWrite(t, sig, u) ==
    /\ UserRuns /\ pc[t] = "signal" /\ sig \in use.signals[t]
    /\ flags' = tmp[t] \cup Raised(sig)
    /\ granted' = IF sig = "grant" THEN [granted EXCEPT ![u] = TRUE] ELSE granted
    /\ Forget(t)
    /\ \/ Goto(t, "in")
       \/ Goto(t, IF "PENDED" \in flags' THEN "sync" ELSE "in")   \* the _sync variants
    /\ UNCHANGED <<use, owner, waiters, drain, live, nklock, unlinked>>

\* monitor_sync: deliver the signals, let the others in, and enter again.
Sync(t) ==
    /\ nklock = None /\ pc[t] = "sync"
    /\ Wakeup(t, "enter")
    /\ owner' = None
    /\ UNCHANGED <<use, granted, live, nklock, tmp>>

----------------------------------------------------------------------------
(* Waiting                                                                 *)

\* monitor_wait, up to the release of the gate.
Wait(t, ev) ==
    /\ nklock = None /\ pc[t] = "in" /\ ev \in use.waits[t]
    /\ Wakeup(t, IF ev = "grant" THEN "link" ELSE "link_drain")
    /\ owner' = None
    /\ nklock' = t
    /\ UNCHANGED <<use, granted, live, tmp>>

\* Then the caller is linked, and reads the flags to raise PENDED.
WaitLink(t) ==
    /\ \/ /\ pc[t] = "link"
          /\ granted' = [granted EXCEPT ![t] = FALSE]
          /\ waiters' = waiters \cup {t}
          /\ Goto(t, "pend")
       \/ /\ pc[t] = "link_drain"
          /\ Goto(t, "pend_drain")
          /\ UNCHANGED <<granted, waiters>>
    /\ Read(t)
    /\ UNCHANGED <<use, owner, flags, drain, live, nklock, unlinked>>

\* Mutant: PENDED is left alone.
WaitSleepUnpended(t) ==
    /\ \/ pc[t] = "pend" /\ Goto(t, "grant") /\ UNCHANGED drain
       \/ pc[t] = "pend_drain" /\ drain' = AddPriff(drain, t, prio) /\ Goto(t, "drain")
    /\ nklock' = None
    /\ Forget(t)
    /\ UNCHANGED <<use, owner, flags, granted, waiters, live, unlinked>>

\* It writes them back and sleeps, which drops nklock.
WaitSleep(t) ==
    /\ flags' = tmp[t] \cup {"PENDED"}
    /\ \/ pc[t] = "pend" /\ Goto(t, "grant") /\ UNCHANGED drain
       \/ pc[t] = "pend_drain" /\ drain' = AddPriff(drain, t, prio) /\ Goto(t, "drain")
    /\ nklock' = None
    /\ Forget(t)
    /\ UNCHANGED <<use, owner, granted, waiters, live, unlinked>>

\* The sleep ends with a timeout or a Linux signal.
Abort(t, why) ==
    /\ nklock = None /\ why \in use.events /\ Asleep(t)
    /\ drain' = SelectSeq(drain, LAMBDA u : u # t)
    /\ Goto(t, why)
    /\ UNCHANGED <<use, owner, flags, granted, waiters, live, nklock, tmp, unlinked>>

\* Where a thread goes whose wait was aborted: an interrupted one leaves
\* without the gate.
Aborted(why) == IF why = "timeout" THEN "enter" ELSE "broken"

\* It unlinks itself and, if it was the last to wait, lowers PENDED.
WaitUnlink(t) ==
    /\ nklock = None /\ pc[t] \in {"timeout", "kick"} /\ live
    /\ waiters' = waiters \ {t}
    /\ \/ /\ waiters' = {} /\ drain = <<>>
          /\ nklock' = t
          /\ Read(t)
          /\ Goto(t, IF pc[t] = "timeout" THEN "unpend_timeout" ELSE "unpend_kick")
       \/ /\ waiters' # {} \/ drain # <<>>
          /\ Goto(t, Aborted(pc[t]))
          /\ UNCHANGED <<nklock, tmp>>
    /\ UNCHANGED <<use, owner, flags, granted, drain, live, unlinked>>

WaitUnpend(t) ==
    /\ pc[t] \in {"unpend_timeout", "unpend_kick"}
    /\ flags' = tmp[t] \ {"PENDED"}
    /\ nklock' = None
    /\ Forget(t)
    /\ Goto(t, IF pc[t] = "unpend_timeout" THEN "enter" ELSE "broken")
    /\ UNCHANGED <<use, owner, granted, waiters, drain, live, unlinked>>

\* The interrupted caller gets -EINTR, and goes on outside.
Return(t) ==
    /\ UserRuns /\ pc[t] = "broken"
    /\ Goto(t, "out")
    /\ UNCHANGED <<use, owner, flags, granted, waiters, drain, live, nklock, tmp, unlinked>>

----------------------------------------------------------------------------
\* monitor_destroy, by the owner of the gate: -EBUSY while a thread waits.
Destroy(t) ==
    /\ nklock = None /\ t \in use.destroy /\ pc[t] = "in"
    /\ "PENDED" \notin flags /\ drain = <<>> /\ waiters = {}
    /\ live' = FALSE
    /\ owner' = None
    /\ Goto(t, "gone")
    /\ UNCHANGED <<use, flags, granted, waiters, drain, nklock, tmp, unlinked>>

\* What a thread does by itself once it has called a service.
Step(t) ==
    \/ EnterClear(t) \/ Sync(t) \/ WaitLink(t) \/ WaitSleep(t)
    \/ WaitUnlink(t) \/ WaitUnpend(t) \/ Return(t)
    \/ \E sig \in use.signals[t], u \in Threads \ {t} : SignalWrite(t, sig, u)

Leave(t) == ExitFast(t) \/ Exit(t)

Next ==
    \E t \in Threads :
        \/ EnterFast(t) \/ EnterSlow(t) \/ Enter(t) \/ Leave(t)
        \/ SignalRead(t) \/ Destroy(t) \/ Step(t)
        \/ \E ev \in {"grant", "drain"} : Wait(t, ev)
        \/ \E why \in {"timeout", "kick"} : Abort(t, why)

\* A runnable thread is given the CPU, and does not stay inside for ever,
\* signalling again and again.
Fairness == \A t \in Threads : WF_vars(Step(t)) /\ SF_vars(Leave(t))

Spec == Init /\ [][Next]_vars
FairSpec == Spec /\ Fairness

----------------------------------------------------------------------------
(* Properties                                                              *)

\* monitor_wait, "Release the gate prior to waiting, all atomically": a thread
\* asleep in the monitor is announced by PENDED, without which signals given to
\* it stay in user space.
SleepersPended == (\E t \in Threads : Asleep(t)) => "PENDED" \in flags

\* On a single processor nothing runs between the release and the sleep.
SleepersPendedUP == ~use.smp => SleepersPended

\* monitor_wakeup(), "it might have timed out before we got there, so we really
\* have to check that ->wchan does match our sleep queue": no thread is taken
\* off a queue it has already left.
WakesSleepers == ~unlinked


\* A thread that is told of the end of its wait is inside the monitor, as every
\* caller assumes that goes on to release it.
WaitReturnsInside == \A t \in Threads : pc[t] # "broken"

\* Nobody sleeps in a monitor that was destroyed.
DestroyedEmpty ==
    ~live => \A t \in Threads : ~Asleep(t)

\* On one processor sleepers are announced to user space for as long as they
\* sleep, and destruction does not forget any.
SleepersTracked == SleepersPendedUP /\ DestroyedEmpty

\* A sleeper was given a grant.
GrantDue(t) == ~use.smp /\ pc[t] = "grant" /\ granted[t]

\* A grant given to a sleeper from inside the monitor wakes it up.
GrantsDelivered == \A t \in Threads : GrantDue(t) ~> ~GrantDue(t)
============================================================================
