------------------------------- MODULE Timer --------------------------------
(***************************************************************************)
(* The core timers: kernel/cobalt/timer.c, the tick of kernel/cobalt/      *)
(* clock.c, and the periodic threads of kernel/cobalt/thread.c that rest   *)
(* on them.                                                                *)
(*                                                                         *)
(* Each CPU has a queue of outstanding timers and one hardware shot.  All  *)
(* of it is changed under the nklock, which the tick holds from its entry  *)
(* to its end: no other action is taken meanwhile, but time passes.  The   *)
(* clock counts in ticks, and one tick is one nanosecond.                  *)
(***************************************************************************)
EXTENDS Integers, FiniteSets, FiniteSetsExt

CONSTANTS
    CPUs,       \* the CPUs
    None,       \* no CPU, no date
    Threads,    \* the periodic threads, each standing for its ptimer too
    Host,       \* Host[c], the timer that relays the host tick on CPU c, if any
    Period,     \* the period of the threads
    Gravity,    \* the anticipation of the shots
    MaxTime,    \* bound on the clock
    Uses        \* what happens besides, sets of
                \*   "host"     the root thread runs at times, and needs host ticks
                \*   "migrate"  a periodic thread moves itself to another CPU
                \*   "passive"  it is moved while it runs in secondary mode

VARIABLES
    use,        \* one of Uses
    now,        \* the clock
    tm,         \* the timers
    shot,       \* the date each CPU's clock device is programmed for
    ipi,        \* a remote shot was sent to the CPU
    defer,      \* XNHDEFER, the host tick is deferred
    root,       \* the CPU runs the root thread, and no rescheduling is pending
    masked,     \* a section was entered on the CPU before a pending tick was taken
    ticking,    \* the CPU in xnclock_tick(), which holds the nklock
    home,       \* thread->sched
    pc,         \* "run" or "wait", in xnthread_wait_period()
    rearmed     \* the timer was started between the tick that resumed the thread
                \* and the end of its wait

vars == <<use, now, tm, shot, ipi, defer, root, masked, ticking, home, pc, rearmed>>

Hosts == {Host[c] : c \in DOMAIN Host}
Timers == Threads \cup Hosts

Init ==
    /\ use \in Uses /\ now = 0
    /\ tm = [x \in Timers |->
                [q |-> None, running |-> FALSE, killed |-> FALSE,
                 sched |-> IF x \in Threads THEN Min(CPUs) ELSE CHOOSE c \in DOMAIN Host : Host[c] = x,
                 date |-> 0, start |-> 0, pticks |-> 0, pexpect |-> 0]]
    /\ shot = [c \in CPUs |-> None] /\ ipi = [c \in CPUs |-> FALSE]
    /\ defer = [c \in CPUs |-> FALSE] /\ root = [c \in CPUs |-> "host" \in use]
    /\ ticking = None /\ masked = [c \in CPUs |-> FALSE]
    /\ home = [x \in Threads |-> Min(CPUs)]
    /\ pc = [x \in Threads |-> "run"] /\ rearmed = [x \in Threads |-> FALSE]

----------------------------------------------------------------------------
(* The timer queues                                                        *)

Queue(T, c) == {x \in Timers : T[x].q = c}

\* xntlist_insert(): by date, the host timer after those of the same date.
Before(T, x, y) ==
    \/ T[x].date < T[y].date
    \/ T[x].date = T[y].date /\ y \in Hosts /\ x \notin Hosts

Heads(T, S) == {x \in S : \A y \in S : ~Before(T, y, x)}

\* xntimer_heading_p(): x heads its queue, or comes next to a deferred host tick.
Heading(T, x) ==
    LET S == Queue(T, T[x].q) IN
    \/ x \in Heads(T, S)
    \/ defer[T[x].q] /\ x \in Heads(T, S \ Hosts)

\* Mutant: the device is programmed for the timer next to the host tick always.
LocalShotSkip(T, c, r) ==
    IF Queue(T, c) = {} THEN [shot |-> shot[c], defer |-> defer[c]]
    ELSE LET S == Queue(T, c) \ Hosts IN
         IF S # {} THEN [shot |-> Min({T[x].date : x \in S}), defer |-> TRUE]
         ELSE [shot |-> Min({T[x].date : x \in Queue(T, c)}), defer |-> FALSE]

\* xnclock_core_local_shot(): program the device for the first timer; a host tick
\* that comes first is deferred while a real-time thread runs.
LocalShot(T, c, r) ==
    IF Queue(T, c) = {} THEN [shot |-> shot[c], defer |-> defer[c]]
    ELSE LET S == Queue(T, c)
             second == S \ Hosts
             deferring == Heads(T, S) \cap Hosts # {} /\ ~r /\ second # {}
         IN  [shot |-> Min({T[x].date : x \in IF deferring THEN second ELSE S}),
              defer |-> deferring]

Program(T, c, r) ==
    /\ shot' = [shot EXCEPT ![c] = LocalShot(T, c, r).shot]
    /\ defer' = [defer EXCEPT ![c] = LocalShot(T, c, r).defer]

\* The shot follows the timer x that was queued by CPU c.
Shoot(T, c, x) ==
    IF ~Heading(T, x) THEN UNCHANGED <<shot, defer, ipi>>
    ELSE IF T[x].sched = c THEN Program(T, c, root[c]) /\ UNCHANGED ipi
    ELSE ipi' = [ipi EXCEPT ![T[x].sched] = TRUE] /\ UNCHANGED <<shot, defer>>

Pending(c) == ipi[c] \/ (shot[c] # None /\ now >= shot[c])

\* CPU c enters an nklock section, interrupts off.  A tick that becomes pending
\* meanwhile is taken before the CPU enters another one.
Runs(c) ==
    /\ ticking = None /\ ~masked[c]
    /\ masked' = [masked EXCEPT ![c] = Pending(c)]

----------------------------------------------------------------------------
(* kernel/cobalt/timer.c                                                   *)

\* The date at which a shot for "date" is queued.
Anticipated(date) ==
    IF now >= date - Gravity THEN date - Gravity + (Gravity \div 2) ELSE date - Gravity

\* xntimer_start() by CPU c, of a timer attached to CPU d.  A periodic timer that
\* is late waits for its next release point.
Start(c, x, d, when, period) ==
    LET date == IF period > 0 /\ when <= now
                THEN when + period * (((now - when) \div period) + 1) ELSE when
        S == [tm EXCEPT ![x].q = d, ![x].sched = d, ![x].running = TRUE,
                        ![x].date = Anticipated(date)]
        T == IF period > 0
             THEN [S EXCEPT ![x].start = date, ![x].pticks = 0, ![x].pexpect = 0] ELSE S
    IN  tm' = T /\ Shoot(T, c, x)

\* xntimer_stop() by CPU c: nothing unless the timer runs.
Stopped(x) ==
    IF tm[x].running THEN [tm EXCEPT ![x].q = None, ![x].running = FALSE] ELSE tm

\* If it was the first of its queue, the device is programmed for what follows.
StopShot(c, x, T) ==
    IF tm[x].running /\ tm[x].sched = c /\ (tm[x].q = None \/ Heading(tm, x))
    THEN Program(T, c, root[c]) ELSE UNCHANGED <<shot, defer>>

Stop(c, x) ==
    /\ tm' = Stopped(x)
    /\ StopShot(c, x, Stopped(x))
    /\ UNCHANGED ipi

\* xntimer_destroy()
Destroy(c, x) ==
    LET T == [Stopped(x) EXCEPT ![x].killed = TRUE] IN
    /\ tm' = T /\ StopShot(c, x, T) /\ UNCHANGED ipi

\* __xntimer_migrate() by CPU c: a running timer is stopped, then queued on the
\* other CPU at its former date.
Migrated(x, d) ==
    IF tm[x].running THEN [Stopped(x) EXCEPT ![x].sched = d, ![x].q = d]
    ELSE [tm EXCEPT ![x].sched = d]

Migrate(c, x, d) ==
    IF tm[x].sched = d THEN UNCHANGED <<tm, shot, defer, ipi>>
    ELSE /\ tm' = Migrated(x, d)
         /\ IF ticking = c THEN UNCHANGED <<shot, defer>>       \* XNINTCK
            ELSE StopShot(c, x, [Stopped(x) EXCEPT ![x].sched = d])
         /\ ipi' = IF tm[x].running /\ Heading(Migrated(x, d), x)
                   THEN [ipi EXCEPT ![d] = TRUE] ELSE ipi

\* xntimer_pexpect(): the release point expected next.
Pexpect(x) == tm[x].start + tm[x].pexpect * Period

\* Mutant: the periods that were missed are not added up.
OverrunsKept(x) == 1

\* xntimer_get_overruns(): the release points acknowledged, missed ones and one.
Overruns(x) == 1 + (IF now - Pexpect(x) >= Period THEN (now - Pexpect(x)) \div Period ELSE 0)

----------------------------------------------------------------------------
(* The tick: xnclock_tick() of kernel/cobalt/clock.c                       *)

Tick(c) ==
    /\ ticking = None /\ Pending(c)
    /\ ticking' = c
    /\ masked' = [masked EXCEPT ![c] = FALSE]
    /\ ipi' = [ipi EXCEPT ![c] = FALSE]
    /\ shot' = [shot EXCEPT ![c] = IF @ # None /\ now >= @ THEN None ELSE @]
    /\ UNCHANGED <<use, now, tm, defer, root, home, pc, rearmed>>

Due(c) == {x \in Heads(tm, Queue(tm, c)) : tm[x].date <= now}

\* The host timer elapsed: XNHTICK, and it is left out of the queue, its date of
\* no use.
FireHost(c, x) ==
    /\ ticking = c /\ x \in Due(c) \cap Hosts
    /\ tm' = [tm EXCEPT ![x].q = None, ![x].date = 0]
    /\ defer' = [defer EXCEPT ![c] = FALSE]
    /\ UNCHANGED <<use, now, shot, ipi, root, masked, ticking, home, pc, rearmed>>

\* Mutant: the timer moves on to its next date, and is not queued for it.
AdvancedUnqueued(x) ==
    [tm EXCEPT ![x].pticks = @ + 1, ![x].q = None,
               ![x].date = tm[x].start + (tm[x].pticks + 1) * Period - Gravity]

\* A periodic timer of which the handler returned is queued for the first of its
\* dates that is ahead of the clock.
Advanced(x) ==
    LET n == CHOOSE k \in 1 .. MaxTime + 1 :
                /\ tm[x].start + (tm[x].pticks + k) * Period - Gravity >= now
                /\ k > 1 => tm[x].start + (tm[x].pticks + k - 1) * Period - Gravity < now
    IN  [tm EXCEPT ![x].pticks = @ + n, ![x].q = tm[x].sched,
                   ![x].date = tm[x].start + (tm[x].pticks + n) * Period - Gravity]

\* A thread's periodic timer elapsed: periodic_handler resumes the thread, and
\* moves the timer to the CPU of the thread.  It is queued again unless the
\* handler queued it, or it does not run.
FirePeriodic(c, x) ==
    /\ ticking = c /\ x \in Due(c) \cap Threads
    /\ pc' = [pc EXCEPT ![x] = IF @ = "wait" THEN "woken" ELSE @]
    /\ \/ /\ home[x] # tm[x].sched
          /\ tm' = IF tm[x].running THEN Migrated(x, home[x])
                   ELSE [tm EXCEPT ![x].q = None, ![x].sched = home[x]]
          /\ ipi' = IF tm[x].running /\ Heading(Migrated(x, home[x]), x)
                    THEN [ipi EXCEPT ![home[x]] = TRUE] ELSE ipi
       \/ /\ home[x] = tm[x].sched
          /\ tm' = IF tm[x].running THEN Advanced(x) ELSE [tm EXCEPT ![x].q = None]
          /\ UNCHANGED ipi
    /\ UNCHANGED <<use, now, shot, defer, root, masked, ticking, home, rearmed>>

TickEnd(c) ==
    /\ ticking = c /\ Due(c) = {}
    /\ ticking' = None
    /\ Program(tm, c, root[c])
    /\ UNCHANGED <<use, now, tm, ipi, root, masked, home, pc, rearmed>>

----------------------------------------------------------------------------
(* The callers                                                             *)

Advance ==
    /\ now < MaxTime
    /\ now' = now + 1
    /\ UNCHANGED <<use, tm, shot, ipi, defer, root, masked, ticking, home, pc, rearmed>>

\* __xnsched_run(): a real-time thread takes the CPU, or gives it back to the
\* root thread, when a deferred host tick is programmed.
LeaveRoot(c) ==
    /\ "host" \in use /\ Runs(c) /\ root[c]
    /\ root' = [root EXCEPT ![c] = FALSE]
    /\ UNCHANGED <<use, now, tm, shot, ipi, defer, ticking, home, pc, rearmed>>

EnterRoot(c) ==
    /\ "host" \in use /\ Runs(c) /\ ~root[c]
    /\ root' = [root EXCEPT ![c] = TRUE]
    /\ IF defer[c] THEN Program(tm, c, TRUE) ELSE UNCHANGED <<shot, defer>>
    /\ UNCHANGED <<use, now, tm, ipi, ticking, home, pc, rearmed>>

\* program_htick_shot, on behalf of the host kernel.
HostShot(c, delay) ==
    /\ Runs(c) /\ c \in DOMAIN Host /\ root[c] /\ now + delay <= MaxTime
    /\ Start(c, Host[c], c, now + delay, 0)
    /\ UNCHANGED <<use, now, root, ticking, home, pc, rearmed>>

\* xnthread_set_periodic(), for a thread in or out of a wait.  The timer is first
\* attached to the CPU of the thread.
SetPeriodic(c, x, when) ==
    /\ Runs(c) /\ ~tm[x].killed /\ ~root[c]
    /\ Start(c, x, home[x], when, Period)
    /\ rearmed' = [rearmed EXCEPT ![x] = pc[x] = "woken"]
    /\ UNCHANGED <<use, now, root, ticking, home, pc>>

\* The same with a null period stops the timer.
SetAperiodic(c, x) ==
    /\ Runs(c) /\ ~tm[x].killed /\ ~root[c]
    /\ Stop(c, x)
    /\ UNCHANGED <<use, now, root, ticking, home, pc, rearmed>>

\* The periodic thread exits: cleanup_tcb destroys the timer.
Exit(x) ==
    /\ Runs(home[x]) /\ ~tm[x].killed /\ pc[x] = "run" /\ ~root[home[x]]
    /\ Destroy(home[x], x)
    /\ UNCHANGED <<use, now, root, ticking, home, pc, rearmed>>

Acknowledge(x) ==
    /\ tm' = [tm EXCEPT ![x].pexpect = @ + Overruns(x)]
    /\ rearmed' = [rearmed EXCEPT ![x] = FALSE]

\* xnthread_wait_period()
WaitPeriod(x) ==
    /\ Runs(home[x]) /\ ~tm[x].killed /\ pc[x] = "run" /\ tm[x].running
    /\ ~root[home[x]]
    /\ \/ /\ now < Pexpect(x)
          /\ pc' = [pc EXCEPT ![x] = "wait"]
          /\ UNCHANGED <<tm, rearmed>>
       \/ now >= Pexpect(x) /\ Acknowledge(x) /\ UNCHANGED pc
    /\ UNCHANGED <<use, now, shot, ipi, defer, root, ticking, home>>

\* The thread was resumed by its timer.
WaitReturn(x) ==
    /\ Runs(home[x]) /\ pc[x] = "woken" /\ ~root[home[x]]
    /\ pc' = [pc EXCEPT ![x] = "run"]
    /\ Acknowledge(x)
    /\ UNCHANGED <<use, now, shot, ipi, defer, root, ticking, home>>

\* xnthread_migrate(): the current thread moves, and its timer with it.
MigrateSelf(x, d) ==
    /\ "migrate" \in use /\ Runs(home[x]) /\ ~tm[x].killed
    /\ pc[x] = "run" /\ ~root[home[x]] /\ d # home[x]
    /\ home' = [home EXCEPT ![x] = d]
    /\ Migrate(home[x], x, d)
    /\ UNCHANGED <<use, now, root, ticking, pc, rearmed>>

\* xnthread_migrate_passive(): the thread moved while it ran in secondary mode.
MigratePassive(x, d) ==
    /\ "passive" \in use /\ ticking = None /\ ~tm[x].killed /\ pc[x] = "run"
    /\ home' = [home EXCEPT ![x] = d]
    /\ UNCHANGED <<use, now, tm, shot, ipi, defer, root, masked, ticking, pc, rearmed>>

Next ==
    \/ Advance
    \/ \E c \in CPUs :
        \/ Tick(c) \/ TickEnd(c) \/ LeaveRoot(c) \/ EnterRoot(c)
        \/ \E x \in Timers : FireHost(c, x) \/ FirePeriodic(c, x)
        \/ \E delay \in 1 .. Period : HostShot(c, delay)
        \/ \E x \in Threads :
            \/ \E when \in {now - 1, now + 1} : SetPeriodic(c, x, when)
            \/ SetAperiodic(c, x) \/ MigrateSelf(x, c) \/ MigratePassive(x, c)
    \/ \E x \in Threads : Exit(x) \/ WaitPeriod(x) \/ WaitReturn(x)

Spec == Init /\ [][Next]_vars

----------------------------------------------------------------------------
(* Properties                                                              *)

Pinned == use \cap {"migrate", "passive"} = {}

\* No timer is forgotten by the hardware: outside of its tick, a CPU that has
\* outstanding timers has a shot programmed no later than the first of them, or a
\* remote shot on its way.  The host tick is covered once the root thread runs.
ShotCovers ==
    \A c \in CPUs :
        LET S == Queue(tm, c) \ (IF root[c] THEN {} ELSE Hosts) IN
        ticking # c /\ S # {} =>
            ipi[c] \/ (shot[c] # None /\ shot[c] <= Min({tm[x].date : x \in S}))

\* The release points acknowledged by a periodic thread that stays on its CPU are
\* those that have elapsed, each of them once: the next one expected is ahead of
\* the clock, by a period and the anticipation at most.  A thread that is made
\* periodic again after it was resumed, and before it runs, takes the first
\* release point as elapsed.
OverrunsStep ==
    \A x \in Threads :
        Pinned /\ tm'[x].pexpect > tm[x].pexpect /\ ~rearmed[x] =>
            Pexpect(x)' > now /\ Pexpect(x)' <= now + Period + Gravity
OverrunsExact == [][OverrunsStep]_vars

\* thread.c:1321, "-EWOULDBLOCK is returned if xnthread_set_periodic() has not
\* previously been called": a periodic timer that is queued runs.
QueuedRunning == \A x \in Threads : tm[x].q # None => tm[x].running

\* The same for threads that stay on their CPU.
QueuedRunningPinned == Pinned => QueuedRunning

\* xntimer_destroy(), "The timer is automatically deactivated before deletion if
\* active on entry": a timer that was destroyed is in no queue.
DestroyedDequeued == \A x \in Threads : tm[x].killed => tm[x].q = None

\* A thread that waits for its next release point will be resumed: its timer is
\* queued, unless it was stopped by another thread.
WaiterTimed ==
    \A x \in Threads :
        pc[x] = "wait" /\ tm[x].running => tm[x].q # None

\* The flags of a periodic timer and the queue that holds it agree, for as long
\* as its thread stays on its CPU, and whoever waits for the timer gets it.
TimersKept == WaiterTimed /\ QueuedRunningPinned
=============================================================================
