----------------------------- MODULE MCBlocking -----------------------------
(* Small instances of the services a thread blocks on, under fairness:     *)
(* mutexes, condition variables, event flag groups and monitors.  They are *)
(* checked side by side, each by itself: a behaviour picks one of them and *)
(* takes its steps only, and the variables of the others stay at Unused.   *)
EXTENDS Integers, Sequences, TLC

CONSTANTS
    t1, t2, t3,     \* the threads
    None, All,      \* see the modules
    Unused,         \* the value of a variable the service does not use
    Checked,        \* the services checked
    CondProfiles, EventGroups, MonitorUses   \* their applications

VARIABLES
    service,
    lock, owner, pendq, live, lockcnt, pc, call, ret, info, susp, res, held,
    app, depth, sigflag, pending, offset, bound, intr, gone, tmp,
    grp, value, pended, nwaiters, sleepq, req, got,
    use, flags, granted, waiters, drain, nklock, unlinked

Threads == {t1, t2, t3}

\* One thread above two others; two threads above one other.
prio == t1 :> 1 @@ t2 :> 2 @@ t3 :> 1
topprio == t1 :> 1 @@ t2 :> 2 @@ t3 :> 2

M == INSTANCE Mutex WITH
        prio <- topprio, Type <- "NORMAL", MaxCount <- 2, Weak <- {}, Calls <- {"lock"},
        Relockers <- {}, Released <- {}, Kicked <- {}, Signalled <- {}, Suspendable <- {}
C == INSTANCE Cond WITH MaxPending <- 2, MaxDepth <- 2, Profiles <- CondProfiles
E == INSTANCE Event WITH Bits <- {1, 2}, Groups <- EventGroups
G == INSTANCE Monitor WITH Uses <- MonitorUses

\* The variables of each service that the others leave alone.
mutexOnly == <<lock, call, ret, info, susp, res, held>>
condOnly == <<app, depth, sigflag, pending, offset, bound, intr, gone>>
eventOnly == <<grp, value, pended, nwaiters, sleepq, req, got>>
monitorOnly == <<use, flags, granted, waiters, drain, nklock, unlinked>>

mutexRest == <<condOnly, tmp, eventOnly, monitorOnly>>
condRest == <<mutexOnly, eventOnly, monitorOnly>>
eventRest == <<mutexOnly, condOnly, owner, pendq, lockcnt, tmp, monitorOnly>>
monitorRest == <<mutexOnly, condOnly, pendq, lockcnt, eventOnly>>

MutexIdle ==
    /\ lock = Unused /\ call = Unused /\ ret = Unused /\ info = Unused /\ susp = Unused
    /\ res = Unused /\ held = Unused
CondIdle ==
    /\ app = Unused /\ depth = Unused /\ sigflag = Unused /\ pending = Unused
    /\ offset = Unused /\ bound = Unused /\ intr = Unused /\ gone = Unused
EventIdle ==
    /\ grp = Unused /\ value = Unused /\ pended = Unused /\ nwaiters = Unused
    /\ sleepq = Unused /\ req = Unused /\ got = Unused
MonitorIdle ==
    /\ use = Unused /\ flags = Unused /\ granted = Unused /\ waiters = Unused
    /\ drain = Unused /\ nklock = Unused /\ unlinked = Unused

Init ==
    /\ service \in Checked
    /\ \/ /\ service = "mutex" /\ M!Init
          /\ CondIdle /\ tmp = Unused /\ EventIdle /\ MonitorIdle
       \/ /\ service = "cond" /\ C!Init
          /\ MutexIdle /\ EventIdle /\ MonitorIdle
       \/ /\ service = "event" /\ E!Init
          /\ MutexIdle /\ CondIdle /\ MonitorIdle
          /\ owner = Unused /\ pendq = Unused /\ lockcnt = Unused /\ tmp = Unused
       \/ /\ service = "monitor" /\ G!Init
          /\ MutexIdle /\ CondIdle /\ EventIdle
          /\ pendq = Unused /\ lockcnt = Unused

Next ==
    \/ service = "mutex" /\ M!Next /\ UNCHANGED <<service, mutexRest>>
    \/ service = "cond" /\ C!Next /\ UNCHANGED <<service, condRest>>
    \/ service = "event" /\ E!Next /\ UNCHANGED <<service, eventRest>>
    \/ service = "monitor" /\ G!Next /\ UNCHANGED <<service, monitorRest>>

vars == <<service, mutexOnly, condOnly, eventOnly, monitorOnly, owner, pendq, live,
          lockcnt, pc, tmp>>
mvars == M!vars
cvars == C!vars
evars == E!vars
gvars == G!vars

\* The fairness of each service; see their modules.
Fairness ==
    \A t \in Threads :
        /\ WF_mvars(service = "mutex" /\ M!KernelStep(t))
        /\ WF_mvars(service = "mutex" /\ M!Unlock(t))
        /\ WF_cvars(service = "cond" /\ C!Step(t))
        /\ WF_cvars(service = "cond" /\ C!Unlock(t))
        /\ WF_evars(service = "event" /\ E!Step(t))
        /\ WF_gvars(service = "monitor" /\ G!Step(t))
        /\ SF_gvars(service = "monitor" /\ G!Leave(t))

Spec == Init /\ [][Next]_vars
FairSpec == Spec /\ Fairness

----------------------------------------------------------------------------
(* Applications                                                            *)

\* Two threads wait for the condition, one with a timeout; the third signals.
WaitTwo ==
    [waiters |-> {t1, t2}, signalers |-> {t3}, outside |-> {}, timed |-> {t1},
     kicked |-> {}, cancelled |-> {}, destroyers |-> {}]
MCCondProfiles ==
    {WaitTwo,
     [WaitTwo EXCEPT !.kicked = {t1}],
     [WaitTwo EXCEPT !.destroyers = {t3}],
     [WaitTwo EXCEPT !.outside = {t3}],
     [WaitTwo EXCEPT !.kicked = {t1}, !.cancelled = {t1}]}

\* Two threads wait for events, one posts them.
MCEventGroups ==
    [order : {"prio"}, waiters : {{t1, t2}}, modes : {{"any", "all"}}, events : {{"timeout", "kick"}}]
    \cup [order : {"fifo"}, waiters : {{t1, t2}}, modes : {{"any"}}, events : {{}}]

\* Two threads wait, one for either signal; the others signal.
WaitGrant ==
    [smp |-> FALSE,
     waits |-> t1 :> {"grant"} @@ t2 :> {"grant", "drain"} @@ t3 :> {},
     signals |-> t1 :> {"drain"} @@ t2 :> {} @@ t3 :> {"grant"},
     events |-> {}, destroy |-> {}]
SignalAll == t1 :> {} @@ t2 :> {} @@ t3 :> {"grant_all", "drain_all"}
MCMonitorUses ==
    {WaitGrant,
     [WaitGrant EXCEPT !.events = {"timeout"}],
     [WaitGrant EXCEPT !.signals = SignalAll, !.events = {"kick"}],
     [WaitGrant EXCEPT !.destroy = {t3}]}

\* The monitor on two processors.
ParallelUses == {[WaitGrant EXCEPT !.smp = TRUE]}

----------------------------------------------------------------------------
(* The properties checked, by service                                      *)

\* Mutex: a sleeper that no other thread outranks eventually gets the mutex.
TopSleeperServed ==
    \A t \in Threads :
        (\A u \in Threads : topprio[u] <= topprio[t]) =>
            ((service = "mutex" /\ pc[t] = "pend") ~> (service = "mutex" => held[t] > 0))

\* Condition variable: a signal finds its sleepers, unless they get a Linux
\* signal.
SignalsReach == service = "cond" => C!SignalsReach

\* Condition variable: a wait that is not cancelled restores the recursion
\* count of the mutex.
RecursionRestoredUncancelled == service = "cond" => C!RecursionRestoredUncancelled

\* Condition variable: a broadcast wakes every sleeper.
BroadcastWakes ==
    \A t \in Threads :
        (service = "cond" /\ C!BroadcastDue(t)) ~> (service = "cond" => pc[t] # "pend")

\* Event flag group: PENDED and nwaiters tell of the waiters.
WaitersTracked == service = "event" => E!WaitersTracked

\* Event flag group: a waiter that slept got the events it asked for.
WokenSatisfied == service = "event" => E!WokenSatisfied

\* Event flag group: a conjunctive wait returns all the events awaited.
ConjunctiveWait == service = "event" => E!ConjunctiveWait

\* Event flag group: a satisfied sleeper in disjunctive mode is woken.
EventsDelivered ==
    \A t \in Threads :
        (service = "event" /\ E!EventsDue(t)) ~> (service = "event" => ~E!EventsDue(t))

\* Monitor: on one processor a monitor with sleepers is flagged PENDED, and a
\* destroyed one has none.
SleepersTracked == service = "monitor" => G!SleepersTracked

\* Monitor: one with sleepers is flagged PENDED, on any number of processors.
SleepersPended == service = "monitor" => G!SleepersPended


\* Monitor: a grant given to a sleeper wakes it up.
GrantsDelivered ==
    \A t \in Threads :
        (service = "monitor" /\ G!GrantDue(t)) ~> (service = "monitor" => ~G!GrantDue(t))
============================================================================
