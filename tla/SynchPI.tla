------------------------------ MODULE SynchPI ------------------------------
(***************************************************************************)
(* Priority inheritance among threads that hold and wait for several       *)
(* mutexes: the XNSYNCH_PIP half of kernel/cobalt/synch.c, and the calls   *)
(* of kernel/cobalt/thread.c that change a priority, end a wait or end a   *)
(* thread.                                                                 *)
(*                                                                         *)
(* Everything here happens under nklock, which the mutex system calls hold *)
(* from entry to the point where the caller sleeps: one action is one      *)
(* system call, or one wait that ends.  The race of user space with the    *)
(* kernel on the lock word is the subject of Mutex; here the word and      *)
(* synch->owner are one field, owner, which Mutex shows they are whenever  *)
(* a thread sleeps.  All threads belong to the same scheduling class, so   *)
(* that weighted and plain priorities coincide.                            *)
(***************************************************************************)
EXTENDS Integers, Sequences, FiniteSets, PrioList

CONSTANTS
    Threads,    \* the threads
    Mutexes,    \* the PIP mutexes, numbered in the order threads nest them
    None,       \* no thread, no mutex
    Gone,       \* the handle of a thread that has exited
    base,       \* priority every thread starts with
    Profiles    \* the applications considered: which mutexes each thread uses,
                \* and which events happen besides locking and unlocking

VARIABLES
    app,    \* the application, one of Profiles
    core,   \* what nklock protects, a record:
            \*   owner    synch->owner and the lock word
            \*   pendq    synch->pendq
            \*   claimed  the XNSYNCH_CLAIMED bit of synch->status
            \*   mprio    synch->wprio, the priority of a mutex in a claim queue
            \*   claimq   thread->claimq, the claimed mutexes of a thread
            \*   wprio    thread->wprio, the priority a thread runs at
            \*   bprio    thread->bprio, the one it returns to after a boost
            \*   boost    the XNBOOST bit of thread->state
            \*   waken    thread->wwake while XNWAKEN is set, else None
    pc,     \* "run", "pend" (asleep), "ready" (woken, not running yet)
    want,   \* the mutex xnsynch_acquire() was called for
    woke,   \* why a ready thread was woken: "granted", "robbed" or "error"
    stolen  \* history: a claimed mutex was stolen

vars == <<app, core, pc, want, woke, stolen>>

----------------------------------------------------------------------------
Init ==
    /\ app \in Profiles
    /\ core = [owner   |-> [m \in Mutexes |-> None],
               pendq   |-> [m \in Mutexes |-> <<>>],
               claimed |-> [m \in Mutexes |-> FALSE],
               mprio   |-> [m \in Mutexes |-> -1],
               claimq  |-> [t \in Threads |-> <<>>],
               wprio   |-> base,
               bprio   |-> base,
               boost   |-> [t \in Threads |-> FALSE],
               waken   |-> [t \in Threads |-> None]]
    /\ pc = [t \in Threads |-> "run"]
    /\ want = [t \in Threads |-> None]
    /\ woke = [t \in Threads |-> "granted"]
    /\ stolen = FALSE

Sleeps(c, t) == \E m \in Mutexes : Has(c.pendq[m], t)
Wchan(c, t)  == CHOOSE m \in Mutexes : Has(c.pendq[m], t)

----------------------------------------------------------------------------
(* The inheritance protocol, as functions of the protected state           *)

\* list_del() of synch->link: from the claim queue the mutex is linked to.
Unlink(claimq, m) ==
    [t \in Threads |-> IF Has(claimq[t], m) THEN Delete(claimq[t], m) ELSE claimq[t]]

\* Thread t, asleep on m at a priority above that of the owner o, claims m:
\* the mutex is (re)queued by priority among those o is boosted for.
Claim(c, m, t, o) ==
    LET pr == [c.mprio EXCEPT ![m] = c.wprio[t]] IN
    [c EXCEPT !.mprio = pr,
              !.claimed[m] = TRUE,
              !.claimq = [Unlink(@, m) EXCEPT ![o] = AddPriff(@, m, pr)],
              !.bprio[o] = IF c.boost[o] THEN @ ELSE c.wprio[o],
              !.boost[o] = TRUE]

\* One turn of xnsynch_requeue_sleeper() for thread p[2] in state p[1]: the
\* sleeper is queued again by its new priority; if it outranks the owner, it
\* claims the mutex, the owner inherits its priority and, if asleep itself, is
\* the next to be queued again.
RequeueTurn(p) ==
    LET c  == p[1]
        t  == p[2]
        m  == Wchan(c, t)
        o  == c.owner[m]
        c1 == [c EXCEPT !.pendq[m] = AddPriff(Delete(@, t), t, c.wprio)]
        c2 == [Claim(c1, m, t, o) EXCEPT !.wprio[o] = c.wprio[t]]
    IN  IF t = None THEN p
        ELSE IF o \in {None, Gone} \/ c.wprio[t] <= c.wprio[o] THEN <<c1, None>>
        ELSE <<c2, IF Sleeps(c2, o) THEN o ELSE None>>

\* Mutant: the owner of the mutex a boosted thread waits for is left alone.
RequeueSleeperOnce(c, t) ==
    [c EXCEPT !.pendq[Wchan(c, t)] = AddPriff(Delete(@, t), t, c.wprio)]

\* xnsynch_requeue_sleeper(), with its recursion along the chain of owners.
\* Each turn raises another thread to one priority: there are as many turns as
\* threads, at most.
RequeueSleeper(c, t) ==
    LET turn[n \in 0 .. Cardinality(Threads)] ==
            IF n = 0 THEN <<c, t>> ELSE RequeueTurn(turn[n - 1])
    IN  turn[Cardinality(Threads)][1]

\* xnsynch_renice_thread(): t runs at priority p, and is queued again if asleep.
Renice(c, t, p) ==
    LET c1 == [c EXCEPT !.wprio[t] = p]
    IN  IF Sleeps(c1, t) THEN RequeueSleeper(c1, t) ELSE c1

\* The highest-priority sleeper on the mutex that leads the claim queue of o.
TopClaimant(c, o) == Head(c.pendq[Head(c.claimq[o])])

\* Mutant: the boost ends even if other mutexes of the owner are claimed.
ClearBoostFully(c, m, o) ==
    LET c1 == [c EXCEPT !.claimq = Unlink(@, m), !.claimed[m] = FALSE]
    IN  IF c.wprio[o] # c.bprio[o] THEN Renice(c1, o, c.bprio[o]) ELSE c1

\* clear_boost(): mutex m no longer boosts o, which keeps the highest priority
\* its other claimed mutexes require.
ClearBoost(c, m, o) ==
    LET c1 == [c EXCEPT !.claimq = Unlink(@, m), !.claimed[m] = FALSE]
        last == c1.claimq[o] = <<>>
        c2 == [c1 EXCEPT !.boost[o] = IF last THEN FALSE ELSE @]
        p  == IF last \/ c.wprio[TopClaimant(c1, o)] <= c.bprio[o]
              THEN c.bprio[o] ELSE c.wprio[TopClaimant(c1, o)]
    IN  IF c.wprio[o] # p THEN Renice(c2, o, p) ELSE c2

\* xnsynch_forget_sleeper(): t stops waiting.  The set of possible results: the
\* head of an empty claim queue is whatever its address holds, so that the test
\* for an unchanged priority may then go either way.
ForgetSleeper(c, t) ==
    LET m    == Wchan(c, t)
        o    == c.owner[m]
        c1   == [c EXCEPT !.pendq[m] = Delete(@, t)]
        top  == Head(c1.pendq[m])
        pr   == [c.mprio EXCEPT ![m] = c.wprio[top]]
        c2   == [c1 EXCEPT !.mprio = pr,
                           !.claimq = [Unlink(@, m) EXCEPT ![o] = AddPriff(@, m, pr)]]
        low  == pr[Head(c2.claimq[o])] < c.wprio[o]
        c3   == IF low THEN Renice(c2, o, c.wprio[top]) ELSE c2
    IN  IF ~c.claimed[m] THEN {c1}
        ELSE IF c1.pendq[m] = <<>> THEN {ClearBoost(c1, m, o)}
        ELSE IF c.claimq[o] = <<>> THEN {c1, c3}
        ELSE IF c.wprio[top] = c.mprio[Head(c.claimq[o])] THEN {c1}
        ELSE {c3}

\* Mutant: the mutex remains claimed when its last sleeper is served.
TransferKeepClaim(c, m, t) ==
    IF c.pendq[m] = <<>> THEN [c EXCEPT !.owner[m] = None]
    ELSE [c EXCEPT !.pendq[m] = Tail(@),
                   !.owner[m] = Head(c.pendq[m]),
                   !.waken[Head(c.pendq[m])] = m]

\* transfer_ownership(), called by t: the first sleeper becomes the owner.
Transfer(c, m, t) ==
    LET next == Head(c.pendq[m])
        c1   == [c EXCEPT !.pendq[m] = Tail(@),
                          !.owner[m] = next,
                          !.waken[next] = m]
    IN  IF c.pendq[m] = <<>> THEN [c EXCEPT !.owner[m] = None]
        ELSE IF c.claimed[m] THEN ClearBoost(c1, m, t) ELSE c1

----------------------------------------------------------------------------
(* xnsynch_acquire()                                                       *)

\* xnsynch_acquire() returns to its caller.
Proceed(t) ==
    /\ pc' = [pc EXCEPT ![t] = "run"]
    /\ woke' = [woke EXCEPT ![t] = "granted"]

\* The ownership of m is handed to o, which has not run since, and t outranks it.
CanSteal(c, t, m) ==
    LET o == c.owner[m] IN c.wprio[t] > c.wprio[o] /\ c.waken[o] = m

\* The caller joins the sleepers and boosts the owner it outranks.
Enqueue(c, t, m) ==
    LET o  == c.owner[m]
        c1 == [c EXCEPT !.pendq[m] = AddPriff(@, t, c.wprio)]
    IN  IF c.wprio[t] > c.wprio[o]
        THEN Renice(Claim(c1, m, t, o), o, c.wprio[t]) ELSE c1

\* The mutex is free, owned by a thread that exited (XNRMID is returned), stolen
\* from the thread it was handed to, or waited for.  A timed wait is over before
\* it starts if its date has passed.
AcquireFrom(c, t, m) ==
    LET o == c.owner[m] IN
    \/ /\ o = None
       /\ core' = [c EXCEPT !.owner[m] = t]
       /\ Proceed(t)
       /\ UNCHANGED stolen
    \/ /\ o = Gone
       /\ core' = c
       /\ Proceed(t)
       /\ UNCHANGED stolen
    \/ /\ o \in Threads /\ CanSteal(c, t, m)
       /\ core' = [c EXCEPT !.owner[m] = t]
       /\ pc' = [pc EXCEPT ![t] = "run"]
       /\ woke' = [woke EXCEPT ![t] = "granted", ![o] = "robbed"]
       /\ stolen' = (stolen \/ c.claimed[m])
    \/ /\ o \in Threads /\ ~CanSteal(c, t, m)
       /\ core' = Enqueue(c, t, m)
       /\ pc' = [pc EXCEPT ![t] = "pend"]
       /\ UNCHANGED <<woke, stolen>>
    \/ /\ o \in Threads /\ ~CanSteal(c, t, m) /\ "timeout" \in app.events
       /\ core' \in ForgetSleeper(Enqueue(c, t, m), t)
       /\ Proceed(t)
       /\ UNCHANGED stolen

\* A thread nests mutexes in increasing order.
Acquire(t, m) ==
    /\ pc[t] = "run" /\ m \in app.uses[t]
    /\ \A n \in Mutexes : core.owner[n] = t => n < m
    /\ AcquireFrom(core, t, m)
    /\ want' = [want EXCEPT ![t] = IF pc'[t] = "pend" THEN m ELSE None]
    /\ UNCHANGED app

\* The caller runs again after xnthread_suspend(); a robbed one starts over,
\* unless its delay is over meanwhile.
AcquireWake(t) ==
    LET c == [core EXCEPT !.waken[t] = None] IN
    /\ pc[t] = "ready"
    /\ \/ /\ woke[t] # "robbed" \/ "timeout" \in app.events
          /\ core' = c
          /\ Proceed(t)
          /\ UNCHANGED stolen
       \/ woke[t] = "robbed" /\ AcquireFrom(c, t, want[t])
    /\ want' = [want EXCEPT ![t] = IF pc'[t] = "pend" THEN @ ELSE None]
    /\ UNCHANGED app

----------------------------------------------------------------------------
(* Releasing, and what others do to a thread                               *)

\* The threads that the change from core to core' took out of a wait queue.
Woken(t) == Sleeps(core, t) /\ ~Sleeps(core', t)

WakeUp(why) ==
    /\ pc' = [u \in Threads |-> IF Woken(u) THEN "ready" ELSE pc[u]]
    /\ woke' = [u \in Threads |-> IF Woken(u) THEN why ELSE woke[u]]

\* xnsynch_release().
Release(t, m) ==
    /\ pc[t] = "run" /\ core.owner[m] = t
    /\ core' = Transfer(core, m, t)
    /\ WakeUp("granted")
    /\ UNCHANGED <<app, want, stolen>>

\* A timeout elapses or the wait is broken (xnthread_unblock()).
Timeout(t) ==
    /\ "timeout" \in app.events /\ pc[t] = "pend"
    /\ core' \in ForgetSleeper(core, t)
    /\ WakeUp("error")
    /\ UNCHANGED <<app, want, stolen>>

\* xnthread_set_schedparam(): a boost in progress is overridden.
SetSchedparam(t, p) ==
    /\ "setprio" \in app.events /\ app.uses[t] # {}
    /\ LET c == [core EXCEPT !.bprio[t] = p]
       IN  core' = IF p = core.wprio[t] THEN c ELSE Renice(c, t, p)
    /\ UNCHANGED <<app, pc, want, woke, stolen>>

\* xnsynch_release_all_ownerships(): walks the claim queue.
ReleaseAll(c, t) ==
    LET q == c.claimq[t]
        done[n \in 0 .. Len(q)] ==
            IF n = 0 THEN c ELSE Transfer(done[n - 1], q[n], t)
    IN  done[Len(q)]

\* cleanup_tcb(): the thread exits, another one takes its place.  Mutexes it
\* still owns keep its handle, which names nobody any more.
Exit(t) ==
    LET c == ReleaseAll(core, t) IN
    /\ "exit" \in app.events /\ pc[t] = "run"
    /\ core' = [c EXCEPT !.owner = [m \in Mutexes |-> IF @[m] = t THEN Gone ELSE @[m]],
                         !.wprio[t] = base[t],
                         !.bprio[t] = base[t],
                         !.boost[t] = FALSE]
    /\ WakeUp("granted")
    /\ UNCHANGED <<app, want, stolen>>

Next ==
    \E t \in Threads :
        \/ \E m \in Mutexes : Acquire(t, m) \/ Release(t, m)
        \/ AcquireWake(t) \/ Timeout(t) \/ Exit(t)
        \/ \E u \in Threads : app.uses[u] # {} /\ SetSchedparam(t, base[u])

Spec == Init /\ [][Next]_vars

----------------------------------------------------------------------------
(* Properties                                                              *)

Owned(t) == {m \in Mutexes : core.owner[m] = t}

\* However the priority of a sleeper changes, the sleepers of every mutex remain
\* queued by decreasing priority, so that a release picks the right one.
PendqSorted == \A m \in Mutexes : Sorted(core.pendq[m], core.wprio)

\* The assertions of clear_boost(), xnsynch_flush() and xnsynch_destroy() never
\* fail: a claimed mutex has sleepers.  It is linked to exactly one claim queue.
ClaimedHasSleepers ==
    \A m \in Mutexes :
        /\ core.claimed[m] => core.pendq[m] # <<>>
        /\ Cardinality({t \in Threads : Has(core.claimq[t], m)}) =
              IF core.claimed[m] THEN 1 ELSE 0

\* The queues priority inheritance computes from are right, over releases,
\* timeouts, thefts and changes of priority.
QueuesKept == PendqSorted /\ ClaimedHasSleepers

\* thread.h on thread->claimq: "List of xnsynch owned by this thread _and_
\* claimed by others (PIP)".
ClaimqOwned ==
    \A t \in Threads, m \in Mutexes : Has(core.claimq[t], m) => core.owner[m] = t

\* Priority inheritance: no thread sleeps on a mutex whose owner runs at a lower
\* priority.
NoInversion ==
    \A t \in Threads, m \in Mutexes :
        Has(core.pendq[m], t) /\ core.owner[m] \in Threads =>
            core.wprio[t] <= core.wprio[core.owner[m]]

\* At most one of the mutexes t uses is used by a thread that starts above it.
OneContended(t) ==
    Cardinality({m \in app.uses[t] :
                   \E u \in Threads : m \in app.uses[u] /\ base[u] > base[t]}) <= 1

\* Inheritance follows the chain of owners, timeouts or not, as long as no
\* thread nests two mutexes that threads above it use, and no claimed mutex is
\* stolen.
ChainBoosted ==
    ~stolen /\ "setprio" \notin app.events /\ (\A t \in Threads : OneContended(t))
        => NoInversion

\* No boost outlives its cause: without timeouts, and unless a claimed mutex is
\* stolen, a thread runs at the highest of its own priority and those of the
\* sleepers that claim one of the mutexes it owns.
ExactBoost ==
    ~stolen /\ app.events \cap {"timeout", "setprio"} = {} =>
        /\ ClaimqOwned
        /\ \A t \in Threads :
              LET Claimants == {u \in Threads : \E m \in Owned(t) :
                                   core.claimed[m] /\ Has(core.pendq[m], u)}
                  Prios == {base[t]} \cup {core.wprio[u] : u \in Claimants}
              IN  core.wprio[t] \in Prios /\ \A p \in Prios : p <= core.wprio[t]

\* The comment of xnsynch_forget_sleeper(), "lower the priority to the required
\* minimum needed to prevent priority inversion": no thread runs below the
\* priority the application gave it.
NeverBelowBase == \A t \in Threads : core.wprio[t] >= base[t]

\* The comment of xnsynch_release_all_ownerships(), "Release all the ownerships
\* obtained by a thread": nobody waits for a thread that has exited.
ExitReleases == \A m \in Mutexes : core.owner[m] = Gone => core.pendq[m] = <<>>
============================================================================
