------------------------------- MODULE Event -------------------------------
(***************************************************************************)
(* One Cobalt event flag group: kernel/cobalt/posix/event.c and its        *)
(* user-space half in lib/cobalt/internal.c.                               *)
(*                                                                         *)
(* Events are posted in user space, by an atomic operation on the word     *)
(* shared with the kernel; the poster then enters the kernel only if the   *)
(* PENDED flag says that somebody waits.  An action is one access to that  *)
(* memory from user space, or one nklock section.                          *)
(***************************************************************************)
EXTENDS Integers, Sequences, FiniteSets, PrioList

CONSTANTS
    Threads,    \* the threads
    Bits,       \* the event flags
    prio,       \* weighted priority of each thread
    Groups      \* the groups considered: records
                \*   order    "prio" or "fifo", the creation flag
                \*   waiters  the threads that wait; the others post and clear
                \*   modes    the wait modes used, among "any" and "all"
                \*   events   what may happen, among "timeout" and "kick"

VARIABLES
    grp,        \* the group, one of Groups
    value,      \* state->value, the events that occurred
    pended,     \* COBALT_EVENT_PENDED in state->flags
    nwaiters,   \* state->nwaiters
    live,       \* the group exists
    sleepq,     \* event->synch.pendq
    pc,         \* where each thread is
    req,        \* the wait context: bits and mode of each caller
    got         \* the bits each waiter received

vars == <<grp, value, pended, nwaiters, live, sleepq, pc, req, got>>

NoRequest == [bits |-> {}, mode |-> "any"]
NonEmpty == SUBSET Bits \ {{}}

Init ==
    /\ grp \in Groups
    /\ value = {} /\ pended = FALSE /\ nwaiters = 0 /\ live = TRUE
    /\ sleepq = <<>>
    /\ pc = [t \in Threads |-> "idle"]
    /\ req = [t \in Threads |-> NoRequest]
    /\ got = [t \in Threads |-> {}]

Goto(t, loc) == pc' = [pc EXCEPT ![t] = loc]

----------------------------------------------------------------------------
(* User space: lib/cobalt/internal.c                                       *)

\* cobalt_event_post(): an atomic OR, then the test of PENDED.
Post(t, bits) ==
    /\ t \notin grp.waiters /\ pc[t] = "idle" /\ live
    /\ value' = value \cup bits
    /\ Goto(t, "posted")
    /\ UNCHANGED <<grp, pended, nwaiters, live, sleepq, req, got>>

PostTest(t) ==
    /\ pc[t] = "posted"
    /\ Goto(t, IF pended THEN "sync" ELSE "idle")
    /\ UNCHANGED <<grp, value, pended, nwaiters, live, sleepq, req, got>>

\* cobalt_event_clear()
Clear(t, bits) ==
    /\ t \notin grp.waiters /\ pc[t] = "idle" /\ live
    /\ value' = value \ bits
    /\ UNCHANGED <<grp, pended, nwaiters, live, sleepq, pc, req, got>>

----------------------------------------------------------------------------
(* The kernel: event.c                                                     *)

\* What event_sync finds a sleeper to have received.
Received(t) == req[t].bits \cap value

\* Mutant: any of the awaited events satisfies any request.
SatisfiedAny(t) == Received(t) # {}

\* The test of the mode.
Satisfied(t) ==
    /\ Received(t) # {}
    /\ req[t].mode = "all" => Received(t) = req[t].bits

Awakened == {t \in {sleepq[i] : i \in DOMAIN sleepq} : Satisfied(t)}

\* Mutant: the scan stops at the first sleeper that is satisfied.
SyncOne(t) ==
    /\ pc[t] = "sync"
    /\ LET first == {u \in Awakened : \A v \in Awakened : prio[u] >= prio[v]}
       IN  /\ sleepq' = SelectSeq(sleepq, LAMBDA u : u \notin first)
           /\ nwaiters' = nwaiters - (Len(sleepq) - Len(sleepq'))
           /\ got' = [u \in Threads |-> IF u \in first THEN Received(u) ELSE got[u]]
           /\ pc' = [u \in Threads |-> IF u = t THEN "idle"
                                       ELSE IF u \in first THEN "ready" ELSE pc[u]]
    /\ UNCHANGED <<grp, value, pended, live, req>>

\* event_sync: wake up every sleeper that the current value satisfies.
Sync(t) ==
    /\ pc[t] = "sync"
    /\ IF live
       THEN /\ sleepq' = SelectSeq(sleepq, LAMBDA u : u \notin Awakened)
            /\ nwaiters' = nwaiters - (Len(sleepq) - Len(sleepq'))
            /\ got' = [u \in Threads |-> IF u \in Awakened THEN Received(u) ELSE got[u]]
            /\ pc' = [u \in Threads |-> IF u = t THEN "idle"
                                        ELSE IF u \in Awakened THEN "ready" ELSE pc[u]]
       ELSE Goto(t, "idle") /\ UNCHANGED <<sleepq, nwaiters, got>>
    /\ UNCHANGED <<grp, value, pended, live, req>>

Queued(t) == IF grp.order = "prio" THEN AddPriff(sleepq, t, prio) ELSE Append(sleepq, t)

\* Mutant: PENDED is raised only for a caller that blocks, by the caller of the
\* sleep service, after the value was tested.
WaitLatePended(t, bits, mode) ==
    /\ t \in grp.waiters /\ pc[t] = "idle" /\ live
    /\ req' = [req EXCEPT ![t] = [bits |-> bits, mode |-> mode]]
    /\ sleepq' = Queued(t) /\ nwaiters' = nwaiters + 1
    /\ Goto(t, "sleep")
    /\ UNCHANGED <<grp, value, pended, live, got>>

\* event_wait: the value is tested with PENDED raised.  In conjunctive mode the
\* bits received are compared with the whole value, not with the request.
Wait(t, bits, mode) ==
    /\ t \in grp.waiters /\ pc[t] = "idle" /\ live
    /\ LET rbits == value \cap bits
           granted == rbits # {} /\ (mode = "all" => rbits = value)
       IN  \/ /\ granted
              /\ req' = [req EXCEPT ![t] = [bits |-> bits, mode |-> mode]]
              /\ got' = [got EXCEPT ![t] = rbits]
              /\ pended' = (sleepq # <<>>)
              /\ Goto(t, "done")
              /\ UNCHANGED <<nwaiters, sleepq>>
           \/ /\ ~granted
              /\ req' = [req EXCEPT ![t] = [bits |-> bits, mode |-> mode]]
              /\ sleepq' = Queued(t)
              /\ nwaiters' = nwaiters + 1
              /\ pended' = TRUE
              /\ Goto(t, "sleep")
              /\ UNCHANGED got
           \/ /\ ~granted /\ "timeout" \in grp.events   \* a null timeout: -EWOULDBLOCK
              /\ pended' = (sleepq # <<>>)
              /\ UNCHANGED <<nwaiters, sleepq, pc, req, got>>
    /\ UNCHANGED <<grp, value, live>>

\* A sleeper is woken by a timeout or a Linux signal.
Abort(t, why) ==
    /\ why \in grp.events /\ pc[t] = "sleep"
    /\ sleepq' = Delete(sleepq, t)
    /\ Goto(t, why)
    /\ UNCHANGED <<grp, value, pended, nwaiters, live, req, got>>

\* The end of event_wait for a thread that has slept.
WaitDone(t) ==
    /\ \/ /\ pc[t] = "ready"
          /\ pended' = (pended /\ sleepq # <<>>)
          /\ Goto(t, "done")
          /\ UNCHANGED <<nwaiters, req>>
       \/ /\ pc[t] \in {"timeout", "kick"}            \* -ETIMEDOUT, -EINTR
          /\ nwaiters' = nwaiters - 1
          /\ pended' = (pended /\ sleepq # <<>>)
          /\ Goto(t, "idle")
          /\ req' = [req EXCEPT ![t] = NoRequest]
       \/ /\ pc[t] = "removed"                        \* -EIDRM
          /\ Goto(t, "idle")
          /\ req' = [req EXCEPT ![t] = NoRequest]
          /\ UNCHANGED <<pended, nwaiters>>
    /\ UNCHANGED <<grp, value, live, sleepq, got>>

\* The caller goes on with the bits it was given.
Return(t) ==
    /\ pc[t] = "done"
    /\ Goto(t, "idle")
    /\ req' = [req EXCEPT ![t] = NoRequest]
    /\ got' = [got EXCEPT ![t] = {}]
    /\ UNCHANGED <<grp, value, pended, nwaiters, live, sleepq>>

\* event_destroy and cobalt_event_reclaim(): every sleeper gets -EIDRM.
Destroy(t) ==
    /\ t \notin grp.waiters /\ pc[t] = "idle" /\ live
    /\ live' = FALSE
    /\ sleepq' = <<>>
    /\ pc' = [u \in Threads |-> IF pc[u] = "sleep" THEN "removed" ELSE pc[u]]
    /\ UNCHANGED <<grp, value, pended, nwaiters, req, got>>

Step(t) == PostTest(t) \/ Sync(t) \/ WaitDone(t) \/ Return(t)

Next ==
    \E t \in Threads :
        \/ \E bits \in NonEmpty : Post(t, bits) \/ Clear(t, bits)
        \/ \E bits \in NonEmpty, mode \in grp.modes : Wait(t, bits, mode)
        \/ \E why \in {"timeout", "kick"} : Abort(t, why)
        \/ Step(t) \/ Destroy(t)

\* A runnable thread is given the CPU.
Fairness == \A t \in Threads : WF_vars(Step(t))

Spec == Init /\ [][Next]_vars
FairSpec == Spec /\ Fairness

----------------------------------------------------------------------------
(* Properties                                                              *)

\* The poster's fast path is safe: while a thread sleeps on the group, PENDED
\* is set, whoever timed out, was interrupted or polled in between.
WaitersPended == sleepq # <<>> => pended

\* event.c, "wait for the events to occur in a conjunctive manner (all awaited
\* events must have occurred to wake up)": what a successful wait returned.
ConjunctiveWait ==
    \A t \in Threads :
        pc[t] = "done" /\ req[t].mode = "all" => got[t] = req[t].bits

\* The same for a waiter that had to sleep, until it has returned.
WokenSatisfied ==
    \A t \in Threads :
        pc[t] = "ready" => /\ got[t] # {} /\ got[t] \subseteq req[t].bits
                           /\ req[t].mode = "all" => got[t] = req[t].bits

\* nwaiters counts the sleepers, and the threads that have yet to leave the wait
\* after a timeout or a signal.
WaitersCounted ==
    live => nwaiters = Len(sleepq) + Cardinality({t \in Threads : pc[t] \in {"timeout", "kick"}})

\* Both marks of the waiters that user space and the kernel share, PENDED and
\* nwaiters, are right over timeouts, signals, polls and the fast path.
WaitersTracked == WaitersPended /\ WaitersCounted

\* A sleeper in disjunctive mode that the value satisfies.
EventsDue(t) == pc[t] = "sleep" /\ req[t].mode = "any" /\ Satisfied(t)

\* It is eventually woken, unless the events are cleared first.
EventsDelivered == \A t \in Threads : EventsDue(t) ~> ~EventsDue(t)
============================================================================
