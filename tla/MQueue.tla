------------------------------- MODULE MQueue -------------------------------
(***************************************************************************)
(* Sending to and receiving from one Cobalt message queue, and the         *)
(* readiness that select() sees of it: kernel/cobalt/posix/mqueue.c and    *)
(* kernel/cobalt/select.c.                                                 *)
(*                                                                         *)
(* A queue owns a fixed pool of message slots.  A caller takes a slot in   *)
(* one nklock section, copies data from or to user space without the lock, *)
(* and gives the slot away in a second section, directly to a sleeping     *)
(* peer if there is one.  An action is one nklock section.                 *)
(***************************************************************************)
EXTENDS Integers, Sequences, FiniteSets, PrioList

CONSTANTS
    Threads,    \* the threads
    Slots,      \* the message slots of the pool, mq_maxmsg of them
    None,       \* no slot, no thread
    prio,       \* weighted priority of each thread
    MsgPrios,   \* the message priorities used
    Senders,    \* the threads that send
    Receivers,  \* the threads that receive
    Selector    \* the thread that calls select()

VARIABLES
    avail,      \* mq->avail
    queued,     \* mq->queued, in delivery order
    msgprio,    \* msg->prio of each slot
    receivers,  \* mq->receivers.pendq
    senders,    \* mq->senders.pendq
    target,     \* mq->target, the thread to notify
    hold,       \* the slot each thread copies from or to, mwc.msg
    pc,         \* where each thread is
    expected,   \* the selector's bindings, among "read" and "write"
    pending,    \* the selector's readiness bits for this queue
    watch       \* what the selecting thread waits for

vars == <<avail, queued, msgprio, receivers, senders, target, hold, pc,
          expected, pending, watch>>
selvars == <<expected, pending, watch>>

Kinds == {"read", "write"}

Init ==
    /\ avail = Slots /\ queued = <<>>
    /\ msgprio = [s \in Slots |-> CHOOSE p \in MsgPrios : \A r \in MsgPrios : p <= r]
    /\ receivers = <<>> /\ senders = <<>> /\ target = None
    /\ hold = [t \in Threads |-> None]
    /\ pc = [t \in Threads |-> "idle"]
    /\ expected = {} /\ pending = {} /\ watch = {}

----------------------------------------------------------------------------
(* select(): kernel/cobalt/select.c                                        *)

\* Mutant: raising a bit that is clear does not wake the selecting thread.
SignalQuiet(kind, state, at) ==
    /\ pending' = IF kind \notin expected THEN pending
                  ELSE IF state THEN pending \cup {kind} ELSE pending \ {kind}
    /\ pc' = at

\* xnselect_signal(): a bit that gets raised wakes the selecting thread up.
\* "at" is the rest of what the caller does to pc.
Signal(kind, state, at) ==
    LET wakes == kind \in expected /\ state /\ kind \notin pending IN
    /\ pending' = IF kind \notin expected THEN pending
                  ELSE IF state THEN pending \cup {kind} ELSE pending \ {kind}
    /\ pc' = IF wakes /\ at[Selector] = "select"
             THEN [at EXCEPT ![Selector] = "selected"] ELSE at

NoSignal(at) == pc' = at /\ UNCHANGED pending

Ready(kind) == IF kind = "read" THEN queued # <<>> ELSE avail # {}

\* The select() syscall and mqd_select: the caller binds what xnselect() finds
\* unbound, -ECHRNG, then calls it again.
SelectBind(kind) ==
    /\ pc[Selector] = "idle" /\ kind \notin expected
    /\ expected' = expected \cup {kind}
    /\ pending' = IF Ready(kind) THEN pending \cup {kind} ELSE pending \ {kind}
    /\ UNCHANGED <<avail, queued, msgprio, receivers, senders, target, hold, pc, watch>>

\* xnselect(): nothing is ready, sleep.
Select(kinds) ==
    /\ pc[Selector] = "idle" /\ kinds # {} /\ kinds \subseteq expected
    /\ pending \cap kinds = {}
    /\ watch' = kinds
    /\ pc' = [pc EXCEPT ![Selector] = "select"]
    /\ UNCHANGED <<avail, queued, msgprio, receivers, senders, target, hold, expected, pending>>

\* Woken up: something awaited is ready, or the thread sleeps again.
SelectWoken ==
    /\ pc[Selector] = "selected"
    /\ \/ /\ pending \cap watch # {}
          /\ pc' = [pc EXCEPT ![Selector] = "idle"] /\ watch' = {}
       \/ /\ pending \cap watch = {}
          /\ pc' = [pc EXCEPT ![Selector] = "select"] /\ UNCHANGED watch
    /\ UNCHANGED <<avail, queued, msgprio, receivers, senders, target, hold, expected, pending>>

\* The wait times out or is broken by a signal.
SelectAbort ==
    /\ pc[Selector] = "select"
    /\ pc' = [pc EXCEPT ![Selector] = "idle"] /\ watch' = {}
    /\ UNCHANGED <<avail, queued, msgprio, receivers, senders, target, hold, expected, pending>>

----------------------------------------------------------------------------
(* The queue: kernel/cobalt/posix/mqueue.c                                 *)

\* mq_release_msg: a waiting sender gets the slot, else the pool.
ReleaseMsg(t, s) ==
    \/ /\ senders # <<>>
       /\ senders' = Tail(senders)
       /\ hold' = [hold EXCEPT ![t] = None, ![Head(senders)] = s]
       /\ NoSignal([pc EXCEPT ![t] = "idle", ![Head(senders)] = "copyin"])
       /\ UNCHANGED avail
    \/ /\ senders = <<>>
       /\ avail' = avail \cup {s}
       /\ hold' = [hold EXCEPT ![t] = None]
       /\ LET at == [pc EXCEPT ![t] = "idle"]
          IN  IF avail = {} THEN Signal("write", TRUE, at) ELSE NoSignal(at)
       /\ UNCHANGED senders

\* mq_trysend: the caller takes a slot, and readiness drops with the last one.
TrySend(t, s) ==
    /\ avail' = avail \ {s}
    /\ hold' = [hold EXCEPT ![t] = s]
    /\ LET at == [pc EXCEPT ![t] = "copyin"]
       IN  IF avail' = {} THEN Signal("write", FALSE, at) ELSE NoSignal(at)
    /\ UNCHANGED senders

\* mq_timedsend_inner: the caller takes a slot or blocks.  A caller that may not
\* block gets -EAGAIN and changes nothing.
Send(t) ==
    /\ t \in Senders /\ pc[t] = "idle"
    /\ \/ \E s \in avail : TrySend(t, s)
       \/ /\ avail = {}
          /\ senders' = AddPriff(senders, t, prio)
          /\ NoSignal([pc EXCEPT ![t] = "sending"])
          /\ UNCHANGED <<avail, hold>>
    /\ UNCHANGED <<queued, msgprio, receivers, target, expected, watch>>

\* Mutant: a failed copy drops the slot.
SendFaultLost(t) ==
    /\ pc[t] = "copyin"
    /\ hold' = [hold EXCEPT ![t] = None]
    /\ pc' = [pc EXCEPT ![t] = "idle"]
    /\ UNCHANGED <<avail, queued, msgprio, receivers, senders, target, expected, pending, watch>>

\* __cobalt_mq_timedsend: the copy from user space failed.
SendFault(t) ==
    /\ pc[t] = "copyin"
    /\ ReleaseMsg(t, hold[t])
    /\ UNCHANGED <<queued, msgprio, receivers, target, expected, watch>>

\* Mutant: the message is always queued.
FinishSendQueue(t, p) ==
    /\ pc[t] = "copyin"
    /\ msgprio' = [msgprio EXCEPT ![hold[t]] = p]
    /\ queued' = AddPriff(queued, hold[t], msgprio')
    /\ hold' = [hold EXCEPT ![t] = None]
    /\ LET at == [pc EXCEPT ![t] = "idle"]
       IN  IF queued = <<>> THEN Signal("read", TRUE, at) ELSE NoSignal(at)
    /\ target' = IF queued = <<>> THEN None ELSE target
    /\ UNCHANGED <<avail, receivers, senders, expected, watch>>

\* mq_finish_send: a waiting receiver gets the message, else the queue.  The
\* first message of the queue raises readiness, and consumes the notification.
FinishSend(t, p) ==
    /\ pc[t] = "copyin"
    /\ msgprio' = [msgprio EXCEPT ![hold[t]] = p]
    /\ \/ /\ receivers # <<>>
          /\ receivers' = Tail(receivers)
          /\ hold' = [hold EXCEPT ![t] = None, ![Head(receivers)] = hold[t]]
          /\ NoSignal([pc EXCEPT ![t] = "idle", ![Head(receivers)] = "copyout"])
          /\ UNCHANGED <<queued, target>>
       \/ /\ receivers = <<>>
          /\ queued' = AddPriff(queued, hold[t], msgprio')
          /\ hold' = [hold EXCEPT ![t] = None]
          /\ LET at == [pc EXCEPT ![t] = "idle"]
             IN  IF queued = <<>> THEN Signal("read", TRUE, at) ELSE NoSignal(at)
          /\ target' = IF queued = <<>> THEN None ELSE target
          /\ UNCHANGED receivers
    /\ UNCHANGED <<avail, senders, expected, watch>>

\* mq_tryrcv: the caller takes the first message, and readiness drops with the
\* last one.
TryRcv(t) ==
    /\ queued # <<>>
    /\ queued' = Tail(queued)
    /\ hold' = [hold EXCEPT ![t] = Head(queued)]
    /\ LET at == [pc EXCEPT ![t] = "copyout"]
       IN  IF Tail(queued) = <<>> THEN Signal("read", FALSE, at) ELSE NoSignal(at)
    /\ UNCHANGED receivers

\* mq_timedrcv_inner: the caller takes a message or blocks.
Receive(t) ==
    /\ t \in Receivers /\ pc[t] = "idle"
    /\ \/ TryRcv(t)
       \/ /\ queued = <<>>
          /\ receivers' = AddPriff(receivers, t, prio)
          /\ NoSignal([pc EXCEPT ![t] = "receiving"])
          /\ UNCHANGED <<queued, hold>>
    /\ UNCHANGED <<avail, msgprio, senders, target, expected, watch>>

\* mq_finish_rcv, whether or not the copy to user space failed.
FinishRcv(t) ==
    /\ pc[t] = "copyout"
    /\ ReleaseMsg(t, hold[t])
    /\ UNCHANGED <<queued, msgprio, receivers, target, expected, watch>>

\* A blocked caller times out or receives a signal.
Abort(t) ==
    /\ \/ pc[t] = "sending" /\ senders' = Delete(senders, t) /\ UNCHANGED receivers
       \/ pc[t] = "receiving" /\ receivers' = Delete(receivers, t) /\ UNCHANGED senders
    /\ pc' = [pc EXCEPT ![t] = "idle"]
    /\ UNCHANGED <<avail, queued, msgprio, target, hold, expected, pending, watch>>

\* mq_notify(): register or unregister, -EBUSY if another thread is registered.
Notify(t) ==
    /\ t \in Receivers /\ pc[t] = "idle" /\ target \in {None, t}
    /\ target' \in {None, t} \ {target}
    /\ UNCHANGED <<avail, queued, msgprio, receivers, senders, hold, pc, expected, pending, watch>>

Next ==
    \/ \E t \in Threads :
        \/ Send(t) \/ SendFault(t) \/ Receive(t) \/ FinishRcv(t) \/ Abort(t) \/ Notify(t)
        \/ \E p \in MsgPrios : FinishSend(t, p)
    \/ \E kind \in Kinds : SelectBind(kind)
    \/ \E kinds \in SUBSET Kinds : Select(kinds)
    \/ SelectWoken \/ SelectAbort

Spec == Init /\ [][Next]_vars

----------------------------------------------------------------------------
(* Properties                                                              *)

Holders(s) == {t \in Threads : hold[t] = s}
Places(s) ==
    (IF s \in avail THEN 1 ELSE 0) + Cardinality({i \in DOMAIN queued : queued[i] = s})
    + Cardinality(Holders(s))

\* No slot is leaked or shared: a slot is at any time in the free pool, in the
\* queue or with one thread, over direct hand-offs, failed copies and timeouts.
SlotsConserved == \A s \in Slots : Places(s) = 1

\* No thread is left waiting for what is there: receivers block on an empty
\* queue only, and senders on an empty pool only.
NobodyStarved ==
    /\ receivers # <<>> => queued = <<>>
    /\ senders # <<>> => avail = {}

\* What is sent is received by decreasing message priority.
QueuedByPriority == Sorted(queued, msgprio)

\* The queue serves its users: what is there is given to who waits, and by
\* decreasing priority.
QueueServed == NobodyStarved /\ QueuedByPriority

\* A bound selector has the queue's readiness, neither stale nor missing.
ReadinessExact == \A kind \in expected : kind \in pending <=> Ready(kind)

\* A thread does not sleep in select() while something it waits for is ready.
SelectorAwake ==
    pc[Selector] = "select" => \A kind \in watch : ~Ready(kind)

\* select() on a queue is told the truth and acts on it, whichever of binding,
\* sending, receiving and failing copies comes first.
SelectSound == ReadinessExact /\ SelectorAwake
=============================================================================
