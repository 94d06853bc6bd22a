-------------------------------- MODULE Pipe --------------------------------
(***************************************************************************)
(* One message pipe between real-time threads and Linux tasks:             *)
(* kernel/cobalt/pipe.c, as the XDDP sockets of kernel/drivers/ipc/xddp.c  *)
(* use it.                                                                 *)
(*                                                                         *)
(* Both sides connect and disconnect on their own; the extra state of the  *)
(* real-time side (the socket, with its buffer pool) is released by        *)
(* whichever side leaves last.  nklock is dropped around buffer handlers,  *)
(* copies and Linux wait queues, so an action is one nklock section or one *)
(* step outside it.  Linux tasks are woken by an APC, the step of the      *)
(* Linux kernel that flags raised under nklock ask for; it runs on one CPU *)
(* here.  Left out: SIGIO, the byte count of FIONREAD, streaming buffers.  *)
(***************************************************************************)
EXTENDS Integers, Sequences, FiniteSets

CONSTANTS
    Tasks,      \* the Linux tasks, which share one open file
    RTs,        \* the real-time threads, which share one socket
    Buffers,    \* the buffers of the pool of the socket
    MaxWaits,   \* bound on wcount, which polls only raise
    None,       \* no buffer
    Uses        \* the applications considered: records
                \*   readers, writers, pollers  the Linux tasks that do so
                \*   senders, receivers         the real-time threads that do so
                \*   events   among "signal", "timeout", "sync" (O_SYNC),
                \*            "nonblock" (O_NONBLOCK on open), "flush", "partial"
                \*            (short reads) and "smp" (the APC has its own CPU)

VARIABLES
    use,        \* the application, one of Uses
    status,     \* state->status
    taken,      \* the bit of the minor in xnpipe_bitmap
    sock,       \* the socket: "none" or "bound"
    xstate,     \* the extra state: "none" or "live"
    file,       \* the open file: "closed" or "open"
    outq, inq,  \* the message queues
    free,       \* the buffers in the pool
    mh,         \* the message each thread or task handles
    privq,      \* the messages each one flushes
    wcount,     \* state->wcount
    linked,     \* state->slink is on xnpipe_sleepq
    readq,      \* the exclusive waiters of state->readq
    syncq,      \* those of state->syncq
    rtq,        \* state->synchbase.pendq
    pc,         \* where each thread or task is
    op,         \* what a waiting task waits for
    pollnum,    \* the messages a writer found
    apc,        \* the APC is pending
    waking      \* what xnpipe_wakeup_proc is about to wake, or Idle

vars == <<use, status, taken, sock, xstate, file, outq, inq, free, mh, privq, wcount,
          linked, readq, syncq, rtq, pc, op, pollnum, apc, waking>>
connvars == <<use, taken, sock, xstate, file>>
waitvars == <<wcount, linked, readq, syncq, op, pollnum>>

Masks == {"WREAD", "WSYNC"}
Idle == {"idle"}
ReadyOf(mask) == IF mask = "WREAD" THEN "WREAD_READY" ELSE "WSYNC_READY"
Elements(q) == {q[i] : i \in DOMAIN q}
Without(q, t) == SelectSeq(q, LAMBDA u : u # t)

Init ==
    /\ use \in Uses
    /\ status = {} /\ taken = FALSE
    /\ sock = "none" /\ xstate = "none" /\ file = "closed"
    /\ outq = <<>> /\ inq = <<>> /\ free = Buffers
    /\ mh = [t \in Tasks \cup RTs |-> None]
    /\ privq = [t \in Tasks \cup RTs |-> {}]
    /\ wcount = 0 /\ linked = FALSE /\ readq = <<>> /\ syncq = <<>> /\ rtq = <<>>
    /\ pc = [t \in Tasks \cup RTs |-> "idle"]
    /\ op = [t \in Tasks |-> "none"]
    /\ pollnum = [t \in Tasks |-> 0]
    /\ apc = FALSE /\ waking = Idle

Goto(t, loc) == pc' = [pc EXCEPT ![t] = loc]

\* A flag tells xnpipe_wakeup_proc of waiters of that kind, if there are any.
Kick(st, mask) ==
    /\ status' = IF mask \in st THEN st \cup {ReadyOf(mask)} ELSE st
    /\ apc' = (apc \/ mask \in st)

----------------------------------------------------------------------------
(* Waiting: Linux tasks                                                    *)

\* xnpipe_enqueue_wait
EnqueueWait(mask) ==
    /\ wcount' = wcount + 1
    /\ linked' = TRUE
    /\ status' = status \cup {mask}

\* xnpipe_dequeue_wait: the mark of the waiters goes with the last waiter.
DequeueWait(mask) ==
    /\ wcount' = IF mask \in status THEN wcount - 1 ELSE wcount
    /\ linked' = IF mask \in status /\ wcount = 1 THEN FALSE ELSE linked
    /\ status' = IF mask \in status /\ wcount = 1 THEN status \ {mask} ELSE status

\* xnpipe_dequeue_all, for readers and then for writers: the first kind marked
\* takes the whole count.
DequeueAll ==
    LET marks == status \cap Masks IN
    IF wcount > 0 /\ marks # {}
    THEN /\ wcount' = 0 /\ linked' = FALSE
         /\ status' = status \ (IF "WREAD" \in marks THEN {"WREAD"} ELSE marks)
    ELSE UNCHANGED <<wcount, linked, status>>

MaskOf(o) == IF o \in {"open", "read"} THEN "WREAD" ELSE "WSYNC"

\* xnpipe_wait(), up to the release of nklock.
BeginWait(t, o) ==
    /\ EnqueueWait(MaskOf(o))
    /\ op' = [op EXCEPT ![t] = o]
    /\ Goto(t, "prepare")

\* The condition a task waits for, which it tests without nklock.
Cond(t) ==
    CASE op[t] = "open" -> "KERN_CONN" \in status
      [] op[t] = "read" -> outq # <<>>
      [] op[t] = "alloc" -> pollnum[t] > Len(inq) + Len(outq)
      [] op[t] = "sync" -> inq = <<>>

Queue(mask, q) ==
    IF mask = "WREAD" THEN readq' = q /\ UNCHANGED syncq ELSE syncq' = q /\ UNCHANGED readq
QueueOf(mask) == IF mask = "WREAD" THEN readq ELSE syncq

\* Mutant: the condition is not tested again once the task is on the queue.
WaitPrepareBlind(t) ==
    /\ pc[t] = "prepare"
    /\ Queue(MaskOf(op[t]), Append(QueueOf(MaskOf(op[t])), t))
    /\ Goto(t, "asleep")
    /\ UNCHANGED <<connvars, status, outq, inq, free, mh, privq, wcount, linked, rtq, op,
                   pollnum, apc, waking>>

\* prepare_to_wait_exclusive()
WaitPrepare(t) ==
    /\ pc[t] = "prepare"
    /\ Queue(MaskOf(op[t]), Append(QueueOf(MaskOf(op[t])), t))
    /\ Goto(t, "test")
    /\ UNCHANGED <<connvars, status, outq, inq, free, mh, privq, wcount, linked, rtq, op,
                   pollnum, apc, waking>>

\* The test of the condition; a task that does not sleep is still on the queue.
WaitTest(t) ==
    /\ pc[t] = "test"
    /\ Goto(t, IF Cond(t) THEN "leave" ELSE "asleep")
    /\ UNCHANGED <<connvars, status, outq, inq, free, mh, privq, waitvars, rtq, apc, waking>>

\* A signal wakes the task up and leaves it on the queue.
WaitSignal(t) ==
    /\ "signal" \in use.events /\ pc[t] = "asleep"
    /\ Goto(t, "signalled")
    /\ UNCHANGED <<connvars, status, outq, inq, free, mh, privq, waitvars, rtq, apc, waking>>

\* finish_wait() and the end of xnpipe_wait().
EndWait(t) ==
    /\ pc[t] \in {"leave", "signalled", "woken"}
    /\ DequeueWait(MaskOf(op[t]))
    /\ readq' = Without(readq, t) /\ syncq' = Without(syncq, t)
    /\ op' = [op EXCEPT ![t] = "none"]

\* waitqueue_active(): pollers are on the queue of the readers.
Active(mask) ==
    QueueOf(mask) # <<>> \/ (mask = "WREAD" /\ \E t \in Tasks : pc[t] = "polling")

\* xnpipe_wakeup_proc, run by the APC: the flags of waiters are taken ...
ApcStart ==
    /\ apc /\ waking = Idle
    /\ apc' = FALSE /\ waking' = {}
    /\ UNCHANGED <<connvars, status, outq, inq, free, mh, privq, waitvars, rtq, pc>>

ApcScan ==
    /\ waking = {}
    /\ LET raised == {mask \in Masks : ReadyOf(mask) \in status} IN
       \/ /\ linked /\ raised # {}
          /\ status' = status \ {ReadyOf(mask) : mask \in raised}
          /\ waking' = IF "WREAD" \in raised /\ Active("WREAD") THEN raised
                       ELSE {mask \in raised \ {"WREAD"} : Active(mask)}
       \/ /\ ~linked \/ raised = {}
          /\ waking' = Idle
          /\ UNCHANGED status
    /\ UNCHANGED <<connvars, outq, inq, free, mh, privq, waitvars, rtq, pc, apc>>

\* Those a wakeup of a queue may pick: the tasks that a signal did not wake.
Wakeable(q) == {i \in DOMAIN q : pc[q[i]] # "signalled"}
First(q) == q[CHOOSE i \in Wakeable(q) : \A j \in Wakeable(q) : i <= j]

\* ... then, without nklock, wake_up_interruptible() wakes all the pollers and
\* the first exclusive waiter.
ApcWake ==
    /\ waking \notin {Idle, {}}
    /\ LET mask == IF "WREAD" \in waking THEN "WREAD" ELSE "WSYNC"
           q == QueueOf(mask)
           first == IF Wakeable(q) = {} THEN {} ELSE {First(q)}
       IN  /\ Queue(mask, SelectSeq(q, LAMBDA u : u \notin first))
           /\ pc' = [t \in DOMAIN pc |->
                        IF t \in first THEN "woken"
                        ELSE IF mask = "WREAD" /\ pc[t] = "polling" THEN "repoll" ELSE pc[t]]
           /\ waking' = {m \in waking \ {mask} : Active(m)}
    /\ UNCHANGED <<connvars, status, outq, inq, free, mh, privq, wcount, linked, rtq, op,
                   pollnum, apc>>

----------------------------------------------------------------------------
(* Flushing and releasing                                                  *)

\* xnpipe_flushq(): the messages of a queue are moved to a private one, then
\* freed without nklock.
Splice(t, q) == privq' = [privq EXCEPT ![t] = Elements(q)]
Flushed(t) == free \cup privq[t]

\* xnpipe_cleanup_user_conn(), up to the first release of nklock.
CleanupUser(t) ==
    /\ Splice(t, outq) /\ outq' = <<>>
    /\ Goto(t, "flush_out")

CleanupIn(t) ==
    /\ pc[t] = "flush_out" /\ t \in Tasks
    /\ free' = Flushed(t)
    /\ Splice(t, inq) /\ inq' = <<>>
    /\ Goto(t, "flush_in")
    /\ UNCHANGED <<connvars, status, outq, mh, waitvars, rtq, apc, waking>>

\* The Linux side is gone: if it is the last one, it releases the extra state.
CleanupDone(t) ==
    /\ pc[t] = "flush_in" /\ t \in Tasks
    /\ free' = Flushed(t) /\ privq' = [privq EXCEPT ![t] = {}]
    /\ status' = status \ {"USER_CONN", "KERN_LCLOSE"}
    /\ Goto(t, IF "KERN_LCLOSE" \in status THEN "release" ELSE "idle")
    /\ UNCHANGED <<connvars, outq, inq, mh, waitvars, rtq, apc, waking>>

\* ops.release(), then xnpipe_minor_free().
ReleaseState(t) ==
    /\ pc[t] = "release"
    /\ xstate' = "none"
    /\ Goto(t, "minor_free")
    /\ UNCHANGED <<use, taken, sock, file, status, outq, inq, free, mh, privq, waitvars, rtq,
                   apc, waking>>

MinorFree(t) ==
    /\ pc[t] = "minor_free"
    /\ taken' = FALSE
    /\ Goto(t, "idle")
    /\ UNCHANGED <<use, sock, xstate, file, status, outq, inq, free, mh, privq, waitvars, rtq,
                   apc, waking>>

----------------------------------------------------------------------------
(* The real-time side                                                      *)

\* __xddp_bind_socket, xnpipe_connect(): the minor is allocated, -EBUSY if taken.
Bind(t) ==
    /\ t \in RTs /\ pc[t] = "idle" /\ sock = "none" /\ ~taken
    /\ \A u \in RTs : pc[u] # "connect"
    /\ taken' = TRUE
    /\ Goto(t, "connect")
    /\ UNCHANGED <<use, sock, xstate, file, status, outq, inq, free, mh, privq, waitvars, rtq,
                   apc, waking>>

\* A Linux task that waits in open() is woken.
Connect(t) ==
    /\ pc[t] = "connect"
    /\ xstate' = "live" /\ sock' = "bound"
    /\ IF "USER_CONN" \in status THEN Kick(status \cup {"KERN_CONN"}, "WREAD")
       ELSE status' = status \cup {"KERN_CONN"} /\ UNCHANGED apc
    /\ Goto(t, "idle")
    /\ UNCHANGED <<use, taken, file, outq, inq, free, mh, privq, waitvars, rtq, waking>>

\* xddp_close, which runs when no thread uses the socket any more, and
\* xnpipe_disconnect().
Disconnect(t) ==
    /\ t \in RTs /\ sock = "bound" /\ \A u \in RTs : pc[u] = "idle"
    /\ sock' = "none"
    /\ status' = status \ {"KERN_CONN"}
    /\ Splice(t, outq) /\ outq' = <<>>
    /\ Goto(t, "flush_out")
    /\ UNCHANGED <<use, taken, xstate, file, inq, free, mh, waitvars, rtq, apc, waking>>

DisconnectIn(t) ==
    /\ pc[t] = "flush_out" /\ t \in RTs
    /\ free' = Flushed(t)
    /\ \/ /\ "USER_CONN" \in status
          /\ Splice(t, inq) /\ inq' = <<>>
          /\ Goto(t, "flush_in")
       \/ /\ "USER_CONN" \notin status
          /\ privq' = [privq EXCEPT ![t] = {}] /\ UNCHANGED inq
          /\ Goto(t, "release")
    /\ UNCHANGED <<connvars, status, outq, mh, waitvars, rtq, apc, waking>>


\* Waiting readers are woken.  If the Linux side is still there, it is left to
\* release the extra state.  (Without it, the APC is asked for after the release.)
DisconnectDone(t) ==
    /\ pc[t] = "flush_in" /\ t \in RTs
    /\ free' = Flushed(t) /\ privq' = [privq EXCEPT ![t] = {}]
    /\ \/ /\ "USER_CONN" \in status
          /\ Kick(status \cup {"KERN_LCLOSE"}, "WREAD")
          /\ Goto(t, "idle")
       \/ /\ "USER_CONN" \notin status
          /\ Kick(status, "WREAD")
          /\ Goto(t, "release")
    /\ UNCHANGED <<connvars, outq, inq, mh, waitvars, rtq, waking>>

\* __xddp_sendmsg: a buffer is taken from the pool, -ENOMEM if there is none.
SendAlloc(t) ==
    /\ t \in use.senders /\ pc[t] = "idle" /\ sock = "bound"
    /\ \E b \in free : free' = free \ {b} /\ mh' = [mh EXCEPT ![t] = b]
    /\ Goto(t, "send")
    /\ UNCHANGED <<connvars, status, outq, inq, privq, waitvars, rtq, apc, waking>>

\* The copy from the sender fails, or xnpipe_send() queues the message, at the
\* head if it is urgent.
Send(t) ==
    /\ pc[t] = "send"
    /\ \/ /\ free' = free \cup {mh[t]}
          /\ UNCHANGED <<status, apc, outq>>
       \/ /\ outq' \in {Append(outq, mh[t]), <<mh[t]>> \o outq}
          /\ IF "USER_CONN" \in status THEN Kick(status, "WREAD") ELSE UNCHANGED <<status, apc>>
          /\ UNCHANGED free
    /\ mh' = [mh EXCEPT ![t] = None]
    /\ Goto(t, "idle")
    /\ UNCHANGED <<connvars, inq, privq, waitvars, rtq, waking>>

\* __xddp_recvmsg, xnpipe_recv(): a message is taken, or the caller sleeps; one
\* that may not sleep gets -EWOULDBLOCK.
Recv(t) ==
    /\ t \in use.receivers /\ sock = "bound" /\ pc[t] \in {"idle", "rtwoken"}
    /\ \/ /\ inq # <<>>
          /\ mh' = [mh EXCEPT ![t] = Head(inq)] /\ inq' = Tail(inq)
          /\ Kick(status, "WSYNC")
          /\ Goto(t, "received")
          /\ UNCHANGED rtq
       \/ /\ inq = <<>>
          /\ rtq' = Append(rtq, t)
          /\ Goto(t, "rtsleep")
          /\ UNCHANGED <<mh, inq, status, apc>>
    /\ UNCHANGED <<connvars, outq, free, privq, waitvars, waking>>

RecvAbort(t) ==
    /\ "timeout" \in use.events /\ pc[t] = "rtsleep"
    /\ rtq' = Without(rtq, t)
    /\ Goto(t, "idle")
    /\ UNCHANGED <<connvars, status, outq, inq, free, mh, privq, waitvars, apc, waking>>

\* The data are copied and the buffer goes back to the pool.
RecvDone(t) ==
    /\ pc[t] = "received"
    /\ free' = free \cup {mh[t]} /\ mh' = [mh EXCEPT ![t] = None]
    /\ Goto(t, "idle")
    /\ UNCHANGED <<connvars, status, outq, inq, privq, waitvars, rtq, apc, waking>>

----------------------------------------------------------------------------
(* The Linux side                                                          *)

\* xnpipe_open: one open file at a time, -EBUSY otherwise.
Open(t) ==
    /\ t \in Tasks /\ pc[t] = "idle" /\ file = "closed"
    /\ status \cap {"USER_CONN", "USER_LCONN"} = {}
    /\ status' = status \cup {"USER_LCONN"}
    /\ Goto(t, "opening")
    /\ UNCHANGED <<connvars, outq, inq, free, mh, privq, waitvars, rtq, apc, waking>>

\* Without a real-time side, the caller waits for it or gives up.
OpenConn(t) ==
    LET cleared == {"USER_LCONN"} \cup Masks \cup {ReadyOf(m) : m \in Masks}
        st == (status \cup {"USER_CONN"}) \ cleared
    IN
    /\ pc[t] = "opening"
    /\ \/ /\ "KERN_CONN" \in status
          /\ status' = st /\ wcount' = 0
          /\ file' = "open" /\ Goto(t, "idle")
          /\ UNCHANGED <<outq, privq, linked, op>>
       \/ /\ "KERN_CONN" \notin status /\ "nonblock" \in use.events     \* -EWOULDBLOCK
          /\ status' = st /\ wcount' = 0
          /\ CleanupUser(t)
          /\ UNCHANGED <<file, linked, op>>
       \/ /\ "KERN_CONN" \notin status
          /\ status' = st \cup {"WREAD"} /\ wcount' = 1 /\ linked' = TRUE
          /\ op' = [op EXCEPT ![t] = "open"]
          /\ Goto(t, "prepare")
          /\ UNCHANGED <<file, outq, privq>>
    /\ UNCHANGED <<use, taken, sock, xstate, inq, free, mh, readq, syncq, pollnum, rtq, apc, waking>>

\* The end of the wait in open(), whatever woke the task up.
OpenWoken(t) ==
    /\ op[t] = "open" /\ EndWait(t)
    /\ \/ /\ pc[t] # "signalled"
          /\ file' = "open" /\ Goto(t, "idle")
          /\ UNCHANGED <<outq, privq>>
       \/ /\ "signal" \in use.events                                   \* -ERESTARTSYS
          /\ CleanupUser(t)
          /\ UNCHANGED file
    /\ UNCHANGED <<use, taken, sock, xstate, inq, free, mh, rtq, pollnum, apc, waking>>

\* xnpipe_release, when no task uses the file any more: real-time sleepers get
\* -EIDRM.
Release(t) ==
    /\ t \in Tasks /\ file = "open" /\ \A u \in Tasks : pc[u] \in {"idle", "release", "minor_free"}
    /\ pc[t] = "idle"
    /\ file' = "closed"
    /\ DequeueAll
    /\ Splice(t, outq) /\ outq' = <<>>
    /\ LET flushed == IF "KERN_CONN" \in status THEN Elements(rtq) ELSE {}
       IN  /\ pc' = [u \in DOMAIN pc |-> IF u = t THEN "flush_out"
                                         ELSE IF u \in flushed THEN "idle" ELSE pc[u]]
           /\ rtq' = SelectSeq(rtq, LAMBDA u : u \notin flushed)
    /\ UNCHANGED <<use, taken, sock, xstate, inq, free, mh, readq, syncq, op, pollnum, apc, waking>>

\* The first message is taken off the queue, and copied without nklock.
Take(t) ==
    /\ mh' = [mh EXCEPT ![t] = Head(outq)] /\ outq' = Tail(outq)
    /\ Goto(t, "copyout")

\* xnpipe_read: -EPIPE without a real-time side.
Read(t) ==
    /\ t \in use.readers /\ file = "open" /\ pc[t] = "idle" /\ "KERN_CONN" \in status
    /\ \/ /\ outq # <<>>
          /\ Take(t)
          /\ UNCHANGED <<status, wcount, linked, op>>
       \/ /\ outq = <<>>
          /\ BeginWait(t, "read")
          /\ UNCHANGED <<mh, outq>>
    /\ UNCHANGED <<connvars, inq, free, privq, readq, syncq, pollnum, rtq, apc, waking>>

\* Woken up: the queue is examined once, an empty one ends the call.
ReadWoken(t) ==
    /\ op[t] = "read" /\ EndWait(t)
    /\ \/ outq # <<>> /\ Take(t)
       \/ outq = <<>> /\ Goto(t, "idle") /\ UNCHANGED <<mh, outq>>
    /\ UNCHANGED <<connvars, inq, free, privq, pollnum, rtq, apc, waking>>

\* A message that was read in part goes back to the head of the queue.
ReadDone(t) ==
    /\ pc[t] = "copyout"
    /\ \/ /\ "partial" \in use.events
          /\ outq' = <<mh[t]>> \o outq /\ mh' = [mh EXCEPT ![t] = None]
          /\ Goto(t, "idle")
       \/ /\ Goto(t, "free_out")
          /\ UNCHANGED <<outq, mh>>
    /\ UNCHANGED <<connvars, status, inq, free, privq, waitvars, rtq, apc, waking>>

ReadFree(t) ==
    /\ pc[t] = "free_out"
    /\ free' = free \cup {mh[t]} /\ mh' = [mh EXCEPT ![t] = None]
    /\ Goto(t, "read")
    /\ UNCHANGED <<connvars, status, outq, inq, privq, waitvars, rtq, apc, waking>>

ReadKick(t) ==
    /\ pc[t] = "read"
    /\ Kick(status, "WSYNC")
    /\ Goto(t, "idle")
    /\ UNCHANGED <<connvars, outq, inq, free, mh, privq, waitvars, rtq, waking>>

\* xnpipe_write: -EPIPE without a real-time side.
ProbeWrite(t) ==
    /\ "KERN_CONN" \in status
    /\ pollnum' = [pollnum EXCEPT ![t] = Len(inq) + Len(outq)]
    /\ Goto(t, "alloc")

Write(t) ==
    /\ t \in use.writers /\ file = "open" /\ pc[t] = "idle"
    /\ ProbeWrite(t)
    /\ UNCHANGED <<connvars, status, outq, inq, free, mh, privq, wcount, linked, readq, syncq,
                   op, rtq, apc, waking>>

\* ops.alloc_ibuf()
WriteAlloc(t) ==
    /\ pc[t] = "alloc"
    /\ \/ /\ \E b \in free : free' = free \ {b} /\ mh' = [mh EXCEPT ![t] = b]
          /\ Goto(t, "copyin")
       \/ /\ free = {}
          /\ Goto(t, "nobuf")
          /\ UNCHANGED <<free, mh>>
    /\ UNCHANGED <<connvars, status, outq, inq, privq, waitvars, rtq, apc, waking>>

WriteBlock(t) ==
    /\ pc[t] = "nobuf"
    /\ BeginWait(t, "alloc")
    /\ UNCHANGED <<connvars, outq, inq, free, mh, privq, readq, syncq, pollnum, rtq, apc, waking>>

WriteWoken(t) ==
    /\ op[t] \in {"alloc", "sync"} /\ EndWait(t)
    /\ \/ /\ op[t] = "alloc" /\ pc[t] # "signalled" /\ ProbeWrite(t)
       \/ /\ \/ op[t] = "sync" \/ "signal" \in use.events \/ "KERN_CONN" \notin status
          /\ Goto(t, "idle") /\ UNCHANGED pollnum
    /\ UNCHANGED <<connvars, outq, inq, free, mh, privq, rtq, apc, waking>>

\* The copy fails, or the message is queued.  A real-time sleeper is woken and
\* runs at once; with O_SYNC, the writer then waits for the queue to be empty.
WriteDone(t) ==
    /\ pc[t] = "copyin"
    /\ mh' = [mh EXCEPT ![t] = None]
    /\ \/ /\ free' = free \cup {mh[t]}
          /\ Goto(t, "idle")
          /\ UNCHANGED <<inq, rtq, status, wcount, linked, op>>
       \/ /\ inq' = Append(inq, mh[t])
          /\ rtq # <<>> /\ rtq' = Tail(rtq)
          /\ pc' = [pc EXCEPT ![Head(rtq)] = "rtwoken",
                             ![t] = IF "sync" \in use.events THEN "sync" ELSE "idle"]
          /\ UNCHANGED <<free, status, wcount, linked, op>>
       \/ /\ inq' = Append(inq, mh[t])
          /\ rtq = <<>>
          /\ IF "sync" \in use.events THEN BeginWait(t, "sync")
             ELSE Goto(t, "idle") /\ UNCHANGED <<status, wcount, linked, op>>
          /\ UNCHANGED <<free, rtq>>
    /\ UNCHANGED <<connvars, outq, privq, readq, syncq, pollnum, apc, waking>>

WriteSync(t) ==
    /\ pc[t] = "sync"
    /\ \/ /\ inq # <<>> /\ BeginWait(t, "sync")
       \/ /\ inq = <<>> /\ Goto(t, "idle") /\ UNCHANGED <<status, wcount, linked, op>>
    /\ UNCHANGED <<connvars, outq, inq, free, mh, privq, readq, syncq, pollnum, rtq, apc, waking>>

\* xnpipe_ioctl: XNPIPEIOC_OFLUSH and XNPIPEIOC_IFLUSH.
Ioctl(t) ==
    /\ "flush" \in use.events /\ t \in use.writers /\ file = "open" /\ pc[t] = "idle"
    /\ "KERN_CONN" \in status
    /\ \/ Splice(t, outq) /\ outq' = <<>> /\ UNCHANGED inq
       \/ Splice(t, inq) /\ inq' = <<>> /\ UNCHANGED outq
    /\ Goto(t, "ioflush")
    /\ UNCHANGED <<connvars, status, free, mh, waitvars, rtq, apc, waking>>

IoctlDone(t) ==
    /\ pc[t] = "ioflush"
    /\ free' = Flushed(t) /\ privq' = [privq EXCEPT ![t] = {}]
    /\ IF privq[t] # {} THEN Kick(status, "WSYNC") ELSE UNCHANGED <<status, apc>>
    /\ Goto(t, "idle")
    /\ UNCHANGED <<connvars, outq, inq, mh, waitvars, rtq, waking>>

\* xnpipe_poll, for input, once it has nklock: with an empty queue the task is
\* counted as a waiter, each time it looks, and nothing takes it off the count.
Poll(t) ==
    /\ t \in use.pollers /\ file = "open" /\ pc[t] \in {"idle", "repoll"}
    /\ \/ /\ outq # <<>>
          /\ Goto(t, "idle") /\ UNCHANGED <<status, wcount, linked>>
       \/ /\ outq = <<>> /\ wcount < MaxWaits
          /\ EnqueueWait("WREAD")
          /\ Goto(t, IF "KERN_CONN" \in status THEN "polling" ELSE "idle")
    /\ UNCHANGED <<connvars, outq, inq, free, mh, privq, readq, syncq, op, pollnum, rtq, apc, waking>>

\* The poll times out or is interrupted.
PollEnd(t) ==
    /\ pc[t] \in {"polling", "repoll"}
    /\ Goto(t, "idle")
    /\ UNCHANGED <<connvars, status, outq, inq, free, mh, privq, waitvars, rtq, apc, waking>>

TaskStep(t) ==
    \/ WaitPrepare(t) \/ WaitTest(t) \/ WaitSignal(t)
    \/ CleanupIn(t) \/ CleanupDone(t) \/ ReleaseState(t) \/ MinorFree(t)
    \/ Open(t) \/ OpenConn(t) \/ OpenWoken(t) \/ Release(t)
    \/ Read(t) \/ ReadWoken(t) \/ ReadDone(t) \/ ReadFree(t) \/ ReadKick(t)
    \/ Write(t) \/ WriteAlloc(t) \/ WriteBlock(t) \/ WriteWoken(t) \/ WriteDone(t)
    \/ WriteSync(t) \/ Ioctl(t) \/ IoctlDone(t) \/ Poll(t) \/ PollEnd(t)

ThreadStep(t) ==
    \/ Bind(t) \/ Connect(t) \/ ReleaseState(t) \/ MinorFree(t)
    \/ Disconnect(t) \/ DisconnectIn(t) \/ DisconnectDone(t)
    \/ SendAlloc(t) \/ Send(t) \/ Recv(t) \/ RecvAbort(t) \/ RecvDone(t)

\* The APC is an interrupt to the Linux tasks of its CPU.
Next ==
    \/ \E t \in Tasks :
        /\ waking = Idle \/ "smp" \in use.events
        /\ TaskStep(t)
    \/ \E t \in RTs : ThreadStep(t)
    \/ ApcStart \/ ApcScan \/ ApcWake

Spec == Init /\ [][Next]_vars

----------------------------------------------------------------------------
(* Properties                                                              *)

Places(b) ==
    (IF b \in free THEN 1 ELSE 0)
    + Cardinality({i \in DOMAIN outq : outq[i] = b}) + Cardinality({i \in DOMAIN inq : inq[i] = b})
    + Cardinality({t \in DOMAIN mh : mh[t] = b}) + Cardinality({t \in DOMAIN privq : b \in privq[t]})

\* A message is neither lost, shared nor freed twice: while reads, flushes and
\* either side's departure handle messages with nklock dropped, each buffer is in
\* one place.
BuffersKept == \A b \in Buffers : Places(b) = 1

\* pipe.c, "This will prevent the extra state from being wiped out until then":
\* the socket is released once, by the side that leaves last, when all its
\* buffers are back.
ReleasedOnce ==
    /\ \A t \in DOMAIN pc :
        pc[t] = "release" => /\ xstate = "live" /\ free = Buffers
                             /\ \A u \in DOMAIN pc \ {t} : pc[u] # "release"
    /\ ~taken => xstate = "none"

\* An open file has a socket, whose handlers its tasks call.
OpenConnected == file = "open" => xstate = "live"

\* The socket is there for as long as either side may need it.  On several CPUs
\* a wakeup meant for a task that has left may end the open() of the next one.
ReleasedLast == ReleasedOnce /\ ("smp" \notin use.events => OpenConnected)


\* The APC is going to wake waiters of that kind.
WakeComes(mask) ==
    \/ ReadyOf(mask) \in status /\ linked /\ (apc \/ waking # Idle)
    \/ mask \in waking

\* A task does not sleep in open() on a connected pipe, or in read() or poll() on
\* one with a message, unless the APC that wakes it is on its way.  Of several
\* readers only the first is woken, and a poller is not told of a message that
\* another task read in part.
ReadersWoken ==
    /\ linked <=> wcount > 0
    /\ \A t \in Tasks :
        \/ pc[t] = "asleep" /\ Cond(t)
           /\ (op[t] = "open" \/ (op[t] = "read" /\ Cardinality(use.readers) = 1))
        \/ pc[t] = "polling" /\ outq # <<>> /\ "partial" \notin use.events
        => WakeComes("WREAD")

\* A thread does not sleep in xnpipe_recv() while there is a message for it that
\* no woken thread is about to take.
ReceiversWoken ==
    rtq # <<>> => Len(inq) <= Cardinality({t \in RTs : pc[t] = "rtwoken"})

\* Both sides are told of what the other one does.
PeersWoken == ReadersWoken /\ ReceiversWoken

\* The real-time side has gone and is done with the waiters.
Hungup ==
    "KERN_CONN" \notin status /\ \A t \in RTs : pc[t] \notin {"flush_out", "flush_in"}

\* pipe.c, xnpipe_disconnect(), "Wake up the regular Linux task waiting for some
\* operation from the Xenomai side (read/write or poll).": nobody sleeps in read()
\* or write() on a pipe whose real-time side has gone.
HangupWakes ==
    Hungup => \A t \in Tasks :
        pc[t] = "asleep" /\ op[t] # "open" => WakeComes(MaskOf(op[t]))

\* A writer does not sleep for a buffer while the pool is full.
WriterServed ==
    \A t \in Tasks : pc[t] = "asleep" /\ op[t] = "alloc" /\ free = Buffers => WakeComes("WSYNC")
=============================================================================
