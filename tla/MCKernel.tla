------------------------------ MODULE MCKernel ------------------------------
(* Small instances of what is checked without fairness: priority           *)
(* inheritance, message queues, their names, timers, RTDM devices, BUFP    *)
(* sockets, message pipes, a mutex with signals, and semaphores.  They are *)
(* checked side by side, each by itself: a behaviour picks one of them and *)
(* takes its steps only, and the variables of the others stay at Unused.   *)
EXTENDS Integers, Sequences, TLC

CONSTANTS
    t1, t2, t3, t4, t5, \* the threads
    None, Gone, Nul,    \* see the modules
    Unused,             \* the value of a variable the service does not use
    Checked,            \* the services checked
    PIProfiles, NameUses, TimerUses, DeviceUses, StreamUses, PipeUses   \* their applications

VARIABLES
    service,
    pc, use, refs, lock, live, pendq, call,
    app, core, want, woke, stolen,
    avail, queued, msgprio, receivers, senders, target, hold, expected, pending, watch,
    name, registered, state, fd, ptr,
    now, tm, shot, ipi, defer, root, masked, ticking, home, rearmed,
    magic, listed, refcount, index, used, cleanup, closing, older, my,
    mem, rdoff, wroff, fillsz, rdtoken, wrtoken, i_event, o_event, pollin, pollout,
    len, off, left, data, seqno, stream,
    status, taken, sock, xstate, file, outq, inq, free, mh, privq, wcount, linked,
    readq, syncq, rtq, op, pollnum, apc, waking,
    owner, lockcnt, ret, info, susp, res, held,
    value, flags, why, credit

----------------------------------------------------------------------------
(* Instances                                                               *)

\* Priority inheritance: four threads of distinct priorities, two mutexes.
rank == t1 :> 4 @@ t2 :> 3 @@ t3 :> 2 @@ t4 :> 1
P == INSTANCE SynchPI WITH
        Threads <- {t1, t2, t3, t4}, Mutexes <- {1, 2}, base <- rank, Profiles <- PIProfiles

\* A message queue of two slots: two senders, two receivers, and select().
pair == t1 :> 1 @@ t2 :> 2 @@ t3 :> 1 @@ t4 :> 2 @@ t5 :> 1
Q == INSTANCE MQueue WITH
        Threads <- {t1, t2, t3, t4, t5}, Slots <- {1, 2}, prio <- pair, MsgPrios <- {0, 1},
        Senders <- {t1, t2}, Receivers <- {t3, t4}, Selector <- t5

\* The name of message queues: three threads.
N == INSTANCE MQName WITH Threads <- {t1, t2, t3}, Queues <- {1, 2}, Uses <- NameUses

\* The timer of a periodic thread and a host tick, on two CPUs.
T == INSTANCE Timer WITH
        CPUs <- {1, 2}, Threads <- {t1}, Host <- <<t5>>, Period <- 2, Gravity <- 1,
        MaxTime <- 4, Uses <- TimerUses

\* A device with two users in secondary mode and one in primary mode.
R == INSTANCE Rtdm WITH
        Openers <- {t1, t2}, Workers <- {t3}, Driver <- t4, Contexts <- {1, 2},
        Ufds <- {1, 2}, Uses <- DeviceUses

\* A buffer of three bytes.
B == INSTANCE Bufp WITH prio <- pair, BufSize <- 3, Uses <- StreamUses

\* A pipe with two buffers, two Linux tasks and two real-time threads.
M == INSTANCE Pipe WITH
        Tasks <- {t1, t2}, RTs <- {t3, t4}, Buffers <- {1, 2}, MaxWaits <- 3, Uses <- PipeUses

\* A recursive mutex; two threads of equal priority and one above them.
three == t1 :> 1 @@ t2 :> 1 @@ t3 :> 2
S == INSTANCE Mutex WITH
        Threads <- {t1, t2, t3}, prio <- three, Type <- "RECURSIVE", MaxCount <- 2,
        Weak <- {}, Calls <- {"lock", "trylock"}, Relockers <- {t1}, Released <- {},
        Kicked <- {t1}, Signalled <- {t1}, Suspendable <- {t1, t2}

\* A semaphore, counting or not, whose waits have no timeout; one whose waits
\* all have, and may be interrupted.
U == INSTANCE Semaphore WITH
        Threads <- {t1, t2, t3}, prio <- three, Flags <- {{}, {"PULSE"}}, InitValue <- 1,
        MaxValue <- 5, MaxCredit <- 3, Calls <- {"wait"}, Broadcasters <- {t1},
        Destroyers <- {t2}, Released <- {}, Kicked <- {}
V == INSTANCE Semaphore WITH
        Threads <- {t1, t2, t3}, prio <- three, Flags <- {{}}, InitValue <- 1,
        MaxValue <- 3, MaxCredit <- 3, Calls <- {"timedwait"}, Broadcasters <- {},
        Destroyers <- {t3}, Released <- {t1, t2, t3}, Kicked <- {t1}

----------------------------------------------------------------------------
(* The variables of each service that the others leave alone.              *)

piOnly == <<app, core, want, woke, stolen>>
mqueueOnly == <<avail, queued, msgprio, receivers, senders, target, hold, expected,
                pending, watch>>
mqnameOnly == <<name, registered, state, fd, ptr>>
timerOnly == <<now, tm, shot, ipi, defer, root, masked, ticking, home, rearmed>>
rtdmOnly == <<magic, listed, refcount, index, used, cleanup, closing, older, my>>
bufpOnly == <<mem, rdoff, wroff, fillsz, rdtoken, wrtoken, i_event, o_event, pollin,
              pollout, len, off, left, data, seqno, stream>>
pipeOnly == <<status, taken, sock, xstate, file, outq, inq, free, mh, privq, wcount,
              linked, readq, syncq, rtq, op, pollnum, apc, waking>>
mutexOnly == <<owner, lockcnt, ret, info, susp, res, held>>
semOnly == <<value, flags, why, credit>>

piIdle ==
    /\ app = Unused /\ core = Unused /\ want = Unused /\ woke = Unused /\ stolen = Unused
mqueueIdle ==
    /\ avail = Unused /\ queued = Unused /\ msgprio = Unused /\ receivers = Unused
    /\ senders = Unused /\ target = Unused /\ hold = Unused /\ expected = Unused
    /\ pending = Unused /\ watch = Unused
mqnameIdle ==
    /\ name = Unused /\ registered = Unused /\ state = Unused /\ fd = Unused /\ ptr = Unused
timerIdle ==
    /\ now = Unused /\ tm = Unused /\ shot = Unused /\ ipi = Unused /\ defer = Unused
    /\ root = Unused /\ masked = Unused /\ ticking = Unused /\ home = Unused /\ rearmed = Unused
rtdmIdle ==
    /\ magic = Unused /\ listed = Unused /\ refcount = Unused /\ index = Unused /\ used = Unused
    /\ cleanup = Unused /\ closing = Unused /\ older = Unused /\ my = Unused
bufpIdle ==
    /\ mem = Unused /\ rdoff = Unused /\ wroff = Unused /\ fillsz = Unused /\ rdtoken = Unused
    /\ wrtoken = Unused /\ i_event = Unused /\ o_event = Unused /\ pollin = Unused
    /\ pollout = Unused /\ len = Unused /\ off = Unused /\ left = Unused /\ data = Unused
    /\ seqno = Unused /\ stream = Unused
pipeIdle ==
    /\ status = Unused /\ taken = Unused /\ sock = Unused /\ xstate = Unused /\ file = Unused
    /\ outq = Unused /\ inq = Unused /\ free = Unused /\ mh = Unused /\ privq = Unused
    /\ wcount = Unused /\ linked = Unused /\ readq = Unused /\ syncq = Unused /\ rtq = Unused
    /\ op = Unused /\ pollnum = Unused /\ apc = Unused /\ waking = Unused
mutexIdle ==
    /\ owner = Unused /\ lockcnt = Unused /\ ret = Unused /\ info = Unused /\ susp = Unused
    /\ res = Unused /\ held = Unused
semIdle ==
    /\ value = Unused /\ flags = Unused /\ why = Unused /\ credit = Unused

Init ==
    /\ service \in Checked
    /\ \/ /\ service = "pi" /\ P!Init
          /\ mqueueIdle /\ mqnameIdle /\ timerIdle /\ rtdmIdle /\ bufpIdle /\ pipeIdle
          /\ mutexIdle /\ semIdle /\ use = Unused /\ refs = Unused /\ lock = Unused
          /\ live = Unused /\ pendq = Unused /\ call = Unused
       \/ /\ service = "mqueue" /\ Q!Init
          /\ piIdle /\ mqnameIdle /\ timerIdle /\ rtdmIdle /\ bufpIdle /\ pipeIdle
          /\ mutexIdle /\ semIdle /\ use = Unused /\ refs = Unused /\ lock = Unused
          /\ live = Unused /\ pendq = Unused /\ call = Unused
       \/ /\ service = "mqname" /\ N!Init
          /\ piIdle /\ mqueueIdle /\ timerIdle /\ rtdmIdle /\ bufpIdle /\ pipeIdle
          /\ mutexIdle /\ semIdle /\ lock = Unused /\ live = Unused /\ pendq = Unused
          /\ call = Unused
       \/ /\ service = "timer" /\ T!Init
          /\ piIdle /\ mqueueIdle /\ mqnameIdle /\ rtdmIdle /\ bufpIdle /\ pipeIdle
          /\ mutexIdle /\ semIdle /\ refs = Unused /\ lock = Unused /\ live = Unused
          /\ pendq = Unused /\ call = Unused
       \/ /\ service = "rtdm" /\ R!Init
          /\ piIdle /\ mqueueIdle /\ mqnameIdle /\ timerIdle /\ bufpIdle /\ pipeIdle
          /\ mutexIdle /\ semIdle /\ pendq = Unused /\ call = Unused
       \/ /\ service = "bufp" /\ B!Init
          /\ piIdle /\ mqueueIdle /\ mqnameIdle /\ timerIdle /\ rtdmIdle /\ pipeIdle
          /\ mutexIdle /\ semIdle /\ refs = Unused /\ lock = Unused /\ live = Unused
          /\ pendq = Unused /\ call = Unused
       \/ /\ service = "pipe" /\ M!Init
          /\ piIdle /\ mqueueIdle /\ mqnameIdle /\ timerIdle /\ rtdmIdle /\ bufpIdle
          /\ mutexIdle /\ semIdle /\ refs = Unused /\ lock = Unused /\ live = Unused
          /\ pendq = Unused /\ call = Unused
       \/ /\ service = "signals" /\ S!Init
          /\ piIdle /\ mqueueIdle /\ mqnameIdle /\ timerIdle /\ rtdmIdle /\ bufpIdle
          /\ pipeIdle /\ semIdle /\ use = Unused /\ refs = Unused
       \/ /\ service = "sem" /\ U!Init
          /\ piIdle /\ mqueueIdle /\ mqnameIdle /\ timerIdle /\ rtdmIdle /\ bufpIdle
          /\ pipeIdle /\ mutexIdle /\ use = Unused /\ refs = Unused /\ lock = Unused
       \/ /\ service = "semtimed" /\ V!Init
          /\ piIdle /\ mqueueIdle /\ mqnameIdle /\ timerIdle /\ rtdmIdle /\ bufpIdle
          /\ pipeIdle /\ mutexIdle /\ use = Unused /\ refs = Unused /\ lock = Unused

Next ==
    \/ /\ service = "pi" /\ P!Next
       /\ UNCHANGED <<service, mqueueOnly, mqnameOnly, timerOnly, rtdmOnly, bufpOnly,
                      pipeOnly, mutexOnly, semOnly, use, refs, lock, live, pendq,
                      call>>
    \/ /\ service = "mqueue" /\ Q!Next
       /\ UNCHANGED <<service, piOnly, mqnameOnly, timerOnly, rtdmOnly, bufpOnly,
                      pipeOnly, mutexOnly, semOnly, use, refs, lock, live, pendq,
                      call>>
    \/ /\ service = "mqname" /\ N!Next
       /\ UNCHANGED <<service, piOnly, mqueueOnly, timerOnly, rtdmOnly, bufpOnly,
                      pipeOnly, mutexOnly, semOnly, lock, live, pendq, call>>
    \/ /\ service = "timer" /\ T!Next
       /\ UNCHANGED <<service, piOnly, mqueueOnly, mqnameOnly, rtdmOnly, bufpOnly,
                      pipeOnly, mutexOnly, semOnly, refs, lock, live, pendq, call>>
    \/ /\ service = "rtdm" /\ R!Next
       /\ UNCHANGED <<service, piOnly, mqueueOnly, mqnameOnly, timerOnly, bufpOnly,
                      pipeOnly, mutexOnly, semOnly, pendq, call>>
    \/ /\ service = "bufp" /\ B!Next
       /\ UNCHANGED <<service, piOnly, mqueueOnly, mqnameOnly, timerOnly, rtdmOnly,
                      pipeOnly, mutexOnly, semOnly, refs, lock, live, pendq, call>>
    \/ /\ service = "pipe" /\ M!Next
       /\ UNCHANGED <<service, piOnly, mqueueOnly, mqnameOnly, timerOnly, rtdmOnly,
                      bufpOnly, mutexOnly, semOnly, refs, lock, live, pendq, call>>
    \/ /\ service = "signals" /\ S!DisturbedNext
       /\ UNCHANGED <<service, piOnly, mqueueOnly, mqnameOnly, timerOnly, rtdmOnly,
                      bufpOnly, pipeOnly, semOnly, use, refs>>
    \/ /\ service = "sem" /\ U!BroadcastNext
       /\ UNCHANGED <<service, piOnly, mqueueOnly, mqnameOnly, timerOnly, rtdmOnly,
                      bufpOnly, pipeOnly, mutexOnly, use, refs, lock>>
    \/ /\ service = "semtimed" /\ V!Next
       /\ UNCHANGED <<service, piOnly, mqueueOnly, mqnameOnly, timerOnly, rtdmOnly,
                      bufpOnly, pipeOnly, mutexOnly, use, refs, lock>>

vars == <<service, pc, use, refs, lock, live, pendq, call, piOnly, mqueueOnly,
          mqnameOnly, timerOnly, rtdmOnly, bufpOnly, pipeOnly, mutexOnly, semOnly>>

Spec == Init /\ [][Next]_vars

----------------------------------------------------------------------------
(* Applications                                                            *)

\* The lowest thread blocks the next one, which blocks the one above.
Chain == t1 :> {} @@ t2 :> {1} @@ t3 :> {1, 2} @@ t4 :> {2}

\* The lowest thread nests both mutexes, the others use one each.
Cross == t1 :> {2} @@ t2 :> {1} @@ t3 :> {2} @@ t4 :> {1, 2}

\* Three threads nest the two mutexes; three threads share one.
Nested == t1 :> {} @@ t2 :> {1, 2} @@ t3 :> {1, 2} @@ t4 :> {1, 2}
Single == t1 :> {} @@ t2 :> {1} @@ t3 :> {1} @@ t4 :> {1}

MCPIProfiles ==
    [uses : {Chain, Nested}, events : {{}, {"timeout"}}]
    \cup [uses : {Cross}, events : {{}}]
    \cup [uses : {Single}, events : {{"setprio"}, {"timeout", "exit"}}]
NestedProfile == [uses : {Nested}, events : {{}}]

\* Who creates the queue, who unlinks it.
MCNameUses ==
    {[creators |-> {t1}, unlinkers |-> {t2, t3}],
     [creators |-> {t1, t2}, unlinkers |-> {t3}],
     [creators |-> {t1, t2, t3}, unlinkers |-> {}]}
UnlinkUses == {[creators |-> {t1}, unlinkers |-> {t3}]}

MCTimerUses == {{"host"}, {"migrate"}, {"passive"}}
MigrateUses == {{"migrate"}}

\* A named device, the same with exclusive access, and a protocol whose socket
\* handler may fail.
AnyDevice == [type |-> "named", exclusive |-> FALSE, fails |-> FALSE, users |-> {t1, t2, t3}]
MCDeviceUses ==
    {AnyDevice,
     [AnyDevice EXCEPT !.exclusive = TRUE],
     [AnyDevice EXCEPT !.type = "protocol", !.fails = TRUE, !.users = {t1}]}

\* One thread writes, two read; two threads write, one reads.
OneWriter == [readers |-> {t3, t4}, writers |-> {t1}, lengths |-> {1, 2}, timed |-> FALSE]
TwoWriters == [readers |-> {t3}, writers |-> {t1, t2}, lengths |-> {2}, timed |-> FALSE]
MCStreamUses ==
    {OneWriter, TwoWriters, [OneWriter EXCEPT !.lengths = {2}, !.timed = TRUE]}
WritersUses == {TwoWriters}

\* Reads and writes both ways; without writers, with interrupted or failed calls;
\* with polls; writes only, synchronous and interrupted.
BothWays == [readers |-> {t1}, writers |-> {t2}, pollers |-> {}, senders |-> {t3},
             receivers |-> {t4}, events |-> {"partial"}]
MCPipeUses ==
    {BothWays,
     [BothWays EXCEPT !.writers = {}, !.events = {"signal", "nonblock"}],
     [BothWays EXCEPT !.writers = {}, !.events = {"signal", "nonblock", "smp"}],
     [BothWays EXCEPT !.writers = {}, !.receivers = {}, !.pollers = {t2}, !.events = {"signal"}],
     [BothWays EXCEPT !.readers = {}, !.senders = {},
                      !.events = {"sync", "timeout", "flush", "signal", "smp"}]}

----------------------------------------------------------------------------
(* The properties checked, by service                                      *)

\* Priority inheritance: sleepers are queued by priority, and a claimed mutex has
\* some and is in one claim queue.
QueuesKept == service = "pi" => P!QueuesKept

\* Priority inheritance: a boost follows the chain of owners.
ChainBoosted == service = "pi" => P!ChainBoosted

\* Priority inheritance: a boost ends with its cause.
ExactBoost == service = "pi" => P!ExactBoost

\* Priority inheritance: nobody sleeps for a thread of lower priority.
NoInversion == service = "pi" => P!NoInversion

\* Message queue: no slot is leaked or shared.
SlotsConserved == service = "mqueue" => Q!SlotsConserved

\* Message queue: nobody waits for what is there, and messages keep their order.
QueueServed == service = "mqueue" => Q!QueueServed

\* Message queue: a selector has the readiness of the queue, and select() does
\* not sleep on what is ready.
SelectSound == service = "mqueue" => Q!SelectSound


\* Queue name: an open queue exists, mq_unlink() or not.
OpenNotDestroyed == service = "mqname" => N!OpenNotDestroyed

\* Timer: every outstanding timer has a shot programmed in time.
ShotCovers == service = "timer" => T!ShotCovers

\* Timer: a thread that waits for its period has its timer queued, and a queued
\* timer is flagged running unless it migrates.
TimersKept == service = "timer" => T!TimersKept

\* Timer: a destroyed timer is in no queue.
DestroyedDequeued == service = "timer" => T!DestroyedDequeued

\* Device: removal waits for the connections it finds.
RemovalWaits == service = "rtdm" => R!RemovalWaits


\* Device: an exclusive device has one context at most.
ExclusiveInstance == service = "rtdm" => R!ExclusiveInstance

\* BUFP socket: the buffer holds what its only writer has sent.
StreamIntactSingle == service = "bufp" => B!StreamIntactSingle

\* BUFP socket: the first waiter of each side cannot proceed, and select() is told
\* the state of the buffer.
WaitersInformed == service = "bufp" => B!WaitersInformed

\* BUFP socket: the buffer holds what its writers have sent.
StreamIntact == service = "bufp" => B!StreamIntact


\* Pipe: nobody sleeps for a message that is there or a connection that is made.
PeersWoken == service = "pipe" => M!PeersWoken

\* Mutex: a signal gets a thread out of its wait and its suspension.
KickedAwake == service = "signals" => S!KickedAwake

\* Semaphore: a negative count is the number of sleepers, in pulse mode no unit
\* is counted, and nobody sleeps on a destroyed one.
CountExact == service = "sem" => U!CountExact

\* Semaphore: a timed wait is satisfied only by the initial value or a post.
NoExcess == service = "semtimed" => V!NoExcess

\* Timer: a periodic thread acknowledges every release point once.
OverrunsExact == [][service = "timer" => T!OverrunsStep]_vars

\* BUFP socket: readers get what was written, in order, each byte once.
ReadsInOrder == [][service = "bufp" => B!ReadStep]_vars

\* Semaphore: a post on one with sleepers unblocks the first of them, when waits
\* have no timeout and are not interrupted.
PostUnblocks == [][service = "sem" => U!PostStep]_vars
============================================================================
