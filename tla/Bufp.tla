-------------------------------- MODULE Bufp -------------------------------
(***************************************************************************)
(* The byte stream between BUFP sockets: kernel/drivers/ipc/bufp.c.  A     *)
(* bound socket has a circular buffer which readers and writers copy from  *)
(* and to with the lock dropped.  A thread that finds, with the lock taken *)
(* again, that another has drawn a token since, starts over.               *)
(*                                                                         *)
(* An action is one section of cobalt_atomic_enter(), or one copy between  *)
(* two of them.  A token is named after the thread that drew it, since it  *)
(* is compared for equality only.                                          *)
(***************************************************************************)
EXTENDS Integers, Sequences, PrioList

CONSTANTS
    None,       \* no thread
    Nul,        \* a byte that was never written
    prio,       \* weighted priority of each thread
    BufSize,    \* sk->bufsz
    Uses        \* the applications considered: records
                \*   readers, writers  the threads that receive, and send
                \*   lengths  the message lengths they use
                \*   timed  waits may end early, and copies fail

VARIABLES
    use,        \* one of Uses
    mem,        \* sk->bufmem
    rdoff, wroff, fillsz,
    rdtoken, wrtoken,       \* the thread that drew the last token
    i_event, o_event,       \* the threads waiting to read, and to write
    pollin, pollout,        \* what the select blocks of the socket were last told
    pc,         \* where each thread is
    len,        \* the length a thread asks for
    off, left,  \* its private offset and the count of bytes left to copy
    data,       \* the bytes a reader has copied
    seqno,      \* distinguishes two successive messages of a writer
    stream      \* history: the bytes committed and not yet read

vars == <<use, mem, rdoff, wroff, fillsz, rdtoken, wrtoken, i_event, o_event, pollin,
          pollout, pc, len, off, left, data, seqno, stream>>

Threads == UNION {u.readers \cup u.writers : u \in Uses}

\* bufp_socket(), and the binding.
Init ==
    /\ use \in Uses
    /\ mem = [i \in 0 .. BufSize - 1 |-> Nul]
    /\ rdoff = 0 /\ wroff = 0 /\ fillsz = 0
    /\ rdtoken = None /\ wrtoken = None
    /\ i_event = <<>> /\ o_event = <<>>
    /\ pollin = FALSE /\ pollout = TRUE
    /\ pc = [t \in Threads |-> "idle"]
    /\ len = [t \in Threads |-> 0]
    /\ off = [t \in Threads |-> 0] /\ left = [t \in Threads |-> 0]
    /\ data = [t \in Threads |-> <<>>]
    /\ seqno = [t \in Threads |-> 0]
    /\ stream = <<>>

\* rtdm_event_pulse() wakes every waiter: they start over.
Pulsed(q, t, loc) ==
    [u \in Threads |-> IF u = t THEN loc ELSE IF Has(q, u) THEN "redo" ELSE pc[u]]

\* What a thread has in hand is reset when its call ends.
Done(t) ==
    /\ len' = [len EXCEPT ![t] = 0]
    /\ off' = [off EXCEPT ![t] = 0] /\ left' = [left EXCEPT ![t] = 0]
    /\ data' = [data EXCEPT ![t] = <<>>]

\* Mutant: a copy that does not wrap.
ChunkStraight(t) == left[t]

\* The part of the buffer a copy covers before it wraps.
Chunk(t) == IF off[t] + left[t] > BufSize THEN BufSize - off[t] ELSE left[t]

----------------------------------------------------------------------------
(* __bufp_writebuf()                                                       *)

Byte(t) == <<t, seqno[t]>>

\* From the label redo on: draw a token and copy, or wait for room.
WriteTry(t, n) ==
    /\ len' = [len EXCEPT ![t] = n]
    /\ \/ /\ fillsz + n <= BufSize
          /\ wrtoken' = t
          /\ off' = [off EXCEPT ![t] = wroff] /\ left' = [left EXCEPT ![t] = n]
          /\ pc' = [pc EXCEPT ![t] = "copy"]
          /\ UNCHANGED o_event
       \/ /\ fillsz + n > BufSize
          /\ o_event' = AddPriff(o_event, t, prio)
          /\ pc' = [pc EXCEPT ![t] = "wait"]
          /\ off' = [off EXCEPT ![t] = 0] /\ left' = [left EXCEPT ![t] = 0]
          /\ UNCHANGED wrtoken
    /\ UNCHANGED <<use, mem, rdoff, wroff, fillsz, rdtoken, i_event, pollin, pollout,
                   data, seqno, stream>>

Write(t, n) == t \in use.writers /\ pc[t] = "idle" /\ WriteTry(t, n)
WriteRedo(t) == t \in use.writers /\ pc[t] = "redo" /\ WriteTry(t, len[t])

\* xnbufd_copy_to_kmem(), without the lock.
WriteCopy(t) ==
    /\ t \in use.writers /\ pc[t] = "copy"
    /\ mem' = [i \in DOMAIN mem |->
                  IF i \in off[t] .. off[t] + Chunk(t) - 1 THEN Byte(t) ELSE mem[i]]
    /\ pc' = [pc EXCEPT ![t] = "check"]
    /\ UNCHANGED <<use, rdoff, wroff, fillsz, rdtoken, wrtoken, i_event, o_event, pollin,
                   pollout, len, off, left, data, seqno, stream>>

\* Mutant: the leading reader is awakened by more than it needs only.
ReaderFedLate(n) == i_event # <<>> /\ len[Head(i_event)] < n

\* The buffer holds enough for the leading reader.
ReaderFed(n) == i_event # <<>> /\ len[Head(i_event)] <= n

\* The message is complete: account for it, wake up the readers if there is
\* enough for the leading one.
WriteCommit(t) ==
    /\ fillsz' = fillsz + len[t]
    /\ wroff' = (off[t] + Chunk(t)) % BufSize
    /\ stream' = stream \o [i \in 1 .. len[t] |-> Byte(t)]
    /\ seqno' = [seqno EXCEPT ![t] = 1 - @]
    /\ pollin' = (pollin \/ fillsz' = len[t])
    /\ pollout' = (pollout /\ fillsz' # BufSize)
    /\ IF ReaderFed(fillsz')
       THEN i_event' = <<>> /\ pc' = Pulsed(i_event, t, "idle")
       ELSE pc' = [pc EXCEPT ![t] = "idle"] /\ UNCHANGED i_event
    /\ Done(t)
    /\ UNCHANGED <<use, mem, rdoff, rdtoken, wrtoken, o_event>>

\* Back with the lock.
WriteCheck(t) ==
    /\ t \in use.writers /\ pc[t] = "check"
    /\ \/ wrtoken # t /\ WriteTry(t, len[t])
       \/ wrtoken = t /\ left[t] = Chunk(t) /\ WriteCommit(t)
       \/ /\ wrtoken = t /\ left[t] # Chunk(t)
          /\ off' = [off EXCEPT ![t] = (@ + Chunk(t)) % BufSize]
          /\ left' = [left EXCEPT ![t] = @ - Chunk(t)]
          /\ pc' = [pc EXCEPT ![t] = "copy"]
          /\ UNCHANGED <<use, mem, rdoff, wroff, fillsz, rdtoken, wrtoken, i_event, o_event,
                         pollin, pollout, len, data, seqno, stream>>

----------------------------------------------------------------------------
(* __bufp_readbuf()                                                        *)

\* From the label redo on: a reader that would wait while writers do takes what
\* there is.
ReadTry(t, asked) ==
    LET short == fillsz < asked /\ fillsz > 0 /\ o_event # <<>>
        n == IF short THEN fillsz ELSE asked
    IN  /\ len' = [len EXCEPT ![t] = n]
        /\ data' = [data EXCEPT ![t] = <<>>]
        /\ \/ /\ fillsz >= n
              /\ rdtoken' = t
              /\ off' = [off EXCEPT ![t] = rdoff] /\ left' = [left EXCEPT ![t] = n]
              /\ pc' = [pc EXCEPT ![t] = "copy"]
              /\ UNCHANGED i_event
           \/ /\ fillsz < n
              /\ i_event' = AddPriff(i_event, t, prio)
              /\ pc' = [pc EXCEPT ![t] = "wait"]
              /\ off' = [off EXCEPT ![t] = 0] /\ left' = [left EXCEPT ![t] = 0]
              /\ UNCHANGED rdtoken
        /\ UNCHANGED <<use, mem, rdoff, wroff, fillsz, wrtoken, o_event, pollin, pollout,
                       seqno, stream>>

Read(t, n) == t \in use.readers /\ pc[t] = "idle" /\ ReadTry(t, n)
ReadRedo(t) == t \in use.readers /\ pc[t] = "redo" /\ ReadTry(t, len[t])

\* xnbufd_copy_from_kmem(), without the lock.
ReadCopy(t) ==
    /\ t \in use.readers /\ pc[t] = "copy"
    /\ data' = [data EXCEPT ![t] = @ \o [i \in 1 .. Chunk(t) |-> mem[off[t] + i - 1]]]
    /\ pc' = [pc EXCEPT ![t] = "check"]
    /\ UNCHANGED <<use, mem, rdoff, wroff, fillsz, rdtoken, wrtoken, i_event, o_event, pollin,
                   pollout, len, off, left, seqno, stream>>

\* A read of so many bytes left n of them: the buffer was full.
Unfilled(n, taken) == n + taken = BufSize

ReadCommit(t) ==
    /\ fillsz' = fillsz - len[t]
    /\ rdoff' = (off[t] + Chunk(t)) % BufSize
    /\ stream' = SubSeq(stream, len[t] + 1, Len(stream))
    /\ pollout' = (pollout \/ Unfilled(fillsz', len[t]))
    /\ pollin' = (pollin /\ fillsz' # 0)
    /\ IF o_event # <<>> /\ len[Head(o_event)] + fillsz' <= BufSize
       THEN o_event' = <<>> /\ pc' = Pulsed(o_event, t, "idle")
       ELSE pc' = [pc EXCEPT ![t] = "idle"] /\ UNCHANGED o_event
    /\ Done(t)
    /\ UNCHANGED <<use, mem, wroff, rdtoken, wrtoken, i_event, seqno>>

\* Mutant: a reader that was preempted goes on.
ReadCheckBlind(t) ==
    /\ t \in use.readers /\ pc[t] = "check"
    /\ \/ left[t] = Chunk(t) /\ fillsz >= len[t] /\ ReadCommit(t)
       \/ /\ left[t] # Chunk(t)
          /\ off' = [off EXCEPT ![t] = (@ + Chunk(t)) % BufSize]
          /\ left' = [left EXCEPT ![t] = @ - Chunk(t)]
          /\ pc' = [pc EXCEPT ![t] = "copy"]
          /\ UNCHANGED <<use, mem, rdoff, wroff, fillsz, rdtoken, wrtoken, i_event, o_event,
                         pollin, pollout, len, data, seqno, stream>>

ReadCheck(t) ==
    /\ t \in use.readers /\ pc[t] = "check"
    /\ \/ rdtoken # t /\ ReadTry(t, len[t])
       \/ rdtoken = t /\ left[t] = Chunk(t) /\ ReadCommit(t)
       \/ /\ rdtoken = t /\ left[t] # Chunk(t)
          /\ off' = [off EXCEPT ![t] = (@ + Chunk(t)) % BufSize]
          /\ left' = [left EXCEPT ![t] = @ - Chunk(t)]
          /\ pc' = [pc EXCEPT ![t] = "copy"]
          /\ UNCHANGED <<use, mem, rdoff, wroff, fillsz, rdtoken, wrtoken, i_event, o_event,
                         pollin, pollout, len, data, seqno, stream>>

----------------------------------------------------------------------------
\* A wait times out or is interrupted; a copy fails.
Fail(t) ==
    /\ use.timed /\ pc[t] \in {"wait", "copy"}
    /\ i_event' = (IF Has(i_event, t) THEN Delete(i_event, t) ELSE i_event)
    /\ o_event' = (IF Has(o_event, t) THEN Delete(o_event, t) ELSE o_event)
    /\ pc' = [pc EXCEPT ![t] = "idle"]
    /\ Done(t)
    /\ UNCHANGED <<use, mem, rdoff, wroff, fillsz, rdtoken, wrtoken, pollin, pollout,
                   seqno, stream>>

Next ==
    \E t \in Threads :
        \/ \E n \in use.lengths : Write(t, n) \/ Read(t, n)
        \/ WriteRedo(t) \/ WriteCopy(t) \/ WriteCheck(t)
        \/ ReadRedo(t) \/ ReadCopy(t) \/ ReadCheck(t)
        \/ Fail(t)

Spec == Init /\ [][Next]_vars

----------------------------------------------------------------------------
(* Properties                                                              *)

Content == [i \in 1 .. fillsz |-> mem[(rdoff + i - 1) % BufSize]]

\* ipc.h, "All messages written are buffered into a single memory area in strict
\* FIFO order, until read by the consumer".
StreamIntact == Content = stream

\* The same for a socket that a single thread writes to.
StreamIntactSingle == (\A t, u \in use.writers : t = u) => StreamIntact

\* Readers that preempt each other, while a writer reuses what they free, get
\* what was written, in order, each byte once.
ReadStep ==
    \A t \in use.readers :
        pc[t] = "check" /\ pc'[t] = "idle" /\ (\A v, u \in use.writers : v = u) =>
            data[t] = SubSeq(stream, 1, Len(stream) - Len(stream'))
ReadsInOrder == [][ReadStep]_vars

\* The leading waiter on each side cannot proceed: nobody with enough room or
\* data is left asleep by a pulse.
LeadersBlocked ==
    ~use.timed =>
        /\ i_event # <<>> => fillsz < len[Head(i_event)]
        /\ o_event # <<>> => fillsz + len[Head(o_event)] > BufSize

\* ipc.h on short reads, "readers and writers waiting for each other
\* indefinitely": it never comes to that.
NoMutualWait ==
    ~use.timed /\ i_event # <<>> /\ o_event # <<>> =>
        \E t \in Threads : pc[t] \in {"copy", "check", "redo"}

\* What select() is told: the socket is readable unless the buffer is empty, and
\* writable unless it is full.
PollExact == pollin = (fillsz > 0) /\ pollout = (fillsz < BufSize)

\* Whoever waits for the socket, in a call or in select(), is told what it holds.
WaitersInformed == LeadersBlocked /\ PollExact
============================================================================
