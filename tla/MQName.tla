------------------------------- MODULE MQName -------------------------------
(***************************************************************************)
(* The life of the message queues that go by one name: mq_open(),          *)
(* mq_close() and mq_unlink() in kernel/cobalt/posix/mqueue.c, over the    *)
(* services of kernel/cobalt/registry.c.                                   *)
(*                                                                         *)
(* A queue counts a reference for each descriptor and one for its name.    *)
(* The lookup of a name, the change of the count, the removal of the name  *)
(* and the destruction are distinct nklock sections, thus distinct         *)
(* actions.  A registry handle is the queue it was given for: the reuse of *)
(* a registry slot between two sections of one call is left out.           *)
(***************************************************************************)
EXTENDS Integers, FiniteSets

CONSTANTS
    Threads,    \* the threads, each of which holds at most one descriptor
    Queues,     \* the queue objects that may be allocated
    None,       \* no queue
    Uses        \* the applications considered: records
                \*   creators   the threads that pass O_CREAT
                \*   unlinkers  the threads that call mq_unlink()

VARIABLES
    use,        \* the application, one of Uses
    name,       \* the queue that registry_hash_find finds
    registered, \* the queues whose registry slot has an objaddr
    state,      \* "none", "live" or "freed", of each queue
    refs,       \* mq->refs
    fd,         \* the queue of the descriptor each thread has
    pc,         \* where each thread is
    ptr         \* the queue each thread works on

vars == <<use, name, registered, state, refs, fd, pc, ptr>>

Init ==
    /\ use \in Uses
    /\ name = None /\ registered = {}
    /\ state = [q \in Queues |-> "none"]
    /\ refs = [q \in Queues |-> 0]
    /\ fd = [t \in Threads |-> None]
    /\ pc = [t \in Threads |-> "idle"]
    /\ ptr = [t \in Threads |-> None]

Goto(t, loc, q) ==
    /\ pc' = [pc EXCEPT ![t] = loc]
    /\ ptr' = [ptr EXCEPT ![t] = q]


\* mq_init and mqd_create, which may fail.
Create(t, q) ==
    /\ state[q] = "none"
    /\ state' = [state EXCEPT ![q] = "live"]
    /\ refs' = [refs EXCEPT ![q] = 2]
    /\ \/ Goto(t, "enter", q) /\ fd' = [fd EXCEPT ![t] = q]
       \/ Goto(t, "destroy", q) /\ UNCHANGED fd

\* mq_open(): the name is looked up, xnregistry_bind().
OpenBind(t) ==
    /\ pc[t] = "idle" /\ fd[t] = None
    /\ \/ /\ name # None
          /\ Goto(t, "lookup", name)
          /\ UNCHANGED <<state, refs, fd>>
       \/ /\ name = None /\ t \in use.creators
          /\ \E q \in Queues : Create(t, q)
    /\ UNCHANGED <<use, name, registered>>

\* The handle is looked up again and the queue referenced, or the call retried.
OpenLookup(t) ==
    /\ pc[t] = "lookup"
    /\ \/ /\ ptr[t] \in registered
          /\ refs' = [refs EXCEPT ![ptr[t]] = @ + 1]
          /\ Goto(t, "install", ptr[t])
       \/ /\ ptr[t] \notin registered
          /\ Goto(t, "idle", None)
          /\ UNCHANGED refs
    /\ UNCHANGED <<use, name, registered, state, fd>>

\* mqd_create, which may fail.
OpenInstall(t) ==
    /\ pc[t] = "install"
    /\ \/ Goto(t, "idle", None) /\ fd' = [fd EXCEPT ![t] = ptr[t]]
       \/ Goto(t, "unref", ptr[t]) /\ UNCHANGED fd
    /\ UNCHANGED <<use, name, registered, state, refs>>

\* xnregistry_enter(): the new queue gets the name, unless another one did
\* meanwhile; then its references are dropped and the call retried.
OpenEnter(t) ==
    /\ pc[t] = "enter"
    /\ \/ /\ name = None
          /\ name' = ptr[t] /\ registered' = registered \cup {ptr[t]}
          /\ Goto(t, "idle", None)
          /\ UNCHANGED <<refs, fd>>
       \/ /\ name # None
          /\ refs' = [refs EXCEPT ![ptr[t]] = @ - 1]
          /\ fd' = [fd EXCEPT ![t] = None]
          /\ Goto(t, "unref", ptr[t])
          /\ UNCHANGED <<name, registered>>
    /\ UNCHANGED <<use, state>>

\* mq_unref_inner: the last reference destroys the queue.
Unref(t, q, next) ==
    /\ refs' = [refs EXCEPT ![q] = @ - 1]
    /\ IF refs[q] = 1 THEN Goto(t, "destroy", q) ELSE Goto(t, next, IF next = "idle" THEN None ELSE q)

\* mq_unref, of a thread that could not get its descriptor.
OpenUnref(t) ==
    /\ pc[t] = "unref"
    /\ Unref(t, ptr[t], "idle")
    /\ UNCHANGED <<use, name, registered, state, fd>>

\* mq_close(): mqd_close.
Close(t) ==
    /\ pc[t] = "idle" /\ fd[t] # None
    /\ Unref(t, fd[t], "idle")
    /\ fd' = [fd EXCEPT ![t] = None]
    /\ UNCHANGED <<use, name, registered, state>>

\* mq_unlink(): the name is looked up.
UnlinkBind(t) ==
    /\ pc[t] = "idle" /\ t \in use.unlinkers /\ name # None
    /\ Goto(t, "unlink", name)
    /\ UNCHANGED <<use, name, registered, state, refs, fd>>

\* The queue loses the reference of its name.
UnlinkLookup(t) ==
    /\ pc[t] = "unlink"
    /\ \/ /\ ptr[t] \in registered
          /\ Unref(t, ptr[t], "unname")
       \/ /\ ptr[t] \notin registered                 \* -ENOENT
          /\ Goto(t, "idle", None)
          /\ UNCHANGED refs
    /\ UNCHANGED <<use, name, registered, state, fd>>

\* xnregistry_unlink(): whatever goes by that name loses it.
UnlinkName(t) ==
    /\ pc[t] = "unname"
    /\ name' = None
    /\ Goto(t, "idle", None)
    /\ UNCHANGED <<use, registered, state, refs, fd>>

\* mq_destroy, from xnregistry_remove() on: before it, threads blocked on the
\* queue are flushed, which takes none that has a descriptor open.
Destroy(t) ==
    /\ pc[t] = "destroy"
    /\ registered' = registered \ {ptr[t]}
    /\ name' = IF name = ptr[t] THEN None ELSE name
    /\ state' = [state EXCEPT ![ptr[t]] = "freed"]
    /\ Goto(t, "idle", None)
    /\ UNCHANGED <<use, refs, fd>>

Next ==
    \E t \in Threads :
        \/ OpenBind(t) \/ OpenLookup(t) \/ OpenInstall(t) \/ OpenEnter(t) \/ OpenUnref(t)
        \/ Close(t) \/ UnlinkBind(t) \/ UnlinkLookup(t) \/ UnlinkName(t) \/ Destroy(t)

Spec == Init /\ [][Next]_vars

----------------------------------------------------------------------------
(* Properties                                                              *)

\* lib/cobalt/mq.c, mq_unlink(): "The message queue is not destroyed until all
\* queue descriptors obtained with the mq_open() service are closed": an open
\* descriptor refers to a queue that exists.
OpenNotDestroyed == \A t \in Threads : fd[t] # None => state[fd[t]] = "live"

\* The same while nobody calls mq_unlink(), whoever wins the race to create the
\* queue and whatever fails on the way.
OpenNotDestroyedLinked == use.unlinkers = {} => OpenNotDestroyed

\* The name leads to a queue that exists, whoever unlinks it and whoever wins the
\* race to create it.
NamedExists == name # None => state[name] = "live"

\* Without mq_unlink(), mq->refs is what refers to the queue: its name, its open
\* descriptors, and the calls that hold or are about to drop a reference.
RefsExact ==
    use.unlinkers = {} =>
        \A q \in Queues :
            state[q] = "live" /\ (\A t \in Threads : ~(pc[t] = "destroy" /\ ptr[t] = q)) =>
                refs[q] = Cardinality({t \in Threads : fd[t] = q})
                          + Cardinality({t \in Threads : ptr[t] = q /\ pc[t] \in {"install", "unref", "enter"}})
                          + (IF name = q THEN 1 ELSE 0)

=============================================================================
