-------------------------------- MODULE Rtdm -------------------------------
(***************************************************************************)
(* RTDM devices and file descriptors: kernel/cobalt/rtdm/device.c, core.c  *)
(* and fd.c.  One device is registered, opened by several threads of a     *)
(* process, and unregistered when its driver is removed.                   *)
(*                                                                         *)
(* The device counts its connections atomically, its registration is       *)
(* protected by register_lock, the index of descriptors and their counts   *)
(* by fdtree_lock.  dev->magic is written without a lock.  An action is    *)
(* one critical section or one access outside of them.                     *)
(***************************************************************************)
EXTENDS Integers, Sequences, FiniteSets, FiniteSetsExt

CONSTANTS
    Openers,    \* threads in secondary mode: they open, use and close
    Workers,    \* threads in primary mode: they use descriptors only
    Driver,     \* the thread that loads and removes the driver
    Contexts,   \* the device contexts that may be allocated
    Ufds,       \* the file descriptor numbers
    None,       \* no context, no descriptor, no thread
    Uses        \* the applications considered: records
                \*   type       "named" or "protocol"
                \*   exclusive  the driver sets RTDM_EXCLUSIVE
                \*   fails      its open handler may fail
                \*   users      the threads that use it

Threads == Openers \cup Workers \cup {Driver}

VARIABLES
    use,        \* one of Uses
    magic,      \* dev->magic is RTDM_DEVICE_MAGIC
    listed,     \* the device is in the registry, or in protocol_devices
    refcount,   \* dev->refcount
    lock,       \* the owner of register_lock between two actions
    index,      \* ppd->fds, the context of each descriptor
    used,       \* the descriptors allocated in the Linux table
    live,       \* the contexts that are allocated
    refs,       \* fd->refs of each context
    cleanup,    \* rtdm_fd_cleanup_queue
    closing,    \* the context fd_cleanup_thread() works on
    older,      \* history: the connections the removal of the device has found
    pc, my      \* where each thread is, and the descriptor and context it works on

vars == <<use, magic, listed, refcount, lock, index, used, live, refs, cleanup,
          closing, older, pc, my>>
devvars == <<magic, listed, older>>
fdvars == <<index, used, live, refs, cleanup, closing>>

Nothing == [ufd |-> None, ctx |-> None]

\* rtdm_dev_register() has run.
Init ==
    /\ use \in Uses
    /\ magic = TRUE /\ listed = TRUE /\ refcount = 0 /\ lock = None
    /\ index = [u \in Ufds |-> None] /\ used = {} /\ live = {}
    /\ refs = [x \in Contexts |-> 0]
    /\ cleanup = <<>> /\ closing = None /\ older = {}
    /\ pc = [t \in Threads |-> "idle"]
    /\ my = [t \in Threads |-> Nothing]

Goto(t, loc) == pc' = [pc EXCEPT ![t] = loc]
Work(t, u, x) == my' = [my EXCEPT ![t] = [ufd |-> u, ctx |-> x]]
Ready(t) == Goto(t, "idle") /\ Work(t, None, None)

----------------------------------------------------------------------------
(* Registration: device.c                                                  *)

\* rtdm_dev_unregister(): lock out new connections, wait for the others.
Unregister ==
    /\ pc[Driver] = "idle" /\ listed
    /\ magic' = FALSE
    /\ older' = live
    /\ Goto(Driver, "wait")
    /\ UNCHANGED <<use, listed, refcount, lock, fdvars, my>>

\* Mutant: the connections are not waited for.
UnregisterNoWait ==
    /\ pc[Driver] = "wait"
    /\ Goto(Driver, "remove")
    /\ UNCHANGED <<use, devvars, refcount, lock, fdvars, my>>

UnregisterWait ==
    /\ pc[Driver] = "wait" /\ refcount = 0
    /\ Goto(Driver, "remove")
    /\ UNCHANGED <<use, devvars, refcount, lock, fdvars, my>>

UnregisterRemove ==
    /\ pc[Driver] = "remove" /\ lock = None
    /\ listed' = FALSE
    /\ Goto(Driver, "idle")
    /\ UNCHANGED <<use, magic, refcount, lock, fdvars, older, my>>

\* __rtdm_get_namedev() and __rtdm_get_protodev(), with register_lock held: the
\* latter finds a device that is being removed.
Lookup(t) ==
    /\ t \in Openers \cap use.users /\ pc[t] = "idle" /\ lock = None
    /\ listed
    /\ use.type = "named" => magic
    /\ lock' = t
    /\ Goto(t, "lookup")
    /\ UNCHANGED <<use, devvars, refcount, fdvars, my>>

GetDevice(t) ==
    /\ pc[t] = "lookup"
    /\ refcount' = refcount + 1
    /\ lock' = None
    /\ Goto(t, "ref")
    /\ UNCHANGED <<use, devvars, fdvars, my>>

----------------------------------------------------------------------------
(* Opening and closing an instance: core.c                                 *)

\* Mutant: an open tests that nobody is connected but for two others.
CreateLate(t) ==
    /\ pc[t] = "ref"
    /\ Ufds \ used # {}
    /\ used' = used \cup {Min(Ufds \ used)}
    /\ Work(t, Min(Ufds \ used), None)
    /\ Goto(t, IF use.exclusive /\ refcount > 2 THEN "put" ELSE "enter")
    /\ UNCHANGED <<use, devvars, refcount, lock, index, live, refs, cleanup, closing>>

\* A descriptor number is reserved; an exclusive device has one user.
Create(t) ==
    /\ pc[t] = "ref"
    /\ \/ /\ Ufds \ used # {}
          /\ used' = used \cup {Min(Ufds \ used)}
          /\ Work(t, Min(Ufds \ used), None)
          /\ Goto(t, IF use.exclusive /\ refcount > 1 THEN "put" ELSE "enter")
       \/ /\ used = Ufds                                       \* -EMFILE
          /\ Goto(t, "put")
          /\ UNCHANGED <<used, my>>
    /\ UNCHANGED <<use, devvars, refcount, lock, index, live, refs, cleanup, closing>>

\* rtdm_fd_enter(): the context is allocated and indexed.  -EBUSY if the index
\* has an entry for this descriptor: the context is lost.
Enter(t, x) ==
    /\ pc[t] = "enter" /\ x \notin live
    /\ \A u \in Ufds : index[u] # x
    /\ live' = live \cup {x}
    /\ refs' = [refs EXCEPT ![x] = 1]
    /\ LET u == my[t].ufd IN
       \/ /\ index[u] = None
          /\ index' = [index EXCEPT ![u] = x]
          /\ Work(t, u, x)
          /\ Goto(t, "open")
       \/ /\ index[u] # None
          /\ Goto(t, "put")
          /\ UNCHANGED <<index, my>>
    /\ UNCHANGED <<use, devvars, refcount, lock, used, cleanup, closing>>

\* The open handler of the driver succeeds: the descriptor is installed.
Open(t) ==
    /\ pc[t] = "open"
    /\ Ready(t)
    /\ UNCHANGED <<use, devvars, refcount, lock, fdvars>>

\* It fails: cleanup_instance() frees the context, not its index entry.
OpenFail(t) ==
    /\ use.fails /\ pc[t] = "open"
    /\ live' = live \ {my[t].ctx}
    /\ refcount' = refcount - 1
    /\ Goto(t, "put")
    /\ UNCHANGED <<use, devvars, lock, index, used, refs, cleanup, closing, my>>

\* The failing path of __rtdm_dev_open() ends here.
PutDevice(t) ==
    /\ pc[t] = "put"
    /\ refcount' = refcount - 1
    /\ used' = used \ {my[t].ufd}
    /\ Ready(t)
    /\ UNCHANGED <<use, devvars, lock, index, live, refs, cleanup, closing>>

\* __rtdm_dev_close(): the handler of the driver, then cleanup_instance().
CloseContext(x) ==
    /\ live' = live \ {x}
    /\ refcount' = refcount - 1
    /\ older' = older \ {x}

----------------------------------------------------------------------------
(* Descriptors: fd.c.  What follows an access to a context that was freed  *)
(* is not modelled (such a context is neither looked up nor allocated      *)
(* again); NoDangling says that there is none.                             *)

\* rtdm_fd_get(), as every operation on a descriptor does first.
Get(t, u) ==
    /\ t \in use.users /\ pc[t] = "idle" /\ index[u] \in live
    /\ refs' = [refs EXCEPT ![index[u]] = @ + 1]
    /\ Work(t, u, index[u])
    /\ Goto(t, "operate")
    /\ UNCHANGED <<use, devvars, refcount, lock, index, used, live, cleanup, closing>>

\* rtdm_fd_put(): the last reference closes the context, or has another thread
\* close it if the caller runs in primary mode.
Put(t) ==
    /\ pc[t] = "operate"
    /\ LET x == my[t].ctx IN
       /\ refs' = [refs EXCEPT ![x] = @ - 1]
       /\ \/ /\ refs'[x] # 0
             /\ Ready(t)
             /\ UNCHANGED cleanup
          \/ /\ refs'[x] = 0 /\ t \in Workers
             /\ cleanup' = Append(cleanup, x)
             /\ Ready(t)
          \/ /\ refs'[x] = 0 /\ t \notin Workers
             /\ Goto(t, "close")
             /\ my' = [my EXCEPT ![t].ufd = None]
             /\ UNCHANGED cleanup
    /\ UNCHANGED <<use, devvars, refcount, lock, index, used, live, closing>>


\* rtdm_fd_close()
Close(t, u) ==
    /\ t \in Openers \cap use.users /\ pc[t] = "idle" /\ index[u] \in live
    /\ LET x == index[u] IN
       /\ index' = [index EXCEPT ![u] = None]
       /\ refs' = [refs EXCEPT ![x] = @ - 1]
       /\ Work(t, u, x)
       /\ Goto(t, IF refs'[x] = 0 THEN "close" ELSE "release")
    /\ UNCHANGED <<use, devvars, refcount, lock, used, live, cleanup, closing>>

CloseHandler(t) ==
    /\ pc[t] = "close"
    /\ CloseContext(my[t].ctx)
    /\ Goto(t, "release")
    /\ UNCHANGED <<use, magic, listed, lock, index, used, refs, cleanup, closing, my>>

\* __close_fd(): the number may be used again.
Release(t) ==
    /\ pc[t] = "release"
    /\ used' = used \ {my[t].ufd}
    /\ Ready(t)
    /\ UNCHANGED <<use, devvars, refcount, lock, index, live, refs, cleanup, closing>>

\* fd_cleanup_thread()
CleanupTake ==
    /\ closing = None /\ cleanup # <<>>
    /\ closing' = Head(cleanup) /\ cleanup' = Tail(cleanup)
    /\ UNCHANGED <<use, devvars, refcount, lock, index, used, live, refs, pc, my>>

CleanupClose ==
    /\ closing # None
    /\ CloseContext(closing)
    /\ closing' = None
    /\ UNCHANGED <<use, magic, listed, lock, index, used, refs, cleanup, pc, my>>

Next ==
    \/ Unregister \/ UnregisterWait \/ UnregisterRemove
    \/ CleanupTake \/ CleanupClose
    \/ \E t \in Threads :
        \/ Lookup(t) \/ GetDevice(t) \/ Create(t) \/ Open(t) \/ OpenFail(t) \/ PutDevice(t)
        \/ Put(t) \/ CloseHandler(t) \/ Release(t)
        \/ \E x \in Contexts : Enter(t, x)
        \/ \E u \in Ufds : Get(t, u) \/ Close(t, u)

Spec == Init /\ [][Next]_vars

----------------------------------------------------------------------------
(* Properties                                                              *)

\* The connections a removal of the device must wait for.
Connecting == {t \in Threads : pc[t] \in {"ref", "enter", "put"}}

\* rtdm_dev_unregister(), "This routine waits until all connections to @a device
\* have been closed prior to unregistering".
UnregisteredUnused == ~listed => live = {} /\ Connecting = {}

\* What the code achieves: those that were open when the removal began.
RemovalWaits == ~use.fails /\ ~listed => older = {}

\* A descriptor in the index, or in use by a thread, has its context, whoever
\* closes it and wherever the last reference is dropped.
NoDangling ==
    ~use.fails =>
        /\ \A u \in Ufds : index[u] # None => index[u] \in live
        /\ \A t \in Threads : pc[t] \in {"operate", "close"} => my[t].ctx \in live

\* The device counts its contexts and the calls that are opening one, through
\* direct and deferred closing.
ConnectionsCounted ==
    ~use.fails => refcount = Cardinality(live) + Cardinality(Connecting)


\* RTDM_EXCLUSIVE, "only a single instance can be requested by an application".
ExclusiveInstance == use.exclusive /\ ~use.fails => Cardinality(live) <= 1
============================================================================
