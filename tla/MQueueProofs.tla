---------------------------- MODULE MQueueProofs ----------------------------
(***************************************************************************)
(* A message queue of any size, with any number of senders and receivers,  *)
(* neither leaks nor shares a message slot, leaves nobody waiting for what *)
(* is there, delivers by priority, and tells select() the truth.           *)
(***************************************************************************)
EXTENDS MQueue, PrioListProofs, FiniteSetTheorems

\* What the constants are.
Constants ==
    /\ None \notin Slots /\ Selector \in Threads
    /\ prio \in [Threads -> Int]
    /\ MsgPrios \subseteq Int
    /\ \E p \in MsgPrios : \A r \in MsgPrios : p <= r

Locations == {"idle", "sending", "receiving", "copyin", "copyout", "select", "selected"}

Typed ==
    /\ avail \subseteq Slots /\ queued \in Seq(Slots) /\ msgprio \in [Slots -> Int]
    /\ receivers \in Seq(Threads) /\ senders \in Seq(Threads)
    /\ hold \in [Threads -> Slots \cup {None}]
    /\ pc \in [Threads -> Locations]
    /\ expected \subseteq Kinds /\ watch \subseteq expected

\* The threads on the queues of sleepers are those that sleep, once each.
SleepInv ==
    /\ Distinct(senders) /\ Distinct(receivers)
    /\ \A t \in Threads : Has(senders, t) <=> pc[t] = "sending"
    /\ \A t \in Threads : Has(receivers, t) <=> pc[t] = "receiving"

\* A thread has a slot for as long as it copies.
HoldInv == \A t \in Threads : hold[t] # None <=> pc[t] \in {"copyin", "copyout"}

\* A slot is in one place.
SlotInv ==
    /\ Distinct(queued)
    /\ \A s \in Slots :
        /\ s \in avail \/ Has(queued, s) \/ \E t \in Threads : hold[t] = s
        /\ s \in avail => ~Has(queued, s)
    /\ \A t \in Threads : hold[t] \in Slots =>
        /\ hold[t] \notin avail /\ ~Has(queued, hold[t])
        /\ \A u \in Threads : hold[u] = hold[t] => u = t

Inv == Typed /\ SleepInv /\ HoldInv /\ SlotInv /\ QueueServed /\ SelectSound

----------------------------------------------------------------------------
(* select()                                                                *)

\* What the rest of an action does to pc is done, and select() may be woken.
Moved(at) ==
    /\ pc' \in [Threads -> Locations]
    /\ \A t \in Threads : pc'[t] = at[t] \/ (at[t] = "select" /\ pc'[t] = "selected")

\* xnselect_signal() only wakes the thread that selects.
LEMMA SignalMoves ==
  ASSUME Constants, NEW at \in [Threads -> Locations], NEW kind, NEW state,
         Signal(kind, state, at) \/ NoSignal(at)
  PROVE  Moved(at)
BY DEF Constants, Signal, NoSignal, Moved, Locations

\* An edge of readiness that is signalled, or none, keeps select() informed.
LEMMA SelectKept ==
  ASSUME Constants, Typed, SelectSound, UNCHANGED <<expected, watch>>,
         NEW at \in [Threads -> Locations], at[Selector] = "select" => pc[Selector] = "select",
         NEW kind \in Kinds, NEW state \in BOOLEAN,
         \A k \in Kinds \ {kind} : Ready(k)' = Ready(k),
         \/ Signal(kind, state, at) /\ Ready(kind)' = state
         \/ NoSignal(at) /\ Ready(kind)' = Ready(kind)
  PROVE  SelectSound'
<1>1. CASE Signal(kind, state, at) /\ Ready(kind)' = state
  <2>1. ReadinessExact'
    BY <1>1 DEF Signal, SelectSound, ReadinessExact, Typed, Kinds
  <2>2. SelectorAwake'
    <3> SUFFICES ASSUME pc'[Selector] = "select", NEW k \in watch PROVE ~Ready(k)'
      BY DEF SelectorAwake
    <3>1. at[Selector] = "select" /\ ~(kind \in expected /\ state /\ kind \notin pending)
      BY <1>1 DEF Signal, Constants, Locations
    <3>2. k \in expected /\ k \in Kinds /\ ~Ready(k) /\ k \notin pending
      BY <3>1 DEF SelectSound, SelectorAwake, ReadinessExact, Typed
    <3> QED
      BY <1>1, <3>1, <3>2
  <2> QED
    BY <2>1, <2>2 DEF SelectSound
<1>2. CASE NoSignal(at) /\ Ready(kind)' = Ready(kind)
  <2>1. \A k \in Kinds : Ready(k)' = Ready(k)
    BY <1>2
  <2>2. pending' = pending /\ pc' = at
    BY <1>2 DEF NoSignal
  <2>3. ReadinessExact'
    BY <2>1, <2>2 DEF SelectSound, ReadinessExact, Typed
  <2>4. SelectorAwake'
    BY <2>1, <2>2 DEF SelectSound, SelectorAwake, Typed
  <2> QED
    BY <2>3, <2>4 DEF SelectSound
<1> QED
  BY <1>1, <1>2

----------------------------------------------------------------------------
(* The queue                                                               *)

\* The places of the threads that do not select are those the action gives.
LEMMA MovedKeeps ==
  ASSUME NEW at, Moved(at), NEW t \in Threads,
         NEW l \in {"idle", "sending", "receiving", "copyin", "copyout"}
  PROVE  pc'[t] = l <=> at[t] = l
BY DEF Moved

\* A sender takes a slot or goes to sleep.
LEMMA SendInv ==
  ASSUME Constants, Inv, NEW t \in Threads, Send(t)
  PROVE  Inv'
<1>1. /\ pc[t] = "idle" /\ hold[t] = None /\ ~Has(senders, t)
      /\ UNCHANGED <<queued, msgprio, receivers, expected, watch>>
  BY DEF Send, Inv, HoldInv, SleepInv
<1>2. ASSUME NEW s \in avail, TrySend(t, s)
      PROVE  Inv'
  <2> DEFINE at == [pc EXCEPT ![t] = "copyin"]
  <2>1. at \in [Threads -> Locations] /\ (at[Selector] = "select" => pc[Selector] = "select")
    BY DEF Inv, Typed, Locations, Constants
  <2>2. avail' = avail \ {s} /\ hold' = [hold EXCEPT ![t] = s] /\ senders' = senders
    BY <1>2 DEF TrySend
  <2>3. \/ Signal("write", FALSE, at) /\ avail' = {}
        \/ NoSignal(at) /\ avail' # {}
    BY Zenon, <1>2 DEF TrySend
  <2> HIDE DEF at
  <2>4. Moved(at)
    BY Zenon, <2>1, <2>3, SignalMoves
  <2>5. Typed'
    BY Zenon, <1>1, <2>2, <2>4 DEF Inv, Typed, Moved
  <2>6. \A u \in Threads : u # t => hold'[u] = hold[u]
    BY <2>2
  <2>7. hold'[t] = s
    BY <2>2 DEF Inv, Typed
  <2>8. ASSUME NEW u \in Threads, NEW l \in {"sending", "receiving", "copyin", "copyout"}
        PROVE  pc'[u] = l <=> IF u = t THEN l = "copyin" ELSE pc[u] = l
    <3>1. at[u] = IF u = t THEN "copyin" ELSE pc[u]
      BY DEF at, Inv, Typed
    <3>2. pc'[u] = l <=> at[u] = l
      BY <2>4, MovedKeeps
    <3> QED
      BY <3>1, <3>2
  <2>9. SleepInv'
    BY <1>1, <2>2, <2>8 DEF Inv, SleepInv
  <2>10. HoldInv'
    BY <2>6, <2>7, <2>8 DEF Inv, HoldInv, Typed, Constants
  <2>11. SlotInv'
    BY <1>1, <2>2, <2>6, <2>7 DEF Inv, SlotInv, Typed, Constants
  <2>12. QueueServed'
    BY <1>1, <2>2 DEF Inv, QueueServed, NobodyStarved, QueuedByPriority
  <2>13. SelectSound'
    <3>1. Ready("read")' = Ready("read") /\ Ready("write") = TRUE /\ Ready("write")' = (avail' # {})
      BY <1>1 DEF Ready
    <3>2. "write" \in Kinds /\ \A k \in Kinds \ {"write"} : Ready(k)' = Ready(k)
      BY <3>1 DEF Kinds
    <3> QED
      BY Zenon, <1>1, <2>1, <2>3, <3>1, <3>2, SelectKept DEF Inv
  <2> QED
    BY <2>5, <2>9, <2>10, <2>11, <2>12, <2>13 DEF Inv
<1>3. CASE /\ avail = {} /\ senders' = AddPriff(senders, t, prio)
           /\ NoSignal([pc EXCEPT ![t] = "sending"]) /\ UNCHANGED <<avail, hold>>
  <2>1. /\ senders' \in Seq(Threads) /\ Distinct(senders')
        /\ \A x : Has(senders', x) <=> x = t \/ Has(senders, x)
    BY Zenon, <1>1, <1>3, AddPriffProperties DEF Inv, Typed, SleepInv, Constants
  <2>2. pc' = [pc EXCEPT ![t] = "sending"] /\ pending' = pending
    BY <1>3 DEF NoSignal
  <2>3. Typed'
    BY <1>1, <1>3, <2>1, <2>2 DEF Inv, Typed, Locations
  <2>4. SleepInv'
    BY <1>1, <2>1, <2>2 DEF Inv, Typed, SleepInv
  <2>5. HoldInv' /\ SlotInv'
    BY <1>1, <1>3, <2>2 DEF Inv, Typed, HoldInv, SlotInv
  <2>6. QueueServed'
    BY <1>1, <1>3 DEF Inv, QueueServed, NobodyStarved, QueuedByPriority
  <2>7. SelectSound'
    BY <1>1, <1>3, <2>2 DEF Inv, Typed, Constants, SelectSound, ReadinessExact, SelectorAwake, Ready
  <2> QED
    BY <2>3, <2>4, <2>5, <2>6, <2>7 DEF Inv
<1> QED
  BY <1>2, <1>3 DEF Send

\* A slot that is given back goes to the first sleeping sender, or to the pool.
LEMMA ReleaseInv ==
  ASSUME Constants, Inv, NEW t \in Threads, pc[t] \in {"copyin", "copyout"}, ReleaseMsg(t, hold[t]),
         UNCHANGED <<queued, msgprio, receivers, expected, watch>>
  PROVE  Inv'
<1> DEFINE s == hold[t]
<1>1. /\ s \in Slots /\ s \notin avail /\ ~Has(queued, s)
      /\ \A u \in Threads : hold[u] = s => u = t
  BY DEF Inv, Typed, HoldInv, SlotInv
<1>2. CASE /\ senders # <<>> /\ senders' = Tail(senders)
           /\ hold' = [hold EXCEPT ![t] = None, ![Head(senders)] = s]
           /\ NoSignal([pc EXCEPT ![t] = "idle", ![Head(senders)] = "copyin"])
           /\ UNCHANGED avail
  <2>1. PICK h \in Threads : h = Head(senders) /\ pc[h] = "sending"
    BY Zenon, <1>2, TailProperties DEF Inv, Typed, SleepInv
  <2>2. /\ senders' \in Seq(Threads) /\ Distinct(senders')
        /\ \A x : Has(senders', x) <=> Has(senders, x) /\ x # h
    BY Zenon, <1>2, <2>1, TailProperties DEF Inv, Typed, SleepInv
  <2>3. /\ pc' = [pc EXCEPT ![t] = "idle", ![h] = "copyin"] /\ pending' = pending
        /\ hold' = [hold EXCEPT ![t] = None, ![h] = s] /\ h # t
    BY <1>2, <2>1 DEF NoSignal
  <2>4. Typed'
    BY Zenon, <1>1, <1>2, <2>2, <2>3 DEF Inv, Typed, Locations
  <2>5. \A u \in Threads : /\ hold'[u] = IF u = h THEN s ELSE IF u = t THEN None ELSE hold[u]
                           /\ pc'[u] = IF u = h THEN "copyin" ELSE IF u = t THEN "idle" ELSE pc[u]
    BY <2>3 DEF Inv, Typed
  <2>6. SleepInv'
    <3>1. \A u \in Threads : Has(senders', u) <=> pc'[u] = "sending"
      BY <2>2, <2>5 DEF Inv, SleepInv
    <3>2. \A u \in Threads : Has(receivers', u) <=> pc'[u] = "receiving"
      BY <2>1, <2>5 DEF Inv, SleepInv
    <3> QED
      BY <2>2, <3>1, <3>2 DEF Inv, SleepInv
  <2>7. HoldInv'
    BY <1>1, <2>5 DEF Inv, HoldInv, Constants
  <2>8. hold[h] = None
    BY <2>1 DEF Inv, HoldInv
  <2>9. SlotInv'
    <3> HIDE DEF s
    <3>1. ASSUME NEW r \in Slots
          PROVE  r \in avail \/ Has(queued, r) \/ \E u \in Threads : hold'[u] = r
      BY <2>5, <2>8 DEF Inv, SlotInv, Constants, s
    <3>2. ASSUME NEW u \in Threads, hold'[u] \in Slots
          PROVE  /\ hold'[u] \notin avail /\ ~Has(queued, hold'[u])
                 /\ \A v \in Threads : hold'[v] = hold'[u] => v = u
      <4>1. CASE u = h
        BY <1>1, <2>5, <4>1 DEF Constants
      <4>2. CASE u # h
        <5>1. u # t /\ hold'[u] = hold[u] /\ hold[u] \in Slots /\ hold[u] # s
          BY <1>1, <2>5, <3>2, <4>2 DEF Constants
        <5> QED
          BY <2>5, <5>1 DEF Inv, SlotInv, Constants
      <4> QED
        BY <4>1, <4>2
    <3>3. /\ Distinct(queued) /\ \A r \in Slots : r \in avail => ~Has(queued, r)
          /\ avail' = avail /\ queued' = queued
      BY <1>2 DEF Inv, SlotInv
    <3> QED
      BY <3>1, <3>2, <3>3 DEF SlotInv
  <2>10. senders # <<>> /\ avail' = {} /\ avail = {}
    BY <1>2 DEF Inv, QueueServed, NobodyStarved
  <2>11. QueueServed'
    BY <2>10 DEF Inv, QueueServed, NobodyStarved, QueuedByPriority
  <2>12. SelectSound'
    BY <2>3, <2>5, <2>10 DEF Inv, Typed, Constants, SelectSound, ReadinessExact, SelectorAwake, Ready
  <2> QED
    BY <2>4, <2>6, <2>7, <2>9, <2>11, <2>12 DEF Inv
<1>3. CASE /\ senders = <<>> /\ avail' = avail \cup {s} /\ hold' = [hold EXCEPT ![t] = None]
           /\ LET at == [pc EXCEPT ![t] = "idle"]
              IN  IF avail = {} THEN Signal("write", TRUE, at) ELSE NoSignal(at)
           /\ UNCHANGED senders
  <2> DEFINE at == [pc EXCEPT ![t] = "idle"]
  <2>1. at \in [Threads -> Locations] /\ (at[Selector] = "select" => pc[Selector] = "select")
    BY DEF Inv, Typed, Locations, Constants
  <2>2. \/ Signal("write", TRUE, at) /\ avail = {}
        \/ NoSignal(at) /\ avail # {}
    BY Zenon, <1>3
  <2> HIDE DEF at, s
  <2>3. Moved(at)
    BY Zenon, <2>1, <2>2, SignalMoves
  <2>4. Typed'
    BY Zenon, <1>1, <1>3, <2>3 DEF Inv, Typed, Moved
  <2>5. \A u \in Threads : hold'[u] = IF u = t THEN None ELSE hold[u]
    BY <1>3 DEF Inv, Typed
  <2>6. ASSUME NEW u \in Threads, NEW l \in {"sending", "receiving", "copyin", "copyout"}
        PROVE  pc'[u] = l <=> u # t /\ pc[u] = l
    <3>1. at[u] = IF u = t THEN "idle" ELSE pc[u]
      BY DEF at, Inv, Typed
    <3>2. pc'[u] = l <=> at[u] = l
      BY <2>3, MovedKeeps
    <3> QED
      BY <3>1, <3>2
  <2>7. SleepInv'
    BY <1>3, <2>6 DEF Inv, SleepInv
  <2>8. HoldInv'
    BY <2>5, <2>6 DEF Inv, HoldInv
  <2>9. SlotInv'
    BY <1>1, <1>3, <2>5 DEF Inv, SlotInv, Constants, s
  <2>10. QueueServed'
    BY <1>3 DEF Inv, QueueServed, NobodyStarved, QueuedByPriority
  <2>11. SelectSound'
    <3>1. Ready("read")' = Ready("read") /\ Ready("write") = (avail # {}) /\ Ready("write")' = TRUE
      BY <1>3 DEF Ready
    <3>2. "write" \in Kinds /\ \A k \in Kinds \ {"write"} : Ready(k)' = Ready(k)
      BY <3>1 DEF Kinds
    <3> QED
      BY Zenon, <2>1, <2>2, <3>1, <3>2, SelectKept DEF Inv
  <2> QED
    BY <2>4, <2>7, <2>8, <2>9, <2>10, <2>11 DEF Inv
<1> QED
  BY Zenon, <1>2, <1>3 DEF ReleaseMsg

\* A priority that is given to a slot outside of the queue does not disturb it.
LEMMA SortedKept ==
  ASSUME Typed, SlotInv, NEW s \in Slots, ~Has(queued, s), NEW p \in Int, Sorted(queued, msgprio),
         msgprio' = [msgprio EXCEPT ![s] = p]
  PROVE  Sorted(queued, msgprio')
<1>1. \A i \in 1 .. Len(queued) : msgprio'[queued[i]] = msgprio[queued[i]]
  BY DEF Typed, Has
<1> QED
  BY <1>1 DEF Sorted

\* A message goes to the first sleeping receiver, or is queued by priority.
LEMMA FinishSendInv ==
  ASSUME Constants, Inv, NEW t \in Threads, NEW p \in MsgPrios, FinishSend(t, p)
  PROVE  Inv'
<1> DEFINE s == hold[t]
<1>1. /\ s \in Slots /\ s \notin avail /\ ~Has(queued, s) /\ pc[t] = "copyin"
      /\ \A u \in Threads : hold[u] = s => u = t
  BY DEF FinishSend, Inv, Typed, HoldInv, SlotInv
<1>2. msgprio' = [msgprio EXCEPT ![s] = p] /\ msgprio' \in [Slots -> Int]
  BY <1>1 DEF FinishSend, Inv, Typed, Constants
<1>3. UNCHANGED <<avail, senders, expected, watch>>
  BY DEF FinishSend
<1>4. CASE /\ receivers # <<>> /\ receivers' = Tail(receivers)
           /\ hold' = [hold EXCEPT ![t] = None, ![Head(receivers)] = s]
           /\ NoSignal([pc EXCEPT ![t] = "idle", ![Head(receivers)] = "copyout"])
           /\ UNCHANGED queued
  <2>1. PICK h \in Threads : h = Head(receivers) /\ pc[h] = "receiving"
    BY Zenon, <1>4, TailProperties DEF Inv, Typed, SleepInv
  <2>2. /\ receivers' \in Seq(Threads) /\ Distinct(receivers')
        /\ \A x : Has(receivers', x) <=> Has(receivers, x) /\ x # h
    BY Zenon, <1>4, <2>1, TailProperties DEF Inv, Typed, SleepInv
  <2>3. /\ pc' = [pc EXCEPT ![t] = "idle", ![h] = "copyout"] /\ pending' = pending
        /\ hold' = [hold EXCEPT ![t] = None, ![h] = s] /\ h # t
    BY <1>1, <1>4, <2>1 DEF NoSignal
  <2> HIDE DEF s
  <2>4. Typed'
    BY Zenon, <1>1, <1>2, <1>3, <1>4, <2>2, <2>3 DEF Inv, Typed, Locations
  <2>5. \A u \in Threads : /\ hold'[u] = IF u = h THEN s ELSE IF u = t THEN None ELSE hold[u]
                           /\ pc'[u] = IF u = h THEN "copyout" ELSE IF u = t THEN "idle" ELSE pc[u]
    BY <2>3 DEF Inv, Typed
  <2>6. SleepInv'
    <3>1. \A u \in Threads : Has(senders', u) <=> pc'[u] = "sending"
      BY <1>1, <1>3, <2>1, <2>5 DEF Inv, SleepInv
    <3>2. \A u \in Threads : Has(receivers', u) <=> pc'[u] = "receiving"
      BY <1>1, <2>2, <2>5 DEF Inv, SleepInv
    <3> QED
      BY <1>3, <2>2, <3>1, <3>2 DEF Inv, SleepInv
  <2>7. HoldInv'
    BY <1>1, <2>5 DEF Inv, HoldInv, Constants
  <2>8. SlotInv'
    <3>1. ASSUME NEW r \in Slots
          PROVE  r \in avail \/ Has(queued, r) \/ \E u \in Threads : hold'[u] = r
      <4>1. hold[h] = None
        BY <2>1 DEF Inv, HoldInv
      <4> QED
        BY <2>5, <4>1 DEF Inv, SlotInv, Constants, s
    <3>2. ASSUME NEW u \in Threads, hold'[u] \in Slots
          PROVE  /\ hold'[u] \notin avail /\ ~Has(queued, hold'[u])
                 /\ \A v \in Threads : hold'[v] = hold'[u] => v = u
      <4>1. CASE u = h
        BY <1>1, <2>5, <4>1 DEF Constants
      <4>2. CASE u # h
        <5>1. u # t /\ hold'[u] = hold[u] /\ hold[u] \in Slots /\ hold[u] # s
          BY <1>1, <2>5, <3>2, <4>2 DEF Constants
        <5> QED
          BY <2>5, <5>1 DEF Inv, SlotInv, Constants
      <4> QED
        BY <4>1, <4>2
    <3>3. /\ Distinct(queued) /\ \A r \in Slots : r \in avail => ~Has(queued, r)
          /\ avail' = avail /\ queued' = queued
      BY <1>3, <1>4 DEF Inv, SlotInv
    <3> QED
      BY <3>1, <3>2, <3>3 DEF SlotInv
  <2>9. queued = <<>> /\ queued' = <<>>
    BY <1>4 DEF Inv, QueueServed, NobodyStarved
  <2>10. QueueServed'
    BY <1>3, <2>9 DEF Inv, QueueServed, NobodyStarved, QueuedByPriority, Sorted
  <2>11. SelectSound'
    BY <1>3, <2>3, <2>5, <2>9 DEF Inv, Typed, Constants, SelectSound, ReadinessExact, SelectorAwake, Ready
  <2> QED
    BY <2>4, <2>6, <2>7, <2>8, <2>10, <2>11 DEF Inv
<1>5. CASE /\ receivers = <<>> /\ queued' = AddPriff(queued, s, msgprio')
           /\ hold' = [hold EXCEPT ![t] = None]
           /\ LET at == [pc EXCEPT ![t] = "idle"]
              IN  IF queued = <<>> THEN Signal("read", TRUE, at) ELSE NoSignal(at)
           /\ UNCHANGED receivers
  <2> DEFINE at == [pc EXCEPT ![t] = "idle"]
  <2>1. at \in [Threads -> Locations] /\ (at[Selector] = "select" => pc[Selector] = "select")
    BY DEF Inv, Typed, Locations, Constants
  <2>2. \/ Signal("read", TRUE, at) /\ queued = <<>>
        \/ NoSignal(at) /\ queued # <<>>
    BY Zenon, <1>5
  <2> HIDE DEF at, s
  <2>3. Moved(at)
    BY Zenon, <2>1, <2>2, SignalMoves
  <2>4. Sorted(queued, msgprio')
    BY Zenon, <1>1, <1>2, SortedKept DEF Inv, QueueServed, QueuedByPriority, Constants
  <2>5. /\ queued' \in Seq(Slots) /\ queued' # <<>> /\ Distinct(queued') /\ Sorted(queued', msgprio')
        /\ \A x : Has(queued', x) <=> x = s \/ Has(queued, x)
    <3>1. queued \in Seq(Slots) /\ Distinct(queued)
      BY DEF Inv, Typed, SlotInv
    <3>2. ASSUME NEW pr \in [Slots -> Int], Sorted(queued, pr)
          PROVE  LET q == AddPriff(queued, s, pr)
                 IN  /\ q \in Seq(Slots) /\ q # <<>> /\ Distinct(q) /\ Sorted(q, pr)
                     /\ \A x : Has(q, x) <=> x = s \/ Has(queued, x)
      BY Zenon, <1>1, <3>1, <3>2, AddPriffProperties
    <3>3. queued' = AddPriff(queued, s, msgprio')
      BY <1>5
    <3> QED
      BY Zenon, <1>2, <2>4, <3>2, <3>3
  <2>6. Typed'
    BY Zenon, <1>2, <1>3, <1>5, <2>3, <2>5 DEF Inv, Typed, Moved
  <2>7. \A u \in Threads : hold'[u] = IF u = t THEN None ELSE hold[u]
    BY <1>5 DEF Inv, Typed
  <2>8. ASSUME NEW u \in Threads, NEW l \in {"sending", "receiving", "copyin", "copyout"}
        PROVE  pc'[u] = l <=> u # t /\ pc[u] = l
    <3>1. at[u] = IF u = t THEN "idle" ELSE pc[u]
      BY DEF at, Inv, Typed
    <3>2. pc'[u] = l <=> at[u] = l
      BY <2>3, MovedKeeps
    <3> QED
      BY <3>1, <3>2
  <2>9. SleepInv'
    BY <1>1, <1>3, <1>5, <2>8 DEF Inv, SleepInv
  <2>10. HoldInv'
    BY SMTT(30), <2>7, <2>8 DEF Inv, HoldInv
  <2>11. SlotInv'
    BY <1>1, <1>3, <2>5, <2>7 DEF Inv, SlotInv, Constants, s
  <2>12. QueueServed'
    BY <1>3, <1>5, <2>5 DEF Inv, QueueServed, NobodyStarved, QueuedByPriority
  <2>13. SelectSound'
    <3>1. Ready("write")' = Ready("write") /\ Ready("read") = (queued # <<>>) /\ Ready("read")' = TRUE
      BY <1>3, <2>5 DEF Ready
    <3>2. "read" \in Kinds /\ \A k \in Kinds \ {"read"} : Ready(k)' = Ready(k)
      BY <3>1 DEF Kinds
    <3> QED
      BY Zenon, <1>3, <2>1, <2>2, <3>1, <3>2, SelectKept DEF Inv
  <2> QED
    BY <2>6, <2>9, <2>10, <2>11, <2>12, <2>13 DEF Inv
<1> QED
  BY Zenon, <1>4, <1>5 DEF FinishSend

\* A receiver takes the first message or goes to sleep.
LEMMA ReceiveInv ==
  ASSUME Constants, Inv, NEW t \in Threads, Receive(t)
  PROVE  Inv'
<1>1. /\ pc[t] = "idle" /\ hold[t] = None /\ ~Has(receivers, t)
      /\ UNCHANGED <<avail, msgprio, senders, expected, watch>>
  BY DEF Receive, Inv, HoldInv, SleepInv
<1>2. CASE TryRcv(t)
  <2> DEFINE at == [pc EXCEPT ![t] = "copyout"]
             s == Head(queued)
  <2>1. at \in [Threads -> Locations] /\ (at[Selector] = "select" => pc[Selector] = "select")
    BY DEF Inv, Typed, Locations, Constants
  <2>2. /\ queued # <<>> /\ queued' = Tail(queued) /\ hold' = [hold EXCEPT ![t] = s]
        /\ receivers' = receivers
    BY <1>2 DEF TryRcv
  <2>3. \/ Signal("read", FALSE, at) /\ queued' = <<>>
        \/ NoSignal(at) /\ queued' # <<>>
    BY Zenon, <1>2 DEF TryRcv
  <2>4. /\ s \in Slots /\ Has(queued, s) /\ queued' \in Seq(Slots) /\ Distinct(queued')
        /\ \A x : Has(queued', x) <=> Has(queued, x) /\ x # s
        /\ Sorted(queued', msgprio)
    BY <2>2, TailProperties DEF Inv, Typed, SlotInv, QueueServed, QueuedByPriority
  <2> HIDE DEF at, s
  <2>5. Moved(at)
    BY Zenon, <2>1, <2>3, SignalMoves
  <2>6. Typed'
    BY Zenon, <1>1, <2>2, <2>4, <2>5 DEF Inv, Typed, Moved
  <2>7. \A u \in Threads : hold'[u] = IF u = t THEN s ELSE hold[u]
    BY <2>2 DEF Inv, Typed
  <2>8. ASSUME NEW u \in Threads, NEW l \in {"sending", "receiving", "copyin", "copyout"}
        PROVE  pc'[u] = l <=> IF u = t THEN l = "copyout" ELSE pc[u] = l
    <3>1. at[u] = IF u = t THEN "copyout" ELSE pc[u]
      BY DEF at, Inv, Typed
    <3>2. pc'[u] = l <=> at[u] = l
      BY <2>5, MovedKeeps
    <3> QED
      BY <3>1, <3>2
  <2>9. SleepInv'
    BY SMTT(30), <1>1, <2>2, <2>8 DEF Inv, SleepInv
  <2>10. HoldInv'
    BY SMTT(30), <2>4, <2>7, <2>8 DEF Inv, HoldInv, Constants
  <2>11. SlotInv'
    BY <1>1, <2>4, <2>7 DEF Inv, SlotInv, Constants
  <2>12. QueueServed'
    BY <1>1, <2>2, <2>4 DEF Inv, QueueServed, NobodyStarved, QueuedByPriority
  <2>13. SelectSound'
    <3>1. Ready("write")' = Ready("write") /\ Ready("read") = TRUE /\ Ready("read")' = (queued' # <<>>)
      BY <1>1, <2>2 DEF Ready
    <3>2. "read" \in Kinds /\ \A k \in Kinds \ {"read"} : Ready(k)' = Ready(k)
      BY <3>1 DEF Kinds
    <3> QED
      BY Zenon, <1>1, <2>1, <2>3, <3>1, <3>2, SelectKept DEF Inv
  <2> QED
    BY <2>6, <2>9, <2>10, <2>11, <2>12, <2>13 DEF Inv
<1>3. CASE /\ queued = <<>> /\ receivers' = AddPriff(receivers, t, prio)
           /\ NoSignal([pc EXCEPT ![t] = "receiving"]) /\ UNCHANGED <<queued, hold>>
  <2>1. /\ receivers' \in Seq(Threads) /\ Distinct(receivers')
        /\ \A x : Has(receivers', x) <=> x = t \/ Has(receivers, x)
    BY Zenon, <1>1, <1>3, AddPriffProperties DEF Inv, Typed, SleepInv, Constants
  <2>2. pc' = [pc EXCEPT ![t] = "receiving"] /\ pending' = pending
    BY <1>3 DEF NoSignal
  <2>3. Typed'
    BY <1>1, <1>3, <2>1, <2>2 DEF Inv, Typed, Locations
  <2>4. SleepInv'
    BY <1>1, <2>1, <2>2 DEF Inv, Typed, SleepInv
  <2>5. HoldInv' /\ SlotInv'
    BY <1>1, <1>3, <2>2 DEF Inv, Typed, HoldInv, SlotInv
  <2>6. QueueServed'
    BY <1>1, <1>3 DEF Inv, QueueServed, NobodyStarved, QueuedByPriority
  <2>7. SelectSound'
    BY <1>1, <1>3, <2>2 DEF Inv, Typed, Constants, SelectSound, ReadinessExact, SelectorAwake, Ready
  <2> QED
    BY <2>3, <2>4, <2>5, <2>6, <2>7 DEF Inv
<1> QED
  BY <1>2, <1>3 DEF Receive

\* A sleeper gives up.
LEMMA AbortInv ==
  ASSUME Constants, Inv, NEW t \in Threads, Abort(t)
  PROVE  Inv'
<1>1. pc' = [pc EXCEPT ![t] = "idle"]
      /\ UNCHANGED <<avail, queued, msgprio, hold, expected, pending, watch>>
  BY SMTT(30) DEF Abort
<1>2. /\ senders' \in Seq(Threads) /\ Distinct(senders') /\ (senders' # <<>> => senders # <<>>)
      /\ receivers' \in Seq(Threads) /\ Distinct(receivers') /\ (receivers' # <<>> => receivers # <<>>)
      /\ \A u \in Threads : Has(senders', u) <=> Has(senders, u) /\ u # t
      /\ \A u \in Threads : Has(receivers', u) <=> Has(receivers, u) /\ u # t
  <2>1. CASE pc[t] = "sending" /\ senders' = Delete(senders, t) /\ UNCHANGED receivers
    <3>1. Has(senders, t) /\ ~Has(receivers, t) /\ senders # <<>>
      BY <2>1 DEF Inv, SleepInv, Has
    <3> QED
      BY Zenon, <2>1, <3>1, DeleteProperties DEF Inv, Typed, SleepInv
  <2>2. CASE pc[t] = "receiving" /\ receivers' = Delete(receivers, t) /\ UNCHANGED senders
    <3>1. Has(receivers, t) /\ ~Has(senders, t) /\ receivers # <<>>
      BY <2>2 DEF Inv, SleepInv, Has
    <3> QED
      BY Zenon, <2>2, <3>1, DeleteProperties DEF Inv, Typed, SleepInv
  <2> QED
    BY SMTT(30), <2>1, <2>2 DEF Abort
<1>3. pc[t] \in {"sending", "receiving"}
  BY DEF Abort
<1>4. Typed'
  BY <1>1, <1>2 DEF Inv, Typed, Locations
<1>5. SleepInv'
  BY <1>1, <1>2 DEF Inv, Typed, SleepInv
<1>6. HoldInv' /\ SlotInv'
  BY <1>1, <1>3 DEF Inv, Typed, HoldInv, SlotInv
<1>7. QueueServed'
  BY <1>1, <1>2 DEF Inv, QueueServed, NobodyStarved, QueuedByPriority
<1>8. SelectSound'
  BY <1>1 DEF Inv, Typed, Constants, SelectSound, ReadinessExact, SelectorAwake, Ready
<1> QED
  BY <1>4, <1>5, <1>6, <1>7, <1>8 DEF Inv

\* Binding a selector, sleeping in select() and leaving it.
LEMMA SelectInv ==
  ASSUME Constants, Inv,
         \/ \E kind \in Kinds : SelectBind(kind)
         \/ \E kinds \in SUBSET Kinds : Select(kinds)
         \/ SelectWoken \/ SelectAbort
  PROVE  Inv'
<1>1. UNCHANGED <<avail, queued, msgprio, receivers, senders, hold>>
  BY DEF SelectBind, Select, SelectWoken, SelectAbort
<1>2. \A k : Ready(k)' = Ready(k)
  BY <1>1 DEF Ready
<1>3. /\ pc' \in [Threads -> Locations]
      /\ pc'[Selector] # pc[Selector] => /\ pc[Selector] \in {"idle", "select", "selected"}
                                         /\ pc'[Selector] \in {"idle", "select"}
      /\ \A u \in Threads : u # Selector => pc'[u] = pc[u]
  BY Zenon DEF Inv, Typed, Constants, Locations, SelectBind, Select, SelectWoken, SelectAbort
<1>4. expected' \subseteq Kinds /\ watch' \subseteq expected' /\ SelectSound'
  <2>1. CASE \E kind \in Kinds : SelectBind(kind)
    BY <1>2, <2>1 DEF Inv, Typed, SelectBind, SelectSound, ReadinessExact, SelectorAwake
  <2>2. CASE \E kinds \in SUBSET Kinds : Select(kinds)
    BY <1>2, <2>2 DEF Inv, Typed, Select, SelectSound, ReadinessExact, SelectorAwake
  <2>3. CASE SelectWoken
    BY <1>2, <2>3 DEF Inv, Typed, Constants, SelectWoken, SelectSound, ReadinessExact, SelectorAwake
  <2>4. CASE SelectAbort
    BY <1>2, <2>4 DEF Inv, Typed, Constants, SelectAbort, SelectSound, ReadinessExact, SelectorAwake
  <2> QED
    BY <2>1, <2>2, <2>3, <2>4
<1>5. Typed'
  BY <1>1, <1>3, <1>4 DEF Inv, Typed
<1>6. \A u \in Threads, l \in {"sending", "receiving", "copyin", "copyout"} : pc'[u] = l <=> pc[u] = l
  BY SMTT(30), <1>3
<1>7. SleepInv' /\ HoldInv' /\ SlotInv'
  BY <1>1, <1>6 DEF Inv, SleepInv, HoldInv, SlotInv
<1>8. QueueServed'
  BY <1>1 DEF Inv, QueueServed, NobodyStarved, QueuedByPriority
<1> QED
  BY <1>4, <1>5, <1>7, <1>8 DEF Inv

----------------------------------------------------------------------------
\* A queue is created with all its slots free and nobody around.
LEMMA InitInv ==
  ASSUME Constants, Init
  PROVE  Inv
<1>1. msgprio \in [Slots -> Int]
  BY Zenon DEF Init, Constants
<1>2. /\ queued = <<>> /\ receivers = <<>> /\ senders = <<>>
      /\ <<>> \in Seq(Slots) /\ <<>> \in Seq(Threads) /\ Distinct(<<>>) /\ \A x : ~Has(<<>>, x)
  BY DEF Init, Distinct, Has
<1>3. Typed /\ SleepInv /\ HoldInv
  BY <1>1, <1>2 DEF Init, Typed, Locations, SleepInv, HoldInv
<1>4. SlotInv
  BY <1>2 DEF Init, SlotInv, Constants
<1>5. QueueServed /\ SelectSound
  BY <1>2 DEF Init, QueueServed, NobodyStarved, QueuedByPriority, Sorted, SelectSound, ReadinessExact,
     SelectorAwake
<1> QED
  BY <1>3, <1>4, <1>5 DEF Inv

\* Every step keeps the invariant.
LEMMA NextInv ==
  ASSUME Constants, Inv, [Next]_vars
  PROVE  Inv'
<1>1. ASSUME UNCHANGED <<avail, queued, msgprio, receivers, senders, hold, pc, expected, pending, watch>>
      PROVE  Inv'
  <2>1. Typed' /\ SleepInv' /\ HoldInv' /\ SlotInv'
    BY <1>1 DEF Inv, Typed, SleepInv, HoldInv, SlotInv
  <2>2. QueueServed' /\ SelectSound'
    BY <1>1 DEF Inv, QueueServed, NobodyStarved, QueuedByPriority, SelectSound, ReadinessExact, SelectorAwake,
       Ready
  <2> QED
    BY <2>1, <2>2 DEF Inv
<1>2. ASSUME NEW t \in Threads, Send(t) \/ Receive(t) \/ Abort(t) \/ \E p \in MsgPrios : FinishSend(t, p)
      PROVE  Inv'
  BY SMTT(30), <1>2, SendInv, ReceiveInv, AbortInv, FinishSendInv
<1>3. ASSUME NEW t \in Threads, SendFault(t) \/ FinishRcv(t)
      PROVE  Inv'
  BY <1>3, ReleaseInv DEF SendFault, FinishRcv
<1>4. ASSUME NEW t \in Threads, Notify(t)
      PROVE  Inv'
  BY <1>1, <1>4 DEF Notify
<1>5. CASE UNCHANGED vars
  BY <1>1, <1>5 DEF vars
<1> QED
  BY <1>2, <1>3, <1>4, <1>5, SelectInv DEF Next

\* Invariance of the places of slots and threads, and what follows from it.
THEOREM QueueInvariance ==
  ASSUME Constants
  PROVE  Spec => []Inv
<1>1. Init => Inv
  BY InitInv
<1>2. Inv /\ [Next]_vars => Inv'
  BY NextInv
<1> QED
  BY <1>1, <1>2, PTL DEF Spec

\* Over direct hand-overs, failed copies and sleepers that give up, every message
\* slot is in the pool, in the queue or with one thread, and nowhere else.
THEOREM SlotsKept ==
  ASSUME Constants
  PROVE  Spec => []SlotsConserved
<1>1. ASSUME Inv, NEW s \in Slots PROVE Places(s) = 1
  <2> DEFINE InQueue == {i \in DOMAIN queued : queued[i] = s}
  <2>1. DOMAIN queued = 1 .. Len(queued)
    BY <1>1 DEF Inv, Typed
  <2>2. CASE s \in avail
    <3>1. InQueue = {} /\ Holders(s) = {}
      BY <1>1, <2>1, <2>2 DEF Inv, SlotInv, Has, Holders
    <3> QED
      BY <2>2, <3>1, FS_EmptySet DEF Places
  <2>3. CASE Has(queued, s)
    <3>1. PICK i \in 1 .. Len(queued) : queued[i] = s
      BY <2>3 DEF Has
    <3>2. InQueue = {i}
      BY <1>1, <2>1, <3>1 DEF Inv, SlotInv, Distinct
    <3>3. Holders(s) = {} /\ s \notin avail
      BY <1>1, <2>3 DEF Inv, SlotInv, Holders
    <3>4. Cardinality(InQueue) = 1 /\ Cardinality(Holders(s)) = 0
      BY Zenon, <3>2, <3>3, FS_EmptySet, FS_Singleton
    <3> QED
      BY <3>3, <3>4 DEF Places
  <2>4. CASE \E t \in Threads : hold[t] = s
    <3>1. PICK t \in Threads : hold[t] = s
      BY <2>4
    <3>2. Holders(s) = {t} /\ InQueue = {} /\ s \notin avail
      BY <1>1, <2>1, <3>1 DEF Inv, SlotInv, Has, Holders
    <3>3. Cardinality(InQueue) = 0 /\ Cardinality(Holders(s)) = 1
      BY <3>2, FS_EmptySet, FS_Singleton
    <3> QED
      BY <3>2, <3>3 DEF Places
  <2> QED
    BY <1>1, <2>2, <2>3, <2>4 DEF Inv, SlotInv
<1>2. Inv => SlotsConserved
  BY <1>1 DEF SlotsConserved
<1> QED
  BY <1>2, QueueInvariance, PTL

\* No receiver sleeps while a message is queued and no sender while a slot is
\* free, and messages are queued by decreasing priority.
THEOREM UsersServed ==
  ASSUME Constants
  PROVE  Spec => []QueueServed
<1>1. Inv => QueueServed
  BY DEF Inv
<1> QED
  BY <1>1, QueueInvariance, PTL

\* The bits of a selector are the readiness of the queue, and nobody sleeps in
\* select() on what is ready.
THEOREM SelectInformed ==
  ASSUME Constants
  PROVE  Spec => []SelectSound
<1>1. Inv => SelectSound
  BY DEF Inv
<1> QED
  BY <1>1, QueueInvariance, PTL
=============================================================================
