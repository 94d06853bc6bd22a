-------------------------- MODULE SemaphoreProofs ---------------------------
(***************************************************************************)
(* The count of a semaphore neither loses nor forges a unit, for any       *)
(* number of threads, any priorities, either queueing order and either     *)
(* mode, as long as nobody broadcasts and the posts outstanding stay below *)
(* SEM_VALUE_MAX.                                                          *)
(***************************************************************************)
EXTENDS SemaphoreInvariant

\* A thread that goes on with its call, owing what it owed.
LEMMA GoesOn ==
  ASSUME Inv, NEW t \in Threads, NEW l \in Locations, Goto(t, l), pc[t] # "pend", l # "pend",
         UNCHANGED <<value, pendq, live, call, why, credit>>,
         PlaceOK(t)', t \in Debtors <=> t \in Debtors', pc[t] # "pulse"
  PROVE  Inv'
<1>1. Typed /\ call[t] \in Services /\ why[t] \in Reasons
  BY DEF Inv, Typed
<1>2. Moves(t, l, call[t], why[t])
  BY <1>1 DEF Typed, Moves, Goto
<1>3. value' = value + 0 /\ 0 \in Int /\ 0 >= 0
  BY <1>1 DEF Typed
<1>4. 0 = Bit(t \in Debtors) - Bit(t \in Debtors')
  BY DEF Bit
<1>5. t \in Posters \/ call[t] # "post"
  BY DEF Posters
<1> QED
  BY <1>1, <1>2, <1>3, <1>4, <1>5, Plain

\* sem_post_inner(), up to the increment.
LEMMA PostInnerInv ==
  ASSUME Inv, MaxCredit <= MaxValue, NEW t \in Threads, PostInner(t),
         \/ pc[t] = "ready" /\ why[t] = "BREAK" /\ call[t] = "wait"
         \/ pc[t] = "sys" /\ call[t] = "post",
         UNCHANGED <<value, pendq, live, why, credit>>
  PROVE  Inv'
<1>1. Typed /\ PlaceOK(t) /\ pc[t] # "pend" /\ pc[t] # "pulse" /\ "post" \in Locations
  BY DEF Inv, Locations
<1>2. CASE (~live \/ value = MaxValue) /\ Back(t)
  <2>1. live => t \notin Debtors
    <3> SUFFICES ASSUME live, t \in Debtors PROVE FALSE
      OBVIOUS
    <3>1. Wrap(value + 1) = value + 1
      BY NoOverflow
    <3> QED
      BY <1>2, <3>1, ConstantsAssumption DEF Wrap
  <2> QED
    BY <1>1, <1>2, <2>1, BackInv
<1>3. CASE live /\ Goto(t, "post") /\ UNCHANGED call
  <2>1. pc'[t] = "post" /\ call'[t] = call[t] /\ live'
    BY <1>1, <1>3 DEF Typed, Goto
  <2>2. PlaceOK(t)' /\ (t \in Debtors <=> t \in Debtors')
    BY <1>1, <2>1 DEF PlaceOK, Debtors, Owes
  <2> QED
    BY <1>1, <1>3, <2>2, GoesOn
<1> QED
  BY <1>2, <1>3 DEF PostInner

\* A sleeper runs again.
LEMMA WakeInv ==
  ASSUME Inv, MaxCredit <= MaxValue, NEW t \in Threads, Wake(t)
  PROVE  Inv'
<1>1. Typed /\ PlaceOK(t) /\ pc[t] = "ready" /\ UNCHANGED <<value, pendq, live, why, credit>>
  BY DEF Inv, Wake
<1>2. CASE why[t] \in {"none", "RMID"} /\ Back(t)
  BY <1>1, <1>2, BackInv DEF Debtors, Owes
<1>3. CASE why[t] \in {"TIMEO", "BREAK"} /\ call[t] = "timedwait" /\ Goto(t, "undo") /\ UNCHANGED call
  <2>1. pc'[t] = "undo" /\ call'[t] = "timedwait" /\ "undo" \in Locations
    BY <1>1, <1>3 DEF Typed, Goto, Locations
  <2>2. PlaceOK(t)' /\ t \in Debtors /\ t \in Debtors'
    BY <1>1, <1>3, <2>1 DEF PlaceOK, Debtors, Owes
  <2> QED
    BY <1>1, <1>3, <2>1, <2>2, GoesOn
<1>4. CASE why[t] = "BREAK" /\ call[t] = "wait" /\ PostInner(t)
  BY <1>1, <1>4, PostInnerInv
<1> QED
  BY <1>2, <1>3, <1>4 DEF Wake

\* sem_post, up to the increment.
LEMMA SysPostInv ==
  ASSUME Inv, MaxCredit <= MaxValue, NEW t \in Threads, SysPost(t)
  PROVE  Inv'
  BY PostInnerInv DEF SysPost

\* The count is incremented, and no sleeper is woken.
LEMMA PostCountsInv ==
  ASSUME Inv, MaxCredit <= MaxValue, NEW t \in Threads, pc[t] = "post",
         NEW l \in {"user", "pulse"}, NEW c \in Services, Moves(t, l, c, why[t]),
         l = "user" => c = "none", l = "pulse" => c = call[t] /\ ~Wakes(Wrap(value + 1)),
         value' = Wrap(value + 1), credit' = credit + IF call[t] = "post" THEN 1 ELSE 0,
         UNCHANGED <<pendq, live>>
  PROVE  Inv'
<1>1. Typed /\ PlaceOK(t) /\ l \in Locations /\ why[t] \in Reasons /\ value \in Int /\ credit \in Int
  BY DEF Inv, Typed, Locations
<1>2. live /\ call[t] \in {"wait", "post"}
  BY <1>1 DEF PlaceOK
<1>3. pc'[t] = l /\ call'[t] = c
  BY <1>1, Moved
<1>4. (t \in Debtors <=> call[t] = "wait") /\ (t \in Posters <=> call[t] = "post")
  BY DEF Debtors, Owes, Posters
<1>5. t \notin Debtors' /\ t \notin Posters'
  BY <1>2, <1>3 DEF Debtors, Owes, Posters
<1>6. Wrap(value + 1) = value + 1
  BY <1>2, <1>4, NoOverflow
<1>7. /\ value' \in Int /\ credit' \in Int /\ pendq' \in Seq(Threads) /\ live' = live
      /\ value' = value + 1 /\ value' >= value
  BY <1>1, <1>6 DEF Typed
<1>8. PlaceOK(t)'
  BY <1>1, <1>2, <1>3, <1>6, <1>7 DEF PlaceOK, Wakes
<1>9. QueueInv'
  BY <1>1, QueueKept
<1>10. Balanced(t) /\ Limited(t)
  <2>1. CASE call[t] = "post"
    BY <1>1, <1>4, <1>5, <1>7, <2>1 DEF Balanced, Limited, Bit
  <2>2. CASE call[t] = "wait"
    BY <1>1, <1>4, <1>5, <1>7, <2>2 DEF Balanced, Limited, Bit
  <2> QED
    BY <1>2, <2>1, <2>2
<1> QED
  BY <1>1, <1>7, <1>8, <1>9, <1>10, Solo

\* The count is incremented and the first sleeper, which owed a unit, gets it.
LEMMA PostWakesInv ==
  ASSUME Inv, MaxCredit <= MaxValue, NEW t \in Threads, pc[t] = "post", pendq # <<>>,
         value' = Wrap(value + 1), pendq' = Tail(pendq),
         pc' = [pc EXCEPT ![t] = "user", ![Head(pendq)] = "ready"],
         call' = [call EXCEPT ![t] = "none"],
         credit' = (credit + IF call[t] = "post" THEN 1 ELSE 0) - 1,
         UNCHANGED <<live, why>>
  PROVE  Inv'
<1> DEFINE h == Head(pendq)
<1>1. /\ Typed /\ QueueInv /\ Conservation /\ Bounded /\ (\A u \in Threads : PlaceOK(u))
      /\ pendq \in Seq(Threads) /\ value \in Int /\ credit \in Int
  BY DEF Inv, Typed
<1>2. /\ h \in Threads /\ Has(pendq, h) /\ pendq' \in Seq(Threads) /\ Distinct(pendq')
      /\ \A x : Has(pendq', x) <=> Has(pendq, x) /\ x # h
  BY <1>1, TailProperties DEF QueueInv
<1>3. pc[h] = "pend" /\ h # t /\ why[h] = "none" /\ call[h] \in {"wait", "timedwait"}
  BY <1>1, <1>2 DEF QueueInv, PlaceOK
<1>4. live /\ call[t] \in {"wait", "post"}
  BY <1>1 DEF PlaceOK
<1>5. /\ pc' \in [Threads -> Locations] /\ call' \in [Threads -> Services]
      /\ pc'[t] = "user" /\ call'[t] = "none" /\ pc'[h] = "ready" /\ call'[h] = call[h]
      /\ \A u \in Threads : u # t /\ u # h => pc'[u] = pc[u] /\ call'[u] = call[u]
  BY <1>1, <1>2, <1>3, SMTT(20) DEF Typed, Locations, Services
<1>6. (t \in Debtors <=> call[t] = "wait") /\ (t \in Posters <=> call[t] = "post")
  BY DEF Debtors, Owes, Posters
<1>7. value' = value + 1 /\ value' \in Int /\ credit' \in Int
  BY <1>1, <1>4, <1>6, NoOverflow
<1>8. Typed'
  BY <1>1, <1>2, <1>5, <1>7 DEF Typed
<1>9. ASSUME NEW u \in Threads PROVE PlaceOK(u)'
  <2>1. CASE u = t
    BY <1>5, <2>1 DEF PlaceOK
  <2>2. CASE u = h
    BY <1>3, <1>5, <2>2 DEF PlaceOK
  <2>3. CASE u # t /\ u # h
    <3>1. pc'[u] = pc[u] /\ call'[u] = call[u] /\ why'[u] = why[u] /\ PlaceOK(u)
      BY <1>1, <1>5, <2>3
    <3> QED
      BY <1>1, <1>7, <3>1 DEF PlaceOK
  <2> QED
    BY <2>1, <2>2, <2>3
<1>10. QueueInv'
  BY <1>1, <1>2, <1>3, <1>5 DEF QueueInv
<1>11. Cardinality(Debtors') = Cardinality(Debtors) - 1 - Bit(call[t] = "wait")
  <2>1. h \in Debtors /\ Debtors \in SUBSET Threads
    BY <1>2, <1>3 DEF Debtors
  <2>2. t \notin Debtors' /\ h \notin Debtors'
    BY <1>3, <1>5 DEF Debtors, Owes
  <2>3. \A u \in Threads : u # t => (u \in Debtors \ {h} <=> u \in Debtors')
    BY <1>5, <2>2 DEF Debtors, Owes
  <2>4. Cardinality(Debtors \ {h}) = Cardinality(Debtors) - 1 /\ Cardinality(Debtors) \in Nat
    BY <2>1, Counting
  <2>5. Debtors \ {h} \in SUBSET Threads /\ Debtors' \in SUBSET Threads
    BY DEF Debtors
  <2>6. Cardinality(Debtors') = Cardinality(Debtors \ {h}) + Bit(t \in Debtors') - Bit(t \in Debtors \ {h})
    BY <2>3, <2>5, Recounting
  <2>7. (t \in Debtors \ {h}) <=> call[t] = "wait"
    BY <1>3, <1>6
  <2> QED
    BY <2>2, <2>4, <2>6, <2>7 DEF Bit
<1>12. Cardinality(Posters') = Cardinality(Posters) - Bit(call[t] = "post")
  <2>1. \A u \in Threads : u # t => (u \in Posters <=> u \in Posters')
    BY <1>3, <1>5 DEF Posters
  <2>2. t \notin Posters' /\ Posters \in SUBSET Threads /\ Posters' \in SUBSET Threads
    BY <1>5 DEF Posters
  <2>3. Cardinality(Posters') = Cardinality(Posters) + Bit(t \in Posters') - Bit(t \in Posters)
    BY <2>1, <2>2, Recounting
  <2>4. Cardinality(Posters) \in Nat
    BY <2>2, Counting
  <2> QED
    BY <1>6, <2>2, <2>3, <2>4 DEF Bit
<1>13. /\ Cardinality(Debtors) \in Nat /\ Cardinality(Posters) \in Nat /\ MaxCredit \in Nat
       /\ value + Cardinality(Debtors) = credit /\ credit + Cardinality(Posters) <= MaxCredit
  BY <1>1, <1>4, Counting, ConstantsAssumption DEF Debtors, Posters, Conservation, Bounded
<1>14. Conservation'
  <2> SUFFICES value' + Cardinality(Debtors') = credit'
    BY DEF Conservation
  <2> QED
    BY <1>1, <1>4, <1>7, <1>11, <1>13 DEF Bit
<1>15. Bounded'
  <2> SUFFICES credit' + Cardinality(Posters') <= MaxCredit
    BY DEF Bounded
  <2> QED
    BY <1>1, <1>4, <1>12, <1>13 DEF Bit
<1> QED
  BY <1>8, <1>9, <1>10, <1>14, <1>15 DEF Inv

\* sem_post_inner(), from the increment on.
LEMMA SysPostIncInv ==
  ASSUME Inv, MaxCredit <= MaxValue, NEW t \in Threads, SysPostInc(t)
  PROVE  Inv'
<1>1. Typed /\ pc[t] = "post" /\ value' = Wrap(value + 1) /\ UNCHANGED <<live, why>>
      /\ call[t] \in Services /\ "none" \in Services
  BY DEF Inv, Typed, SysPostInc, Services
<1>2. CASE /\ pendq # <<>> /\ pendq' = Tail(pendq)
           /\ pc' = [pc EXCEPT ![t] = "user", ![Head(pendq)] = "ready"]
           /\ call' = [call EXCEPT ![t] = "none"]
           /\ credit' = (credit + IF call[t] = "post" THEN 1 ELSE 0) - 1
  BY <1>1, <1>2, PostWakesInv, Zenon
<1>3. CASE /\ Back(t) /\ UNCHANGED pendq
           /\ credit' = credit + IF call[t] = "post" THEN 1 ELSE 0
  <2>1. Moves(t, "user", "none", why[t])
    BY <1>1, <1>3 DEF Typed, Moves, Back, Goto
  <2> QED
    BY <1>1, <1>3, <2>1, PostCountsInv
<1>4. CASE /\ ~Wakes(Wrap(value + 1)) /\ Goto(t, "pulse") /\ UNCHANGED <<pendq, call>>
           /\ credit' = credit + IF call[t] = "post" THEN 1 ELSE 0
  <2>1. Moves(t, "pulse", call[t], why[t])
    BY <1>1, <1>4 DEF Typed, Moves, Goto
  <2> QED
    BY <1>1, <1>4, <2>1, PostCountsInv
<1> QED
  BY <1>2, <1>3, <1>4, Zenon DEF SysPostInc

\* A pulse nobody waited for is taken off the count and off the credit.
LEMMA SysPulseInv ==
  ASSUME Inv, NEW t \in Threads, SysPulse(t)
  PROVE  Inv'
<1>1. Typed /\ PlaceOK(t) /\ pc[t] = "pulse"
  BY DEF Inv, SysPulse
<1>2. Moves(t, "user", "none", why[t]) /\ "user" \in Locations /\ "none" \in Services /\ why[t] \in Reasons
  BY <1>1 DEF Typed, Moves, SysPulse, Back, Goto, Locations, Services
<1>3. pc'[t] = "user" /\ call'[t] = "none"
  BY <1>1, <1>2, Moved
<1>4. PlaceOK(t)' /\ t \notin Debtors' /\ t \notin Debtors /\ t \notin Posters'
  BY <1>1, <1>3 DEF PlaceOK, Debtors, Owes, Posters
<1>5. /\ value' \in Int /\ credit' \in Int /\ pendq' \in Seq(Threads) /\ live' = live
      /\ value' = 0 /\ value >= 0 /\ credit' = credit - value /\ value \in Int /\ credit \in Int
  BY <1>1 DEF Typed, SysPulse, PlaceOK
<1>6. QueueInv'
  BY <1>1, <1>2, QueueKept DEF SysPulse
<1>7. Balanced(t) /\ Limited(t)
  BY <1>4, <1>5 DEF Balanced, Limited, Bit
<1> QED
  BY <1>2, <1>4, <1>5, <1>6, <1>7, Solo

----------------------------------------------------------------------------
\* sem_destroy, before nklock is dropped.
LEMMA DestroyInv ==
  ASSUME Inv, NEW t \in Threads, Destroy(t)
  PROVE  Inv'
<1>1. Typed /\ PlaceOK(t) /\ pc[t] = "user" /\ "del" \in Locations
  BY DEF Inv, Destroy, Locations
<1>2. pc'[t] = "del" /\ call'[t] = call[t]
  BY <1>1 DEF Typed, Destroy, Goto
<1>3. PlaceOK(t)' /\ t \notin Debtors /\ t \notin Debtors'
  BY <1>1, <1>2 DEF PlaceOK, Debtors, Owes
<1> QED
  BY <1>1, <1>3, GoesOn DEF Destroy

\* __cobalt_sem_destroy().
LEMMA SysDestroyInv ==
  ASSUME Inv, NEW t \in Threads, SysDestroy(t)
  PROVE  Inv'
<1>1. Typed /\ Bounded /\ (\A u \in Threads : PlaceOK(u)) /\ NklockFree /\ pc[t] = "del"
  BY DEF Inv, SysDestroy
<1>2. ASSUME NEW u \in Threads
      PROVE  /\ pc'[u] = IF u = t THEN "user" ELSE IF pc[u] = "pend" THEN "ready" ELSE pc[u]
             /\ pc'[u] \in Locations /\ why'[u] \in Reasons
  BY <1>1 DEF Typed, SysDestroy, Locations, Reasons
<1>3. Typed'
  <2>1. pendq' \in Seq(Threads)
    BY DEF SysDestroy
  <2>2. pc' \in [Threads -> Locations] /\ why' \in [Threads -> Reasons]
    BY <1>2 DEF SysDestroy
  <2>3. live' \in BOOLEAN /\ value' \in Int /\ credit' \in Int /\ call' \in [Threads -> Services]
    BY <1>1, Zenon DEF Typed, SysDestroy
  <2> QED
    BY <2>1, <2>2, <2>3 DEF Typed
<1>4. ASSUME NEW u \in Threads PROVE PlaceOK(u)'
  <2>1. PlaceOK(u) /\ call'[u] = call[u] /\ pc[u] \notin {"probed", "undo", "post", "pulse"}
    BY <1>1 DEF SysDestroy, NklockFree
  <2>2. PlaceOK(t) /\ call[t] = "none"
    BY <1>1 DEF PlaceOK
  <2> QED
    BY <1>1, <1>2, <2>1, <2>2 DEF PlaceOK
<1>5. QueueInv'
  <2>1. pendq' = <<>>
    BY DEF SysDestroy
  <2>2. Distinct(pendq') /\ \A u : ~Has(pendq', u)
    BY <2>1 DEF Distinct, Has
  <2>3. \A u \in Threads : pc'[u] # "pend"
    BY <1>2
  <2> QED
    BY <2>2, <2>3 DEF QueueInv
<1>6. Conservation'
  BY DEF Conservation, SysDestroy
<1>7. Bounded'
  <2>1. Posters' = Posters
    <3>1. ASSUME NEW u \in Threads PROVE u \in Posters <=> u \in Posters'
      <4>1. pc[u] # "pulse" /\ pc'[u] # "pulse" /\ call'[u] = call[u]
        BY <1>1, <1>2 DEF NklockFree, SysDestroy
      <4> QED
        BY <4>1 DEF Posters
    <3> QED
      BY <3>1 DEF Posters
  <2>2. credit' = credit /\ credit + Cardinality(Posters) <= MaxCredit
    BY <1>1, Zenon DEF SysDestroy, Bounded
  <2> SUFFICES credit' + Cardinality(Posters') <= MaxCredit
    BY DEF Bounded
  <2> QED
    BY <2>1, <2>2
<1> QED
  BY <1>3, <1>4, <1>5, <1>6, <1>7 DEF Inv

\* A sleeper is woken without a unit, and keeps owing the one it took.
LEMMA WakeSleeperInv ==
  ASSUME Inv, NEW t \in Threads, NEW w \in {"TIMEO", "BREAK"}, WakeSleeper(t, w)
  PROVE  Inv'
<1>1. Typed /\ QueueInv /\ PlaceOK(t) /\ pc[t] = "pend" /\ value \in Int /\ credit \in Int
  BY DEF Inv, Typed, WakeSleeper
<1>2. Moves(t, "ready", call[t], w) /\ "ready" \in Locations /\ call[t] \in Services /\ w \in Reasons
  BY <1>1 DEF Typed, Moves, WakeSleeper, Goto, Locations, Reasons
<1>3. /\ pc'[t] = "ready" /\ call'[t] = call[t] /\ why'[t] = w
      /\ \A u \in Threads : u # t => pc'[u] = pc[u]
  BY <1>1, <1>2, Moved
<1>4. PlaceOK(t)' /\ t \in Debtors /\ t \in Debtors' /\ (t \in Posters <=> t \in Posters')
  BY <1>1, <1>3 DEF PlaceOK, Debtors, Owes, Posters
<1>5. pendq' \in Seq(Threads) /\ Distinct(pendq') /\ \A x : Has(pendq', x) <=> Has(pendq, x) /\ x # t
  <2>1. pendq \in Seq(Threads) /\ Has(pendq, t) /\ Distinct(pendq) /\ pendq' = Delete(pendq, t)
    BY <1>1 DEF Typed, QueueInv, WakeSleeper
  <2> QED
    BY <2>1, DeleteProperties, Zenon
<1>6. QueueInv'
  BY <1>1, <1>3, <1>5 DEF QueueInv
<1>7. value' = value /\ credit' = credit /\ live' = live /\ NklockFree
  BY DEF WakeSleeper
<1>8. Balanced(t) /\ Limited(t)
  BY <1>1, <1>4, <1>7 DEF Balanced, Limited, Bit
<1> QED
  BY <1>1, <1>2, <1>4, <1>5, <1>6, <1>7, <1>8, Solo

\* The invariant holds initially.
LEMMA InitInv ==
  ASSUME Init
  PROVE  Inv
<1>1. /\ value \in {0, InitValue} /\ credit = value /\ pendq = <<>> /\ live = TRUE
      /\ \A u \in Threads : pc[u] = "user" /\ call[u] = "none" /\ why[u] = "none"
  BY DEF Init
<1>2. InitValue \in Nat /\ InitValue <= MaxCredit /\ MaxCredit \in Nat
  BY ConstantsAssumption
<1>3. Typed
  BY <1>1, <1>2 DEF Init, Typed, Locations, Services, Reasons
<1>4. \A u \in Threads : PlaceOK(u)
  BY <1>1 DEF PlaceOK
<1>5. QueueInv
  BY <1>1 DEF QueueInv, Distinct, Has
<1>6. Debtors = {} /\ Posters = {}
  BY <1>1 DEF Debtors, Owes, Posters
<1>7. Cardinality(Debtors) = 0 /\ Cardinality(Posters) = 0
  BY <1>6, FS_EmptySet
<1>8. Conservation /\ Bounded
  BY <1>1, <1>2, <1>7 DEF Conservation, Bounded
<1> QED
  BY <1>3, <1>4, <1>5, <1>8 DEF Inv

\* Every step keeps the invariant.
LEMMA NextInv ==
  ASSUME Inv, MaxCredit <= MaxValue, [Next]_vars
  PROVE  Inv'
<1>1. CASE UNCHANGED vars
  <2>1. Typed' /\ QueueInv' /\ Conservation' /\ Bounded'
    BY <1>1 DEF Inv, Typed, QueueInv, Conservation, Debtors, Owes, Bounded, Posters, vars
  <2>2. \A u \in Threads : PlaceOK(u)'
    BY <1>1 DEF Inv, PlaceOK, vars
  <2> QED
    BY <2>1, <2>2 DEF Inv
<1>2. ASSUME NEW t \in Threads,
             \/ TryWait(t) \/ Wait(t) \/ PostFast(t) \/ Post(t)
             \/ SysWait(t) \/ SysProbe(t) \/ SysFetch(t) \/ SysTimedWait(t)
             \/ Undo(t) \/ Wake(t)
      PROVE  Inv'
  BY <1>2, TryWaitInv, WaitInv, PostFastInv, PostInv, SysWaitInv, SysProbeInv, SysFetchInv, UndoInv, WakeInv
<1>3. ASSUME NEW t \in Threads, Timeout(t) \/ Unblock(t) PROVE Inv'
  BY <1>3, WakeSleeperInv DEF Timeout, Unblock
<1>4. ASSUME NEW t \in Threads,
             SysPost(t) \/ SysPostInc(t) \/ SysPulse(t) \/ Destroy(t) \/ SysDestroy(t)
      PROVE  Inv'
  BY <1>4, SysPostInv, SysPostIncInv, SysPulseInv, DestroyInv, SysDestroyInv
<1> QED
  BY <1>1, <1>2, <1>3, <1>4 DEF Next

----------------------------------------------------------------------------
\* sem_wait(), sem_timedwait(), sem_post() and sem_destroy(), interrupted or
\* timed out anywhere, neither lose nor forge a unit: the count accounts for
\* every post, every wait satisfied and every caller yet to restore it.
THEOREM UnitsConserved ==
  ASSUME MaxCredit <= MaxValue
  PROVE  Spec => []Conservation
<1>1. Init => Inv
  BY InitInv
<1>2. Inv /\ [Next]_vars => Inv'
  BY NextInv
<1>3. Inv => Conservation
  BY DEF Inv
<1> QED
  BY <1>1, <1>2, <1>3, PTL DEF Spec

----------------------------------------------------------------------------
\* No sem_wait() is interrupted.
Unbroken ==
    \A u \in Threads : call[u] = "wait" =>
        /\ "wait" \in Calls
        /\ pc[u] \notin {"post", "pulse"}
        /\ ~(pc[u] = "ready" /\ why[u] = "BREAK")

Undisturbed == "wait" \in Calls => Released = {} /\ Kicked = {}

\* Without a signal to interrupt it, sem_wait() does not reach sem_post_inner().
LEMMA UnbrokenStep ==
  ASSUME Inv, Unbroken, Undisturbed, Next
  PROVE  Unbroken'
<1>1. Typed /\ QueueInv /\ \A u \in Threads : PlaceOK(u)
  BY DEF Inv
<1>2. PICK t \in Threads :
        \/ TryWait(t) \/ Wait(t) \/ PostFast(t) \/ Post(t)
        \/ SysWait(t) \/ SysProbe(t) \/ SysFetch(t) \/ SysTimedWait(t)
        \/ Undo(t) \/ Wake(t)
        \/ SysPost(t) \/ SysPostInc(t) \/ SysPulse(t)
        \/ Destroy(t) \/ SysDestroy(t)
        \/ Timeout(t) \/ Unblock(t)
  BY DEF Next
<1> SUFFICES ASSUME NEW u \in Threads, call'[u] = "wait"
             PROVE  /\ "wait" \in Calls
                    /\ pc'[u] \notin {"post", "pulse"}
                    /\ ~(pc'[u] = "ready" /\ why'[u] = "BREAK")
  BY DEF Unbroken
<1>3. PlaceOK(u) /\ PlaceOK(t) /\ pc \in [Threads -> Locations] /\ call \in [Threads -> Services]
      /\ why \in [Threads -> Reasons]
      /\ (call[u] = "wait" => /\ "wait" \in Calls
                              /\ pc[u] \notin {"post", "pulse"}
                              /\ ~(pc[u] = "ready" /\ why[u] = "BREAK"))
  BY <1>1 DEF Typed, Unbroken
<1>4. CASE TryWait(t) \/ Wait(t) \/ PostFast(t) \/ Post(t)
  BY <1>3, <1>4 DEF TryWait, Wait, PostFast, Post, Enter, Goto
<1>5. CASE SysWait(t) \/ SysTimedWait(t)
  <2>1. CASE Dead(t) \/ Take(t)
    BY <1>3, <1>5, <2>1 DEF SysWait, SysTimedWait, Dead, Take, Back, Goto
  <2>2. CASE Sleep(t)
    BY <1>3, <1>5, <2>2 DEF SysWait, SysTimedWait, Sleep, Goto, Undisturbed
  <2> QED
    BY <1>5, <2>1, <2>2 DEF SysWait, SysTimedWait
<1>6. CASE SysProbe(t) \/ SysFetch(t) \/ Undo(t)
  BY <1>3, <1>6 DEF SysProbe, SysFetch, Undo, Dead, Take, Back, Goto
<1>7. CASE Wake(t) \/ SysPost(t)
  BY <1>3, <1>7 DEF Wake, SysPost, PostInner, Back, Goto
<1>8. CASE SysPostInc(t)
  <2>1. pc[t] = "post" /\ why' = why
    BY <1>8 DEF SysPostInc
  <2>2. CASE /\ pendq # <<>>
             /\ pc' = [pc EXCEPT ![t] = "user", ![Head(pendq)] = "ready"]
             /\ call' = [call EXCEPT ![t] = "none"]
    <3>1. Head(pendq) \in Threads /\ pc[Head(pendq)] = "pend" /\ why[Head(pendq)] = "none"
      <4>1. Head(pendq) \in Threads /\ Has(pendq, Head(pendq))
        BY <1>1, <2>2, TailProperties DEF Typed, QueueInv
      <4> QED
        BY <1>1, <4>1 DEF QueueInv, PlaceOK
    <3> QED
      BY <1>3, <2>1, <2>2, <3>1
  <2>3. CASE Back(t)
    BY <1>3, <2>1, <2>3 DEF Back, Goto
  <2>4. CASE Goto(t, "pulse") /\ UNCHANGED call
    BY <1>3, <2>1, <2>4 DEF Goto
  <2> QED
    BY <1>8, <2>2, <2>3, <2>4, Zenon DEF SysPostInc
<1>9. CASE SysPulse(t) \/ Destroy(t)
  BY <1>3, <1>9 DEF SysPulse, Destroy, Back, Goto
<1>10. CASE SysDestroy(t)
  <2>1. /\ call' = call
        /\ pc'[u] = IF u = t THEN "user" ELSE IF pc[u] = "pend" THEN "ready" ELSE pc[u]
        /\ why'[u] = IF pc[u] = "pend" THEN "RMID" ELSE why[u]
    BY <1>10 DEF SysDestroy
  <2> QED
    BY <1>3, <2>1
<1>11. CASE Timeout(t) \/ Unblock(t)
  <2>1. call' = call /\ pc[t] = "pend" /\ Goto(t, "ready")
    BY <1>11 DEF Timeout, Unblock, WakeSleeper
  <2>2. CASE u = t
    BY <1>3, <1>11, <2>1, <2>2 DEF Timeout, Unblock, WakeSleeper, Goto, Undisturbed
  <2>3. CASE u # t
    BY <1>3, <1>11, <2>1, <2>3 DEF Timeout, Unblock, WakeSleeper, Goto
  <2> QED
    BY <2>2, <2>3
<1> QED
  BY <1>2, <1>4, <1>5, <1>6, <1>7, <1>8, <1>9, <1>10, <1>11, Zenon

\* A unit is consumed only when there is one, and a wakeup by a post hands the
\* posted unit over.
LEMMA CreditStep ==
  ASSUME Inv, Unbroken, NoExcess, Next
  PROVE  NoExcess'
<1>1. Typed /\ (\A u \in Threads : PlaceOK(u)) /\ value \in Int /\ credit \in Int /\ credit >= 0
  BY DEF Inv, Typed, NoExcess
<1>2. live => credit >= value
  <2>1. Cardinality(Debtors) \in Nat
    BY Counting DEF Debtors
  <2>2. live => value + Cardinality(Debtors) = credit
    BY Zenon DEF Inv, Conservation
  <2> QED
    BY <1>1, <2>1, <2>2
<1> SUFFICES credit' >= 0
  BY DEF NoExcess
<1>3. ASSUME NEW t \in Threads, TryWait(t) \/ Take(t) PROVE credit' >= 0
  BY <1>1, <1>2, <1>3 DEF TryWait, Take
<1>4. ASSUME NEW t \in Threads, SysPostInc(t) PROVE credit' >= 0
  <2>1. pc[t] = "post" /\ call[t] = "post"
    BY <1>1, <1>4 DEF SysPostInc, PlaceOK, Unbroken
  <2> QED
    BY <1>1, <1>4, <2>1 DEF SysPostInc
<1>5. ASSUME NEW t \in Threads, SysPulse(t) PROVE credit' >= 0
  <2>1. live
    BY <1>1, <1>5 DEF SysPulse, PlaceOK
  <2> QED
    BY <1>1, <1>2, <1>5, <2>1 DEF SysPulse
<1>6. ASSUME NEW t \in Threads, SysWait(t) \/ SysProbe(t) \/ SysTimedWait(t) PROVE credit' >= 0
  <2>1. CASE Take(t)
    BY <1>3, <2>1
  <2>2. CASE ~Take(t)
    BY <1>1, <1>6, <2>2 DEF SysWait, SysProbe, SysTimedWait, Dead, Sleep
  <2> QED
    BY <2>1, <2>2
<1>7. ASSUME NEW t \in Threads,
             \/ Wait(t) \/ PostFast(t) \/ Post(t) \/ SysFetch(t) \/ Undo(t) \/ Wake(t) \/ SysPost(t)
             \/ Destroy(t) \/ SysDestroy(t) \/ Timeout(t) \/ Unblock(t)
      PROVE  credit' >= 0
  BY <1>1, <1>7
     DEF Wait, PostFast, Post, SysFetch, Undo, Wake, SysPost, Destroy, SysDestroy, Timeout,
         Unblock, WakeSleeper
<1> QED
  BY <1>3, <1>4, <1>5, <1>6, <1>7 DEF Next

\* As long as no signal interrupts a sem_wait(), a wait is satisfied by the
\* initial value or by a post and by nothing else.
THEOREM NoForgedUnit ==
  ASSUME MaxCredit <= MaxValue, Undisturbed
  PROVE  Spec => []NoExcess
<1> DEFINE Whole == Inv /\ Unbroken /\ NoExcess
<1>1. Init => Whole
  BY InitInv, ConstantsAssumption DEF Init, Unbroken, NoExcess
<1>2. Whole /\ [Next]_vars => Whole'
  <2> SUFFICES ASSUME Whole, [Next]_vars PROVE Whole'
    OBVIOUS
  <2>1. Inv'
    BY NextInv
  <2>2. CASE UNCHANGED vars
    BY <2>1, <2>2 DEF Unbroken, NoExcess, vars
  <2>3. CASE Next
    BY <2>1, <2>3, UnbrokenStep, CreditStep
  <2> QED
    BY <2>2, <2>3
<1>3. Whole => NoExcess
  OBVIOUS
<1> QED
  BY <1>1, <1>2, <1>3, PTL DEF Spec
============================================================================
