---------------------------- MODULE MutexProofs ----------------------------
(***************************************************************************)
(* xnsynch_acquire() and xnsynch_release() keep the invariant of the       *)
(* mutex, and with them every step does.  It implies type correctness,     *)
(* mutual exclusion, no lost ownership, an ordered and claimed queue,      *)
(* exact counts, steals by priority only, and LockService.                 *)
(***************************************************************************)
EXTENDS MutexInvariant

\* xnsynch_acquire() steals a mutex its new owner has not taken yet.
LEMMA StealInv ==
  ASSUME Inv, NEW t \in Threads, pc[t] = "claim", lock.id # None, Steal(t),
         UNCHANGED <<live, lockcnt, call, susp, held>>
  PROVE  Inv'
<1> DEFINE o == lock.id
<1>1. \A v \in Threads : PlaceInv(v) /\ WordInv(v) /\ InfoInv(v) /\ CountInv(v)
  BY DEF Inv, ThreadInv, ThreadOK
<1>2. o \in Threads /\ t # o /\ "WAKEN" \in info[o]
  <2>1. o \in Threads
    BY DEF Inv, TypeOK
  <2>2. prio[t] > prio[o] /\ "WAKEN" \in info[o]
    BY DEF Steal, CanSteal
  <2> QED
    BY <2>1, <2>2, ConstantsAssumption
<1>3. pc[o] = "ready" /\ \A v \in Threads : held[v] = 0
  <2>1. pc[o] = "ready" /\ held[o] = 0
    BY <1>1, <1>2 DEF InfoInv
  <2>2. ASSUME NEW v \in Threads, v # o PROVE held[v] = 0
    BY <1>1, <2>2 DEF Inv, TypeOK, WordInv
  <2> QED
    BY <2>1, <2>2
<1>4. call[t] \in {"lock", "timedlock"}
  BY <1>1, <1>3 DEF PlaceInv, Acquiring
<1>5. /\ owner' = t /\ pendq' = pendq /\ lock' = [id |-> t, claim |-> pendq # <<>>]
      /\ info' = [info EXCEPT ![t] = @ \ Wakeup, ![o] = @ \cup {"ROBBED"}]
      /\ res' = [res EXCEPT ![t] = IF t \in Weak THEN @ + 1 ELSE @]
      /\ pc' = [pc EXCEPT ![t] = "ret"] /\ ret' = [ret EXCEPT ![t] = "OK"]
  BY <1>4, Zenon DEF Steal, SetOwner, Word, Return, Goto, CountResource, AcquireResult
<1> HIDE DEF o
<1>6. TypeOK'
  <2>1. lock' \in [id : Threads \cup {None}, claim : BOOLEAN]
    BY <1>5
  <2>2. info' \in [Threads -> SUBSET InfoBits]
    <3>1. info \in [Threads -> SUBSET InfoBits] /\ "ROBBED" \in InfoBits
      BY DEF Inv, TypeOK, InfoBits
    <3>2. [info EXCEPT ![t] = @ \ Wakeup] \in [Threads -> SUBSET InfoBits]
      BY <3>1
    <3>3. [[info EXCEPT ![t] = @ \ Wakeup] EXCEPT ![o] = @ \cup {"ROBBED"}]
             \in [Threads -> SUBSET InfoBits]
      BY <3>1, <3>2, Zenon
    <3> QED
      BY <1>2, <1>5, <3>1, <3>3
  <2>3. owner' \in Threads /\ pendq' \in Seq(Threads) /\ res' \in [Threads -> Nat]
    BY <1>5 DEF Inv, TypeOK
  <2>4. pc' \in [Threads -> Locations] /\ ret' \in [Threads -> Results]
    BY <1>5 DEF Inv, TypeOK, Locations, Results
  <2> QED
    BY <2>1, <2>2, <2>3, <2>4, Zenon DEF Inv, TypeOK
<1>7. ASSUME NEW u \in Threads
      PROVE  ThreadOK(u)'
  <2>1. CASE u = t
    <3>1. /\ pc'[t] = "ret" /\ call'[t] = call[t] /\ ret'[t] = "OK" /\ held'[t] = 0
          /\ res'[t] = IF t \in Weak THEN res[t] + 1 ELSE res[t]
          /\ info'[t] = info[t] \ Wakeup /\ lock'.id = t
      BY <1>2, <1>3, <1>5 DEF Inv, TypeOK
    <3>2. "WAKEN" \notin info[t] /\ "SIG" \notin info[t] /\ (t \in Weak => res[t] = 0)
      BY <1>1, <1>3 DEF InfoInv, CountInv, Told, Unlocking
    <3> QED
      BY <1>4, <2>1, <3>1, <3>2 DEF ThreadOK, PlaceInv, WordInv, InfoInv, CountInv, Granted, Told, Unlocking,
            Acquiring, LockCalls
  <2>2. CASE u # t /\ u # o
    <3>1. ThreadOK(u) /\ lock.id # u /\ lock'.id # u
      BY <1>1, <1>5, <2>2 DEF ThreadOK, o
    <3>2. pc'[u] = pc[u] /\ ret'[u] = ret[u] /\ info'[u] = info[u] /\ res'[u] = res[u]
      BY <1>5, <2>2 DEF Inv, TypeOK
    <3> QED
      BY <3>1, <3>2, OthersKept
  <2>3. CASE u = o
    <3>1. /\ pc'[o] = "ready" /\ call'[o] = call[o] /\ ret'[o] = ret[o] /\ held'[o] = 0
          /\ res'[o] = res[o] /\ info'[o] = info[o] \cup {"ROBBED"} /\ lock'.id # o
      BY <1>2, <1>3, <1>5 DEF Inv, TypeOK
    <3> QED
      BY <1>1, <1>2, <1>3, <2>3, <3>1 DEF ThreadOK, PlaceInv, WordInv, InfoInv, CountInv, Granted,
            Told, Unlocking, Acquiring
  <2> QED
    BY <2>1, <2>2, <2>3
<1>8. QueueInv'
  BY <1>2, <1>5, ConstantsAssumption, SMTT(20) DEF Inv, QueueInv, TypeOK
<1> QED
  BY <1>6, <1>7, <1>8 DEF Inv, ThreadInv

\* xnsynch_acquire() claims the mutex, and sleeps unless it may not.
LEMMA BlockInv ==
  ASSUME Inv, NEW t \in Threads, pc[t] = "claim", lock.id # None, Block(t),
         UNCHANGED <<live, lockcnt, call, susp, held>>
  PROVE  Inv'
<1>1. \A v \in Threads : PlaceInv(v) /\ WordInv(v) /\ InfoInv(v) /\ CountInv(v)
  BY DEF Inv, ThreadInv, ThreadOK
<1>2. lock' = [id |-> lock.id, claim |-> TRUE] /\ owner' = lock.id /\ UNCHANGED res
  BY Zenon DEF Block, Word, SetOwner
<1>3. lock'.id = lock.id /\ lock'.claim /\ lock.id \in Threads
  BY <1>2 DEF Inv, TypeOK
<1>4. lock' \in [id : Threads \cup {None}, claim : BOOLEAN] /\ owner' \in Threads \cup {None}
  BY <1>2, <1>3
<1>5. call[t] \in {"lock", "timedlock", "relock"} /\ (call[t] = "relock" => held[t] > 0)
  BY <1>1 DEF PlaceInv, Acquiring
<1>6. ~Has(pendq, t) /\ "WAKEN" \notin info[t]
  BY <1>1, Zenon DEF Inv, QueueInv, InfoInv
\* The caller is refused: it was kicked, or its timeout has passed.
<1>7. ASSUME NEW bits \in SUBSET InfoBits, bits \subseteq info[t] \cup {"BREAK", "TIMEO"},
             NEW r \in Results, r # "OK", info' = [info EXCEPT ![t] = bits],
             pc' = [pc EXCEPT ![t] = "ret"], ret' = [ret EXCEPT ![t] = r], UNCHANGED pendq
      PROVE  Inv'
  <2>1. TypeOK'
    BY <1>2, <1>4, <1>7 DEF Inv, TypeOK, Locations
  <2>2. ASSUME NEW u \in Threads
        PROVE  ThreadOK(u)'
    <3>1. PlaceInv(u) /\ WordInv(u) /\ InfoInv(u) /\ CountInv(u)
      BY <1>1
    <3> QED
      BY <1>2, <1>3, <1>5, <1>6, <1>7, <3>1, Zenon DEF Inv, TypeOK, ThreadOK, PlaceInv, WordInv, InfoInv, CountInv,
            Granted, Told, Unlocking, HoldersPlace, Acquiring, LockCalls
  <2>3. QueueInv'
    BY <1>2, <1>3, <1>7 DEF Inv, QueueInv, TypeOK
  <2> QED
    BY <2>1, <2>2, <2>3 DEF Inv, ThreadInv, ThreadOK
<1>8. CASE info' = [info EXCEPT ![t] = (info[t] \ {"RMID", "TIMEO", "WAKEN"}) \cup {"BREAK"}]
           /\ Return(t, AcquireResult(t, {"BREAK"})) /\ UNCHANGED pendq
  <2>1. (info[t] \ {"RMID", "TIMEO", "WAKEN"}) \cup {"BREAK"} \in SUBSET InfoBits
    BY DEF Inv, TypeOK, InfoBits, Wakeup
  <2>2. AcquireResult(t, {"BREAK"}) \in Results \ {"OK"}
    BY DEF AcquireResult, Results
  <2> QED
    BY <1>7, <1>8, <2>1, <2>2, Zenon DEF Return, Goto
<1>9. CASE info' = [info EXCEPT ![t] = (info[t] \ BlockClears) \cup {"TIMEO"}]
           /\ Return(t, AcquireResult(t, {"TIMEO"})) /\ UNCHANGED pendq
  <2>1. (info[t] \ BlockClears) \cup {"TIMEO"} \in SUBSET InfoBits
    BY DEF Inv, TypeOK, InfoBits, Wakeup
  <2>2. AcquireResult(t, {"TIMEO"}) \in Results \ {"OK"}
    BY DEF AcquireResult, Results
  <2> QED
    BY <1>7, <1>9, <2>1, <2>2, Zenon DEF Return, Goto
\* The caller sleeps.
<1>10. CASE /\ info' = [info EXCEPT ![t] = info[t] \ BlockClears]
            /\ pendq' = AddPriff(pendq, t, prio)
            /\ pc' = [pc EXCEPT ![t] = "pend"] /\ UNCHANGED ret
  <2>1. /\ pendq' \in Seq(Threads) /\ pendq' # <<>>
        /\ \A x : Has(pendq', x) <=> x = t \/ Has(pendq, x)
        /\ Distinct(pendq') /\ Sorted(pendq', prio)
    <3>1. /\ pendq \in Seq(Threads) /\ prio \in [Threads -> Int]
          /\ Distinct(pendq) /\ Sorted(pendq, prio)
      BY ConstantsAssumption DEF Inv, TypeOK, QueueInv
    <3>2. /\ AddPriff(pendq, t, prio) \in Seq(Threads) /\ AddPriff(pendq, t, prio) # <<>>
          /\ \A x : Has(AddPriff(pendq, t, prio), x) <=> x = t \/ Has(pendq, x)
          /\ Distinct(AddPriff(pendq, t, prio)) /\ Sorted(AddPriff(pendq, t, prio), prio)
      BY <1>6, <3>1, AddPriffProperties, Zenon
    <3> QED
      BY <1>10, <3>2
  <2>2. TypeOK'
    BY <1>2, <1>4, <1>10, <2>1 DEF Inv, TypeOK, Locations
  <2>3. ASSUME NEW u \in Threads
        PROVE  ThreadOK(u)'
    <3>1. PlaceInv(u) /\ WordInv(u) /\ InfoInv(u) /\ CountInv(u)
      BY <1>1
    <3> QED
      BY <1>2, <1>3, <1>5, <1>6, <1>10, <3>1, SMTT(20) DEF Inv, TypeOK, ThreadOK, PlaceInv, WordInv, InfoInv, CountInv,
            Granted, Told, Unlocking, HoldersPlace, Acquiring, LockCalls
  <2>4. \A u \in Threads : Has(pendq', u) <=> pc'[u] = "pend"
    BY <1>10, <2>1, SMTT(20) DEF Inv, QueueInv, TypeOK
  <2>5. QueueInv'
    BY <1>2, <1>3, <2>1, <2>4, ConstantsAssumption, Zenon DEF QueueInv
  <2> QED
    BY <2>2, <2>3, <2>5 DEF Inv, ThreadInv, ThreadOK
<1> QED
  BY <1>8, <1>9, <1>10, Zenon DEF Block, SetInfo, Goto

\* xnsynch_acquire() under nklock, after its exchange failed.
LEMMA AcquireClaimInv ==
  ASSUME Inv, NEW t \in Threads, AcquireClaim(t)
  PROVE  Inv'
<1>1. pc[t] = "claim" /\ UNCHANGED <<live, lockcnt, call, susp, held>>
  BY DEF AcquireClaim, Running
<1>2. CASE pc' = [pc EXCEPT ![t] = "try"] /\ UNCHANGED <<lock, owner, pendq, info, res, ret>>
  <2>1. TypeOK'
    BY <1>1, <1>2 DEF Inv, TypeOK, Locations
  <2>2. ASSUME NEW u \in Threads
        PROVE  ThreadOK(u)'
    <3>1. PlaceInv(u) /\ WordInv(u) /\ InfoInv(u) /\ CountInv(u)
      BY DEF Inv, ThreadInv, ThreadOK
    <3> QED
      BY <1>1, <1>2, <3>1 DEF Inv, TypeOK, ThreadOK, PlaceInv, WordInv, InfoInv, CountInv, Granted, Told,
            Unlocking, HoldersPlace, Acquiring
  <2>3. QueueInv'
    BY <1>1, <1>2 DEF Inv, QueueInv, TypeOK
  <2> QED
    BY <2>1, <2>2, <2>3 DEF Inv, ThreadInv, ThreadOK
<1>3. CASE lock.id # None /\ Steal(t)
  BY <1>1, <1>3, StealInv
<1>4. CASE lock.id # None /\ Block(t)
  BY <1>1, <1>4, BlockInv
<1> QED
  BY <1>2, <1>3, <1>4 DEF AcquireClaim, Goto

\* A thread in the unlock system call owns the mutex and nobody holds it.
LEMMA Unlocker ==
  ASSUME Inv, NEW t \in Threads, Unlocking(t)
  PROVE  /\ lock.id = t /\ live
         /\ \A v \in Threads : held[v] = 0
         /\ t \in Weak => res[t] = 1
<1>1. ThreadOK(t) /\ held[t] \in Nat /\ ~HoldersPlace(t)
  BY DEF Inv, ThreadInv, TypeOK, Unlocking, HoldersPlace, Acquiring
<1>2. lock.id = t /\ live /\ held[t] = 0
  BY <1>1 DEF ThreadOK, WordInv
<1>3. ASSUME NEW v \in Threads, v # t PROVE held[v] = 0
  BY <1>2, <1>3 DEF Inv, ThreadInv, ThreadOK, WordInv, TypeOK
<1>4. t \in Weak => res[t] = 1
  BY <1>1 DEF ThreadOK, CountInv
<1> QED
  BY <1>2, <1>3, <1>4

\* What xnsynch_release() changes of its caller.
ReleasedBy(t) ==
    /\ ret' = [ret EXCEPT ![t] = "OK"]
    /\ DropResource(t)
    /\ UNCHANGED <<live, lockcnt, call, susp, held>>

\* The caller of xnsynch_release() has nothing any more.
LEMMA Releaser ==
  ASSUME Inv, NEW t \in Threads, Unlocking(t), ReleasedBy(t), pc'[t] = "ret", info'[t] = info[t],
         lock'.id # t
  PROVE  ThreadOK(t)'
<1>1. ThreadOK(t) /\ held'[t] = 0 /\ (t \in Weak => res[t] = 1)
  BY Unlocker DEF Inv, ThreadInv, ReleasedBy
<1>2. call'[t] = "unlock" /\ ret'[t] = "OK" /\ (t \in Weak => res'[t] = 0)
  BY <1>1 DEF Inv, TypeOK, ReleasedBy, DropResource, Unlocking
<1>3. ~Granted(t)' /\ ~Told(t)' /\ ~Unlocking(t)'
  BY <1>2 DEF Granted, Told, Unlocking, LockCalls
<1>4. PlaceInv(t)'
  BY <1>2 DEF PlaceInv, Acquiring
<1>5. WordInv(t)'
  BY <1>1, <1>3 DEF WordInv
<1>6. InfoInv(t)'
  BY <1>1 DEF ThreadOK, InfoInv, Unlocking
<1>7. CountInv(t)'
  BY <1>1, <1>2, <1>3 DEF CountInv
<1> QED
  BY <1>4, <1>5, <1>6, <1>7 DEF ThreadOK

\* What xnsynch_release() changes has its type.
LEMMA ReleaserType ==
  ASSUME Inv, NEW t \in Threads, ReleasedBy(t)
  PROVE  /\ ret' \in [Threads -> Results] /\ res' \in [Threads -> Nat]
         /\ \A u \in Threads : u # t => ret'[u] = ret[u] /\ res'[u] = res[u]
<1>1. \A v \in Threads : (IF v \in Weak /\ res[v] > 0 THEN res[v] - 1 ELSE res[v]) \in Nat
  BY DEF Inv, TypeOK
<1>2. /\ ret' = [ret EXCEPT ![t] = "OK"]
      /\ res' = [res EXCEPT ![t] = IF t \in Weak /\ res[t] > 0 THEN res[t] - 1 ELSE res[t]]
  BY DEF ReleasedBy, DropResource
<1> QED
  BY <1>1, <1>2 DEF Inv, TypeOK, Results

\* xnsynch_release() sets the mutex free.
LEMMA SetFreeInv ==
  ASSUME Inv, NEW t \in Threads, Unlocking(t), ReleasedBy(t), pendq = <<>>, lock' = Free,
         pc' = [pc EXCEPT ![t] = "ret"], UNCHANGED <<pendq, info>>, owner' \in {owner, None}
  PROVE  Inv'
<1>1. TypeOK'
  <2>1. lock' \in [id : Threads \cup {None}, claim : BOOLEAN] /\ owner' \in Threads \cup {None}
    BY DEF Inv, TypeOK, Free
  <2>2. pc' \in [Threads -> Locations]
    BY DEF Inv, TypeOK, Locations
  <2> QED
    BY <2>1, <2>2, ReleaserType, Zenon DEF Inv, TypeOK, ReleasedBy
<1>2. lock.id = t /\ \A u \in Threads : lock'.id # u
  BY Unlocker, ConstantsAssumption DEF Free
<1>3. ThreadOK(t)'
  <2>1. pc'[t] = "ret" /\ info'[t] = info[t]
    BY DEF Inv, TypeOK
  <2> QED
    BY <1>2, <2>1, Releaser
<1>4. ASSUME NEW u \in Threads, u # t PROVE ThreadOK(u)'
  <2>1. ThreadOK(u) /\ pc'[u] = pc[u] /\ info'[u] = info[u]
    BY <1>4 DEF Inv, ThreadInv, TypeOK
  <2>2. call'[u] = call[u] /\ held'[u] = held[u] /\ live' = live /\ lockcnt' = lockcnt
    BY DEF ReleasedBy
  <2>3. ret'[u] = ret[u] /\ res'[u] = res[u]
    BY <1>4, ReleaserType
  <2> QED
    BY <1>2, <1>4, <2>1, <2>2, <2>3, OthersKept
<1>5. QueueInv'
  <2>1. \A u \in Threads : pc'[u] = "pend" <=> pc[u] = "pend"
    BY DEF Inv, TypeOK, Unlocking
  <2> QED
    BY <2>1 DEF Inv, QueueInv
<1> QED
  BY <1>1, <1>3, <1>4, <1>5 DEF Inv, ThreadInv

\* transfer_ownership() hands the mutex to the first sleeper.
LEMMA HandOverInv ==
  ASSUME Inv, NEW t \in Threads, Unlocking(t), ReleasedBy(t), NEW h \in Threads, Has(pendq, h),
         pc' = [pc EXCEPT ![t] = "ret", ![h] = "ready"],
         info' = [info EXCEPT ![h] = info[h] \cup {"WAKEN"}], owner' = h, NEW c \in BOOLEAN,
         lock' = [id |-> h, claim |-> c], c <=> pendq' # <<>>,
         pendq' \in Seq(Threads), Distinct(pendq'), Sorted(pendq', prio),
         \A x : Has(pendq', x) <=> Has(pendq, x) /\ x # h
  PROVE  Inv'
<1>1. pc[h] = "pend" /\ h # t
  BY DEF Inv, QueueInv, Unlocking
<1>2. TypeOK'
  <2>1. lock' \in [id : Threads \cup {None}, claim : BOOLEAN]
    OBVIOUS
  <2>2. info' \in [Threads -> SUBSET InfoBits]
    BY DEF Inv, TypeOK, InfoBits
  <2>3. pc' \in [Threads -> Locations]
    BY Zenon DEF Inv, TypeOK, Locations
  <2> QED
    BY <2>1, <2>2, <2>3, ReleaserType, Zenon DEF Inv, TypeOK, ReleasedBy
<1>3. lock.id = t /\ lock'.id = h /\ \A u \in Threads : held'[u] = 0
  BY Unlocker DEF ReleasedBy
<1>4. ThreadOK(t)'
  <2>1. pc'[t] = "ret" /\ info'[t] = info[t]
    BY <1>1 DEF Inv, TypeOK
  <2> QED
    BY <1>1, <1>3, <2>1, Releaser, Zenon
<1>5. ThreadOK(h)'
  <2>1. pc'[h] = "ready" /\ info'[h] = info[h] \cup {"WAKEN"}
    BY <1>1 DEF Inv, TypeOK
  <2>2. call'[h] = call[h] /\ ret'[h] = ret[h] /\ res'[h] = res[h]
    BY <1>1, ReleaserType, Zenon DEF ReleasedBy
  <2>3. ThreadOK(h) /\ held[h] = 0 /\ held'[h] = 0 /\ ~(held'[h] > 0)
    BY <1>3, Unlocker DEF Inv, ThreadInv
  <2>4. PlaceInv(h)' /\ InfoInv(h)'
    BY <1>1, <2>1, <2>2, <2>3, Zenon DEF ThreadOK, PlaceInv, InfoInv, Acquiring
  <2>5. Granted(h)' /\ ~Unlocking(h)' /\ ~Told(h)'
    BY <1>1, <2>1, <2>3, Zenon DEF ThreadOK, InfoInv, Granted, Unlocking, Told, BlockClears, Wakeup
  <2>6. WordInv(h)'
    BY <1>3, <2>3, <2>5, Zenon DEF WordInv
  <2>7. CountInv(h)'
    BY <1>1, <2>2, <2>3, <2>5, Zenon DEF ThreadOK, CountInv, Told, Unlocking
  <2> QED
    BY <2>4, <2>6, <2>7 DEF ThreadOK
<1>6. ASSUME NEW u \in Threads, u # t, u # h PROVE ThreadOK(u)'
  <2>1. ThreadOK(u) /\ pc'[u] = pc[u] /\ info'[u] = info[u]
    BY <1>6 DEF Inv, ThreadInv, TypeOK
  <2>2. call'[u] = call[u] /\ held'[u] = held[u] /\ live' = live /\ lockcnt' = lockcnt
    BY DEF ReleasedBy
  <2>3. ret'[u] = ret[u] /\ res'[u] = res[u]
    BY <1>6, ReleaserType
  <2> QED
    BY <1>3, <1>6, <2>1, <2>2, <2>3, OthersKept, Zenon
<1>7. QueueInv'
  <2>1. \A u \in Threads : Has(pendq', u) <=> pc'[u] = "pend"
    BY <1>1, Zenon DEF Inv, QueueInv, TypeOK, Unlocking
  <2>2. pendq' # <<>> => lock'.id # None /\ lock'.claim /\ owner' = lock'.id
    BY ConstantsAssumption
  <2> QED
    BY <2>1, <2>2, Zenon DEF QueueInv
<1> QED
  BY <1>2, <1>4, <1>5, <1>6, <1>7 DEF Inv, ThreadInv

\* mutex_unlock releases the mutex, or hands it over to the first sleeper.
LEMMA SysUnlockInv ==
  ASSUME Inv, NEW t \in Threads, SysUnlock(t)
  PROVE  Inv'
<1>1. Unlocking(t) /\ live
  <2>1. Unlocking(t)
    BY DEF SysUnlock, Running, Unlocking
  <2> QED
    BY <2>1, Unlocker
<1>2. /\ ReleasedBy(t) /\ Release(t)
      /\ pc' = [u \in Threads |-> IF u = t THEN "ret" ELSE IF Wakes(t, u) THEN "ready" ELSE pc[u]]
  BY <1>1, Zenon DEF SysUnlock, Release, ReleasedBy
<1>3. lock = Word(t, FALSE) => pendq = <<>>
  BY DEF Inv, QueueInv, Word
<1>4. CASE pendq = <<>>
  <2>1. lock' = Free /\ UNCHANGED <<pendq, info>> /\ owner' \in {owner, None}
    BY <1>2, <1>4, Zenon DEF Release, TransferOwnership
  <2>2. pc' = [pc EXCEPT ![t] = "ret"]
    BY <1>2, <1>4, Zenon DEF Wakes, Inv, TypeOK
  <2> QED
    BY <1>1, <1>2, <1>4, <2>1, <2>2, SetFreeInv
<1>5. CASE pendq # <<>>
  <2>1. /\ lock # Word(t, FALSE) /\ pendq' = Tail(pendq) /\ owner' = Head(pendq)
        /\ info' = [info EXCEPT ![Head(pendq)] = info[Head(pendq)] \cup {"WAKEN"}]
        /\ lock' = [id |-> Head(pendq), claim |-> Len(pendq) > 1]
    BY <1>2, <1>3, <1>5 DEF Release, TransferOwnership, SetOwner, SetInfo, Word
  <2>2. pendq \in Seq(Threads) /\ Distinct(pendq) /\ Sorted(pendq, prio)
    BY DEF Inv, TypeOK, QueueInv
  <2>3. /\ Head(pendq) \in Threads /\ Has(pendq, Head(pendq))
        /\ Tail(pendq) \in Seq(Threads) /\ (Len(pendq) > 1 <=> Tail(pendq) # <<>>)
        /\ \A x : Has(Tail(pendq), x) <=> Has(pendq, x) /\ x # Head(pendq)
        /\ Distinct(Tail(pendq)) /\ Sorted(Tail(pendq), prio)
    BY <1>5, <2>2, TailProperties
  <2>4. pc' = [pc EXCEPT ![t] = "ret", ![Head(pendq)] = "ready"]
    <3>1. \A u \in Threads : Wakes(t, u) <=> u = Head(pendq)
      BY <1>5, <2>1, Zenon DEF Wakes
    <3>2. pc[Head(pendq)] = "pend" /\ pc[t] = "sys"
      BY <1>1, <2>3 DEF Inv, QueueInv, Unlocking
    <3> QED
      BY <1>2, <3>1, <3>2, Zenon DEF Inv, TypeOK
  <2>5. (Len(pendq) > 1) \in BOOLEAN
    OBVIOUS
  <2> QED
    BY <1>1, <1>2, <2>1, <2>3, <2>4, <2>5, HandOverInv, Zenon
<1> QED
  BY <1>4, <1>5

----------------------------------------------------------------------------
\* Every step keeps the invariant.
LEMMA NextInv ==
  ASSUME Inv, [Next]_vars
  PROVE  Inv'
<1>1. CASE UNCHANGED vars
  <2>1. TypeOK' /\ QueueInv'
    BY <1>1, Zenon DEF vars, Inv, TypeOK, QueueInv
  <2>2. ASSUME NEW u \in Threads PROVE ThreadOK(u)'
    <3>1. ThreadOK(u)
      BY DEF Inv, ThreadInv
    <3> QED
      BY <1>1, <3>1, OthersKept, Zenon DEF vars
  <2> QED
    BY <2>1, <2>2 DEF Inv, ThreadInv
<1>2. ASSUME NEW t \in Threads,
             LockFast(t) \/ LockSyscall(t) \/ Relock(t) \/ Unlock(t) \/ Destroy(t)
      PROVE  Inv'
  BY <1>2, LockFastInv, LockSyscallInv, RelockInv, UnlockInv, DestroyInv
<1>3. ASSUME NEW t \in Threads, KernelStep(t)
      PROVE  Inv'
  BY <1>3, SysLockInv, SysTrylockInv, SysUnlockInv, AcquireTryInv, AcquireClaimInv, AcquireWakeInv,
     SysReturnInv DEF KernelStep
<1>4. ASSUME NEW t \in Threads,
             Mayday(t) \/ Timeout(t) \/ Unblock(t) \/ Kick(t, {"KICKED"})
      PROVE  Inv'
  BY <1>4, MaydayInv, TimeoutInv, UnblockInv, KickInv
<1> QED
  BY <1>1, <1>2, <1>3, <1>4, Zenon DEF Next

----------------------------------------------------------------------------
\* The invariant holds throughout.
THEOREM Invariance ==
  Spec => []Inv
<1>1. Init => Inv
  BY InitInv
<1>2. Inv /\ [Next]_vars => Inv'
  BY NextInv
<1> QED
  BY <1>1, <1>2, PTL DEF Spec

----------------------------------------------------------------------------
\* The state of the mutex, the system calls and the threads keeps its type; the
\* recursion count in particular never exceeds its maximum.
THEOREM TypeCorrect ==
  Spec => []TypeOK
<1>1. Inv => TypeOK
  BY DEF Inv
<1> QED
  BY <1>1, Invariance, PTL

\* The locking services never tell two threads that they have the mutex,
\* whatever the interleaving of user-space exchanges with the kernel, the
\* timeouts, the unblocked sleepers and the stolen ownerships.
THEOREM Exclusion ==
  Spec => []MutualExclusion
<1>1. Inv => MutualExclusion
  BY DEF Inv, ThreadInv, ThreadOK, WordInv, MutualExclusion
<1> QED
  BY <1>1, Invariance, PTL

\* A mutex whose lock word names a thread has a thread to release it: no
\* failed, interrupted or timed out call leaves the word behind.
THEOREM NoOrphanedMutex ==
  Spec => []NoOrphan
<1>1. Inv => NoOrphan
  BY DEF Inv, ThreadInv, ThreadOK, WordInv, NoOrphan, Unlocking
<1> QED
  BY <1>1, Invariance, PTL

\* A thread sleeps only on a mutex whose lock word is claimed and whose owner
\* the kernel knows, and the sleepers are in priority order.
THEOREM SleepersKept ==
  Spec => []SleepersKnown
<1>1. Inv => SleepersKnown
  BY DEF Inv, QueueInv, SleepersKnown, SleepersClaim, OwnerTracked, PriorityQueue
<1> QED
  BY <1>1, Invariance, PTL

\* The recursion count and the resource count of the owner are exact.
THEOREM CountsExact ==
  Spec => []OwnerCounts
<1>1. Inv => OwnerCounts
  <2> SUFFICES ASSUME Inv PROVE RecursionCount /\ ResourceCount
    BY DEF OwnerCounts
  <2>1. RecursionCount
    BY DEF Inv, ThreadInv, ThreadOK, WordInv, RecursionCount
  <2>2. ASSUME NEW t \in Weak, pc[t] = "user" PROVE res[t] = IF held[t] > 0 THEN 1 ELSE 0
    <3>1. t \in Threads
      BY ConstantsAssumption
    <3>2. CountInv(t) /\ ~Told(t) /\ ~Unlocking(t)
      BY <2>2, <3>1 DEF Inv, ThreadInv, ThreadOK, Told, Unlocking
    <3> QED
      BY <3>2 DEF CountInv
  <2> QED
    BY <2>1, <2>2 DEF ResourceCount
<1> QED
  BY <1>1, Invariance, PTL

\* The mutex implements LockService: every step of the lock word, the queue or
\* a system call is a step of the abstract locking service or invisible to it.
THEOREM Refinement ==
  Spec => ServiceSpec
<1>1. Init => Service!Init
  BY DEF Init, Service!Init, serviceState, LockCalls
<1>2. ASSUME Inv, [Next]_vars
      PROVE  [Service!Next]_serviceState
  <2> DEFINE View(h, c) == IF h > 0 THEN "holding" ELSE IF c \in LockCalls THEN "asking" ELSE "idle"
  <2>1. serviceState = [u \in Threads |-> View(held[u], call[u])]
        /\ serviceState' = [u \in Threads |-> View(held'[u], call'[u])]
    BY DEF serviceState
  <2>2. \A v \in Threads : PlaceInv(v) /\ WordInv(v)
    BY <1>2 DEF Inv, ThreadInv, ThreadOK
  <2>3. held \in [Threads -> Nat] /\ call \in [Threads -> Services]
    BY <1>2 DEF Inv, TypeOK
  \* Only the caller's entry changes, in one of the ways LockService has.
  <2>4. ASSUME NEW t \in Threads, NEW h \in Nat, NEW c \in Services,
               held' = [held EXCEPT ![t] = h], call' = [call EXCEPT ![t] = c],
               \/ View(h, c) = View(held[t], call[t])
               \/ View(held[t], call[t]) = "idle" /\ View(h, c) = "asking"
               \/ View(held[t], call[t]) = "asking" /\ View(h, c) = "idle"
               \/ View(held[t], call[t]) = "holding" /\ View(h, c) = "idle"
               \/ /\ View(held[t], call[t]) # "holding" /\ View(h, c) = "holding"
                  /\ \A v \in Threads : held[v] = 0
        PROVE  [Service!Next]_serviceState
    <3>1. serviceState' = [serviceState EXCEPT ![t] = View(h, c)]
      BY <2>1, <2>3, <2>4
    <3>2. serviceState[t] = View(held[t], call[t]) /\ serviceState \in [Threads -> {"idle", "asking", "holding"}]
      BY <2>1
    <3>3. (\A v \in Threads : held[v] = 0) => Service!Available
      BY <2>1 DEF Service!Available
    <3> HIDE DEF View
    <3> QED
      BY <2>4, <3>1, <3>2, <3>3, Zenon DEF Service!Next, Service!Ask, Service!Obtain, Service!Fail, Service!GiveBack
  <2>5. CASE UNCHANGED <<held, call>>
    BY <2>1, <2>5
  <2>6. ASSUME NEW t \in Threads, LockFast(t) PROVE [Service!Next]_serviceState
    <3>1. \A v \in Threads : held[v] = 0
      BY <2>2, <2>3, <2>6, ConstantsAssumption DEF LockFast, WordInv, Free
    <3>2. held' = [held EXCEPT ![t] = 1] /\ call' = [call EXCEPT ![t] = call[t]]
      BY <2>3, <2>6, <3>1 DEF LockFast
    <3>3. View(1, call[t]) = "holding" /\ View(held[t], call[t]) # "holding"
      BY <3>1 DEF LockCalls
    <3>4. 1 \in Nat /\ call[t] \in Services
      BY <2>3
    <3> HIDE DEF View
    <3> QED
      BY <2>4, <3>1, <3>2, <3>3, <3>4, Zenon
  <2>7. ASSUME NEW t \in Threads, LockSyscall(t) PROVE [Service!Next]_serviceState
    <3>1. PICK c \in Calls : call' = [call EXCEPT ![t] = c]
      BY <2>7, Zenon DEF LockSyscall
    <3>2. held' = [held EXCEPT ![t] = held[t]] /\ held[t] = 0 /\ call[t] = "none"
      BY <2>2, <2>3, <2>7 DEF LockSyscall, Running, PlaceInv
    <3>3. c \in LockCalls /\ c \in Services
      BY ConstantsAssumption DEF Services
    <3>4. View(held[t], call[t]) = "idle" /\ View(held[t], c) = "asking"
      BY <3>2, <3>3 DEF LockCalls
    <3> HIDE DEF View
    <3> QED
      BY <2>3, <2>4, <3>1, <3>2, <3>3, <3>4, Zenon
  <2>8. ASSUME NEW t \in Threads, Relock(t) PROVE [Service!Next]_serviceState
    <3>1. held[t] > 0
      BY <2>2, <2>8 DEF Relock, Running, WordInv, Granted, Unlocking
    <3>2. PICK h \in {held[t], held[t] + 1}, c \in {call[t], "lock"} :
             held' = [held EXCEPT ![t] = h] /\ call' = [call EXCEPT ![t] = c]
      BY <2>3, <2>8 DEF Relock
    <3>3. h \in Nat /\ h > 0 /\ c \in Services
      BY <2>3, <3>1 DEF Services, LockCalls
    <3> QED
      BY <2>4, <3>1, <3>2, <3>3, Zenon
  <2>9. ASSUME NEW t \in Threads, Unlock(t) PROVE [Service!Next]_serviceState
    <3>1. held[t] > 0 /\ call[t] = "none"
      BY <2>2, <2>9 DEF Unlock, Running, PlaceInv
    <3>2. PICK c \in {"none", "unlock"} :
             held' = [held EXCEPT ![t] = held[t] - 1] /\ call' = [call EXCEPT ![t] = c]
      BY <2>3, <2>9, <3>1, Zenon DEF Unlock
    <3>3. held[t] - 1 \in Nat /\ c \in Services /\ c \notin LockCalls
      BY <2>3, <3>1 DEF Services, LockCalls
    <3>4. View(held[t], call[t]) = "holding" /\ View(held[t] - 1, c) \in {"holding", "idle"}
      BY <3>1, <3>3
    <3> HIDE DEF View
    <3> QED
      BY <2>4, <3>2, <3>3, <3>4, Zenon
  <2>10. ASSUME NEW t \in Threads, SysLock(t) PROVE [Service!Next]_serviceState
    <3>1. CASE UNCHANGED call
      BY <2>5, <2>10, <3>1 DEF SysLock
    <3>2. CASE lock.id = t /\ call' = [call EXCEPT ![t] = "relock"]
      <4>1. held[t] > 0
        BY <2>2, <2>10, <3>2 DEF SysLock, Running, WordInv, Granted, Unlocking
      <4>2. held' = [held EXCEPT ![t] = held[t]] /\ held[t] \in Nat /\ "relock" \in Services
        BY <2>3, <2>10 DEF SysLock, Services
      <4> QED
        BY <2>4, <3>2, <4>1, <4>2, Zenon
    <3> QED
      BY <2>10, <3>1, <3>2 DEF SysLock
  <2>11. ASSUME NEW t \in Threads, SysReturn(t) PROVE [Service!Next]_serviceState
    <3>1. pc[t] = "ret" /\ held[t] \in Nat /\ call[t] \in Services
      BY <2>3, <2>11 DEF SysReturn, Running
    <3>2. CASE /\ call' = [call EXCEPT ![t] = IF call[t] = "relock" THEN "lock" ELSE call[t]]
               /\ UNCHANGED held
      <4>1. PICK c \in Services : c = IF call[t] = "relock" THEN "lock" ELSE call[t]
        BY <3>1 DEF Services, LockCalls
      <4>2. held' = [held EXCEPT ![t] = held[t]] /\ call' = [call EXCEPT ![t] = c]
        BY <2>3, <3>2, <4>1
      <4>3. View(held[t], c) = View(held[t], call[t])
        BY <2>2, <4>1 DEF PlaceInv
      <4> HIDE DEF View
      <4> QED
        BY <2>4, <3>1, <4>2, <4>3, Zenon
    <3>3. CASE Told(t) /\ held' = [held EXCEPT ![t] = held[t] + 1] /\ call' = [call EXCEPT ![t] = "none"]
      <4>1. lock.id = t
        BY <2>2, <3>3 DEF WordInv, Granted, Told
      <4>2. ~HoldersPlace(t)
        BY <3>3 DEF HoldersPlace, Told, Acquiring, LockCalls
      <4>3. \A v \in Threads : held[v] = 0
        BY <2>2, <2>3, <4>1, <4>2 DEF WordInv
      <4>4. held[t] + 1 \in Nat /\ held[t] + 1 > 0 /\ "none" \in Services
        BY <3>1 DEF Services
      <4> QED
        BY <2>4, <3>3, <4>3, <4>4, Zenon
    <3>4. CASE ~Told(t) /\ held' = [held EXCEPT ![t] = held[t]] /\ call' = [call EXCEPT ![t] = "none"]
      <4>1. "none" \in Services /\ "none" \notin LockCalls
        BY DEF Services, LockCalls
      <4> QED
        BY <2>4, <3>1, <3>4, <4>1, Zenon
    <3> QED
      BY <2>11, <3>1, <3>2, <3>3, <3>4 DEF SysReturn, Told
  <2>12. ASSUME NEW t \in Threads,
                \/ SysTrylock(t) \/ SysUnlock(t) \/ AcquireTry(t) \/ AcquireClaim(t) \/ AcquireWake(t)
                \/ Mayday(t) \/ Timeout(t) \/ Unblock(t) \/ Destroy(t)
                \/ (\E bits : Kick(t, bits))
         PROVE  UNCHANGED <<held, call>>
    BY <2>12, Zenon DEF SysTrylock, SysUnlock, AcquireTry, AcquireClaim, AcquireWake, Mayday, Timeout, Unblock,
          Destroy, Kick
  <2>13. CASE UNCHANGED vars
    BY <2>5, <2>13 DEF vars
  <2> QED
    BY <1>2, <2>5, <2>6, <2>7, <2>8, <2>9, <2>10, <2>11, <2>12, <2>13 DEF Next, KernelStep
<1> QED
  BY <1>1, <1>2, Invariance, PTL DEF Spec, ServiceSpec, Service!Spec

\* A mutex the kernel handed to a sleeper goes elsewhere, before that sleeper
\* runs, only by a steal, and then to a thread of higher priority.
THEOREM StealsOnlyByPriority ==
  Spec => StealsByPriority
<1> DEFINE Kept == \A t \in Threads :
              (lock.id = t /\ pc[t] = "ready" /\ lock'.id # t) =>
                 lock'.id # None /\ prio[lock'.id] > prio[t]
<1>1. ASSUME Inv, [Next]_vars PROVE Kept
  <2>1. SUFFICES ASSUME NEW t \in Threads, lock.id = t, pc[t] = "ready", lock'.id # t
                 PROVE  lock'.id # None /\ prio[lock'.id] > prio[t]
    OBVIOUS
  <2>2. \A v \in Threads : WordInv(v) /\ (v # t => held[v] = 0)
    BY <1>1, <2>1 DEF Inv, ThreadInv, ThreadOK, WordInv, TypeOK
  <2>3. ASSUME NEW u \in Threads, AcquireClaim(u) PROVE lock'.id # None /\ prio[lock'.id] > prio[t]
    <3>1. CASE Steal(u)
      BY <2>1, <3>1, ConstantsAssumption, Zenon DEF Steal, CanSteal, Word
    <3>2. CASE Block(u)
      BY <2>1, <3>2 DEF Block, Word
    <3> QED
      BY <2>1, <2>3, <3>1, <3>2, Zenon DEF AcquireClaim
  <2>4. ASSUME NEW u \in Threads, AcquireWake(u) PROVE FALSE
    <3>1. u # t => ~Granted(u)
      BY <2>1, <2>2 DEF WordInv
    <3> QED
      BY <2>1, <2>4, <3>1 DEF AcquireWake, Running, Granted, Word, Wakeup
  <2>5. ASSUME NEW u \in Threads, SysUnlock(u) PROVE FALSE
    BY <2>1, <2>2, <2>5 DEF SysUnlock, Running, WordInv, Unlocking
  <2>6. ASSUME NEW u \in Threads, Unlock(u) PROVE FALSE
    BY <2>1, <2>2, <2>6 DEF Unlock, Running
  <2>7. ASSUME NEW u \in Threads, LockFast(u) \/ SysTrylock(u) \/ AcquireTry(u) PROVE FALSE
    <3>1. lock # Free
      BY <2>1, ConstantsAssumption DEF Free
    <3> QED
      BY <2>1, <2>7, <3>1, Zenon DEF LockFast, SysTrylock, AcquireTry
  <2>8. ASSUME NEW u \in Threads,
               \/ LockSyscall(u) \/ Relock(u) \/ Destroy(u) \/ SysLock(u) \/ SysReturn(u) \/ Mayday(u)
               \/ Timeout(u) \/ Unblock(u) \/ (\E bits : Kick(u, bits))
        PROVE  FALSE
    BY <2>1, <2>8, Zenon DEF LockSyscall, Relock, Destroy, SysLock, SysReturn, Mayday, Timeout, Unblock, Kick,
          kernel
  <2>9. CASE UNCHANGED vars
    BY <2>1, <2>9, Zenon DEF vars
  <2> QED
    BY <1>1, <2>3, <2>4, <2>5, <2>6, <2>7, <2>8, <2>9, Zenon DEF Next, KernelStep
<1>2. Inv /\ [Next]_vars => [Kept]_vars
  BY <1>1, Zenon
<1> QED
  BY <1>2, Invariance, PTL DEF Spec, StealsByPriority
============================================================================
