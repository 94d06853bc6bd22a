-------------------------- MODULE MutexInvariant ---------------------------
(***************************************************************************)
(* The inductive invariant of Mutex, for any number of threads, any        *)
(* priorities and any type of mutex.  It is not one of DisturbedSpec: the  *)
(* run mutex_signal shows what a Linux signal does to mutual exclusion.    *)
(***************************************************************************)
EXTENDS Mutex, PrioListProofs

Acquiring == {"try", "claim", "pend", "ready"}

Unlocking(t) == pc[t] = "sys" /\ call[t] = "unlock"

Told(t) == pc[t] = "ret" /\ call[t] \in LockCalls /\ ret[t] = "OK"

\* Where a thread may be while it holds the mutex: in its own code, or in a
\* call that tries to lock the mutex once more.
HoldersPlace(t) ==
    \/ pc[t] = "user"
    \/ pc[t] \in {"sys", "ret"} /\ call[t] = "lock" /\ ~Told(t)
    \/ pc[t] \in Acquiring \cup {"ret"} /\ call[t] = "relock"

\* Location and service of a thread agree.
PlaceInv(t) ==
    /\ pc[t] = "user" <=> call[t] = "none"
    /\ pc[t] \in Acquiring => call[t] \in {"lock", "timedlock", "relock"}
    /\ pc[t] = "sys" => call[t] # "relock"
    /\ call[t] = "relock" => held[t] > 0
    /\ pc[t] = "ret" /\ call[t] = "unlock" => ret[t] # "EINTR"

\* The lock word names the thread that holds the mutex, was granted it, or is
\* releasing it, and no other.
WordInv(t) ==
    /\ held[t] > 0 => lock.id = t /\ lockcnt = held[t] /\ HoldersPlace(t)
    /\ Granted(t) => lock.id = t
    /\ Unlocking(t) => lock.id = t /\ live
    /\ lock.id = t => held[t] > 0 \/ Granted(t) \/ Unlocking(t)

\* What the information bits of a thread say of its location.
InfoInv(t) ==
    /\ "WAKEN" \in info[t] => pc[t] = "ready" /\ held[t] = 0
    /\ pc[t] = "ready" => "WAKEN" \in info[t] \/ info[t] \cap Wakeup # {}
    /\ pc[t] = "pend" => info[t] \cap BlockClears = {}
    /\ "SIG" \notin info[t]

\* The resource count of a weak thread, at every location.
CountInv(t) ==
    t \in Weak => res[t] = IF held[t] > 0 \/ Told(t) \/ Unlocking(t) THEN 1 ELSE 0

ThreadOK(t) == PlaceInv(t) /\ WordInv(t) /\ InfoInv(t) /\ CountInv(t)

ThreadInv == \A t \in Threads : ThreadOK(t)

\* The queue is in order, holds exactly the sleeping threads, and is claimed.
QueueInv ==
    /\ Distinct(pendq) /\ Sorted(pendq, prio)
    /\ \A t \in Threads : Has(pendq, t) <=> pc[t] = "pend"
    /\ pendq # <<>> => lock.id # None /\ lock.claim /\ owner = lock.id

Inv == TypeOK /\ ThreadInv /\ QueueInv

----------------------------------------------------------------------------
\* The program starts in a state of the invariant.
LEMMA InitInv == Init => Inv
<1> SUFFICES ASSUME Init PROVE Inv
  OBVIOUS
<1> USE ConstantsAssumption DEF Init, Free
<1>1. TypeOK
  BY DEF TypeOK, Locations, Services, LockCalls, Results, InfoBits
<1>2. ThreadInv
  BY DEF ThreadInv, ThreadOK, PlaceInv, WordInv, InfoInv, CountInv, Granted, Told, Unlocking,
         Acquiring, LockCalls
<1>3. QueueInv
  BY DEF QueueInv, Distinct, Sorted, Has
<1> QED
  BY <1>1, <1>2, <1>3 DEF Inv

\* What the invariant says of a thread stays true when a step leaves the thread alone.
LEMMA OthersKept ==
  ASSUME NEW u \in Threads, ThreadOK(u),
         pc'[u] = pc[u], call'[u] = call[u], ret'[u] = ret[u], info'[u] = info[u],
         res'[u] = res[u], held'[u] = held[u], live' = live,
         lock'.id = u <=> lock.id = u, lockcnt' = lockcnt \/ ~(held[u] > 0)
  PROVE  ThreadOK(u)'
<1>1. PlaceInv(u)' /\ InfoInv(u)' /\ CountInv(u)'
  BY DEF ThreadOK, PlaceInv, InfoInv, CountInv, Told, Unlocking
<1>2. (Granted(u)' <=> Granted(u)) /\ (Unlocking(u)' <=> Unlocking(u)) /\ (HoldersPlace(u)' <=> HoldersPlace(u))
  BY DEF Granted, Unlocking, HoldersPlace, Told
<1>3. WordInv(u)'
  BY <1>2 DEF ThreadOK, WordInv
<1> QED
  BY <1>1, <1>3 DEF ThreadOK

\* The exchange of a user-space lock finds the word free.
LEMMA LockFastInv ==
  ASSUME Inv, NEW t \in Threads, LockFast(t)
  PROVE  Inv'
<1>1. TypeOK'
  BY ConstantsAssumption DEF Inv, LockFast, Running, Word, Free, TypeOK
<1> USE ConstantsAssumption DEF Inv, LockFast, Running, Word, Free
<1>2. ASSUME NEW u \in Threads
      PROVE  ThreadOK(u)'
  <2>1. \A v \in {t, u} : PlaceInv(v) /\ WordInv(v) /\ InfoInv(v) /\ CountInv(v)
    BY DEF ThreadInv, ThreadOK
  <2> QED
    BY <2>1 DEF TypeOK, ThreadOK, PlaceInv, WordInv, InfoInv, CountInv, Granted, Told, Unlocking, HoldersPlace,
          Acquiring, LockCalls
<1>3. QueueInv'
  BY DEF QueueInv, TypeOK
<1> QED
  BY <1>1, <1>2, <1>3 DEF ThreadInv

\* A user-space lock enters the kernel.
LEMMA LockSyscallInv ==
  ASSUME Inv, NEW t \in Threads, LockSyscall(t)
  PROVE  Inv'
<1>1. TypeOK'
  BY ConstantsAssumption DEF Inv, LockSyscall, Running, Goto, kernel, TypeOK, Services, LockCalls, Locations
<1> USE ConstantsAssumption DEF Inv, LockSyscall, Running, Goto, kernel
<1>2. ASSUME NEW u \in Threads
      PROVE  ThreadOK(u)'
  <2>1. \A v \in {t, u} : PlaceInv(v) /\ WordInv(v) /\ InfoInv(v) /\ CountInv(v)
    BY DEF ThreadInv, ThreadOK
  <2> QED
    BY <2>1 DEF TypeOK, ThreadOK, PlaceInv, WordInv, InfoInv, CountInv, Granted, Told, Unlocking, HoldersPlace,
          Acquiring, LockCalls
<1>3. QueueInv'
  BY DEF QueueInv, TypeOK
<1> QED
  BY <1>1, <1>2, <1>3 DEF ThreadInv

\* The holder locks the mutex once more.
LEMMA RelockInv ==
  ASSUME Inv, NEW t \in Threads, Relock(t)
  PROVE  Inv'
<1>1. TypeOK'
  <2>1. /\ held' = held \/ held' = [held EXCEPT ![t] = held[t] + 1]
        /\ lockcnt' = lockcnt \/ (lockcnt' = lockcnt + 1 /\ lockcnt < MaxCount)
        /\ pc' = pc \/ pc' = [pc EXCEPT ![t] = "sys"]
        /\ call' = call \/ call' = [call EXCEPT ![t] = "lock"]
    BY DEF Relock, Running, Goto, kernel
  <2>2. held' \in [Threads -> Nat]
    <3>1. [held EXCEPT ![t] = held[t] + 1] \in [Threads -> Nat]
      BY DEF Inv, TypeOK
    <3> QED
      BY <2>1, <3>1, Zenon DEF Inv, TypeOK
  <2>3. lockcnt' \in 0 .. MaxCount
    BY <2>1, ConstantsAssumption DEF Inv, TypeOK
  <2>4. pc' \in [Threads -> Locations]
    BY <2>1, Zenon DEF Inv, TypeOK, Locations
  <2>5. call' \in [Threads -> Services]
    BY <2>1, Zenon DEF Inv, TypeOK, Services, LockCalls
  <2> QED
    BY <2>2, <2>3, <2>4, <2>5 DEF Inv, Relock, Running, Goto, kernel, TypeOK
<1> USE ConstantsAssumption DEF Inv, Relock, Running, Goto, kernel
<1>2. ASSUME NEW u \in Threads
      PROVE  ThreadOK(u)'
  <2>1. \A v \in {t, u} : PlaceInv(v) /\ WordInv(v) /\ InfoInv(v) /\ CountInv(v)
    BY DEF ThreadInv, ThreadOK
  <2> QED
    BY <2>1 DEF TypeOK, ThreadOK, PlaceInv, WordInv, InfoInv, CountInv, Granted, Told, Unlocking, HoldersPlace,
          Acquiring, LockCalls
<1>3. QueueInv'
  BY DEF QueueInv, TypeOK
<1> QED
  BY <1>1, <1>2, <1>3 DEF ThreadInv

\* The holder unlocks the mutex.
LEMMA UnlockInv ==
  ASSUME Inv, NEW t \in Threads, Unlock(t)
  PROVE  Inv'
<1>1. TypeOK'
  <2>1. /\ lock' = lock \/ lock' = [id |-> None, claim |-> FALSE]
        /\ lockcnt' = lockcnt \/ (lockcnt' = lockcnt - 1 /\ lockcnt > 1)
        /\ (held' = [held EXCEPT ![t] = held[t] - 1] /\ held[t] > 0)
        /\ pc' = pc \/ pc' = [pc EXCEPT ![t] = "sys"]
        /\ call' = call \/ call' = [call EXCEPT ![t] = "unlock"]
    BY DEF Unlock, Running, Goto, Word, Free
  <2>2. lock' \in [id : Threads \cup {None}, claim : BOOLEAN]
    <3>1. [id |-> None, claim |-> FALSE] \in [id : Threads \cup {None}, claim : BOOLEAN]
      BY DEF Inv, TypeOK
    <3> QED
      BY <2>1, <3>1, Zenon DEF Inv, TypeOK
  <2>3. lockcnt' \in 0 .. MaxCount
    BY <2>1, ConstantsAssumption DEF Inv, TypeOK
  <2>4. held' \in [Threads -> Nat]
    BY <2>1 DEF Inv, TypeOK
  <2>5. pc' \in [Threads -> Locations]
    BY <2>1, Zenon DEF Inv, TypeOK, Locations
  <2>6. call' \in [Threads -> Services]
    BY <2>1, Zenon DEF Inv, TypeOK, Services, LockCalls
  <2> QED
    BY <2>2, <2>3, <2>4, <2>5, <2>6 DEF Inv, Unlock, Running, Goto, Word, Free, TypeOK
<1>2. /\ held[t] > 0 /\ lock.id = t /\ lockcnt = held[t] /\ live /\ pc[t] = "user" /\ call[t] = "none"
      /\ \A v \in Threads : v # t => ~(held[v] > 0)
  BY DEF Inv, ThreadInv, ThreadOK, WordInv, PlaceInv, Unlock, Running
<1>3. ThreadOK(t) /\ UNCHANGED <<owner, pendq, live, ret, info, susp, res>>
  BY DEF Inv, ThreadInv, Unlock
<1>4. held' = [held EXCEPT ![t] = held[t] - 1] /\ held[t] \in Nat
  BY Zenon DEF Inv, TypeOK, Unlock
\* One level less, the word set free, or the system call.
<1>5. \/ lockcnt > 1 /\ lockcnt' = lockcnt - 1 /\ UNCHANGED <<lock, pc, call>>
      \/ lockcnt <= 1 /\ t \notin Weak /\ lock = Word(t, FALSE) /\ lock' = Free /\ UNCHANGED <<lockcnt, pc, call>>
      \/ /\ lockcnt <= 1 /\ UNCHANGED <<lock, lockcnt>>
         /\ pc' = [pc EXCEPT ![t] = "sys"] /\ call' = [call EXCEPT ![t] = "unlock"]
  BY <1>2, Zenon DEF Unlock, Goto
<1>6. ThreadOK(t)'
  <2>1. CASE lockcnt > 1 /\ lockcnt' = lockcnt - 1 /\ UNCHANGED <<lock, pc, call>>
    <3>1. held'[t] = held[t] - 1 /\ held'[t] > 0 /\ lockcnt' = held'[t]
      BY <1>2, <1>4, <2>1 DEF Inv, TypeOK
    <3> QED
      BY <1>2, <1>3, <2>1, <3>1 DEF ThreadOK, PlaceInv, WordInv, InfoInv, CountInv, Granted, Told,
            Unlocking, HoldersPlace, Acquiring
  <2>2. CASE lockcnt <= 1 /\ t \notin Weak /\ lock' = Free /\ UNCHANGED <<lockcnt, pc, call>>
    <3>1. held'[t] = 0 /\ lock'.id # t
      BY <1>2, <1>4, <2>2, ConstantsAssumption DEF Inv, TypeOK, Free
    <3> QED
      BY <1>2, <1>3, <2>2, <3>1 DEF ThreadOK, PlaceInv, WordInv, InfoInv, CountInv, Granted, Told,
            Unlocking, Acquiring
  <2>3. CASE /\ lockcnt <= 1 /\ UNCHANGED <<lock, lockcnt>>
             /\ pc' = [pc EXCEPT ![t] = "sys"] /\ call' = [call EXCEPT ![t] = "unlock"]
    <3>1. held'[t] = 0 /\ pc'[t] = "sys" /\ call'[t] = "unlock"
      BY <1>2, <1>4, <2>3 DEF Inv, TypeOK
    <3> QED
      BY <1>2, <1>3, <2>3, <3>1 DEF ThreadOK, PlaceInv, WordInv, InfoInv, CountInv, Granted, Told,
            Unlocking, Acquiring
  <2> QED
    BY <1>5, <2>1, <2>2, <2>3, Zenon
<1>7. ASSUME NEW u \in Threads, u # t PROVE ThreadOK(u)'
  <2>1. ThreadOK(u) /\ lock.id # u /\ lock'.id # u /\ ~(held[u] > 0)
    <3>1. ThreadOK(u) /\ lock.id # u /\ ~(held[u] > 0)
      BY <1>2, <1>7 DEF Inv, ThreadInv
    <3>2. lock' = lock \/ lock' = Free
      BY <1>5, Zenon
    <3>3. Free.id # u
      BY ConstantsAssumption DEF Free
    <3> QED
      BY <3>1, <3>2, <3>3
  <2>2. held'[u] = held[u]
    BY <1>4, <1>7 DEF Inv, TypeOK
  <2>3. pc'[u] = pc[u] /\ call'[u] = call[u]
    <3>1. CASE UNCHANGED <<pc, call>>
      BY <3>1
    <3>2. CASE pc' = [pc EXCEPT ![t] = "sys"] /\ call' = [call EXCEPT ![t] = "unlock"]
      BY <1>7, <3>2 DEF Inv, TypeOK
    <3> QED
      BY <1>5, <3>1, <3>2, Zenon
  <2> QED
    BY <1>3, <2>1, <2>2, <2>3, OthersKept
<1>8. QueueInv'
  <2>1. \A u \in Threads : pc'[u] = "pend" <=> pc[u] = "pend"
    BY <1>2, <1>5, Zenon DEF Inv, TypeOK
  <2>2. pendq # <<>> => lock' = lock
    BY <1>5 DEF Inv, QueueInv, Word
  <2> QED
    BY <1>3, <2>1, <2>2 DEF Inv, QueueInv
<1> QED
  BY <1>1, <1>6, <1>7, <1>8 DEF Inv, ThreadInv

\* The lock system call looks at the mutex.
LEMMA SysLockInv ==
  ASSUME Inv, NEW t \in Threads, SysLock(t)
  PROVE  Inv'
<1>1. TypeOK'
  <2>1. /\ pc' = [pc EXCEPT ![t] = "try"] \/ pc' = [pc EXCEPT ![t] = "ret"]
        /\ call' = call \/ call' = [call EXCEPT ![t] = "relock"]
        /\ ret' = ret \/ ret' = [ret EXCEPT ![t] = "EINVAL"]
    BY DEF SysLock, Running, Goto, Return, kernel
  <2>2. pc' \in [Threads -> Locations]
    BY <2>1, Zenon DEF Inv, TypeOK, Locations
  <2>3. call' \in [Threads -> Services]
    BY <2>1, Zenon DEF Inv, TypeOK, Services, LockCalls
  <2>4. ret' \in [Threads -> Results]
    BY <2>1, Zenon DEF Inv, TypeOK, Results
  <2> QED
    BY <2>2, <2>3, <2>4 DEF Inv, SysLock, Running, Goto, Return, kernel, TypeOK
<1> USE ConstantsAssumption DEF Inv, SysLock, Running, Goto, Return, kernel
<1>2. ASSUME NEW u \in Threads
      PROVE  ThreadOK(u)'
  <2>1. \A v \in {t, u} : PlaceInv(v) /\ WordInv(v) /\ InfoInv(v) /\ CountInv(v)
    BY DEF ThreadInv, ThreadOK
  <2> QED
    BY <2>1 DEF TypeOK, ThreadOK, PlaceInv, WordInv, InfoInv, CountInv, Granted, Told, Unlocking, HoldersPlace,
          Acquiring, LockCalls
<1>3. QueueInv'
  BY DEF QueueInv, TypeOK
<1> QED
  BY <1>1, <1>2, <1>3 DEF ThreadInv

\* The trylock system call.
LEMMA SysTrylockInv ==
  ASSUME Inv, NEW t \in Threads, SysTrylock(t)
  PROVE  Inv'
<1>1. TypeOK'
  <2>1. /\ lock' = lock \/ lock' = [id |-> t, claim |-> FALSE]
        /\ res' = res \/ res' = [res EXCEPT ![t] = IF t \in Weak THEN @ + 1 ELSE @]
        /\ pc' = [pc EXCEPT ![t] = "ret"]
        /\ ret' = [ret EXCEPT ![t] = "OK"] \/ ret' = [ret EXCEPT ![t] = "EBUSY"] \/ ret' = [ret EXCEPT ![t] = "EINVAL"]
    BY DEF SysTrylock, Running, Goto, Return, Word, Free, CountResource
  <2>2. lock' \in [id : Threads \cup {None}, claim : BOOLEAN]
    <3>1. [id |-> t, claim |-> FALSE] \in [id : Threads \cup {None}, claim : BOOLEAN]
      BY DEF Inv, TypeOK
    <3> QED
      BY <2>1, <3>1, Zenon DEF Inv, TypeOK
  <2>3. res' \in [Threads -> Nat]
    <3>1. [res EXCEPT ![t] = IF t \in Weak THEN @ + 1 ELSE @] \in [Threads -> Nat]
      BY DEF Inv, TypeOK
    <3> QED
      BY <2>1, <3>1 DEF Inv, TypeOK
  <2>4. pc' \in [Threads -> Locations]
    BY <2>1 DEF Inv, TypeOK, Locations
  <2>5. ret' \in [Threads -> Results]
    BY <2>1, Zenon DEF Inv, TypeOK, Results
  <2> QED
    BY <2>2, <2>3, <2>4, <2>5 DEF Inv, SysTrylock, Running, Goto, Return, Word, Free, CountResource, TypeOK
<1>2. /\ pc[t] = "sys" /\ call[t] = "trylock" /\ pc' = [pc EXCEPT ![t] = "ret"]
      /\ UNCHANGED <<owner, pendq, live, lockcnt, call, info, susp, held>>
      /\ \A v \in Threads : PlaceInv(v) /\ WordInv(v) /\ InfoInv(v) /\ CountInv(v)
  BY Zenon DEF SysTrylock, Running, Return, Goto, Inv, ThreadInv, ThreadOK
<1>3. held[t] = 0
  <2>1. ~HoldersPlace(t) /\ held[t] \in Nat /\ WordInv(t)
    BY <1>2 DEF HoldersPlace, Acquiring, Inv, TypeOK
  <2> QED
    BY <2>1 DEF WordInv
<1>4. \/ lock = Free /\ lock' = Word(t, FALSE) /\ CountResource(t) /\ ret' = [ret EXCEPT ![t] = "OK"]
      \/ UNCHANGED <<lock, res>> /\ \E r \in Results \ {"OK"} : ret' = [ret EXCEPT ![t] = r]
  BY Zenon DEF SysTrylock, Return, Results
<1>5. ThreadOK(t)'
  <2>1. CASE lock = Free /\ lock' = Word(t, FALSE) /\ CountResource(t) /\ ret' = [ret EXCEPT ![t] = "OK"]
    <3>1. /\ pc'[t] = "ret" /\ ret'[t] = "OK" /\ lock'.id = t
          /\ res'[t] = IF t \in Weak THEN res[t] + 1 ELSE res[t]
      BY <1>2, <2>1 DEF Inv, TypeOK, CountResource, Word
    <3> QED
      BY <1>2, <1>3, <3>1 DEF ThreadOK, PlaceInv, WordInv, InfoInv, CountInv, Granted, Told, Unlocking,
            Acquiring, LockCalls
  <2>2. CASE UNCHANGED <<lock, res>> /\ \E r \in Results \ {"OK"} : ret' = [ret EXCEPT ![t] = r]
    <3>1. pc'[t] = "ret" /\ ret'[t] # "OK"
      BY <1>2, <2>2 DEF Inv, TypeOK
    <3> QED
      BY <1>2, <1>3, <2>2, <3>1 DEF ThreadOK, PlaceInv, WordInv, InfoInv, CountInv, Granted, Told,
            Unlocking, Acquiring, LockCalls
  <2> QED
    BY <1>4, <2>1, <2>2, Zenon
<1>6. ASSUME NEW u \in Threads, u # t PROVE ThreadOK(u)'
  <2>1. ThreadOK(u) /\ (lock'.id = u <=> lock.id = u)
    BY <1>2, <1>4, <1>6, ConstantsAssumption DEF ThreadOK, Free, Word
  <2>2. pc'[u] = pc[u] /\ ret'[u] = ret[u] /\ res'[u] = res[u]
    BY <1>2, <1>4, <1>6, Zenon DEF Inv, TypeOK, CountResource
  <2> QED
    BY <1>2, <2>1, <2>2, OthersKept
<1>7. QueueInv'
  <2>1. \A u \in Threads : pc'[u] = "pend" <=> pc[u] = "pend"
    BY <1>2 DEF Inv, TypeOK
  <2>2. pendq # <<>> => lock' = lock
    <3>1. pendq # <<>> => lock # Free
      BY DEF Inv, QueueInv, Free
    <3> QED
      BY <1>4, <3>1, Zenon
  <2> QED
    BY <1>2, <2>1, <2>2 DEF Inv, QueueInv
<1> QED
  BY <1>1, <1>5, <1>6, <1>7 DEF Inv, ThreadInv

\* xnsynch_acquire() tries its exchange.
LEMMA AcquireTryInv ==
  ASSUME Inv, NEW t \in Threads, AcquireTry(t)
  PROVE  Inv'
<1>1. TypeOK'
  <2>1. /\ lock' = lock \/ lock' = [id |-> t, claim |-> FALSE]
        /\ owner' = owner \/ owner' = t
        /\ info' = info \/ info' = [info EXCEPT ![t] = info[t] \ Wakeup]
        /\ res' = res \/ res' = [res EXCEPT ![t] = IF t \in Weak THEN @ + 1 ELSE @]
        /\ pc' = [pc EXCEPT ![t] = "ret"] \/ pc' = [pc EXCEPT ![t] = "claim"]
        /\ ret' = ret \/ ret' = [ret EXCEPT ![t] = "OK"] \/ ret' = [ret EXCEPT ![t] = "EBUSY"]
    BY DEF AcquireTry, Running, Goto, Return, Word, Free, CountResource, SetOwner, SetInfo, AcquireResult
  <2>2. lock' \in [id : Threads \cup {None}, claim : BOOLEAN]
    <3>1. [id |-> t, claim |-> FALSE] \in [id : Threads \cup {None}, claim : BOOLEAN]
      BY DEF Inv, TypeOK
    <3> QED
      BY <2>1, <3>1, Zenon DEF Inv, TypeOK
  <2>3. owner' \in Threads \cup {None}
    BY <2>1 DEF Inv, TypeOK
  <2>4. info' \in [Threads -> SUBSET InfoBits]
    <3>1. [info EXCEPT ![t] = info[t] \ Wakeup] \in [Threads -> SUBSET InfoBits]
      BY DEF Inv, TypeOK
    <3> QED
      BY <2>1, <3>1, Zenon DEF Inv, TypeOK
  <2>5. res' \in [Threads -> Nat]
    <3>1. [res EXCEPT ![t] = IF t \in Weak THEN @ + 1 ELSE @] \in [Threads -> Nat]
      BY DEF Inv, TypeOK
    <3> QED
      BY <2>1, <3>1, Zenon DEF Inv, TypeOK
  <2>6. pc' \in [Threads -> Locations]
    BY <2>1, Zenon DEF Inv, TypeOK, Locations
  <2>7. ret' \in [Threads -> Results]
    BY <2>1, Zenon DEF Inv, TypeOK, Results
  <2> QED
    BY <2>2, <2>3, <2>4, <2>5, <2>6, <2>7 DEF Inv, AcquireTry, Running, Goto, Return, Word, Free, CountResource, SetOwner, SetInfo, AcquireResult, TypeOK
<1> USE ConstantsAssumption DEF Inv, AcquireTry, Running, Goto, Return, Word, Free, CountResource, SetOwner, SetInfo, AcquireResult
<1>2. ASSUME NEW u \in Threads
      PROVE  ThreadOK(u)'
  <2>1. \A v \in {t, u} : PlaceInv(v) /\ WordInv(v) /\ InfoInv(v) /\ CountInv(v)
    BY DEF ThreadInv, ThreadOK
  <2> QED
    BY <2>1 DEF TypeOK, ThreadOK, PlaceInv, WordInv, InfoInv, CountInv, Granted, Told, Unlocking, HoldersPlace,
          Acquiring, LockCalls, Wakeup, BlockClears
<1>3. QueueInv'
  BY DEF QueueInv, TypeOK
<1> QED
  BY <1>1, <1>2, <1>3 DEF ThreadInv

\* A system call returns.
LEMMA SysReturnInv ==
  ASSUME Inv, NEW t \in Threads, SysReturn(t)
  PROVE  Inv'
<1>1. TypeOK'
  <2>1. /\ info' = [info EXCEPT ![t] = {}] \/ info' = [info EXCEPT ![t] = info[t]]
        /\ pc' = [pc EXCEPT ![t] = "sys"] \/ pc' = [pc EXCEPT ![t] = "user"]
        /\ call' = [call EXCEPT ![t] = call[t]] \/ call' = [call EXCEPT ![t] = "lock"] \/ call' = [call EXCEPT ![t] = "none"]
        /\ lockcnt' = lockcnt \/ lockcnt' = 1
        /\ held' = held \/ held' = [held EXCEPT ![t] = held[t]] \/ held' = [held EXCEPT ![t] = held[t] + 1]
        /\ ret' = [ret EXCEPT ![t] = "OK"]
    BY Zenon DEF SysReturn, Running, Goto, SetInfo, Interrupted, kernel
  <2>2. info' \in [Threads -> SUBSET InfoBits]
    <3>1. /\ [info EXCEPT ![t] = {}] \in [Threads -> SUBSET InfoBits]
          /\ [info EXCEPT ![t] = info[t]] \in [Threads -> SUBSET InfoBits]
      BY DEF Inv, TypeOK
    <3> QED
      BY <2>1, <3>1, Zenon DEF Inv, TypeOK
  <2>3. pc' \in [Threads -> Locations]
    BY <2>1, Zenon DEF Inv, TypeOK, Locations
  <2>4. call' \in [Threads -> Services]
    BY <2>1, Zenon DEF Inv, TypeOK, Services, LockCalls
  <2>5. lockcnt' \in 0 .. MaxCount
    BY <2>1, ConstantsAssumption DEF Inv, TypeOK
  <2>6. held' \in [Threads -> Nat]
    <3>1. /\ [held EXCEPT ![t] = held[t]] \in [Threads -> Nat]
          /\ [held EXCEPT ![t] = held[t] + 1] \in [Threads -> Nat]
      BY DEF Inv, TypeOK
    <3> QED
      BY <2>1, <3>1, Zenon DEF Inv, TypeOK
  <2>7. ret' \in [Threads -> Results]
    BY <2>1 DEF Inv, TypeOK, Results
  <2> QED
    BY <2>2, <2>3, <2>4, <2>5, <2>6, <2>7 DEF Inv, SysReturn, Running, Goto, SetInfo, Interrupted, kernel, TypeOK
<1> USE ConstantsAssumption DEF Inv, SysReturn, Running, Goto, SetInfo, Interrupted, kernel
<1>2. ASSUME NEW u \in Threads
      PROVE  ThreadOK(u)'
  <2>1. \A v \in {t, u} : PlaceInv(v) /\ WordInv(v) /\ InfoInv(v) /\ CountInv(v)
    BY DEF ThreadInv, ThreadOK
  <2> QED
    BY <2>1 DEF TypeOK, ThreadOK, PlaceInv, WordInv, InfoInv, CountInv, Granted, Told, Unlocking, HoldersPlace,
          Acquiring, LockCalls
<1>3. QueueInv'
  BY DEF QueueInv, TypeOK
<1> QED
  BY <1>1, <1>2, <1>3 DEF ThreadInv

\* A kicked thread relaxes.
LEMMA MaydayInv ==
  ASSUME Inv, NEW t \in Threads, Mayday(t)
  PROVE  Inv'
<1>1. TypeOK'
  BY ConstantsAssumption DEF Inv, Mayday, Running, SetInfo, kernel, TypeOK
<1> USE ConstantsAssumption DEF Inv, Mayday, Running, SetInfo, kernel
<1>2. ASSUME NEW u \in Threads
      PROVE  ThreadOK(u)'
  <2>1. \A v \in {t, u} : PlaceInv(v) /\ WordInv(v) /\ InfoInv(v) /\ CountInv(v)
    BY DEF ThreadInv, ThreadOK
  <2> QED
    BY <2>1 DEF TypeOK, ThreadOK, PlaceInv, WordInv, InfoInv, CountInv, Granted, Told, Unlocking, HoldersPlace,
          Acquiring, LockCalls
<1>3. QueueInv'
  BY DEF QueueInv, TypeOK
<1> QED
  BY <1>1, <1>2, <1>3 DEF ThreadInv

\* The caller of xnsynch_acquire() runs again after its wait.
LEMMA AcquireWakeInv ==
  ASSUME Inv, NEW t \in Threads, AcquireWake(t)
  PROVE  Inv'
<1>1. TypeOK'
  <2>1. /\ lock' = lock \/ \E c \in BOOLEAN : lock' = Word(t, c)
        /\ res' = res \/ res' = [res EXCEPT ![t] = IF t \in Weak THEN @ + 1 ELSE @]
        /\ pc' = [pc EXCEPT ![t] = "ret"] \/ pc' = [pc EXCEPT ![t] = "try"]
        /\ ret' = ret \/ \E r \in Results : ret' = [ret EXCEPT ![t] = r]
        /\ info' = [info EXCEPT ![t] = info[t] \ {"WAKEN"}]
        /\ UNCHANGED <<owner, pendq, live, lockcnt, call, susp, held>>
    BY Zenon DEF AcquireWake, Return, Goto, SetInfo, CountResource, AcquireResult, Results
  <2>2. lock' \in [id : Threads \cup {None}, claim : BOOLEAN]
    BY <2>1 DEF Inv, TypeOK, Word
  <2>3. res' \in [Threads -> Nat]
    <3>1. [res EXCEPT ![t] = IF t \in Weak THEN @ + 1 ELSE @] \in [Threads -> Nat]
      BY DEF Inv, TypeOK
    <3> QED
      BY <2>1, <3>1, Zenon DEF Inv, TypeOK
  <2>4. pc' \in [Threads -> Locations]
    BY <2>1, Zenon DEF Inv, TypeOK, Locations
  <2>5. ret' \in [Threads -> Results]
    BY <2>1, Zenon DEF Inv, TypeOK
  <2>6. info' \in [Threads -> SUBSET InfoBits]
    BY <2>1 DEF Inv, TypeOK
  <2> QED
    BY <2>1, <2>2, <2>3, <2>4, <2>5, <2>6 DEF Inv, TypeOK
<1> DEFINE bits == info[t] \ {"WAKEN"}
           Moved(loc) == pc' = [pc EXCEPT ![t] = loc]
<1>2. /\ pc[t] = "ready" /\ info' = [info EXCEPT ![t] = bits]
      /\ UNCHANGED <<owner, pendq, live, lockcnt, call, susp, held>>
  BY DEF AcquireWake, Running, SetInfo
<1>3. \A v \in Threads : PlaceInv(v) /\ WordInv(v) /\ InfoInv(v) /\ CountInv(v)
  BY DEF Inv, ThreadInv, ThreadOK
<1>4. CASE /\ bits \cap Wakeup # {} /\ UNCHANGED <<lock, res>> /\ Moved("ret")
           /\ ret' = [ret EXCEPT ![t] = AcquireResult(t, bits)]
  <2>1. AcquireResult(t, bits) # "OK"
    BY <1>4 DEF AcquireResult, Wakeup
  <2>2. ASSUME NEW u \in Threads
        PROVE  ThreadOK(u)'
    BY <1>2, <1>3, <1>4, <2>1 DEF Inv, TypeOK, ThreadOK, PlaceInv, WordInv, InfoInv, CountInv, Granted, Told,
          Unlocking, HoldersPlace, Acquiring, LockCalls, Wakeup
  <2>3. QueueInv'
    BY <1>2, <1>4 DEF Inv, QueueInv, TypeOK
  <2> QED
    BY <1>1, <2>2, <2>3 DEF Inv, ThreadInv, ThreadOK
<1>5. CASE bits \cap Wakeup = {} /\ "ROBBED" \in bits /\ Moved("try") /\ UNCHANGED <<lock, res, ret>>
  <2>1. ASSUME NEW u \in Threads
        PROVE  ThreadOK(u)'
    BY <1>2, <1>3, <1>5 DEF Inv, TypeOK, ThreadOK, PlaceInv, WordInv, InfoInv, CountInv, Granted, Told,
          Unlocking, HoldersPlace, Acquiring, LockCalls, Wakeup
  <2>2. QueueInv'
    BY <1>2, <1>5, SMTT(20) DEF Inv, QueueInv, TypeOK
  <2> QED
    BY <1>1, <2>1, <2>2 DEF Inv, ThreadInv, ThreadOK
<1>6. CASE /\ bits \cap Wakeup = {} /\ "ROBBED" \notin bits /\ Moved("ret")
           /\ lock' = Word(t, pendq # <<>>) /\ CountResource(t)
           /\ ret' = [ret EXCEPT ![t] = AcquireResult(t, {})]
  <2>1. lock.id = t /\ Granted(t)
    BY <1>2, <1>3, <1>6 DEF WordInv, Granted, Wakeup
  <2>2. held[t] = 0 /\ call[t] \in LockCalls /\ ret' = [ret EXCEPT ![t] = "OK"]
    <3>1. "WAKEN" \in info[t] /\ held[t] = 0
      BY <1>2, <1>3, <1>6 DEF InfoInv
    <3>2. call[t] \in {"lock", "timedlock"}
      BY <1>2, <1>3, <3>1 DEF PlaceInv, Acquiring
    <3> QED
      BY <1>6, <3>1, <3>2, Zenon DEF AcquireResult, LockCalls
  <2>3. ASSUME NEW u \in Threads
        PROVE  ThreadOK(u)'
    BY <1>2, <1>3, <1>6, <2>1, <2>2 DEF Inv, TypeOK, ThreadOK, PlaceInv, WordInv, InfoInv, CountInv, Granted,
          Told, Unlocking, HoldersPlace, Acquiring, LockCalls, Wakeup, Word, CountResource
  <2>4. QueueInv'
    BY <1>2, <1>6, <2>1 DEF Inv, QueueInv, TypeOK, Word
  <2> QED
    BY <1>1, <2>3, <2>4 DEF Inv, ThreadInv, ThreadOK
<1> QED
  BY <1>4, <1>5, <1>6 DEF AcquireWake, Return, Goto

\* mutex_destroy finds the mutex unowned, so nobody sleeps on it.
LEMMA DestroyInv ==
  ASSUME Inv, NEW t \in Threads, Destroy(t)
  PROVE  Inv'
<1>1. pendq = <<>> /\ \A u \in Threads : pc[u] # "pend"
  BY DEF Inv, QueueInv, Destroy, Has
<1>2. pc' = pc /\ info' = info /\ pendq' = pendq
  BY <1>1 DEF Inv, TypeOK, Destroy
<1>3. UNCHANGED <<lock, owner, lockcnt, call, ret, susp, res, held>> /\ live' = FALSE /\ lock.id = None
  BY DEF Destroy
<1>4. TypeOK'
  BY <1>2, <1>3, Zenon DEF Inv, TypeOK
<1>5. ThreadInv'
  <2> SUFFICES ASSUME NEW u \in Threads
               PROVE  ThreadOK(u)'
    BY DEF ThreadInv
  <2>1. PlaceInv(u) /\ WordInv(u) /\ InfoInv(u) /\ CountInv(u)
    BY DEF Inv, ThreadInv, ThreadOK
  <2> QED
    BY <1>2, <1>3, <2>1, ConstantsAssumption
    DEF ThreadOK, PlaceInv, WordInv, InfoInv, CountInv, Granted, Told, Unlocking, HoldersPlace
<1>6. QueueInv'
  BY <1>2, <1>3 DEF Inv, QueueInv
<1> QED
  BY <1>4, <1>5, <1>6 DEF Inv

\* A sleeper is taken out of the queue with a wakeup reason.
LEMMA WakeSleeperInv ==
  ASSUME Inv, NEW t \in Threads, NEW bits \in SUBSET {"TIMEO", "BREAK", "KICKED"},
         bits \cap Wakeup # {}, WakeSleeper(t, bits), susp' \in [Threads -> BOOLEAN],
         UNCHANGED <<lock, owner, live, lockcnt, call, ret, res, held>>
  PROVE  Inv'
<1>1. /\ Delete(pendq, t) \in Seq(Threads)
      /\ \A x : Has(Delete(pendq, t), x) <=> Has(pendq, x) /\ x # t
      /\ Distinct(Delete(pendq, t))
      /\ Sorted(Delete(pendq, t), prio)
      /\ Has(pendq, t)
  <2>1. pendq \in Seq(Threads) /\ Has(pendq, t) /\ Distinct(pendq) /\ Sorted(pendq, prio)
    BY DEF Inv, TypeOK, QueueInv, WakeSleeper
  <2> QED
    BY <2>1, DeleteProperties
<1>2. /\ pc[t] = "pend" /\ pc' = [pc EXCEPT ![t] = "ready"]
      /\ info' = [info EXCEPT ![t] = info[t] \cup bits]
      /\ pendq' = Delete(pendq, t)
  BY DEF WakeSleeper, Goto, SetInfo
<1>3. TypeOK'
  BY <1>1, <1>2, Zenon DEF Inv, TypeOK, Locations, InfoBits, Wakeup
<1>4. ASSUME NEW u \in Threads
      PROVE  ThreadOK(u)'
  <2>1. PlaceInv(u) /\ WordInv(u) /\ InfoInv(u) /\ CountInv(u)
    BY DEF Inv, ThreadInv, ThreadOK
  <2> QED
    BY <1>2, <2>1 DEF Inv, TypeOK, ThreadOK, PlaceInv, WordInv, InfoInv, CountInv, Granted, Told, Unlocking,
          HoldersPlace, Acquiring, LockCalls, Wakeup, BlockClears
<1>5. QueueInv'
  <2>1. pendq # <<>>
    BY <1>1 DEF Has
  <2>2. \A u \in Threads : Has(pendq', u) <=> pc'[u] = "pend"
    BY <1>1, <1>2 DEF Inv, QueueInv, TypeOK
  <2> QED
    BY <1>1, <1>2, <2>1, <2>2, Zenon DEF Inv, QueueInv
<1> QED
  BY <1>3, <1>4, <1>5 DEF Inv, ThreadInv

\* The timer of a timed lock elapses.
LEMMA TimeoutInv ==
  ASSUME Inv, NEW t \in Threads, Timeout(t)
  PROVE  Inv'
<1>1. /\ WakeSleeper(t, {"TIMEO"})
      /\ UNCHANGED <<lock, owner, live, lockcnt, call, ret, res, held>>
      /\ susp' \in [Threads -> BOOLEAN]
  BY DEF Timeout, Inv, TypeOK
<1>2. {"TIMEO"} \in SUBSET {"TIMEO", "BREAK", "KICKED"} /\ {"TIMEO"} \cap Wakeup # {}
  BY DEF Wakeup
<1> QED
  BY <1>1, <1>2, WakeSleeperInv

\* A sleeper is unblocked by SIGRELS.
LEMMA UnblockInv ==
  ASSUME Inv, NEW t \in Threads, Unblock(t)
  PROVE  Inv'
<1>1. /\ WakeSleeper(t, {"BREAK"})
      /\ UNCHANGED <<lock, owner, live, lockcnt, call, ret, res, held>>
      /\ susp' \in [Threads -> BOOLEAN]
  BY DEF Unblock, Inv, TypeOK
<1>2. {"BREAK"} \in SUBSET {"TIMEO", "BREAK", "KICKED"} /\ {"BREAK"} \cap Wakeup # {}
  BY DEF Wakeup
<1> QED
  BY <1>1, <1>2, WakeSleeperInv

\* A thread is kicked by SIGKICK.
LEMMA KickInv ==
  ASSUME Inv, NEW t \in Threads, Kick(t, {"KICKED"})
  PROVE  Inv'
<1>1. CASE "KICKED" \notin info[t] /\ WakeSleeper(t, {"KICKED"} \cup {"BREAK"})
           /\ susp' = [susp EXCEPT ![t] = FALSE]
  <2>1. susp' \in [Threads -> BOOLEAN] /\ UNCHANGED <<lock, owner, live, lockcnt, call, ret, res, held>>
    BY <1>1 DEF Kick, Inv, TypeOK
  <2>2. {"KICKED"} \cup {"BREAK"} \in SUBSET {"TIMEO", "BREAK", "KICKED"}
    OBVIOUS
  <2>3. ({"KICKED"} \cup {"BREAK"}) \cap Wakeup # {}
    BY DEF Wakeup
  <2> QED
    BY <1>1, <2>1, <2>2, <2>3, WakeSleeperInv
<1>2. CASE pc[t] # "pend" /\ info' = [info EXCEPT ![t] = info[t] \cup {"KICKED"}]
           /\ susp' = [susp EXCEPT ![t] = FALSE] /\ UNCHANGED <<pendq, pc>>
  <2> UNCHANGED <<lock, owner, live, lockcnt, call, ret, res, held>>
    BY DEF Kick
  <2>1. TypeOK'
    BY <1>2 DEF Inv, TypeOK, InfoBits
  <2>2. ASSUME NEW u \in Threads
        PROVE  ThreadOK(u)'
    <3>1. PlaceInv(u) /\ WordInv(u) /\ InfoInv(u) /\ CountInv(u)
      BY DEF Inv, ThreadInv, ThreadOK
    <3> QED
      BY <1>2, <3>1 DEF Inv, TypeOK, ThreadOK, PlaceInv, WordInv, InfoInv, CountInv, Granted, Told, Unlocking,
            HoldersPlace, Wakeup
  <2>3. QueueInv'
    BY <1>2 DEF Inv, QueueInv
  <2> QED
    BY <2>1, <2>2, <2>3 DEF Inv, ThreadInv, ThreadOK
<1> QED
  BY <1>1, <1>2 DEF Kick, SetInfo
============================================================================
