------------------------- MODULE SemaphoreInvariant -------------------------
(***************************************************************************)
(* The inductive invariant of the semaphore, and the steps of the waiting  *)
(* services that keep it.                                                  *)
(***************************************************************************)
EXTENDS Semaphore, PrioListProofs, FiniteSetTheorems

Typed ==
    /\ value \in Int /\ credit \in Int
    /\ pendq \in Seq(Threads)
    /\ live \in BOOLEAN
    /\ pc \in [Threads -> Locations]
    /\ call \in [Threads -> Services]
    /\ why \in [Threads -> Reasons]

\* What the location of a thread says of the rest.
PlaceOK(t) ==
    /\ pc[t] \in {"user", "del"} => call[t] = "none"
    /\ pc[t] \in {"pend", "ready"} => call[t] \in {"wait", "timedwait"}
    /\ pc[t] \in {"probed", "again", "undo"} => call[t] = "timedwait"
    /\ pc[t] \in {"post", "pulse"} => call[t] \in {"wait", "post"}
    /\ pc[t] \in {"probed", "post", "pulse"} => live
    /\ pc[t] = "pend" => why[t] = "none"
    /\ pc[t] = "pulse" => value >= 0
    /\ call[t] # "broadcast"

QueueInv ==
    /\ Distinct(pendq)
    /\ \A u \in Threads : Has(pendq, u) <=> pc[u] = "pend"

Bounded == credit + Cardinality(Posters) <= MaxCredit

Inv ==
    /\ Typed
    /\ \A u \in Threads : PlaceOK(u)
    /\ QueueInv
    /\ Conservation
    /\ Bounded

----------------------------------------------------------------------------
\* Sets of threads are finite and are counted by adding and removing one.
LEMMA Counting ==
  ASSUME NEW A \in SUBSET Threads
  PROVE  /\ Cardinality(A) \in Nat
         /\ \A x \in A : Cardinality(A) >= 1 /\ Cardinality(A \ {x}) = Cardinality(A) - 1
         /\ \A x : x \notin A => Cardinality(A \cup {x}) = Cardinality(A) + 1
<1>1. IsFiniteSet(A)
  <2>1. IsFiniteSet(Threads)
    BY ConstantsAssumption
  <2> QED
    BY <2>1, FS_Subset
<1>2. Cardinality(A) \in Nat
  BY <1>1, FS_CardinalityType
<1>3. ASSUME NEW x \in A
      PROVE  Cardinality(A) >= 1 /\ Cardinality(A \ {x}) = Cardinality(A) - 1
  <2>1. IsFiniteSet(A \ {x}) /\ Cardinality(A \ {x}) = Cardinality(A) - 1
    BY <1>1, FS_RemoveElement
  <2>2. Cardinality(A \ {x}) \in Nat
    BY <2>1, FS_CardinalityType
  <2> QED
    BY <1>2, <2>1, <2>2
<1>4. ASSUME NEW x, x \notin A
      PROVE  Cardinality(A \cup {x}) = Cardinality(A) + 1
  BY <1>1, <1>4, FS_AddElement
<1> QED
  BY <1>2, <1>3, <1>4

\* A debtor was counted off the value, so that giving its unit back does not
\* overflow.
LEMMA NoOverflow ==
  ASSUME Inv, live, MaxCredit <= MaxValue, NEW t \in Threads,
         t \in Debtors \/ t \in Posters \/ MayPost
  PROVE  Wrap(value + 1) = value + 1
<1>1. value \in Int /\ credit \in Int /\ MaxCredit \in Nat /\ MaxValue \in Nat
  BY ConstantsAssumption DEF Inv, Typed
<1>2. Cardinality(Debtors) \in Nat /\ (t \in Debtors => Cardinality(Debtors) >= 1)
  BY Counting, Zenon DEF Debtors
<1>3. Cardinality(Posters) \in Nat /\ (t \in Posters => Cardinality(Posters) >= 1)
  BY Counting, Zenon DEF Posters
<1>4. value + Cardinality(Debtors) = credit /\ credit + Cardinality(Posters) <= MaxCredit
  BY Zenon DEF Inv, Conservation, Bounded
<1>5. value + 1 <= MaxValue
  <2>1. CASE MayPost
    BY <1>1, <1>2, <1>3, <1>4, <2>1 DEF MayPost
  <2>2. CASE ~MayPost
    BY <1>1, <1>2, <1>3, <1>4, <2>2
  <2> QED
    BY <2>1, <2>2
<1> QED
  BY <1>1, <1>5 DEF Wrap

Bit(b) == IF b THEN 1 ELSE 0

\* A set of threads in which only one thread may enter or leave.
LEMMA Recounting ==
  ASSUME NEW A \in SUBSET Threads, NEW B \in SUBSET Threads, NEW t \in Threads,
         \A u \in Threads : u # t => (u \in A <=> u \in B)
  PROVE  Cardinality(B) = Cardinality(A) + Bit(t \in B) - Bit(t \in A)
<1>1. Cardinality(A) \in Nat
  BY Counting
<1>2. CASE t \in A /\ t \notin B
  <2>1. B = A \ {t}
    BY <1>2
  <2> QED
    BY <1>1, <1>2, <2>1, Counting DEF Bit
<1>3. CASE t \notin A /\ t \in B
  <2>1. B = A \cup {t}
    BY <1>3
  <2> QED
    BY <1>1, <1>3, <2>1, Counting DEF Bit
<1>4. CASE t \in A <=> t \in B
  <2>1. A = B
    BY <1>4
  <2> QED
    BY <1>1, <1>4, <2>1 DEF Bit
<1> QED
  BY <1>2, <1>3, <1>4

\* The thread t goes to location l, in the service c, with the wakeup reason w.
Moves(t, l, c, w) ==
    /\ pc' = [pc EXCEPT ![t] = l]
    /\ call' = [call EXCEPT ![t] = c]
    /\ why' = [why EXCEPT ![t] = w]

\* Only t moves.
LEMMA Moved ==
  ASSUME Typed, NEW t \in Threads, NEW l \in Locations, NEW c \in Services, NEW w \in Reasons,
         Moves(t, l, c, w)
  PROVE  /\ pc' \in [Threads -> Locations] /\ call' \in [Threads -> Services]
         /\ why' \in [Threads -> Reasons]
         /\ pc'[t] = l /\ call'[t] = c /\ why'[t] = w
         /\ \A u \in Threads : u # t => pc'[u] = pc[u] /\ call'[u] = call[u] /\ why'[u] = why[u]
  BY DEF Typed, Moves

\* What a step of t adds to the count and to the debtors is what it adds to the
\* credit.
Balanced(t) ==
    value' + Bit(t \in Debtors') - Bit(t \in Debtors) - value = credit' - credit

\* A step of t adds to the posts outstanding only if the application may post.
Limited(t) ==
    \/ credit' + Bit(t \in Posters') <= credit + Bit(t \in Posters)
    \/ MayPost /\ credit' + Bit(t \in Posters') = credit + Bit(t \in Posters) + 1

\* Arithmetic of the bound on posts.
LEMMA SumBound ==
  ASSUME NEW m \in Int, NEW x \in Int, NEW y \in Int, NEW k \in Int, NEW a \in Int, NEW b \in Int,
         \/ x + k <= m /\ y + b <= x + a
         \/ x + k + 1 <= m /\ y + b = x + a + 1
  PROVE  y + (k + b - a) <= m
  OBVIOUS

\* A balanced step of one thread keeps the invariant.
LEMMA Solo ==
  ASSUME Inv, NEW t \in Threads, NEW l \in Locations, NEW c \in Services, NEW w \in Reasons,
         Moves(t, l, c, w), value' \in Int, credit' \in Int, pendq' \in Seq(Threads), live' = live,
         PlaceOK(t)', QueueInv',
         NklockFree \/ value' >= 0 \/ value' >= value,
         live => Balanced(t), Limited(t)
  PROVE  Inv'
<1>1. Typed /\ (\A u \in Threads : PlaceOK(u)) /\ Conservation /\ Bounded
  BY DEF Inv
<1>2. /\ pc' \in [Threads -> Locations] /\ call' \in [Threads -> Services]
      /\ why' \in [Threads -> Reasons]
      /\ \A u \in Threads : u # t => pc'[u] = pc[u] /\ call'[u] = call[u] /\ why'[u] = why[u]
  BY <1>1, Moved
<1>3. Typed'
  BY <1>1, <1>2 DEF Typed
<1>4. ASSUME NEW u \in Threads, u # t PROVE PlaceOK(u)'
  <2>1. PlaceOK(u) /\ pc'[u] = pc[u] /\ call'[u] = call[u] /\ why'[u] = why[u] /\ value \in Int
    BY <1>1, <1>2, <1>4 DEF Typed
  <2>2. pc[u] = "pulse" => value' >= 0
    BY <2>1 DEF PlaceOK, NklockFree
  <2> QED
    BY <2>1, <2>2 DEF PlaceOK
<1>5. Cardinality(Debtors') = Cardinality(Debtors) + Bit(t \in Debtors') - Bit(t \in Debtors)
  <2>1. \A u \in Threads : u # t => (u \in Debtors <=> u \in Debtors')
    BY <1>2 DEF Debtors, Owes
  <2> QED
    BY <2>1, Recounting DEF Debtors
<1>6. Cardinality(Posters') = Cardinality(Posters) + Bit(t \in Posters') - Bit(t \in Posters)
  <2>1. \A u \in Threads : u # t => (u \in Posters <=> u \in Posters')
    BY <1>2 DEF Posters
  <2> QED
    BY <2>1, Recounting DEF Posters
<1>7. /\ Cardinality(Debtors) \in Nat /\ Cardinality(Posters) \in Nat
      /\ value \in Int /\ credit \in Int /\ MaxCredit \in Nat
  BY <1>1, Counting, ConstantsAssumption DEF Typed, Debtors, Posters
<1>8. Conservation'
  <2> SUFFICES ASSUME live' PROVE value' + Cardinality(Debtors') = credit'
    BY DEF Conservation
  <2>1. /\ value + Cardinality(Debtors) = credit
        /\ value' + Bit(t \in Debtors') - Bit(t \in Debtors) - value = credit' - credit
    BY <1>1, Zenon DEF Conservation, Balanced
  <2> QED
    BY <1>5, <1>7, <2>1 DEF Bit
<1>9. Bounded'
  <2> SUFFICES credit' + Cardinality(Posters') <= MaxCredit
    BY DEF Bounded
  <2>1. credit + Cardinality(Posters) <= MaxCredit
    BY <1>1 DEF Bounded
  <2>2. Bit(t \in Posters) \in Int /\ Bit(t \in Posters') \in Int
    BY DEF Bit
  <2>3. CASE credit' + Bit(t \in Posters') <= credit + Bit(t \in Posters)
    BY <1>6, <1>7, <2>1, <2>2, <2>3, SumBound
  <2>4. CASE MayPost /\ credit' + Bit(t \in Posters') = credit + Bit(t \in Posters) + 1
    <3>1. credit + Cardinality(Posters) + 1 <= MaxCredit
      BY <1>7, <2>4 DEF MayPost
    <3>2. credit' + (Cardinality(Posters) + Bit(t \in Posters') - Bit(t \in Posters)) <= MaxCredit
      BY <1>7, <2>2, <2>4, <3>1, SumBound, SMTT(20)
    <3> QED
      BY <1>6, <3>2
  <2> QED
    BY <2>3, <2>4 DEF Limited
<1> QED
  BY <1>1, <1>3, <1>4, <1>8, <1>9 DEF Inv

\* The queue is kept when a thread moves that neither falls asleep nor wakes.
LEMMA QueueKept ==
  ASSUME Inv, NEW t \in Threads, NEW l \in Locations, NEW c \in Services, NEW w \in Reasons,
         Moves(t, l, c, w), pendq' = pendq, pc[t] # "pend", l # "pend"
  PROVE  QueueInv'
<1>1. Typed /\ QueueInv
  BY DEF Inv
<1>2. pc'[t] = l /\ \A u \in Threads : u # t => pc'[u] = pc[u]
  BY <1>1, Moved
<1> QED
  BY <1>1, <1>2 DEF QueueInv

----------------------------------------------------------------------------
\* A step of t that leaves the queue, the credit and the posters alone, and
\* changes the count by n.
LEMMA Plain ==
  ASSUME Inv, NEW t \in Threads, NEW l \in Locations, NEW c \in Services, NEW w \in Reasons,
         Moves(t, l, c, w), pc[t] # "pend", l # "pend", PlaceOK(t)',
         t \in Posters \/ c # "post",
         UNCHANGED <<pendq, live, credit>>, NEW n \in Int, value' = value + n,
         NklockFree \/ n >= 0,
         live => n = Bit(t \in Debtors) - Bit(t \in Debtors')
  PROVE  Inv'
<1>1. Typed /\ value \in Int /\ credit \in Int /\ pendq \in Seq(Threads)
  BY DEF Inv, Typed
<1>2. value' \in Int /\ credit' \in Int /\ pendq' \in Seq(Threads) /\ live' = live
      /\ (NklockFree \/ value' >= 0 \/ value' >= value)
  BY <1>1
<1>3. QueueInv'
  BY QueueKept
<1>4. live => Balanced(t)
  BY <1>1, <1>2 DEF Balanced, Bit
<1>5. Limited(t)
  <2>1. pc'[t] = l /\ call'[t] = c
    BY <1>1, Moved
  <2>2. t \in Posters' => t \in Posters
    BY <2>1 DEF Posters
  <2> QED
    BY <1>1, <2>2 DEF Limited, Bit
<1> QED
  BY <1>2, <1>3, <1>4, <1>5, Solo

\* The user-space part of a wait.
LEMMA TryWaitInv ==
  ASSUME Inv, NEW t \in Threads, TryWait(t)
  PROVE  Inv'
<1>1. Typed /\ PlaceOK(t) /\ pc[t] = "user" /\ call[t] = "none"
  BY DEF Inv, TryWait, PlaceOK
<1>2. Moves(t, pc[t], call[t], why[t]) /\ pc[t] \in Locations /\ call[t] \in Services /\ why[t] \in Reasons
  BY <1>1 DEF Typed, Moves, TryWait
<1>3. /\ value' \in Int /\ credit' \in Int /\ pendq' \in Seq(Threads) /\ live' = live
      /\ value' >= 0 /\ value' = value - 1 /\ credit' = credit - 1 /\ value \in Int /\ credit \in Int
  BY <1>1 DEF Typed, TryWait
<1>4. PlaceOK(t)'
  BY <1>1 DEF PlaceOK, TryWait
<1>5. QueueInv'
  BY <1>1, <1>2, QueueKept DEF TryWait
<1>6. Debtors' = Debtors /\ Posters' = Posters
  BY DEF Debtors, Owes, Posters, TryWait
<1>7. Balanced(t) /\ Limited(t)
  BY <1>3, <1>6 DEF Balanced, Limited, Bit
<1> QED
  BY <1>2, <1>3, <1>4, <1>5, <1>7, Solo

\* A post in user space.
LEMMA PostFastInv ==
  ASSUME Inv, MaxCredit <= MaxValue, NEW t \in Threads, PostFast(t)
  PROVE  Inv'
<1>1. Typed /\ PlaceOK(t) /\ pc[t] = "user" /\ call[t] = "none" /\ MayPost /\ live
  BY DEF Inv, PostFast, PlaceOK
<1>2. Moves(t, pc[t], call[t], why[t]) /\ pc[t] \in Locations /\ call[t] \in Services /\ why[t] \in Reasons
  BY <1>1 DEF Typed, Moves, PostFast
<1>3. /\ value' \in Int /\ credit' \in Int /\ pendq' \in Seq(Threads) /\ live' = live
      /\ value' >= 0 /\ value' = value + 1 /\ credit' = credit + 1 /\ value \in Int /\ credit \in Int
  <2>1. Wrap(value + 1) = value + 1
    BY <1>1, NoOverflow
  <2> QED
    BY <1>1, <2>1 DEF Typed, PostFast
<1>4. PlaceOK(t)'
  BY <1>1 DEF PlaceOK, PostFast
<1>5. QueueInv'
  BY <1>1, <1>2, QueueKept DEF PostFast
<1>6. Debtors' = Debtors /\ Posters' = Posters
  BY DEF Debtors, Owes, Posters, PostFast
<1>7. Balanced(t) /\ Limited(t)
  BY <1>1, <1>3, <1>6 DEF Balanced, Limited, Bit
<1> QED
  BY <1>2, <1>3, <1>4, <1>5, <1>7, Solo

\* Entering the kernel to wait.
LEMMA WaitInv ==
  ASSUME Inv, NEW t \in Threads, Wait(t)
  PROVE  Inv'
<1>1. Typed /\ PlaceOK(t) /\ pc[t] = "user" /\ call[t] = "none"
  BY DEF Inv, Wait, PlaceOK
<1>2. PICK c \in Calls : Enter(t, c)
  BY DEF Wait
<1>3. c \in {"wait", "timedwait"} /\ c \in Services
  BY <1>2, ConstantsAssumption DEF Services
<1>4. Moves(t, "sys", c, why[t]) /\ "sys" \in Locations /\ why[t] \in Reasons
  BY <1>1, <1>2 DEF Typed, Moves, Enter, Goto, Wait, Locations
<1>5. pc'[t] = "sys" /\ call'[t] = c
  BY <1>1, <1>3, <1>4, Moved
<1>6. PlaceOK(t)' /\ t \notin Debtors /\ t \notin Debtors'
  BY <1>1, <1>3, <1>5 DEF PlaceOK, Debtors, Owes
<1>7. value' = value + 0 /\ UNCHANGED <<pendq, live, credit>> /\ 0 \in Int /\ 0 >= 0
  BY <1>1 DEF Wait, Typed
<1>8. 0 = Bit(t \in Debtors) - Bit(t \in Debtors')
  BY <1>6 DEF Bit
<1> QED
  BY <1>1, <1>3, <1>4, <1>6, <1>7, <1>8, Plain

\* Entering the kernel to post.
LEMMA PostInv ==
  ASSUME Inv, NEW t \in Threads, Post(t)
  PROVE  Inv'
<1>1. Typed /\ PlaceOK(t) /\ pc[t] = "user" /\ call[t] = "none" /\ MayPost
  BY DEF Inv, Post, PlaceOK
<1>2. Moves(t, "sys", "post", why[t]) /\ "sys" \in Locations /\ "post" \in Services /\ why[t] \in Reasons
  BY <1>1 DEF Typed, Moves, Enter, Goto, Post, Locations, Services
<1>3. pc'[t] = "sys" /\ call'[t] = "post"
  BY <1>1, <1>2, Moved
<1>4. /\ value' \in Int /\ credit' \in Int /\ pendq' \in Seq(Threads) /\ live' = live
      /\ value' >= value /\ value' = value /\ credit' = credit /\ value \in Int /\ credit \in Int
  BY <1>1 DEF Typed, Post
<1>5. PlaceOK(t)' /\ t \notin Debtors /\ t \notin Debtors' /\ t \notin Posters /\ t \in Posters'
  BY <1>1, <1>3 DEF PlaceOK, Debtors, Owes, Posters
<1>6. QueueInv'
  BY <1>1, <1>2, QueueKept DEF Post
<1>7. Balanced(t) /\ Limited(t)
  BY <1>1, <1>4, <1>5 DEF Balanced, Limited, Bit
<1> QED
  BY <1>2, <1>4, <1>5, <1>6, <1>7, Solo

----------------------------------------------------------------------------
\* A call that finds the semaphore destroyed, or has nothing left to do.
LEMMA BackInv ==
  ASSUME Inv, NEW t \in Threads, Back(t), UNCHANGED <<value, pendq, live, why, credit>>,
         pc[t] # "pend", live => t \notin Debtors
  PROVE  Inv'
<1>1. Typed
  BY DEF Inv
<1>2. Moves(t, "user", "none", why[t]) /\ "user" \in Locations /\ "none" \in Services /\ why[t] \in Reasons
  BY <1>1 DEF Typed, Moves, Back, Goto, Locations, Services
<1>3. pc'[t] = "user" /\ call'[t] = "none"
  BY <1>1, <1>2, Moved
<1>4. PlaceOK(t)' /\ t \notin Debtors'
  BY <1>3 DEF PlaceOK, Debtors, Owes
<1>5. value' = value + 0 /\ 0 \in Int /\ 0 >= 0
  BY <1>1 DEF Typed
<1>6. live => 0 = Bit(t \in Debtors) - Bit(t \in Debtors')
  BY <1>4 DEF Bit
<1> QED
  BY <1>2, <1>4, <1>5, <1>6, Plain

\* A wait finds a unit.
LEMMA TakeInv ==
  ASSUME Inv, NEW t \in Threads, Take(t), pc[t] \in {"sys", "again"}, NklockFree, UNCHANGED live
  PROVE  Inv'
<1>1. Typed
  BY DEF Inv
<1>2. Moves(t, "user", "none", why[t]) /\ "user" \in Locations /\ "none" \in Services /\ why[t] \in Reasons
  BY <1>1 DEF Typed, Moves, Take, Back, Goto, Locations, Services
<1>3. pc'[t] = "user" /\ call'[t] = "none"
  BY <1>1, <1>2, Moved
<1>4. PlaceOK(t)' /\ t \notin Debtors' /\ t \notin Debtors /\ t \notin Posters'
  BY <1>3 DEF PlaceOK, Debtors, Owes, Posters
<1>5. /\ value' \in Int /\ credit' \in Int /\ pendq' \in Seq(Threads) /\ live' = live
      /\ value' = value - 1 /\ credit' = credit - 1 /\ value \in Int /\ credit \in Int
  BY <1>1 DEF Typed, Take
<1>6. QueueInv'
  BY <1>2, QueueKept DEF Take
<1>7. Balanced(t) /\ Limited(t)
  BY <1>4, <1>5 DEF Balanced, Limited, Bit
<1> QED
  BY <1>2, <1>4, <1>5, <1>6, <1>7, Solo

\* A wait finds no unit.
LEMMA SleepInv ==
  ASSUME Inv, NEW t \in Threads, Sleep(t), pc[t] \in {"sys", "again"}, call[t] \in {"wait", "timedwait"},
         NklockFree, UNCHANGED live
  PROVE  Inv'
<1>1. Typed /\ QueueInv /\ live /\ value \in Int
  BY DEF Inv, Typed, Sleep
<1>2. t \notin Debtors /\ ~Has(pendq, t) /\ pc[t] # "pend" /\ call[t] \in Services
  BY <1>1 DEF Debtors, Owes, QueueInv, Typed
<1>3. value' = value + (-1) /\ value' = value - 1 /\ credit' = credit /\ -1 \in Int
  BY <1>1 DEF Sleep
<1>4. CASE /\ pendq' = IF Fifo THEN Append(pendq, t) ELSE AddPriff(pendq, t, prio)
           /\ why' = [why EXCEPT ![t] = "none"]
           /\ Goto(t, "pend") /\ UNCHANGED call
  <2>1. Moves(t, "pend", call[t], "none") /\ "pend" \in Locations /\ "none" \in Reasons
    BY <1>1, <1>4 DEF Typed, Moves, Goto, Locations, Reasons
  <2>2. /\ pc'[t] = "pend" /\ call'[t] = call[t] /\ why'[t] = "none"
        /\ \A u \in Threads : u # t => pc'[u] = pc[u]
    BY <1>1, <1>2, <2>1, Moved
  <2>3. PlaceOK(t)' /\ t \in Debtors' /\ (t \in Posters' <=> t \in Posters)
    BY <2>2 DEF PlaceOK, Debtors, Posters
  <2>4. pendq' \in Seq(Threads) /\ Distinct(pendq') /\ \A x : Has(pendq', x) <=> x = t \/ Has(pendq, x)
    <3>1. pendq \in Seq(Threads) /\ prio \in [Threads -> Int] /\ Distinct(pendq)
      BY <1>1, ConstantsAssumption DEF Typed, QueueInv
    <3>2. CASE Fifo
      BY <1>2, <1>4, <3>1, <3>2, AppendListProperties, Zenon
    <3>3. CASE ~Fifo
      BY <1>2, <1>4, <3>1, <3>3, AddPriffProperties, Zenon
    <3> QED
      BY <3>2, <3>3
  <2>5. QueueInv'
    BY <1>1, <2>2, <2>4 DEF QueueInv
  <2>6. value' \in Int /\ credit' \in Int /\ credit \in Int
    BY <1>1, <1>3 DEF Typed
  <2>7. Balanced(t) /\ Limited(t)
    BY <1>1, <1>2, <1>3, <2>3, <2>6 DEF Balanced, Limited, Bit
  <2> QED
    BY <1>2, <2>1, <2>3, <2>4, <2>5, <2>6, <2>7, Solo
<1>5. ASSUME NEW l \in {"post", "undo"}, l = "post" <=> call[t] = "wait", Goto(t, l),
             UNCHANGED <<pendq, why, call>>
      PROVE  Inv'
  <2>1. Moves(t, l, call[t], why[t]) /\ l \in Locations /\ l # "pend" /\ why[t] \in Reasons
    BY <1>1, <1>5 DEF Typed, Moves, Goto, Locations
  <2>2. pc'[t] = l /\ call'[t] = call[t]
    BY <1>1, <1>2, <2>1, Moved
  <2>3. PlaceOK(t)' /\ t \in Debtors'
    BY <1>1, <1>5, <2>2 DEF PlaceOK, Debtors, Owes
  <2>4. -1 = Bit(t \in Debtors) - Bit(t \in Debtors')
    BY <1>2, <2>3 DEF Bit
  <2>5. UNCHANGED <<pendq, live, credit>> /\ call[t] # "post"
    BY <1>3, <1>5
  <2> QED
    BY <1>2, <1>3, <2>1, <2>3, <2>4, <2>5, Plain
<1>6. CASE t \in Kicked /\ MayBreak /\ Goto(t, IF call[t] = "wait" THEN "post" ELSE "undo") /\ UNCHANGED <<pendq, why, call>>
  BY <1>5, <1>6
<1>7. CASE call[t] = "timedwait" /\ Goto(t, "undo") /\ UNCHANGED <<pendq, why, call>>
  BY <1>5, <1>7
<1> QED
  BY <1>4, <1>6, <1>7, Zenon DEF Sleep

\* sem_wait.
LEMMA SysWaitInv ==
  ASSUME Inv, NEW t \in Threads, SysWait(t) \/ SysTimedWait(t)
  PROVE  Inv'
<1>1. /\ pc[t] \in {"sys", "again"} /\ call[t] \in {"wait", "timedwait"} /\ NklockFree
      /\ Dead(t) \/ Take(t) \/ Sleep(t)
      /\ UNCHANGED live
  <2>1. PlaceOK(t)
    BY DEF Inv
  <2> QED
    BY <2>1 DEF SysWait, SysTimedWait, PlaceOK
<1>2. CASE Dead(t)
  BY <1>1, <1>2, BackInv DEF Dead, Debtors, Owes
<1> QED
  BY <1>1, <1>2, TakeInv, SleepInv

\* A wait with a date, on a semaphore without units: the count is lowered, then
\* restored.
LEMMA SysProbeInv ==
  ASSUME Inv, NEW t \in Threads, SysProbe(t)
  PROVE  Inv'
<1>1. Typed /\ pc[t] = "sys" /\ call[t] = "timedwait" /\ NklockFree /\ UNCHANGED live
  BY DEF Inv, SysProbe
<1>2. CASE Dead(t)
  BY <1>1, <1>2, BackInv DEF Dead, Debtors, Owes
<1>3. CASE Take(t)
  BY <1>1, <1>3, TakeInv
<1>4. CASE live /\ value <= 0 /\ value' = value - 1 /\ Goto(t, "probed")
           /\ UNCHANGED <<pendq, call, why, credit>>
  <2>1. Moves(t, "probed", call[t], why[t]) /\ "probed" \in Locations /\ call[t] \in Services /\ why[t] \in Reasons
    BY <1>1, <1>4 DEF Typed, Moves, Goto, Locations
  <2>2. pc'[t] = "probed" /\ call'[t] = "timedwait"
    BY <1>1, <2>1, Moved
  <2>3. PlaceOK(t)' /\ t \in Debtors' /\ t \notin Debtors
    BY <1>1, <1>4, <2>2 DEF PlaceOK, Debtors, Owes
  <2>4. value' = value + (-1) /\ -1 \in Int /\ -1 = Bit(t \in Debtors) - Bit(t \in Debtors')
    BY <1>1, <1>4, <2>3 DEF Typed, Bit
  <2> QED
    BY <1>1, <1>4, <2>1, <2>3, <2>4, Plain
<1> QED
  BY <1>2, <1>3, <1>4, Zenon DEF SysProbe

\* A debtor that gives its unit back and goes to l.
LEMMA GiveBack ==
  ASSUME Inv, live, MaxCredit <= MaxValue, NEW t \in Threads, pc[t] \in {"probed", "undo"},
         NEW l \in {"user", "again"}, NEW c \in {"none", "timedwait"}, l = "user" <=> c = "none",
         Moves(t, l, c, why[t]), value' = Wrap(value + 1), UNCHANGED <<pendq, live, credit>>
  PROVE  Inv'
<1>1. Typed /\ l \in Locations /\ c \in Services /\ why[t] \in Reasons
  BY DEF Inv, Typed, Locations, Services
<1>2. pc'[t] = l /\ call'[t] = c
  BY <1>1, Moved
<1>3. PlaceOK(t)' /\ t \in Debtors /\ t \notin Debtors'
  BY <1>2 DEF PlaceOK, Debtors, Owes
<1>4. value' = value + 1 /\ 1 \in Int /\ 1 >= 0 /\ 1 = Bit(t \in Debtors) - Bit(t \in Debtors')
  BY <1>3, NoOverflow DEF Bit
<1> QED
  BY <1>1, <1>3, <1>4, Plain

\* The count is restored before the date is fetched.
LEMMA SysFetchInv ==
  ASSUME Inv, MaxCredit <= MaxValue, NEW t \in Threads, SysFetch(t)
  PROVE  Inv'
<1>1. /\ Typed /\ live /\ call[t] = "timedwait" /\ pc[t] = "probed"
      /\ value' = Wrap(value + 1) /\ UNCHANGED <<pendq, live, credit>>
  BY DEF Inv, PlaceOK, SysFetch
<1>2. CASE Back(t)
  <2>1. Moves(t, "user", "none", why[t])
    BY <1>1, <1>2 DEF Typed, Moves, SysFetch, Back, Goto
  <2> QED
    BY <1>1, <2>1, GiveBack
<1>3. CASE Goto(t, "again") /\ UNCHANGED call
  <2>1. Moves(t, "again", "timedwait", why[t])
    BY <1>1, <1>3 DEF Typed, Moves, SysFetch, Goto
  <2> QED
    BY <1>1, <2>1, GiveBack
<1> QED
  BY <1>2, <1>3 DEF SysFetch

\* A timed wait that was not satisfied restores the count.
LEMMA UndoInv ==
  ASSUME Inv, MaxCredit <= MaxValue, NEW t \in Threads, Undo(t)
  PROVE  Inv'
<1>1. Typed /\ pc[t] = "undo" /\ Back(t) /\ UNCHANGED <<pendq, live, why, credit>>
  BY DEF Inv, Undo
<1>2. CASE live
  <2>1. Moves(t, "user", "none", why[t]) /\ value' = Wrap(value + 1)
    BY <1>1, <1>2 DEF Typed, Moves, Undo, Back, Goto
  <2> QED
    BY <1>1, <1>2, <2>1, GiveBack
<1>3. CASE ~live
  BY <1>1, <1>3, BackInv DEF Undo
<1> QED
  BY <1>2, <1>3
============================================================================
