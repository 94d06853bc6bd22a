-------------------------- MODULE PrioListProofs ---------------------------
(***************************************************************************)
(* What the list operations of PrioList return, for lists of any length    *)
(* and any priorities.                                                     *)
(***************************************************************************)
EXTENDS PrioList, TLAPS

LOCAL INSTANCE SequenceTheorems
LOCAL INSTANCE WellFoundedInduction

\* The scan of list_add_priff() stops at exactly such an index.
LEMMA PriffIndexExists ==
  ASSUME NEW S, NEW q \in Seq(S), NEW e \in S, NEW pr \in [S -> Int]
  PROVE  /\ PriffIndex(q, e, pr) \in 0 .. Len(q)
         /\ PriffIndex(q, e, pr) > 0 => pr[q[PriffIndex(q, e, pr)]] >= pr[e]
         /\ \A j \in (PriffIndex(q, e, pr) + 1) .. Len(q) : pr[q[j]] < pr[e]
<1> DEFINE Stop(i) == i > 0 => pr[q[i]] >= pr[e]
           Gaps == {n \in Nat : n <= Len(q) /\ Stop(Len(q) - n)}
<1>1. Len(q) \in Nat
  BY LenProperties
<1>2. Len(q) \in Gaps
  BY <1>1
<1>3. PICK n \in Gaps : \A m \in Gaps : ~(<<m, n>> \in OpToRel(<, Nat))
  <2> HIDE DEF Gaps
  <2>1. Gaps \subseteq Nat /\ Gaps # {}
    BY <1>2 DEF Gaps
  <2> QED
    BY <2>1, NatLessThanWellFounded, WFMin, Zenon
<1>4. \A m \in Gaps : ~(m < n)
  BY <1>3, Zenon DEF OpToRel
<1> DEFINE k == Len(q) - n
<1>5. k \in 0 .. Len(q) /\ Stop(k)
  BY <1>1
<1>6. \A j \in (k + 1) .. Len(q) : pr[q[j]] < pr[e]
  <2> SUFFICES ASSUME NEW j \in (k + 1) .. Len(q), ~(pr[q[j]] < pr[e])
               PROVE  FALSE
    OBVIOUS
  <2>1. j \in 1 .. Len(q) /\ q[j] \in S /\ n \in Nat
    BY <1>1, <1>5, ElementOfSeq
  <2>2. pr[q[j]] \in Int /\ pr[e] \in Int
    BY <2>1
  <2>3. Len(q) - j \in Gaps
    BY <1>1, <2>1, <2>2
  <2> QED
    BY <1>1, <1>4, <2>1, <2>3
<1>7. \E i \in 0 .. Len(q) :
         /\ i > 0 => pr[q[i]] >= pr[e]
         /\ \A j \in (i + 1) .. Len(q) : pr[q[j]] < pr[e]
  BY <1>5, <1>6, Zenon
<1> QED
  BY <1>7 DEF PriffIndex

\* The list r is q with e inserted after its first k elements.
Inserted(r, q, k, e) ==
    /\ Len(r) = Len(q) + 1
    /\ \A i \in 1 .. k : r[i] = q[i]
    /\ r[k + 1] = e
    /\ \A i \in k + 1 .. Len(q) : r[i + 1] = q[i]

\* What inserting at an index yields, position by position.
LEMMA InsertAfterProperties ==
  ASSUME NEW S, NEW q \in Seq(S), NEW e \in S, NEW k \in 0 .. Len(q)
  PROVE  /\ InsertAfter(q, k, e) \in Seq(S)
         /\ Inserted(InsertAfter(q, k, e), q, k, e)
<1> DEFINE a == SubSeq(q, 1, k)
           b == SubSeq(q, k + 1, Len(q))
<1>1. Len(q) \in Nat /\ \A i \in 1 .. Len(q) : q[i] \in S
  BY LenProperties, ElementOfSeq
<1>2. /\ a \in Seq(S) /\ Len(a) = k
      /\ \A i \in 1 .. k : a[i] = q[i]
  <2>1. \A i \in 1 .. k : q[i] \in S
    BY <1>1
  <2>2. /\ a \in Seq(S)
        /\ Len(a) = IF 1 <= k THEN k - 1 + 1 ELSE 0
        /\ \A i \in 1 .. k - 1 + 1 : a[i] = q[1 + i - 1]
    BY <1>1, <2>1, SubSeqProperties
  <2> QED
    BY <1>1, <2>2
<1>3. /\ b \in Seq(S) /\ Len(b) = Len(q) - k
      /\ \A i \in 1 .. Len(q) - k : b[i] = q[k + i]
  <2>1. \A i \in k + 1 .. Len(q) : q[i] \in S
    BY <1>1
  <2>2. /\ b \in Seq(S)
        /\ Len(b) = IF k + 1 <= Len(q) THEN Len(q) - (k + 1) + 1 ELSE 0
        /\ \A i \in 1 .. Len(q) - (k + 1) + 1 : b[i] = q[(k + 1) + i - 1]
    BY <1>1, <2>1, SubSeqProperties
  <2> QED
    BY <1>1, <2>2
<1>4. /\ <<e>> \in Seq(S) /\ Len(<<e>>) = 1 /\ <<e>>[1] = e
  OBVIOUS
<1> HIDE DEF a, b
<1>5. /\ a \o <<e>> \in Seq(S) /\ Len(a \o <<e>>) = k + 1
      /\ \A i \in 1 .. k : (a \o <<e>>)[i] = q[i]
      /\ (a \o <<e>>)[k + 1] = e
  <2>1. /\ a \o <<e>> \in Seq(S) /\ Len(a \o <<e>>) = Len(a) + Len(<<e>>)
        /\ \A i \in 1 .. Len(a) + Len(<<e>>) : (a \o <<e>>)[i] =
              IF i <= Len(a) THEN a[i] ELSE <<e>>[i - Len(a)]
    BY <1>2, <1>4, ConcatProperties
  <2> QED
    BY <1>1, <1>2, <1>4, <2>1
<1> DEFINE c == a \o <<e>>
<1>6. /\ c \o b \in Seq(S) /\ Len(c \o b) = Len(q) + 1
      /\ \A i \in 1 .. k + 1 : (c \o b)[i] = c[i]
      /\ \A i \in k + 1 .. Len(q) : (c \o b)[i + 1] = q[i]
  <2>1. c \in Seq(S) /\ Len(c) = k + 1
    BY <1>5
  <2> HIDE DEF c
  <2>2. /\ c \o b \in Seq(S) /\ Len(c \o b) = Len(c) + Len(b)
        /\ \A i \in 1 .. Len(c) + Len(b) : (c \o b)[i] =
              IF i <= Len(c) THEN c[i] ELSE b[i - Len(c)]
    BY <1>3, <2>1, ConcatProperties, Zenon
  <2>3. \A i \in 1 .. k + 1 : (c \o b)[i] = c[i]
    BY <1>1, <1>3, <2>1, <2>2
  <2>4. ASSUME NEW i \in k + 1 .. Len(q) PROVE (c \o b)[i + 1] = q[i]
    <3>1. i + 1 \in 1 .. Len(c) + Len(b) /\ ~(i + 1 <= Len(c))
      BY <1>1, <1>3, <2>1
    <3>2. (c \o b)[i + 1] = b[(i + 1) - Len(c)]
      BY <2>2, <3>1
    <3>3. (i + 1) - Len(c) = i - k /\ i - k \in 1 .. Len(q) - k /\ k + (i - k) = i
      BY <1>1, <2>1
    <3> QED
      BY <1>3, <3>2, <3>3, Zenon
  <2> QED
    BY <1>1, <1>3, <2>1, <2>2, <2>3, <2>4
<1>7. InsertAfter(q, k, e) = c \o b
  BY DEF InsertAfter, a, b, c
<1> HIDE DEF c
<1>8. \A i \in 1 .. k : c[i] = q[i]
  BY <1>5 DEF c
<1>9. c[k + 1] = e
  BY <1>5 DEF c
<1>10. k + 1 \in 1 .. k + 1 /\ \A i \in 1 .. k : i \in 1 .. k + 1
  BY <1>1
<1> QED
  BY <1>6, <1>7, <1>8, <1>9, <1>10, Zenon DEF Inserted

\* list_add_priff() adds the element and nothing else, and keeps the list
\* sorted and without duplicates.
THEOREM AddPriffProperties ==
  ASSUME NEW S, NEW q \in Seq(S), NEW e \in S, NEW pr \in [S -> Int]
  PROVE  /\ AddPriff(q, e, pr) \in Seq(S)
         /\ AddPriff(q, e, pr) # <<>>
         /\ \A x : Has(AddPriff(q, e, pr), x) <=> x = e \/ Has(q, x)
         /\ Distinct(q) /\ ~Has(q, e) => Distinct(AddPriff(q, e, pr))
         /\ Sorted(q, pr) => Sorted(AddPriff(q, e, pr), pr)
<1> DEFINE r == AddPriff(q, e, pr)
<1>1. Len(q) \in Nat /\ \A i \in 1 .. Len(q) : q[i] \in S
  BY LenProperties, ElementOfSeq
<1>2. PICK k \in 0 .. Len(q) :
         /\ k = PriffIndex(q, e, pr)
         /\ k > 0 => pr[q[k]] >= pr[e]
         /\ \A j \in (k + 1) .. Len(q) : pr[q[j]] < pr[e]
  BY PriffIndexExists, Zenon
<1>3. /\ r \in Seq(S) /\ Len(r) = Len(q) + 1
      /\ \A i \in 1 .. k : r[i] = q[i]
      /\ r[k + 1] = e
      /\ \A i \in k + 1 .. Len(q) : r[i + 1] = q[i]
  <2>1. r = InsertAfter(q, k, e)
    BY <1>2 DEF AddPriff
  <2>2. InsertAfter(q, k, e) \in Seq(S) /\ Inserted(InsertAfter(q, k, e), q, k, e)
    BY InsertAfterProperties
  <2> QED
    BY <2>1, <2>2 DEF Inserted
<1> HIDE DEF r
\* Every position of the new list comes from the old one or is the newcomer's.
<1>4. ASSUME NEW i \in 1 .. Len(q) + 1
      PROVE  \/ i \in 1 .. k /\ i \in 1 .. Len(q) /\ r[i] = q[i]
             \/ i = k + 1 /\ r[i] = e
             \/ i - 1 \in k + 1 .. Len(q) /\ i - 1 \in 1 .. Len(q) /\ r[i] = q[i - 1]
  <2>1. CASE i <= k
    <3>1. i \in 1 .. k /\ i \in 1 .. Len(q)
      BY <1>1, <1>2, <2>1
    <3> QED
      BY <1>3, <3>1
  <2>2. CASE i = k + 1
    BY <1>3, <2>2
  <2>3. CASE i > k + 1
    <3>1. i - 1 \in k + 1 .. Len(q) /\ i - 1 \in 1 .. Len(q) /\ (i - 1) + 1 = i
      BY <1>1, <1>2, <2>3
    <3>2. r[(i - 1) + 1] = q[i - 1]
      BY <1>3, <3>1, Zenon
    <3> QED
      BY <3>1, <3>2
  <2> QED
    BY <1>1, <1>2, <2>1, <2>2, <2>3
<1>9. ASSUME NEW i \in 1 .. Len(q) + 1, i # k + 1
      PROVE  \E m \in 1 .. Len(q) :
                r[i] = q[m] /\ ((m = i /\ i <= k) \/ (m = i - 1 /\ m > k))
  <2>1. CASE i \in 1 .. k /\ i \in 1 .. Len(q) /\ r[i] = q[i]
    BY <1>1, <1>2, <2>1
  <2>2. CASE i - 1 \in k + 1 .. Len(q) /\ i - 1 \in 1 .. Len(q) /\ r[i] = q[i - 1]
    BY <1>1, <1>2, <2>2
  <2> QED
    BY <1>4, <1>9, <2>1, <2>2
<1>5. ASSUME NEW x PROVE Has(r, x) <=> x = e \/ Has(q, x)
  <2>1. ASSUME Has(r, x) PROVE x = e \/ Has(q, x)
    <3>1. PICK i \in 1 .. Len(q) + 1 : r[i] = x
      BY <1>3, <2>1 DEF Has
    <3> QED
      BY <1>4, <3>1, SMTT(20) DEF Has
  <2>2. ASSUME x = e PROVE Has(r, x)
    <3>1. k + 1 \in 1 .. Len(r) /\ r[k + 1] = e
      BY <1>1, <1>2, <1>3
    <3> QED
      BY <2>2, <3>1 DEF Has
  <2>3. ASSUME Has(q, x) PROVE Has(r, x)
    <3>1. PICK i \in 1 .. Len(q) : q[i] = x
      BY <2>3 DEF Has
    <3>2. CASE i <= k
      <4>1. i \in 1 .. Len(r) /\ r[i] = x
        BY <1>1, <1>2, <1>3, <3>1, <3>2
      <4> QED
        BY <4>1 DEF Has
    <3>3. CASE i > k
      <4>1. i \in k + 1 .. Len(q) /\ i + 1 \in 1 .. Len(r)
        BY <1>1, <1>3, <3>3
      <4>2. r[i + 1] = x
        BY <1>3, <3>1, <4>1
      <4> QED
        BY <4>1, <4>2 DEF Has
    <3> QED
      BY <1>1, <1>2, <3>2, <3>3
  <2> QED
    BY <2>1, <2>2, <2>3
<1>6. ASSUME Distinct(q), ~Has(q, e) PROVE Distinct(r)
  <2> SUFFICES ASSUME NEW i \in 1 .. Len(q) + 1, NEW j \in 1 .. Len(q) + 1,
                      r[i] = r[j]
               PROVE  i = j
    BY <1>3 DEF Distinct
  <2>1. \A n \in 1 .. Len(q) : q[n] # e
    BY <1>6 DEF Has
  <2>2. \A m, n \in 1 .. Len(q) : q[m] = q[n] => m = n
    BY <1>6 DEF Distinct
  <2>3. CASE i = k + 1
    BY <1>3, <1>4, <2>1, <2>3, Zenon
  <2>4. CASE j = k + 1
    BY <1>3, <1>4, <2>1, <2>4, Zenon
  <2>5. CASE i # k + 1 /\ j # k + 1
    <3>1. PICK m \in 1 .. Len(q) : r[i] = q[m] /\ ((m = i /\ i <= k) \/ (m = i - 1 /\ m > k))
      BY <1>9, <2>5, Zenon
    <3>2. PICK n \in 1 .. Len(q) : r[j] = q[n] /\ ((n = j /\ j <= k) \/ (n = j - 1 /\ n > k))
      BY <1>9, <2>5
    <3>3. m = n
      BY <2>2, <3>1, <3>2, Zenon
    <3> QED
      BY <1>1, <1>2, <3>1, <3>2, <3>3
  <2> QED
    BY <2>3, <2>4, <2>5
<1>7. ASSUME Sorted(q, pr) PROVE Sorted(r, pr)
  <2>1. \A m, n \in 1 .. Len(q) : m < n => pr[q[m]] >= pr[q[n]]
    BY <1>7 DEF Sorted
  <2>2. (\A m \in 1 .. Len(q) : pr[q[m]] \in Int) /\ pr[e] \in Int
    BY <1>1
  <2>3. \A m \in 1 .. Len(q) : m <= k => pr[q[m]] >= pr[e]
    <3> SUFFICES ASSUME NEW m \in 1 .. Len(q), m <= k
                 PROVE  pr[q[m]] >= pr[e]
      OBVIOUS
    <3>1. k \in 1 .. Len(q) /\ k > 0
      BY <1>1, <1>2
    <3>2. pr[q[m]] >= pr[q[k]]
      BY <1>1, <2>1, <2>2, <3>1
    <3> QED
      BY <1>2, <2>2, <3>1, <3>2
  <2>4. \A m \in 1 .. Len(q) : m > k => pr[q[m]] < pr[e]
    BY <1>1, <1>2
  <2> SUFFICES ASSUME NEW i \in 1 .. Len(q) + 1, NEW j \in 1 .. Len(q) + 1, i < j
               PROVE  pr[r[i]] >= pr[r[j]]
    BY <1>3 DEF Sorted
  <2>5. CASE i = k + 1
    <3>0. j # k + 1
      BY <1>1, <2>5
    <3>1. PICK n \in 1 .. Len(q) : r[j] = q[n] /\ ((n = j /\ j <= k) \/ (n = j - 1 /\ n > k))
      BY <1>9, <3>0
    <3>2. n > k
      BY <1>1, <2>5, <3>1
    <3>3. r[i] = e
      BY <1>3, <2>5, Zenon
    <3>4. pr[q[n]] < pr[e]
      BY <2>4, <3>2
    <3>5. pr[r[i]] = pr[e] /\ pr[r[j]] = pr[q[n]]
      BY <3>1, <3>3
    <3> QED
      BY <2>2, <3>4, <3>5
  <2>6. CASE j = k + 1
    <3>0. i # k + 1
      BY <1>1, <2>6
    <3>1. PICK m \in 1 .. Len(q) : r[i] = q[m] /\ ((m = i /\ i <= k) \/ (m = i - 1 /\ m > k))
      BY <1>9, <3>0
    <3>2. m <= k
      BY <1>1, <2>6, <3>1
    <3> QED
      BY <1>3, <2>3, <2>6, <3>1, <3>2
  <2>7. CASE i # k + 1 /\ j # k + 1
    <3>1. PICK m \in 1 .. Len(q) : r[i] = q[m] /\ ((m = i /\ i <= k) \/ (m = i - 1 /\ m > k))
      BY <1>9, <2>7
    <3>2. PICK n \in 1 .. Len(q) : r[j] = q[n] /\ ((n = j /\ j <= k) \/ (n = j - 1 /\ n > k))
      BY <1>9, <2>7
    <3>3. m < n
      BY <1>1, <1>2, <3>1, <3>2
    <3> QED
      BY <2>1, <3>1, <3>2, <3>3
  <2> QED
    BY <2>5, <2>6, <2>7
<1>8. r # <<>>
  BY <1>1, <1>3
<1> QED
  BY <1>3, <1>5, <1>6, <1>7, <1>8 DEF r

\* The list r is q without its k-th element.
Removed(r, q, k) ==
    /\ Len(r) = Len(q) - 1
    /\ \A i \in 1 .. k - 1 : r[i] = q[i]
    /\ \A i \in k .. Len(q) - 1 : r[i] = q[i + 1]

\* Removing an element removes nothing else and keeps the order of the others.
LEMMA RemovedProperties ==
  ASSUME NEW S, NEW q \in Seq(S), NEW r \in Seq(S), NEW k \in 1 .. Len(q),
         Removed(r, q, k), Distinct(q), NEW pr
  PROVE  /\ \A x : Has(r, x) <=> Has(q, x) /\ x # q[k]
         /\ Distinct(r)
         /\ Sorted(q, pr) => Sorted(r, pr)
<1>1. Len(q) \in Nat /\ Len(r) = Len(q) - 1
  BY LenProperties DEF Removed
<1>2. ASSUME NEW i \in 1 .. Len(r)
      PROVE  \E m \in 1 .. Len(q) : r[i] = q[m] /\ ((m = i /\ i < k) \/ (m = i + 1 /\ m > k))
  <2>1. CASE i < k
    <3>1. i \in 1 .. k - 1 /\ i \in 1 .. Len(q)
      BY <1>1, <2>1
    <3> QED
      BY <2>1, <3>1 DEF Removed
  <2>2. CASE i >= k
    <3>1. i \in k .. Len(q) - 1 /\ i + 1 \in 1 .. Len(q) /\ i + 1 > k
      BY <1>1, <2>2
    <3> QED
      BY <3>1 DEF Removed
  <2> QED
    BY <1>1, <2>1, <2>2
<1>3. \A m, n \in 1 .. Len(q) : q[m] = q[n] => m = n
  BY DEF Distinct
<1>4. ASSUME NEW x PROVE Has(r, x) <=> Has(q, x) /\ x # q[k]
  <2>1. ASSUME Has(r, x) PROVE Has(q, x) /\ x # q[k]
    <3>1. PICK i \in 1 .. Len(r) : r[i] = x
      BY <2>1 DEF Has
    <3>2. PICK m \in 1 .. Len(q) : r[i] = q[m] /\ ((m = i /\ i < k) \/ (m = i + 1 /\ m > k))
      BY <1>2
    <3>3. m # k
      BY <3>2
    <3> QED
      BY <1>3, <3>1, <3>2, <3>3 DEF Has
  <2>2. ASSUME Has(q, x), x # q[k] PROVE Has(r, x)
    <3>1. PICK m \in 1 .. Len(q) : q[m] = x
      BY <2>2 DEF Has
    <3>2. CASE m < k
      <4>1. m \in 1 .. k - 1 /\ m \in 1 .. Len(r)
        BY <1>1, <3>2
      <4> QED
        BY <3>1, <4>1 DEF Has, Removed
    <3>3. CASE m > k
      <4>1. m - 1 \in k .. Len(q) - 1 /\ m - 1 \in 1 .. Len(r) /\ (m - 1) + 1 = m
        BY <1>1, <3>3
      <4>2. r[m - 1] = q[(m - 1) + 1]
        BY <4>1 DEF Removed
      <4> QED
        BY <3>1, <4>1, <4>2 DEF Has
    <3> QED
      BY <1>1, <2>2, <3>1, <3>2, <3>3
  <2> QED
    BY <2>1, <2>2
<1>5. ASSUME NEW i \in 1 .. Len(r), NEW j \in 1 .. Len(r)
      PROVE  /\ r[i] = r[j] => i = j
             /\ Sorted(q, pr) /\ i < j => pr[r[i]] >= pr[r[j]]
  <2>1. PICK m \in 1 .. Len(q) : r[i] = q[m] /\ ((m = i /\ i < k) \/ (m = i + 1 /\ m > k))
    BY <1>2
  <2>2. PICK n \in 1 .. Len(q) : r[j] = q[n] /\ ((n = j /\ j < k) \/ (n = j + 1 /\ n > k))
    BY <1>2
  <2>3. (m = n => i = j) /\ (i < j => m < n)
    BY <1>1, <2>1, <2>2
  <2>4. r[i] = r[j] => i = j
    BY <1>3, <2>1, <2>2, <2>3, Zenon
  <2>5. Sorted(q, pr) /\ i < j => pr[r[i]] >= pr[r[j]]
    BY <2>1, <2>2, <2>3 DEF Sorted
  <2> QED
    BY <2>4, <2>5
<1>6. Distinct(r)
  BY <1>5 DEF Distinct
<1>7. Sorted(q, pr) => Sorted(r, pr)
  BY <1>5 DEF Sorted
<1> QED
  BY <1>4, <1>6, <1>7

\* list_del() takes out its argument and nothing else.
THEOREM DeleteProperties ==
  ASSUME NEW S, NEW q \in Seq(S), NEW e, Has(q, e), Distinct(q), NEW pr
  PROVE  /\ Delete(q, e) \in Seq(S)
         /\ \A x : Has(Delete(q, e), x) <=> Has(q, x) /\ x # e
         /\ Distinct(Delete(q, e))
         /\ Sorted(q, pr) => Sorted(Delete(q, e), pr)
<1>1. Len(q) \in Nat /\ \A i \in 1 .. Len(q) : q[i] \in S
  BY LenProperties, ElementOfSeq
<1>2. PICK k \in 1 .. Len(q) : q[k] = e /\ k = CHOOSE i \in 1 .. Len(q) : q[i] = e
  BY DEF Has
<1> DEFINE a == SubSeq(q, 1, k - 1)
           b == SubSeq(q, k + 1, Len(q))
<1>3. /\ a \in Seq(S) /\ Len(a) = k - 1
      /\ \A i \in 1 .. k - 1 : a[i] = q[i]
  <2>1. \A i \in 1 .. k - 1 : q[i] \in S
    BY <1>1
  <2>2. /\ a \in Seq(S)
        /\ Len(a) = IF 1 <= k - 1 THEN (k - 1) - 1 + 1 ELSE 0
        /\ \A i \in 1 .. (k - 1) - 1 + 1 : a[i] = q[1 + i - 1]
    BY <1>1, <2>1, SubSeqProperties
  <2> QED
    BY <1>1, <2>2
<1>4. /\ b \in Seq(S) /\ Len(b) = Len(q) - k
      /\ \A i \in 1 .. Len(q) - k : b[i] = q[k + i]
  <2>1. \A i \in k + 1 .. Len(q) : q[i] \in S
    BY <1>1
  <2>2. /\ b \in Seq(S)
        /\ Len(b) = IF k + 1 <= Len(q) THEN Len(q) - (k + 1) + 1 ELSE 0
        /\ \A i \in 1 .. Len(q) - (k + 1) + 1 : b[i] = q[(k + 1) + i - 1]
    BY <1>1, <2>1, SubSeqProperties
  <2> QED
    BY <1>1, <2>2
<1>5. Delete(q, e) = a \o b
  BY <1>2 DEF Delete
<1> HIDE DEF a, b
<1>6. /\ a \o b \in Seq(S) /\ Len(a \o b) = Len(a) + Len(b)
      /\ \A i \in 1 .. Len(a) + Len(b) : (a \o b)[i] =
            IF i <= Len(a) THEN a[i] ELSE b[i - Len(a)]
  BY <1>3, <1>4, ConcatProperties, Zenon
<1>7. Removed(a \o b, q, k)
  <2>1. Len(a \o b) = Len(q) - 1
    BY <1>1, <1>3, <1>4, <1>6
  <2>2. ASSUME NEW i \in 1 .. k - 1 PROVE (a \o b)[i] = q[i]
    <3>1. i \in 1 .. Len(a) + Len(b) /\ i <= Len(a)
      BY <1>1, <1>3, <1>4
    <3> QED
      BY <1>3, <1>6, <3>1
  <2>3. ASSUME NEW i \in k .. Len(q) - 1 PROVE (a \o b)[i] = q[i + 1]
    <3>1. i \in 1 .. Len(a) + Len(b) /\ ~(i <= Len(a))
      BY <1>1, <1>3, <1>4
    <3>2. i - Len(a) \in 1 .. Len(q) - k /\ k + (i - Len(a)) = i + 1
      BY <1>1, <1>3
    <3> QED
      BY <1>4, <1>6, <3>1, <3>2
  <2> QED
    BY <2>1, <2>2, <2>3 DEF Removed
<1> DEFINE r == a \o b
<1>8. r \in Seq(S) /\ Removed(r, q, k)
  BY <1>6, <1>7
<1> HIDE DEF r
<1>9. /\ \A x : Has(r, x) <=> Has(q, x) /\ x # q[k]
      /\ Distinct(r)
      /\ Sorted(q, pr) => Sorted(r, pr)
  BY <1>8, RemovedProperties
<1> QED
  BY <1>2, <1>5, <1>8, <1>9 DEF r

\* list_pop() takes out the first element and nothing else.
THEOREM TailProperties ==
  ASSUME NEW S, NEW q \in Seq(S), q # <<>>, Distinct(q), NEW pr
  PROVE  /\ Head(q) \in S /\ Has(q, Head(q))
         /\ Tail(q) \in Seq(S)
         /\ Len(q) > 1 <=> Tail(q) # <<>>
         /\ \A x : Has(Tail(q), x) <=> Has(q, x) /\ x # Head(q)
         /\ Distinct(Tail(q))
         /\ Sorted(q, pr) => Sorted(Tail(q), pr)
<1>1. Len(q) \in Nat /\ Len(q) >= 1 /\ 1 \in 1 .. Len(q) /\ Head(q) = q[1]
  BY LenProperties, EmptySeq
<1>2. q[1] \in S /\ Has(q, q[1])
  BY <1>1, ElementOfSeq DEF Has
<1>3. /\ Tail(q) \in Seq(S) /\ Len(Tail(q)) = Len(q) - 1
      /\ \A i \in 1 .. Len(Tail(q)) : Tail(q)[i] = q[i + 1]
  BY HeadTailProperties
<1>4. Removed(Tail(q), q, 1)
  BY <1>1, <1>3 DEF Removed
<1>5. /\ \A x : Has(Tail(q), x) <=> Has(q, x) /\ x # q[1]
      /\ Distinct(Tail(q))
      /\ Sorted(q, pr) => Sorted(Tail(q), pr)
  BY <1>1, <1>3, <1>4, RemovedProperties, Zenon
<1>6. Len(q) > 1 <=> Tail(q) # <<>>
  <2>1. Tail(q) # <<>> => Len(Tail(q)) \in Nat \ {0}
    BY <1>3, EmptySeq
  <2>2. Tail(q) = <<>> => Len(Tail(q)) = 0
    BY EmptySeq, Zenon
  <2> QED
    BY <1>1, <1>3, <2>1, <2>2
<1> QED
  BY <1>1, <1>2, <1>3, <1>5, <1>6

\* list_add_tail() adds exactly the newcomer and keeps a list free of duplicates.
THEOREM AppendListProperties ==
  ASSUME NEW S, NEW q \in Seq(S), NEW e \in S
  PROVE  /\ Append(q, e) \in Seq(S)
         /\ \A x : Has(Append(q, e), x) <=> x = e \/ Has(q, x)
         /\ Distinct(q) /\ ~Has(q, e) => Distinct(Append(q, e))
<1>1. /\ Append(q, e) \in Seq(S) /\ Len(Append(q, e)) = Len(q) + 1 /\ Len(q) \in Nat
      /\ \A i \in 1 .. Len(q) : Append(q, e)[i] = q[i]
      /\ Append(q, e)[Len(q) + 1] = e
  BY AppendProperties, LenProperties
<1> DEFINE r == Append(q, e)
<1>2. r \in Seq(S) /\ Len(r) = Len(q) + 1 /\ (\A i \in 1 .. Len(q) : r[i] = q[i]) /\ r[Len(q) + 1] = e
  BY <1>1
<1> HIDE DEF r
<1>3. \A i \in 1 .. Len(r) : i \in 1 .. Len(q) \/ i = Len(q) + 1
  BY <1>1, <1>2
<1>4. \A x : Has(r, x) <=> x = e \/ Has(q, x)
  BY <1>1, <1>2, <1>3 DEF Has
<1>5. ASSUME Distinct(q), ~Has(q, e) PROVE Distinct(r)
  <2> SUFFICES ASSUME NEW i \in 1 .. Len(r), NEW j \in 1 .. Len(r), r[i] = r[j] PROVE i = j
    BY DEF Distinct
  <2> QED
    BY <1>1, <1>2, <1>3, <1>5 DEF Has, Distinct
<1> QED
  BY <1>2, <1>4, <1>5 DEF r
============================================================================
