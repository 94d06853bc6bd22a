----------------------------- MODULE PrioList ------------------------------
(***************************************************************************)
(* The priority-ordered lists of include/cobalt/kernel/list.h, which hold  *)
(* the sleepers of every synchronization object and the ready threads.     *)
(* The list q has no duplicates; pr gives the priority of its elements.    *)
(***************************************************************************)
EXTENDS Integers, Sequences

InsertAfter(q, i, e) == SubSeq(q, 1, i) \o <<e>> \o SubSeq(q, i + 1, Len(q))

\* Mutant: a newcomer overtakes the elements of its own priority.
PrilfIndex(q, e, pr) ==
    CHOOSE i \in 0 .. Len(q) :
        /\ i > 0 => pr[q[i]] > pr[e]
        /\ \A j \in (i + 1) .. Len(q) : pr[q[j]] <= pr[e]

\* Index after which list_add_priff() links an element: the scan goes from the
\* tail to the first one whose priority is at least that of the newcomer.
PriffIndex(q, e, pr) ==
    CHOOSE i \in 0 .. Len(q) :
        /\ i > 0 => pr[q[i]] >= pr[e]
        /\ \A j \in (i + 1) .. Len(q) : pr[q[j]] < pr[e]

\* list_add_priff(): by decreasing priority, first come first served.
AddPriff(q, e, pr) == InsertAfter(q, PriffIndex(q, e, pr), e)

\* list_del().
Delete(q, e) ==
    LET i == CHOOSE n \in 1 .. Len(q) : q[n] = e
    IN  SubSeq(q, 1, i - 1) \o SubSeq(q, i + 1, Len(q))

Distinct(q) == \A i, j \in 1 .. Len(q) : q[i] = q[j] => i = j
Sorted(q, pr) == \A i, j \in 1 .. Len(q) : i < j => pr[q[i]] >= pr[q[j]]
Has(q, e) == \E i \in 1 .. Len(q) : q[i] = e
============================================================================
