----------------------------- MODULE Lists -----------------------------
(***************************************************************************)
(* What the pages that list statistics do with arrays.                     *)
(***************************************************************************)
EXTENDS Integers, Sequences, FiniteSets, SequencesExt

\* Array.prototype.map.
Mapped(s, Of(_)) == [i \in DOMAIN s |-> Of(s[i])]

At(s, places) == [i \in DOMAIN places |-> s[places[i]]]

\* The members of a finite set in an order, which is a set of pairs.
InOrder(S, order) ==
    CHOOSE p \in [1..Cardinality(S) -> S] :
        \A i, j \in 1..Cardinality(S) : i < j => <<p[i], p[j]>> \in order

Ascending(places) == InOrder(places, {p \in places \X places : p[1] < p[2]})

\* Array.prototype.filter.
Filtered(s, Keep(_)) == At(s, Ascending({i \in DOMAIN s : Keep(s[i])}))

\* The keys of a Map in the order they were set: each member at its first place.
Uniques(s) == At(s, Ascending({i \in DOMAIN s : \A j \in 1..i - 1 : s[j] # s[i]}))

\* Array.prototype.sort, which is stable.
StableSort(s, Before(_, _)) ==
    LET Sooner(i, j) == Before(s[i], s[j]) \/ (~Before(s[j], s[i]) /\ i < j)
    IN  At(s, InOrder(DOMAIN s, {p \in (DOMAIN s) \X (DOMAIN s) : Sooner(p[1], p[2])}))
=============================================================================
