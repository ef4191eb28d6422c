----------------------------- MODULE MCWebShell -----------------------------
(* WebShell on small sets, for TLC. *)
EXTENDS WebShell, TLC

\* Each part has two of a kind; one permutation swaps those of all parts.
Twins == {Users, Endpoints, Elsewhere \ Unnameable}
Symmetry ==
    {f \in Permutations(UNION Twins) :
        (\A x \in DOMAIN f : f[x] = x) \/ \A twins \in Twins : \A x \in twins : f[x] \in twins \ {x}}
=============================================================================
