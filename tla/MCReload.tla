------------------------------ MODULE MCReload ------------------------------
(***************************************************************************)
(* Instances of Reload for model checking: the configs a user may save.    *)
(***************************************************************************)
EXTENDS Reload, TLC

CONSTANTS a, b,       \* rules
          p, q, w, v  \* ports

At(port) == [port |-> port, rev |-> "plain"]
Broken(port) == [port |-> port, rev |-> "bad"]
Config(ra, rb, ui) == [rule |-> a :> ra @@ b :> rb, web |-> ui]
One(ra, ui) == [rule |-> a :> ra, web |-> ui]

\* Two rules, the same with their addresses swapped, a config that Validate
\* refuses, and the swap with one of the rules broken: it cannot be built.
Swaps == {Config(At(p), At(q), w), Config(At(q), At(p), w),
          Config(At(p), At(p), w), Config(At(q), Broken(p), w)}

\* The rule and the web UI both move, each to an address of its own.
Moves == {One(At(p), w), One(At(q), v)}

\* One rule and the web UI trade addresses.
Trades == {One(At(p), w), One(At(w), p)}

CallerSymmetry == Permutations(Callers)

=============================================================================
