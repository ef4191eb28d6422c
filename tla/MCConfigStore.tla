--------------------------- MODULE MCConfigStore ---------------------------
(***************************************************************************)
(* Two rules' worth of configs, one call of each kind, among them those    *)
(* that meet on the same rule or the same address.                         *)
(***************************************************************************)
EXTENDS ConfigStore, TLC

CONSTANTS n1, n2, a1, a2, a3, w1, l1

R(name, listen) == [name |-> name, listen |-> listen]

MCNames == {n1, n2}
MCAddresses == {a1, a2, a3, w1}
MCDefault == [rules |-> <<R(n1, a1)>>, web |-> w1, noProxy |-> l1]

MCOperations ==
    {[kind |-> "create", rule |-> R(n2, a2)],
     [kind |-> "create", rule |-> R(Blank, a2)],
     [kind |-> "update", name |-> n1, rule |-> R(n2, a3)],
     [kind |-> "update", name |-> n1, rule |-> R(Blank, a2)],
     [kind |-> "delete", name |-> n1],
     [kind |-> "webUI", web |-> a2],
     [kind |-> "webUI", web |-> Broken],
     [kind |-> "noProxy", noProxy |-> l1],
     [kind |-> "replace", conf |-> [rules |-> <<R(n1, a3), R(n2, a1)>>, web |-> Off, noProxy |-> Nothing]],
     [kind |-> "replace", conf |-> [rules |-> <<R(n1, a1), R(n1, a2)>>, web |-> w1, noProxy |-> l1]]}

\* Removed, emptied, cut short, with two rules of one name, and valid.
MCEdits ==
    {Absent, Empty, Torn,
     [rules |-> <<R(n1, a1), R(n1, a2)>>, web |-> w1, noProxy |-> l1],
     [rules |-> <<R(n2, a2)>>, web |-> w1, noProxy |-> l1]}

Symmetry == Permutations(Requests)
=============================================================================
