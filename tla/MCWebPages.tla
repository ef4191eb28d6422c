----------------------------- MODULE MCWebPages -----------------------------
(***************************************************************************)
(* Instances of WebPages for model checking.                               *)
(***************************************************************************)
EXTENDS WebPages, TLC

\* No page tells the names of rules apart, nor the fields it does not show.
Symmetry == Permutations(Names) \cup Permutations(Fields)

\* StatsRules: a rule is added and one goes, and a file with two rules of one
\* name, only one of them disabled; sorts with ties; all orders.
MCRuleNames == 1..3
MCConfigs == {<<[name |-> 2, disabled |-> FALSE], [name |-> 1, disabled |-> FALSE]>>,
              <<[name |-> 1, disabled |-> FALSE], [name |-> 3, disabled |-> TRUE]>>,
              <<[name |-> 1, disabled |-> FALSE], [name |-> 1, disabled |-> TRUE]>>}
MCSorts == {[key |-> "configured", up |-> TRUE],
            [key |-> "bytes", up |-> TRUE], [key |-> "bytes", up |-> FALSE]}

\* Hosts: a host with three URLs, two of which differ by their user only, and a
\* host with one; counters that tie, that failed, and that are torn.
MCURLs == {[host |-> 1, label |-> 11, user |-> 1], [host |-> 1, label |-> 11, user |-> 2],
           [host |-> 1, label |-> 12, user |-> 1], [host |-> 2, label |-> 21, user |-> 1]}
MCStats == {[bytes |-> 2, dials |-> 2, failures |-> 0, average |-> 3, last |-> 1, latency |-> 5],
            [bytes |-> 1, dials |-> 3, failures |-> 2, average |-> 7, last |-> 2, latency |-> 6],
            [bytes |-> 1, dials |-> 0, failures |-> 1, average |-> 0, last |-> 2, latency |-> 0]}
MCUses == {<<1, 1, 1>>, <<2, 2, 1>>}
=============================================================================
