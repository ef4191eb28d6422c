----------------------------- MODULE StatsRules ------------------------------
(***************************************************************************)
(* The statistics of the rules (StatsRulesPage, statsRows.ts): rows put    *)
(* together from three answers of the server of different ages, and the    *)
(* row that ?rule= names, which is focused.                                *)
(*                                                                         *)
(* A rule is a number, in the order of the names.  The list of the rules   *)
(* is loaded once and on a retry; status and statistics come from pollers, *)
(* whose answers are taken as they were read.  Of the counters, one is     *)
(* left, and of a row its name and its place, which tells two rows of one  *)
(* name apart.  An effect runs in the step that changes what it reads.     *)
(*                                                                         *)
(* The file of the config is not validated when it is read (store.go), so  *)
(* the list may have two rules of one name; what runs is validated.  The   *)
(* rows are rendered under their names as keys: what is rendered of a list *)
(* with two of one name is left to Svelte, and the focus may stay pending. *)
(***************************************************************************)
EXTENDS Lists, FiniteSets

CONSTANTS Names, States,  \* of rules, and what the status says of one that runs
          Sorts,          \* [key, up]
          Searches,       \* names, and 0
          Configs,        \* sequences of [name, disabled], what the file may have
          MaxEdits, MaxVisits   \* bounds

\* What the constants are assumed to be.
StatsRulesAssumption ==
    /\ Names \subseteq Nat \ {0} /\ Searches \subseteq {0} \cup Names
    /\ Configs \subseteq Seq([name : Names, disabled : BOOLEAN])
    /\ Sorts \subseteq [key : {"configured", "name", "bytes"}, up : BOOLEAN]
    /\ MaxEdits \in Nat /\ MaxVisits \in Nat

VARIABLES config,         \* in the file of the server
          running,        \* what the server runs: a config, or <<>>
          edits,
          asked,          \* the load of the rules: "no", "asked", "answered"
          answer,
          known, rules,   \* whether there is a list, and the list
          runtime,        \* [name -> state] of the last status
          polled, snapshot,   \* whether there are statistics, and their entries
          query, sort,    \* the search, a name or 0, and the order
          route,          \* the rule that ?rule= names, or 0
          focusPending,   \* a name, or 0
          visits, focuses \* how often a rule was asked for, and focused

vars == <<config, running, edits, asked, answer, known, rules, runtime, polled, snapshot,
          query, sort, route, focusPending, visits, focuses>>
server == <<config, running, edits>>
loads == <<asked, answer, known, rules>>
polls == <<runtime, polled, snapshot>>
view == <<query, sort, route, visits>>

Function(entries) == [n \in {e.name : e \in ToSet(entries)} |->
                        LET first == SelectInSeq(entries, LAMBDA e : e.name = n)
                        IN  entries[first]]

-----------------------------------------------------------------------------
(* statsRows.ts                                                            *)

NameOf(e) == e.name
Named(listed) == {e.name : e \in ToSet(listed)}

Rows(names) == [i \in DOMAIN names |-> [name |-> names[i], place |-> i]]

\* Mutant: the names of the snapshot are not checked against the rules.
BuildRowsUnseen == Rows(Mapped(rules, NameOf) \o Mapped(snapshot, NameOf))
\* The rules as they are listed, then what the snapshot has and the config has not.
BuildRows == LET unseen(n) == n \notin Named(rules)
             IN  Rows(Mapped(rules, NameOf) \o Filtered(Uniques(Mapped(snapshot, NameOf)), unseen))

Configured(n) == \E i \in DOMAIN rules : rules[i].name = n
RuleOf == Function(rules)
EntryOf == Function(snapshot)
Bytes(n) == IF n \in DOMAIN EntryOf THEN EntryOf[n].bytes ELSE 0

Matches(n) == query = 0 \/ n = query
FilterRows == Filtered(BuildRows, LAMBDA row : Matches(row.name))

Below(m, n) == IF sort.key = "name" THEN m < n ELSE Bytes(m) < Bytes(n)
Before(a, b) == IF sort.up THEN Below(a.name, b.name) ELSE Below(b.name, a.name)
SortRows(rows) ==
    CASE sort.key = "configured" /\ sort.up -> rows
      [] sort.key = "configured" /\ ~sort.up -> Reverse(rows)
      [] OTHER -> StableSort(rows, Before)

Shown == SortRows(FilterRows)
\* Rows are there once the rules or the statistics are.
Ready == known \/ polled
OnPage == IF Ready THEN {n \in Named(rules) \cup Named(snapshot) : Matches(n)} ELSE {}
Distinct(c) == \A i, j \in DOMAIN c : c[i].name = c[j].name => i = j

\* The chip of a row.
Chip(n) ==
    CASE Configured(n) /\ RuleOf[n].disabled -> "disabled"
      [] ~(Configured(n) /\ RuleOf[n].disabled) /\ n \notin DOMAIN runtime -> "unknown"
      [] OTHER -> runtime[n]

\* countRuleStates: how many of the configured rules are in a state.
CardState(r) == IF r.disabled THEN "disabled"
                ELSE IF r.name \in DOMAIN runtime THEN runtime[r.name] ELSE "unknown"
CountRuleStates(state) == Cardinality({i \in DOMAIN rules : CardState(rules[i]) = state})

-----------------------------------------------------------------------------
Init ==
    /\ config \in Configs /\ running \in {c \in Configs \cup {<<>>} : Distinct(c)} /\ edits = 0
    /\ asked = "asked" /\ answer = <<>> /\ known = FALSE /\ rules = <<>>
    /\ runtime = <<>> /\ polled = FALSE /\ snapshot = <<>>
    /\ query = 0 /\ sort = [key |-> "configured", up |-> TRUE]
    /\ route \in {0} \cup Names
    /\ focusPending = route
    /\ visits = (IF route = 0 THEN 0 ELSE 1) /\ focuses = 0

\* The effect on focusPending, once a row of that name is on the page.
Focus(wanted) ==
    \/ wanted \in OnPage' /\ focusPending' = 0 /\ focuses' = focuses + 1
    \/ /\ wanted \notin OnPage' \/ ~Distinct(rules')
       /\ focusPending' = wanted /\ UNCHANGED focuses

\* The file is edited, by another page or by hand.
Edit ==
    /\ edits < MaxEdits /\ edits' = edits + 1
    /\ config' \in Configs \ {config}
    /\ UNCHANGED <<running, loads, polls, view, focusPending, focuses>>

\* The server runs the config of the file, unless it refuses it.
Reload ==
    /\ config # running /\ Distinct(config)
    /\ running' = config
    /\ UNCHANGED <<config, edits, loads, polls, view, focusPending, focuses>>

-----------------------------------------------------------------------------
(* Loads and polls.                                                        *)

Answer ==
    /\ asked = "asked"
    /\ asked' = "answered" /\ answer' = config
    /\ UNCHANGED <<server, known, rules, polls, view, focusPending, focuses>>

Loaded ==
    /\ asked = "answered"
    /\ asked' = "no" /\ known' = TRUE /\ rules' = answer /\ answer' = <<>>
    /\ UNCHANGED <<server, polls, view>>
    /\ Focus(focusPending)

LoadFails ==
    /\ asked # "no"
    /\ asked' = "failed" /\ answer' = <<>>
    /\ UNCHANGED <<server, known, rules, polls, view, focusPending, focuses>>

\* The button of the error.
Retry ==
    /\ asked = "failed"
    /\ asked' = "asked"
    /\ UNCHANGED <<server, answer, known, rules, polls, view, focusPending, focuses>>

Enabled == {running[i].name : i \in {j \in DOMAIN running : ~running[j].disabled}}

PollStatus ==
    /\ runtime' \in [Enabled -> States]
    /\ UNCHANGED <<server, loads, polled, snapshot, view, focusPending, focuses>>

\* The registry lists its rules in the order of what runs.
PollStats ==
    /\ polled' = TRUE
    /\ \E bytes \in [Enabled -> {0, 1}] :
         snapshot' = Mapped(Filtered(running, LAMBDA r : ~r.disabled),
                            LAMBDA r : [name |-> r.name, bytes |-> bytes[r.name]])
    /\ UNCHANGED <<server, loads, runtime, view>>
    /\ Focus(focusPending)

-----------------------------------------------------------------------------
(* The user.                                                               *)

\* A link, Back or Forward to another hash.
Visit ==
    /\ visits < MaxVisits
    /\ \E n \in Names :
         /\ n # route
         /\ route' = n /\ visits' = visits + 1
         /\ UNCHANGED <<server, loads, polls, query, sort>>
         /\ Focus(n)

\* Without a rule nothing is asked for, and what was asked for remains.
LeaveRule ==
    /\ route # 0 /\ route' = 0
    /\ UNCHANGED <<server, loads, polls, query, sort, visits, focusPending, focuses>>

Search ==
    /\ \E q \in Searches : q # query /\ query' = q
    /\ UNCHANGED <<server, loads, polls, sort, route, visits>>
    /\ Focus(focusPending)

SortBy ==
    /\ \E way \in Sorts : way # sort /\ sort' = way
    /\ UNCHANGED <<server, loads, polls, query, route, visits, focusPending, focuses>>

Next == \/ Edit \/ Reload \/ Answer \/ Loaded \/ LoadFails \/ Retry \/ PollStatus \/ PollStats
        \/ Visit \/ LeaveRule \/ Search \/ SortBy

Spec == Init /\ [][Next]_vars

-----------------------------------------------------------------------------
(* Properties.                                                             *)

\* Every variable keeps its type.
StatsRulesTypeOK ==
    /\ config \in Configs /\ running \in Configs \cup {<<>>} /\ Distinct(running)
    /\ answer \in Configs \cup {<<>>} /\ rules \in Configs \cup {<<>>}
    /\ asked \in {"no", "asked", "answered", "failed"}
    /\ DOMAIN runtime \subseteq Names /\ Range(runtime) \subseteq States
    /\ query \in {0} \cup Names /\ route \in {0} \cup Names
    /\ focusPending \in {0} \cup Names
    /\ visits \in Nat /\ focuses \in Nat

\* However old the three answers are, the rows are the rules of the list, each
\* its own, two of one name too, and one for each name that only the statistics
\* have; all that the search matches are shown, once each.  Where rules of one
\* name are alike, the chips of the configured rows add up to the counts of the
\* overview.  Rows that tie keep their order in either direction.
RowsAreWhole ==
    LET rows == BuildRows  shown == Shown
    IN  /\ \A i \in DOMAIN rules : i \in DOMAIN rows /\ rows[i].name = rules[i].name
        /\ \A i \in DOMAIN rows \ DOMAIN rules : rows[i].name \in Named(snapshot) \ Named(rules)
        /\ \A n \in Named(snapshot) \ Named(rules) :
             \E i \in DOMAIN rows : \A j \in DOMAIN rows : rows[j].name = n <=> j = i
        /\ ToSet(shown) = {row \in ToSet(rows) : Matches(row.name)}
        /\ \A i, j \in DOMAIN shown : shown[i] = shown[j] => i = j
        /\ Ready => {row.name : row \in ToSet(shown)} = OnPage
        /\ (\A i, j \in DOMAIN rules : rules[i].name = rules[j].name =>
                                       rules[i].disabled = rules[j].disabled) =>
             \A state \in States \cup {"disabled", "unknown"} :
               CountRuleStates(state) =
                 Cardinality({i \in DOMAIN rules : Chip(rows[i].name) = state})
        /\ sort.key = "bytes" =>
             \A i, j \in DOMAIN shown :
               (i < j /\ Bytes(shown[i].name) = Bytes(shown[j].name)) =>
                 shown[i].place < shown[j].place

\* A rule that is asked for is focused once, when its row is there: rows that
\* come and go with polls and searches never take the focus again.  It may wait
\* for good where two rules of the list have one name.
FocusIsAsked ==
    /\ focuses <= visits
    /\ focusPending # 0 => focuses < visits
    /\ focusPending \in OnPage => ~Distinct(rules)
=============================================================================
