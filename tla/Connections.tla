----------------------------- MODULE Connections -----------------------------
(***************************************************************************)
(* The connections page (ConnectionsPage): live connections of the program *)
(* listed from its snapshots, which the user filters, expands and closes.  *)
(*                                                                         *)
(* The page knows a connection by the id the program gave it.  What it     *)
(* stands for, uid and boot, is for the properties alone.  The poller is   *)
(* reduced to one load at a time and refreshes that wait for it (Poller    *)
(* has the whole of it); the search text, which filters like the rule      *)
(* does, and the other sort keys are left out.                             *)
(***************************************************************************)
EXTENDS Integers, FiniteSets

CONSTANTS Rules,            \* of the program; 0 stands for all of them
          Choices,          \* those the user selects
          PageSize,         \* CONNECTION_PAGE_SIZE
          MaxConnections, MaxRestarts   \* bounds

\* What the constants are assumed to be.
ConnectionsAssumption == PageSize \in Nat

VARIABLES live,        \* connections of the program
          accepted,    \* how many there have been, over all boots
          nextId,      \* nextID of this boot
          boot,        \* restarts so far
          data,        \* the snapshot of the page
          load,        \* "idle", "asked" or "read", the load under way
          answer,      \* the snapshot it brings
          calls,       \* disconnects under way: [row, at]
          resetting,   \* busy: a reset of the statistics is under way
          rule, routeRule,   \* the selection, and ?rule= of the route
          refused,     \* whether the router refused the last choice
          limit,
          opened,      \* the rows that are expanded, as they were then
          closed,      \* <<row clicked, connection closed>>
          gone         \* connections the page was told are closed

vars == <<live, accepted, nextId, boot, data, load, answer, calls, resetting, rule,
          routeRule, refused, limit, opened, closed, gone>>
program == <<live, accepted, nextId, boot, closed>>
loads == <<data, load, answer>>
view == <<rule, routeRule, refused, limit, opened>>

Connection == [id : Nat, rule : Rules, uid : Nat, boot : Nat]

Init ==
    /\ live = {} /\ accepted = 0 /\ nextId = 1 /\ boot = 0
    /\ data = {} /\ load = "idle" /\ answer = {} /\ calls = {} /\ resetting = FALSE
    /\ rule \in Choices /\ routeRule = rule /\ refused = FALSE
    /\ limit = PageSize /\ opened = {}
    /\ closed = {} /\ gone = {}

-----------------------------------------------------------------------------
(* The program.                                                            *)

\* Mutant: the id of a closed connection is given again.
LowestFreeId == CHOOSE n \in 1..nextId : /\ \A c \in live : c.id # n
                                         /\ \A m \in 1..n - 1 : \E c \in live : c.id = m
\* registry.nextID.Add(1).
NextId == nextId

Accept ==
    /\ accepted < MaxConnections
    /\ accepted' = accepted + 1 /\ nextId' = nextId + 1
    /\ \E r \in Rules :
         live' = live \cup {[id |-> NextId, rule |-> r, uid |-> accepted + 1, boot |-> boot]}
    /\ UNCHANGED <<boot, closed, loads, calls, resetting, view, gone>>

\* The client or the target ends it.
EndsItself ==
    /\ \E c \in live : live' = live \ {c}
    /\ UNCHANGED <<accepted, nextId, boot, closed, loads, calls, resetting, view, gone>>

\* A load or a call that is under way may still reach the next process.
Restart ==
    /\ boot < MaxRestarts
    /\ boot' = boot + 1 /\ nextId' = 1 /\ live' = {}
    /\ UNCHANGED <<accepted, closed, loads, calls, resetting, view, gone>>

-----------------------------------------------------------------------------
(* Loads.                                                                  *)

Poll ==
    /\ load = "idle" /\ ~resetting
    /\ load' = "asked"
    /\ UNCHANGED <<program, data, answer, calls, resetting, view, gone>>

Read ==
    /\ load = "asked"
    /\ load' = "read" /\ answer' = live
    /\ UNCHANGED <<program, data, calls, resetting, view, gone>>

\* The disconnects whose refresh this was are over.
Refreshed == {c \in calls : c.at = "reads"}

Deliver ==
    /\ load = "read"
    /\ load' = "idle" /\ data' = answer /\ answer' = {}
    /\ calls' = calls \ Refreshed
    /\ gone' = gone \cup {c.row : c \in {d \in Refreshed : d.ok}}
    /\ UNCHANGED <<program, resetting, view>>

LoadFails ==
    /\ load # "idle"
    /\ load' = "idle" /\ answer' = {}
    /\ calls' = calls \ Refreshed
    /\ UNCHANGED <<program, data, resetting, view, gone>>

-----------------------------------------------------------------------------
(* disconnect.                                                             *)

Filtered == {c \in data : rule = 0 \/ c.rule = rule}
Shown == {c \in Filtered : Cardinality({d \in Filtered : d.id > c.id}) < limit}
Pending == {c.row.id : c \in calls}

Disconnect ==
    /\ \E row \in Shown :
         /\ row.id \notin Pending
         /\ calls' = calls \cup {[row |-> row, at |-> "asked", ok |-> FALSE]}
    /\ UNCHANGED <<program, loads, resetting, view, gone>>

Proceeds(c, at, ok) == calls' = (calls \ {c}) \cup {[c EXCEPT !.at = at, !.ok = ok]}

\* Registry.Disconnect: the connection with this id, if there is one.
Serve ==
    /\ \E c \in calls :
         LET found == {d \in live : d.id = c.row.id}
         IN  /\ c.at = "asked"
             /\ live' = live \ found
             /\ closed' = closed \cup {<<c.row, d>> : d \in found}
             /\ \E heard \in BOOLEAN : Proceeds(c, "answered", heard /\ found # {})
    /\ UNCHANGED <<accepted, nextId, boot, loads, resetting, view, gone>>

CallFails ==
    /\ \E c \in calls : c.at = "asked" /\ Proceeds(c, "answered", FALSE)
    /\ UNCHANGED <<program, loads, resetting, view, gone>>

\* stats.refresh: a load that is under way is waited for, then one begins.
Refresh ==
    /\ load = "idle" /\ ~resetting
    /\ \E c \in calls : c.at = "answered" /\ Proceeds(c, "reads", c.ok)
    /\ load' = "asked"
    /\ UNCHANGED <<program, data, answer, resetting, view, gone>>

RefreshSkipped ==
    /\ resetting
    /\ \E c \in calls : c.at = "answered" /\ calls' = calls \ {c}
    /\ UNCHANGED <<program, loads, resetting, view, gone>>

\* resetStats; its own refresh is one of the polls.
Reset ==
    /\ resetting' = ~resetting
    /\ UNCHANGED <<program, loads, calls, view, gone>>

-----------------------------------------------------------------------------
(* The list and its controls.                                              *)

\* Another rule is another list, which starts at its first page.
Choose(value) == /\ rule' = value
                 /\ limit' = IF value = rule THEN limit ELSE PageSize

\* selectRule: a busy router refuses another route.
SelectRule ==
    /\ \E value \in Choices :
         /\ value # rule
         /\ Choose(value)
         /\ routeRule' = IF resetting THEN routeRule ELSE value
         /\ refused' = (resetting /\ value # routeRule)
    /\ UNCHANGED <<program, loads, calls, resetting, opened, gone>>

\* Back, Forward or a link; the page stays mounted and ?rule= sets the selection.
Follow ==
    /\ ~resetting
    /\ \E value \in Choices :
         /\ value # routeRule
         /\ Choose(value) /\ routeRule' = value /\ refused' = FALSE
    /\ UNCHANGED <<program, loads, calls, resetting, opened, gone>>

Expanded == {o.id : o \in opened}

ToggleRow ==
    /\ \E row \in Shown :
         opened' = IF row.id \in Expanded THEN {o \in opened : o.id # row.id}
                   ELSE opened \cup {row}
    /\ UNCHANGED <<program, loads, calls, resetting, rule, routeRule, refused, limit, gone>>

ShowMore ==
    /\ Shown # Filtered
    /\ limit' = limit + PageSize
    /\ UNCHANGED <<program, loads, calls, resetting, rule, routeRule, refused, opened, gone>>

Next == \/ Accept \/ EndsItself \/ Restart \/ Poll \/ Read \/ Deliver \/ LoadFails
        \/ Disconnect \/ Serve \/ CallFails \/ Refresh \/ RefreshSkipped \/ Reset
        \/ SelectRule \/ Follow \/ ToggleRow \/ ShowMore

Spec == Init /\ [][Next]_vars

-----------------------------------------------------------------------------
(* Properties.                                                             *)

\* Every variable keeps its type.
ConnectionsTypeOK ==
    /\ live \subseteq Connection /\ data \subseteq Connection /\ answer \subseteq Connection
    /\ load \in {"idle", "asked", "read"}
    /\ calls \subseteq [row : Connection, at : {"asked", "answered", "reads"}, ok : BOOLEAN]
    /\ rule \in Choices /\ routeRule \in Choices
    /\ limit \in Nat /\ opened \subseteq Connection

\* Unless the program restarts in between, a click closes the connection whose
\* row was clicked and no other, whatever is polled, opened and closed meanwhile,
\* and an expanded row is still that of the connection that was expanded.
OneConnection ==
    /\ \A pair \in closed : pair[1].boot = pair[2].boot => pair[1] = pair[2]
    /\ \A row \in Shown, o \in opened :
         (row.id = o.id /\ row.boot = o.boot) => row = o

\* A row whose disconnect succeeded and whose refresh arrived never comes back.
ClosedIsGone == data \cap gone = {}

\* The list is that of ?rule=, unless the router refused the last choice.
SelectionIsRoute == rule = routeRule \/ refused

RowsKeepIdentity == OneConnection /\ ClosedIsGone /\ SelectionIsRoute
=============================================================================
