------------------------------ MODULE Overview ------------------------------
(***************************************************************************)
(* The overview page (OverviewPage.svelte): the list of rules, the switch  *)
(* of each card, which reads a rule and writes it back enabled or          *)
(* disabled, and the delete button, which asks.  Cards work independently; *)
(* other clients write rules as well, and the page may be left at any time *)
(* no write of it is under way.                                            *)
(*                                                                         *)
(* A rule is whether it is disabled and the fields no card shows.  An      *)
(* answer is "ok", "saved" (on disk, not applied), "refused" or "lost".  A *)
(* write whose answer was lost, or that the page gave up waiting for, may  *)
(* stand at the mutex of the backend (configs.go): it is applied or not,   *)
(* at any time, whatever the page has read in the meantime.                *)
(***************************************************************************)
EXTENDS Naturals, FiniteSets

CONSTANTS Names, Fields, None,
          MaxClicks    \* on switches and delete buttons: a bound

StoredRules == [disabled : BOOLEAN, fields : Fields]
Lists == [Names -> StoredRules \cup {None}]

\* What the constants are assumed to be.
OverviewAssumption == None \notin StoredRules \cup Lists /\ MaxClicks \in Nat

VARIABLES stored,    \* the rules of the backend
          shown,     \* the page's copy: None while unknown
          load,      \* the list request of the current controller
          failed,    \* the error banner is shown
          left,      \* scope is aborted
          op,        \* of each name: what its card is doing (pending)
          late,      \* the writes without an answer that may yet be applied
          clicks,    \* of the bound
          doubt,     \* names written by others, or late, or that no read settled
          since      \* the fields of a rule since its switch was clicked

vars == <<stored, shown, load, failed, left, op, late, clicks, doubt, since>>
props == <<doubt, since>>

NoLoad == [at |-> "no", got |-> None]
Asked == [at |-> "asked", got |-> None]
Idle == [at |-> "idle", want |-> FALSE, rule |-> None, answer |-> "none"]

Init ==
    /\ stored \in [Names -> StoredRules]
    /\ shown = None /\ load = Asked /\ failed = FALSE /\ left = FALSE
    /\ op = [n \in Names |-> Idle] /\ late = {} /\ clicks = 0
    /\ doubt = {} /\ since = [n \in Names |-> {}]

Busy == \E n \in Names : op[n].at \in {"putting", "deleting"}
Set(n, o) == op' = [op EXCEPT ![n] = o]
At(n, at) == Set(n, [op[n] EXCEPT !.at = at])

-----------------------------------------------------------------------------
(* The list.                                                               *)

ListReads ==
    /\ load = Asked
    /\ load' = [at |-> "read", got |-> stored]
    /\ UNCHANGED <<stored, shown, failed, left, op, late, clicks, props>>

ListArrives ==
    /\ load.at = "read"
    /\ shown' = load.got /\ load' = NoLoad
    /\ UNCHANGED <<stored, failed, left, op, late, clicks, props>>

ListFails ==
    /\ load # NoLoad
    /\ load' = NoLoad /\ failed' = TRUE
    /\ UNCHANGED <<stored, shown, left, op, late, clicks, props>>

\* load: a request under way is dropped.
Reload == load' = Asked /\ failed' = FALSE

Retry ==
    /\ failed /\ ~left /\ Reload
    /\ UNCHANGED <<stored, shown, left, op, late, clicks, props>>

\* Mutant: a list asked for before the write is believed after it.
AdoptOnly(n, rule) ==
    /\ shown' = IF shown[n] = None THEN shown ELSE [shown EXCEPT ![n] = rule]
    /\ UNCHANGED <<load, failed>>
\* adopt: what the backend stores replaces the copy, and a list still open is asked again.
Adopt(n, rule) ==
    /\ shown' = IF shown[n] = None THEN shown ELSE [shown EXCEPT ![n] = rule]
    /\ IF load = NoLoad THEN UNCHANGED <<load, failed>> ELSE Reload

AdoptUnlessLeft(n, rule) ==
    IF left THEN UNCHANGED <<shown, load, failed>> ELSE Adopt(n, rule)

-----------------------------------------------------------------------------
(* The switch.                                                             *)

Click(n) ==
    /\ ~left /\ shown # None /\ op[n] = Idle /\ \A m \in Names : op[m].at # "asking"
    /\ shown[n] # None
    /\ clicks < MaxClicks /\ clicks' = clicks + 1

Toggle(n) ==
    /\ Click(n)
    /\ Set(n, [Idle EXCEPT !.at = "reading", !.want = ~shown[n].disabled])
    /\ since' = [since EXCEPT ![n] = IF stored[n] = None THEN {} ELSE {stored[n].fields}]
    /\ UNCHANGED <<stored, shown, load, failed, left, late, doubt>>

RuleRead(n) ==
    /\ op[n].at \in {"reading", "rereading"}
    /\ Set(n, [op[n] EXCEPT !.at = IF @ = "reading" THEN "read" ELSE "reread",
                            !.rule = stored[n]])
    /\ UNCHANGED <<stored, shown, load, failed, left, late, clicks, props>>

ReadFails(n) ==
    /\ op[n].at \in {"reading", "rereading"} \/ (op[n].at \in {"read", "reread"} /\ op[n].rule = None)
    /\ Set(n, Idle)
    /\ doubt' = IF op[n].at \in {"rereading", "reread"} THEN doubt \cup {n} ELSE doubt
    /\ UNCHANGED <<stored, shown, load, failed, left, late, clicks, since>>

\* The rule as it was just read, enabled or disabled.
NextRule(n) == [op[n].rule EXCEPT !.disabled = op[n].want]

\* A read that answers after the page is left is too late to write.
Put(n) ==
    /\ op[n].at = "read" /\ op[n].rule # None
    /\ IF left THEN Set(n, Idle)
       ELSE Set(n, [op[n] EXCEPT !.at = "putting", !.rule = NextRule(n)])
    /\ UNCHANGED <<stored, shown, load, failed, left, late, clicks, props>>

\* The backend answers a request to store a rule, or None, or it does not.
Backend(n, rule) ==
    /\ op[n].answer = "none"
    /\ \/ /\ stored[n] # None
          /\ stored' = [stored EXCEPT ![n] = rule]
          /\ \E a \in {"ok", "saved"} : Set(n, [op[n] EXCEPT !.answer = a])
          /\ UNCHANGED late
       \/ Set(n, [op[n] EXCEPT !.answer = "refused"]) /\ UNCHANGED <<stored, late>>
       \/ /\ Set(n, [op[n] EXCEPT !.answer = "lost"])
          /\ late' = late \cup {[name |-> n, rule |-> rule, click |-> clicks]}
          /\ UNCHANGED stored
    /\ UNCHANGED <<shown, load, failed, left, clicks, props>>

BackendPuts(n) == op[n].at = "putting" /\ Backend(n, op[n].rule)

\* A read of the rule that is sure to come, and to be what the page then shows: of
\* the card, or of the list when the card has nothing older to put in its place.
ReadAhead(n) ==
    \/ op[n].at = "rereading" \/ (op[n].at \in {"putting", "deleting"} /\ op[n].answer = "lost")
    \/ load = Asked /\ op[n].at \notin {"putting", "reread"}

\* A write without an answer is applied, which the page sees if it has yet to read.
Lands ==
    \E w \in late :
      /\ stored[w.name] # None
      /\ stored' = [stored EXCEPT ![w.name] = w.rule] /\ late' = late \ {w}
      /\ since' = [since EXCEPT ![w.name] = IF w.rule = None THEN @ ELSE @ \cup {w.rule.fields}]
      /\ doubt' = IF ReadAhead(w.name) THEN doubt ELSE doubt \cup {w.name}
      /\ UNCHANGED <<shown, load, failed, left, op, clicks>>

PutAnswered(n) ==
    /\ op[n].at = "putting"
    /\ CASE op[n].answer \in {"ok", "saved"} -> AdoptUnlessLeft(n, op[n].rule) /\ Set(n, Idle)
         [] op[n].answer = "lost" /\ ~left ->
              /\ Set(n, [op[n] EXCEPT !.at = "rereading", !.answer = "none"])
              /\ UNCHANGED <<shown, load, failed>>
         [] OTHER -> op[n].answer # "none" /\ Set(n, Idle) /\ UNCHANGED <<shown, load, failed>>
    /\ UNCHANGED <<stored, left, late, clicks, props>>

ReRead(n) ==
    /\ op[n].at = "reread" /\ op[n].rule # None
    /\ AdoptUnlessLeft(n, op[n].rule) /\ Set(n, Idle)
    /\ UNCHANGED <<stored, left, late, clicks, props>>

-----------------------------------------------------------------------------
(* The delete button.                                                      *)

Ask(n) ==
    /\ Click(n) /\ At(n, "asking")
    /\ UNCHANGED <<stored, shown, load, failed, left, late, props>>

\* The page may have been left while the question was open.
GoesOn(ok) == ok /\ ~left

Answer(n, ok) ==
    /\ op[n].at = "asking"
    /\ IF GoesOn(ok) THEN At(n, "deleting") ELSE Set(n, Idle)
    /\ UNCHANGED <<stored, shown, load, failed, left, late, clicks, props>>

BackendDeletes(n) == op[n].at = "deleting" /\ Backend(n, None)

DeleteAnswered(n) ==
    /\ op[n].at = "deleting" /\ op[n].answer # "none"
    /\ Set(n, Idle)
    /\ IF left \/ op[n].answer = "refused" THEN UNCHANGED <<shown, load, failed>>
       ELSE /\ shown' = IF op[n].answer = "lost" THEN shown ELSE [shown EXCEPT ![n] = None]
            /\ Reload
    /\ UNCHANGED <<stored, left, late, clicks, props>>

-----------------------------------------------------------------------------
\* The user goes to another page: the router refuses while a write runs.
Leave ==
    /\ ~left /\ ~Busy
    /\ left' = TRUE /\ load' = NoLoad
    /\ UNCHANGED <<stored, shown, failed, op, late, clicks, props>>

\* Another client; once for each rule, which is a bound.
OthersWrite(n) ==
    /\ n \notin doubt
    /\ \E r \in StoredRules \cup {None} :
         /\ r # stored[n] /\ stored' = [stored EXCEPT ![n] = r]
         /\ since' = [since EXCEPT ![n] = IF r = None THEN @ ELSE @ \cup {r.fields}]
    /\ doubt' = doubt \cup {n}
    /\ UNCHANGED <<shown, load, failed, left, op, late, clicks>>

Next ==
    \/ ListReads \/ ListArrives \/ ListFails \/ Retry \/ Leave \/ Lands
    \/ \E n \in Names :
         \/ Toggle(n) \/ RuleRead(n) \/ ReadFails(n) \/ Put(n) \/ BackendPuts(n)
         \/ PutAnswered(n) \/ ReRead(n)
         \/ Ask(n) \/ (\E ok \in BOOLEAN : Answer(n, ok)) \/ BackendDeletes(n)
         \/ DeleteAnswered(n) \/ OthersWrite(n)

Spec == Init /\ [][Next]_vars

-----------------------------------------------------------------------------
(* Properties.                                                             *)

\* Every variable keeps its type.
OverviewTypeOK ==
    /\ stored \in Lists /\ shown \in Lists \cup {None}
    /\ load \in [at : {"no", "asked", "read"}, got : Lists \cup {None}]
    /\ failed \in BOOLEAN /\ left \in BOOLEAN /\ clicks \in 0..MaxClicks
    /\ late \subseteq [name : Names, rule : StoredRules \cup {None}, click : 0..MaxClicks]
    /\ doubt \subseteq Names /\ since \in [Names -> SUBSET Fields]

Quiet == load = NoLoad /\ ~failed /\ \A n \in Names : op[n] = Idle

\* Once nothing is under way, the page shows of every rule what the backend
\* stores, unless another client wrote it, a write without an answer was applied
\* after all that was to be read of it, or the read after a lost answer failed:
\* no list that was read before a write of this page outlives it.
ShowsStored ==
    Quiet /\ ~left /\ shown # None => \A n \in Names \ doubt : shown[n] = stored[n]

\* A switch writes back fields as they were at or after the click, never as
\* they were when the list was read (setEnabled re-reads the rule first).
HiddenKept ==
    \A n \in Names : op[n].at = "putting" => op[n].rule.fields \in since[n]

\* A page that was left sends no write: neither an answer that comes late nor
\* a question answered late starts one.
NothingSent ==
    left => \A n \in Names : op'[n].at \in {"putting", "deleting"} => op[n].at = op'[n].at
LeftSendsNothing == [][NothingSent]_vars
=============================================================================
