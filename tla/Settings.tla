------------------------------ MODULE Settings ------------------------------
(***************************************************************************)
(* The settings page (SettingsPage.svelte): two resources, the address of  *)
(* the web UI and the list of hosts that bypass the proxy, each with a     *)
(* form and a draft of its own, one load for both, and one save shortcut.  *)
(*                                                                         *)
(* What is typed is a value and whether it is tidy: a save trims it, and a *)
(* snapshot does not see the difference.  Other clients write as well.     *)
(***************************************************************************)
EXTENDS Naturals, FiniteSets

CONSTANTS Values,      \* of either resource
          Unusable,    \* the values parsePort refuses
          None,
          MaxSaves     \* a bound

\* What the constants are assumed to be.
SettingsAssumption ==
    /\ Unusable \subseteq Values /\ Values \ Unusable # {} /\ None \notin Values
    /\ MaxSaves \in Nat

VARIABLES disk,        \* the two resources of the backend
          draft, baseline, ready,
          load,        \* the two requests of load
          put,         \* the save that runs: busy admits one at a time
          portInvalid, focus,
          told,        \* what the backend last told this page of each
          saves        \* of the bound

vars == <<disk, draft, baseline, ready, load, put, portInvalid, focus, told, saves>>

Forms == {"address", "bypass"}
Drafts == [value : Values, tidy : BOOLEAN]
Usable(form) == IF form = "address" THEN Values \ Unusable ELSE Values

NoLoad == [at |-> "no", got |-> [f \in Forms |-> None]]
NoPut == [form |-> "none", body |-> None, answer |-> "none"]

Init ==
    /\ disk \in [Forms -> Values \ Unusable]
    /\ draft = [f \in Forms |-> [value |-> CHOOSE v \in Values : TRUE, tidy |-> TRUE]]
    /\ baseline = [f \in Forms |-> None] /\ ready = FALSE
    /\ load = [NoLoad EXCEPT !.at = "asked"]
    /\ put = NoPut /\ portInvalid = FALSE /\ focus = "none"
    /\ told = [f \in Forms |-> None] /\ saves = 0

\* addressSnapshot and bypassSnapshot: blanks around the text do not count.
Snapshot(form) == draft[form].value
Dirty(form) == ready /\ Snapshot(form) # baseline[form]
Busy == put # NoPut

-----------------------------------------------------------------------------
(* The load asks for both resources; either failure fails it.              *)

LoadReads(f) ==
    /\ load.at = "asked" /\ load.got[f] = None
    /\ load' = [load EXCEPT !.got[f] = disk[f]]
    /\ UNCHANGED <<disk, draft, baseline, ready, put, portInvalid, focus, told, saves>>

\* adopt
LoadArrives ==
    /\ load.at = "asked" /\ \A f \in Forms : load.got[f] # None
    /\ draft' = [f \in Forms |-> [value |-> load.got[f], tidy |-> TRUE]]
    /\ baseline' = load.got /\ told' = load.got /\ ready' = TRUE
    /\ load' = NoLoad
    /\ UNCHANGED <<disk, put, portInvalid, focus, saves>>

LoadFails ==
    /\ load.at = "asked"
    /\ load' = [NoLoad EXCEPT !.at = "failed"]
    /\ UNCHANGED <<disk, draft, baseline, ready, put, portInvalid, focus, told, saves>>

Retry ==
    /\ load.at = "failed"
    /\ load' = [NoLoad EXCEPT !.at = "asked"]
    /\ UNCHANGED <<disk, draft, baseline, ready, put, portInvalid, focus, told, saves>>

-----------------------------------------------------------------------------
(* Typing, in a form that is not disabled; the focus follows.              *)

Type(f, d) ==
    /\ ready /\ ~Busy
    /\ draft' = [draft EXCEPT ![f] = d] /\ focus' = f
    /\ portInvalid' = (portInvalid /\ f # "address")
    /\ UNCHANGED <<disk, baseline, ready, load, put, told, saves>>

TypeAddress == \E d \in Drafts : Type("address", d)
TypeBypass == \E d \in Drafts : Type("bypass", d)

Blur ==
    /\ focus # "none" /\ focus' = "none"
    /\ UNCHANGED <<disk, draft, baseline, ready, load, put, portInvalid, told, saves>>

-----------------------------------------------------------------------------
(* Saving.                                                                 *)

MaySave == ready /\ ~Busy /\ load.at = "no"

\* saveAddress and saveBypass, up to the request; a port that does not parse stays here.
Save(f) ==
    /\ MaySave
    /\ saves < MaxSaves /\ saves' = saves + 1
    /\ IF draft[f].value \in Usable(f)
       THEN put' = [form |-> f, body |-> draft[f].value, answer |-> "none"] /\ UNCHANGED portInvalid
       ELSE portInvalid' = TRUE /\ UNCHANGED put
    /\ UNCHANGED <<disk, draft, baseline, ready, load, focus, told>>

Submit == \E f \in Forms : Save(f)

\* The form a shortcut saves: the one in focus, else the only dirty one.
Target ==
    IF focus # "none" THEN {focus}
    ELSE IF Dirty("address") # Dirty("bypass") THEN {f \in Forms : Dirty(f)} ELSE {}

SaveFocused == \E f \in Target : Save(f)

BackendPuts ==
    /\ Busy /\ put.answer = "none"
    /\ \/ /\ disk' = [disk EXCEPT ![put.form] = put.body]
          /\ \E a \in {"ok", "saved", "lost"} : put' = [put EXCEPT !.answer = a]
       \/ /\ \E a \in {"refused", "lost"} : put' = [put EXCEPT !.answer = a]
          /\ UNCHANGED disk
    /\ UNCHANGED <<draft, baseline, ready, load, portInvalid, focus, told, saves>>

\* Mutant: a save marks the whole page clean.
MarkBoth(form) == baseline' = [f \in Forms |-> Snapshot(f)]
\* The baseline of the form that was saved.
MarkClean(form) == baseline' = [baseline EXCEPT ![form] = Snapshot(form)]

Answered ==
    /\ put.answer # "none" /\ put' = NoPut
    /\ IF put.answer \in {"ok", "saved"}
       THEN MarkClean(put.form) /\ told' = [told EXCEPT ![put.form] = put.body]
       ELSE UNCHANGED <<baseline, told>>
    /\ UNCHANGED <<disk, draft, ready, load, portInvalid, focus, saves>>

OthersWrite ==
    /\ \E f \in Forms, v \in Values \ Unusable : disk' = [disk EXCEPT ![f] = v]
    /\ UNCHANGED <<draft, baseline, ready, load, put, portInvalid, focus, told, saves>>

Next ==
    \/ (\E f \in Forms : LoadReads(f)) \/ LoadArrives \/ LoadFails \/ Retry
    \/ TypeAddress \/ TypeBypass \/ Blur
    \/ Submit \/ SaveFocused \/ BackendPuts \/ Answered \/ OthersWrite

Spec == Init /\ [][Next]_vars

-----------------------------------------------------------------------------
(* Properties.                                                             *)

\* Every variable keeps its type.
SettingsTypeOK ==
    /\ disk \in [Forms -> Values] /\ draft \in [Forms -> Drafts]
    /\ baseline \in [Forms -> Values \cup {None}] /\ told \in [Forms -> Values \cup {None}]
    /\ ready \in BOOLEAN /\ portInvalid \in BOOLEAN /\ focus \in Forms \cup {"none"}
    /\ saves \in 0..MaxSaves

\* A form that shows no unsaved changes shows what the backend last told of its
\* own resource: the save of one form, whatever its answer, never takes what is
\* typed in the other for saved, nor an unanswered write for done.
CleanFormIsTold ==
    ready => \A f \in Forms : Dirty(f) \/ draft[f].value = told[f]
=============================================================================
