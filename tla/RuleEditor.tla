----------------------------- MODULE RuleEditor -----------------------------
(***************************************************************************)
(* The rule editor (RuleEditorPage.svelte): loading a rule or a copy of    *)
(* one, typing, the URL builder, saving, renaming and deleting, against a  *)
(* backend that other clients write to as well.                            *)
(*                                                                         *)
(* A request is sent, handled by the backend and answered in three steps;  *)
(* an answer may be lost.  A modal dialog hides the page from the pointer, *)
(* not from the save shortcut.                                             *)
(***************************************************************************)
EXTENDS Naturals, FiniteSets

CONSTANTS Names, Ports, Chains, None,
          MaxWrites                     \* saves and deletes: a bound

\* What the constants are assumed to be.
RuleEditorAssumption ==
    /\ None \notin Names \cup Ports \cup Chains
    /\ Ports # {} /\ Chains # {} /\ MaxWrites \in Nat

VARIABLES stored,    \* the rules of the backend
          route,     \* the page shown: the overview, or an editor
          savedName, draft, baseline, ready,
          load,      \* the request for the rule of this page
          building,  \* the URL builder is open
          question,  \* the delete confirmation that is open
          save, removal,
          told,      \* the rule the backend last told this page it holds
          made,      \* the rules this page was told it created
          writes     \* of the bound

page == <<route, savedName, draft, baseline, ready, load>>
vars == <<stored, page, building, question, save, removal, told, made, writes>>

Contents == [port : Ports, chain : Chains]
Drafts == [name : Names \cup {None}, port : Ports, chain : Chains]
ContentOf(d) == [port |-> d.port, chain |-> d.chain]
RuleOf(n, c) == [name |-> n, port |-> c.port, chain |-> c.chain]

Overview == [kind |-> "overview", name |-> None]
Routes == [kind : {"rule", "copy"}, name : Names]
              \cup {Overview, [kind |-> "new", name |-> None]}

\* emptyDraft
EmptyDraft == CHOOSE d \in Drafts : d.name = None
NoLoad == [at |-> "no", rule |-> None, taken |-> {}]
NoWrite == [at |-> "no", previous |-> None, rule |-> None, outcome |-> "none", live |-> FALSE]

Init ==
    /\ stored \in [Names -> Contents \cup {None}]
    /\ route = Overview
    /\ savedName = None /\ draft = EmptyDraft /\ baseline = EmptyDraft /\ ready = FALSE
    /\ load = NoLoad
    /\ building = FALSE /\ question = [name |-> None, live |-> FALSE]
    /\ save = NoWrite /\ removal = NoWrite
    /\ told = None /\ made = {} /\ writes = 0

Dirty == ready /\ draft # baseline
Busy == save.at \in {"sent", "handled"} \/ removal.at \in {"sent", "handled"}
Asking == question.name # None
Editing == route # Overview /\ ready

\* Another page is mounted; the one it replaces is gone, with what it waited for.
Mount(r) ==
    /\ route' = r
    /\ savedName' = IF r.kind = "rule" THEN r.name ELSE None
    /\ draft' = EmptyDraft /\ baseline' = EmptyDraft
    /\ ready' = (r.kind = "new")
    /\ load' = IF r.kind \in {"rule", "copy"} THEN [NoLoad EXCEPT !.at = "asked"] ELSE NoLoad
    /\ building' = FALSE
    /\ question' = [question EXCEPT !.live = FALSE]
    /\ told' = None /\ made' = {}

-----------------------------------------------------------------------------
(* Loading.  `taken` is the answer of the list of rules, {} if it failed.  *)

\* The user goes to another page, agreeing to lose what is unsaved.
Navigate(r) ==
    /\ ~Busy /\ r # route
    /\ Mount(r)
    /\ UNCHANGED <<stored, save, removal, writes>>

BackendReads ==
    /\ load.at = "asked"
    /\ LET name == IF savedName # None THEN savedName ELSE route.name
       IN  \E taken \in {{}, {n \in Names : stored[n] # None}} :
               load' = [at |-> "read", taken |-> taken,
                        rule |-> IF stored[name] = None THEN None ELSE RuleOf(name, stored[name])]
    /\ UNCHANGED <<stored, route, savedName, draft, baseline, ready, building, question,
                   save, removal, told, made, writes>>

\* adopt
Adopt(rule) == draft' = rule /\ baseline' = rule /\ ready' = TRUE /\ told' = rule

\* adoptCopy: duplicateName never suggests a name that is taken.
AdoptCopy(rule, taken) ==
    /\ \E n \in Names \ (taken \cup {rule.name}) : draft' = [rule EXCEPT !.name = n]
    /\ baseline' = EmptyDraft /\ ready' = TRUE
    /\ UNCHANGED told

LoadArrives ==
    /\ load.at = "read" /\ load.rule # None
    /\ load' = NoLoad
    /\ IF savedName = None THEN AdoptCopy(load.rule, load.taken) ELSE Adopt(load.rule)
    /\ UNCHANGED <<stored, route, savedName, building, question, save, removal, made, writes>>

LoadFails ==
    /\ load.at = "asked" \/ (load.at = "read" /\ load.rule = None)
    /\ load' = [NoLoad EXCEPT !.at = "failed"]
    /\ UNCHANGED <<stored, route, savedName, draft, baseline, ready, building, question,
                   save, removal, told, made, writes>>

Retry ==
    /\ load.at = "failed"
    /\ load' = [NoLoad EXCEPT !.at = "asked"]
    /\ UNCHANGED <<stored, route, savedName, draft, baseline, ready, building, question,
                   save, removal, told, made, writes>>

-----------------------------------------------------------------------------
(* Typing: the fieldsets are disabled while a write runs.                  *)

Typed(d) ==
    /\ Editing /\ ~Busy /\ ~building /\ ~Asking
    /\ draft' = d
    /\ UNCHANGED <<stored, route, savedName, baseline, ready, load, building, question,
                   save, removal, told, made, writes>>

EditGeneral == \E n \in Names \cup {None} : Typed([draft EXCEPT !.name = n])
EditListen == \E p \in Ports : Typed([draft EXCEPT !.port = p])
EditExit == \E c \in Chains : Typed([draft EXCEPT !.chain = c])

\* openBuilder, of a row of the HopEditor.
OpenBuilder ==
    /\ Editing /\ ~Busy /\ ~building /\ ~Asking
    /\ building' = TRUE
    /\ UNCHANGED <<stored, page, question, save, removal, told, made, writes>>

\* The builder settles with a URL, or with null: the row takes it whatever else runs.
BuilderSettles ==
    /\ building
    /\ building' = FALSE
    /\ \E c \in Chains : draft' = [draft EXCEPT !.chain = c]
    /\ UNCHANGED <<stored, route, savedName, baseline, ready, load, question,
                   save, removal, told, made, writes>>

-----------------------------------------------------------------------------
(* Saving.                                                                 *)

\* readRule accepts a draft with a name.
Valid(d) == d.name # None

\* Mutant: the save shortcut works under the URL builder.
MaySaveWhileBuilding == ready /\ ~Busy /\ load.at = "no"
\* The early return of save.
MaySave == ready /\ ~Busy /\ load.at = "no" /\ ~building

Save ==
    /\ route # Overview /\ MaySave /\ Valid(draft)
    /\ writes < MaxWrites /\ writes' = writes + 1
    /\ save' = [NoWrite EXCEPT !.at = "sent", !.previous = savedName, !.rule = draft]
    /\ UNCHANGED <<stored, page, building, question, removal, told, made>>

\* The backend refuses a name that is taken and a rule that is gone.
Accepts(previous, name) ==
    /\ previous # None => stored[previous] # None
    /\ name # previous => stored[name] = None

\* "saved": the rule is on disk, only the reload failed.
BackendSaves ==
    /\ save.at = "sent"
    /\ LET old == save.previous  rule == save.rule
       IN  IF Accepts(old, rule.name)
           THEN /\ stored' = [n \in Names |-> IF n = rule.name THEN ContentOf(rule)
                                              ELSE IF n = old THEN None ELSE stored[n]]
                /\ \E o \in {"ok", "saved", "lost"} :
                       save' = [save EXCEPT !.at = "handled", !.outcome = o]
           ELSE /\ \E o \in {"refused", "lost"} :
                       save' = [save EXCEPT !.at = "handled", !.outcome = o]
                /\ UNCHANGED stored
    /\ UNCHANGED <<page, building, question, removal, told, made, writes>>

\* A write the page counts as done.
Persisted(outcome) == outcome \in {"ok", "saved"}

\* router.navigate replaces the page, unless another write runs.
SaveAnswered ==
    /\ save.at = "handled" /\ save' = NoWrite
    /\ LET rule == save.rule
           target == [kind |-> "rule", name |-> rule.name]
           leaves == route # target /\ removal.at = "no"
       IN  CASE ~Persisted(save.outcome) ->
                  /\ made' = IF save.outcome = "saved" /\ save.previous = None
                             THEN made \cup {rule.name} ELSE made
                  /\ UNCHANGED <<page, building, question, told>>
             [] Persisted(save.outcome) /\ leaves -> Mount(target)
             [] Persisted(save.outcome) /\ ~leaves ->
                  /\ baseline' = draft /\ savedName' = rule.name /\ told' = rule
                  /\ made' = IF save.previous = None THEN made \cup {rule.name} ELSE made
                  /\ UNCHANGED <<route, draft, ready, load, building, question>>
    /\ UNCHANGED <<stored, removal, writes>>

-----------------------------------------------------------------------------
(* Deleting.                                                               *)

AskRemove ==
    /\ Editing /\ savedName # None /\ ~Busy /\ ~building /\ ~Asking
    /\ question' = [name |-> savedName, live |-> TRUE]
    /\ UNCHANGED <<stored, page, building, save, removal, told, made, writes>>

\* The page that asked may be gone by now, and a save may be under way.
Decline ==
    /\ Asking
    /\ question' = [name |-> None, live |-> FALSE]
    /\ UNCHANGED <<stored, page, building, save, removal, told, made, writes>>

Confirm ==
    /\ Asking /\ writes < MaxWrites /\ writes' = writes + 1
    /\ question' = [name |-> None, live |-> FALSE]
    /\ removal' = [NoWrite EXCEPT !.at = "sent", !.previous = question.name,
                                  !.live = question.live]
    /\ UNCHANGED <<stored, page, building, save, told, made>>

BackendRemoves ==
    /\ removal.at = "sent"
    /\ IF stored[removal.previous] # None
       THEN /\ stored' = [stored EXCEPT ![removal.previous] = None]
            /\ \E o \in {"ok", "saved", "lost"} :
                   removal' = [removal EXCEPT !.at = "handled", !.outcome = o]
       ELSE /\ \E o \in {"refused", "lost"} :
                   removal' = [removal EXCEPT !.at = "handled", !.outcome = o]
            /\ UNCHANGED stored
    /\ UNCHANGED <<page, building, question, save, told, made, writes>>

\* A page that is gone marks nothing clean, but leads home all the same.
RemoveAnswered ==
    /\ removal.at = "handled" /\ removal' = NoWrite
    /\ IF ~Persisted(removal.outcome)
       THEN UNCHANGED <<page, building, question, told, made>>
       ELSE \/ save.at = "no" /\ route # Overview /\ Mount(Overview)
            \/ /\ save.at # "no" \/ route = Overview \/ (Dirty /\ ~removal.live)
               /\ IF removal.live THEN baseline' = draft /\ told' = None
                  ELSE UNCHANGED <<baseline, told>>
               /\ UNCHANGED <<route, savedName, draft, ready, load, building, question, made>>
    /\ UNCHANGED <<stored, save, writes>>

\* Another client, or the user's editor of the file, writes the configuration.
OthersWrite ==
    /\ \E n \in Names, c \in Contents \cup {None} : stored' = [stored EXCEPT ![n] = c]
    /\ UNCHANGED <<page, building, question, save, removal, told, made, writes>>

Next ==
    \/ \E r \in Routes : Navigate(r)
    \/ BackendReads \/ LoadArrives \/ LoadFails \/ Retry
    \/ EditGeneral \/ EditListen \/ EditExit \/ OpenBuilder \/ BuilderSettles
    \/ Save \/ BackendSaves \/ SaveAnswered
    \/ AskRemove \/ Decline \/ Confirm \/ BackendRemoves \/ RemoveAnswered
    \/ OthersWrite

Spec == Init /\ [][Next]_vars

-----------------------------------------------------------------------------
(* Properties.                                                             *)

\* Every variable keeps its type.
RuleEditorTypeOK ==
    /\ stored \in [Names -> Contents \cup {None}] /\ route \in Routes
    /\ savedName \in Names \cup {None} /\ draft \in Drafts /\ baseline \in Drafts
    /\ ready \in BOOLEAN /\ building \in BOOLEAN /\ writes \in 0..MaxWrites
    /\ made \subseteq Names /\ told \in Drafts \cup {None}

\* A page that shows no unsaved changes shows what the backend last told it
\* the rule is: nothing typed or built during a save is taken for saved, so
\* leaving without a question loses nothing (markClean, the disabled fieldsets
\* and the `building` guard).
CleanIsStored ==
    Editing /\ savedName # None /\ ~Dirty /\ told # None => draft = told

\* A page that was told its rule exists, applied or not, never asks to create
\* another: its next save is an update of that rule (savedName).
SecondIsPut == made # {} /\ save.at # "no" => save.previous # None

\* Deleting from the editor returns to the overview: once nothing is under
\* way, no page shows a rule the backend told it is deleted.
DeletedIsLeft ==
    Editing /\ savedName # None /\ save.at = "no" /\ removal.at = "no" /\ ~Asking
        => told # None
=============================================================================
