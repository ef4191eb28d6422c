------------------------------- MODULE Dialog -------------------------------
(***************************************************************************)
(* The confirmation dialog of the web UI (confirm.ts, ConfirmDialog.svelte *)
(* and dialog.ts) and its questions.                                       *)
(*                                                                         *)
(* The browser closes a dialog at once and delivers the close event in a   *)
(* later task.  A tick is a microtask: it comes before any task.           *)
(***************************************************************************)
EXTENDS Naturals, FiniteSets

CONSTANTS Questions, None

\* What the constants are assumed to be.
DialogAssumption == None \notin Questions

VARIABLES host,        \* the component is mounted
          pending,     \* the question whose promise is open
          ticks,       \* the questions whose tick has not run
          open,        \* the dialog element is open
          closing,     \* the close events that are not delivered
          answer,      \* of each question: "unasked", "open", "yes", "no"
          user         \* what the user did about it, for the properties

vars == <<host, pending, ticks, open, closing, answer, user>>

Init ==
    /\ host = FALSE /\ pending = None /\ ticks = {}
    /\ open = FALSE /\ closing = 0
    /\ answer = [q \in Questions |-> "unasked"]
    /\ user = [q \in Questions |-> "nothing"]

Mount ==
    /\ ~host /\ closing = 0 /\ host' = TRUE
    /\ UNCHANGED <<pending, ticks, open, closing, answer, user>>

\* closeModal
CloseModal ==
    /\ open' = FALSE
    /\ closing' = IF open THEN closing + 1 ELSE closing

\* settle: at most once for each question.
Settle(value) ==
    /\ pending' = None
    /\ CloseModal
    /\ answer' = IF pending = None THEN answer ELSE [answer EXCEPT ![pending] = value]

-----------------------------------------------------------------------------
\* confirm, before the component is there: window.confirm blocks.
AskNative(q) ==
    /\ ~host /\ answer[q] = "unasked"
    /\ \E a \in {"yes", "no"} : /\ answer' = [answer EXCEPT ![q] = a]
                                /\ user' = [user EXCEPT ![q] = a]
    /\ UNCHANGED <<host, pending, ticks, open, closing>>

\* confirm: a second question is declined at once.
Ask(q) ==
    /\ host /\ answer[q] = "unasked"
    /\ IF pending # None
       THEN /\ answer' = [answer EXCEPT ![q] = "no"]
            /\ user' = [user EXCEPT ![q] = "busy"]
            /\ UNCHANGED <<pending, ticks>>
       ELSE /\ pending' = q /\ ticks' = ticks \cup {q}
            /\ answer' = [answer EXCEPT ![q] = "open"]
            /\ UNCHANGED user
    /\ UNCHANGED <<host, open, closing>>

\* openModal, if the question is still the one.
Tick(q) ==
    /\ q \in ticks /\ ticks' = ticks \ {q}
    /\ open' = (open \/ (host /\ pending = q))
    /\ UNCHANGED <<host, pending, closing, answer, user>>

\* Tasks wait for the ticks.
Click(a) ==
    /\ ticks = {} /\ open /\ pending # None
    /\ user' = [user EXCEPT ![pending] = a]
    /\ Settle(a)
    /\ UNCHANGED <<host, ticks>>

Escape ==
    /\ ticks = {} /\ open /\ CloseModal
    /\ user' = IF pending = None THEN user ELSE [user EXCEPT ![pending] = "no"]
    /\ UNCHANGED <<host, pending, ticks, answer>>

\* Mutants: the event is taken for an answer to whatever is pending, or for none.
ClosesWhatever == pending # None
ClosesNothing == FALSE
\* A question that reopened the dialog makes the event of the last one stale.
Closes == pending # None /\ ~open

OnClose ==
    /\ ticks = {} /\ closing > 0
    /\ IF Closes
       THEN /\ pending' = None /\ closing' = closing - 1
            /\ answer' = [answer EXCEPT ![pending] = "no"] /\ open' = FALSE
       ELSE closing' = closing - 1 /\ UNCHANGED <<pending, answer, open>>
    /\ UNCHANGED <<host, ticks, user>>

\* The dialog goes with its component, and with its events.
Unmount ==
    /\ host /\ host' = FALSE
    /\ pending' = None /\ open' = FALSE /\ closing' = 0
    /\ answer' = IF pending = None THEN answer ELSE [answer EXCEPT ![pending] = "no"]
    /\ user' = IF pending = None \/ user[pending] # "nothing" THEN user
               ELSE [user EXCEPT ![pending] = "gone"]
    /\ UNCHANGED ticks

Next ==
    \/ Mount \/ Unmount \/ Escape \/ OnClose
    \/ \E q \in Questions : AskNative(q) \/ Ask(q) \/ Tick(q)
    \/ \E a \in {"yes", "no"} : Click(a)

Spec == Init /\ [][Next]_vars

-----------------------------------------------------------------------------
(* Properties.                                                             *)

\* Every variable keeps its type.
DialogTypeOK ==
    /\ host \in BOOLEAN /\ open \in BOOLEAN /\ pending \in Questions \cup {None}
    /\ ticks \subseteq Questions /\ closing \in Nat
    /\ answer \in [Questions -> {"unasked", "open", "yes", "no"}]
    /\ user \in [Questions -> {"nothing", "yes", "no", "busy", "gone"}]

\* Every answer is the user's: a question is declined only when the user
\* declined that question, another one was open, or the dialog is gone, and
\* never by the close event of an earlier question.
AnswerIsUsers ==
    \A q \in Questions :
        /\ answer[q] = "yes" => user[q] = "yes"
        /\ answer[q] = "no" => user[q] \in {"no", "busy", "gone"}
        /\ answer[q] = "open" <=> q = pending

\* No question is left pending behind a closed dialog, where nobody could answer
\* it and it would decline every later one: when the ticks and the close events
\* are handled, it is in sight.
NoneIsHidden == ticks = {} /\ closing = 0 /\ pending # None => open
=============================================================================
