---------------------------- MODULE Supervision ----------------------------
(***************************************************************************)
(* What one call of Serve promises to the code that reports its events:    *)
(* an address is announced only while a listener is held; a failure is     *)
(* reported only when none is, numbered from 1 since the last announcement *)
(* and with a wait that doubles from one to the next; it ends only when    *)
(* cancelled, holding nothing.                                             *)
(***************************************************************************)
EXTENDS Integers

CONSTANTS Initial, Maximum

VARIABLES phase,      \* "idle", "busy" or "ended"
          cancelled,  \* the context is done
          open,       \* a listener is held
          event       \* the last event reported

supervisionVars == <<phase, cancelled, open, event>>

\* The wait after the next failure: Initial when it is the first of an outage,
\* and else twice the one before, up to Maximum.
Delay ==
    IF event.attempt = 0 THEN Initial
    ELSE IF 2 * event.backoff <= Maximum THEN 2 * event.backoff ELSE Maximum

Init ==
    /\ phase = "idle"
    /\ cancelled = FALSE
    /\ open = FALSE
    /\ event = [addr |-> FALSE, attempt |-> 0, backoff |-> 0]

Begin == phase = "idle" /\ phase' = "busy" /\ UNCHANGED <<cancelled, open, event>>

Cancel ==
    /\ phase # "idle"
    /\ ~cancelled
    /\ cancelled' = TRUE
    /\ UNCHANGED <<phase, open, event>>

Acquire == phase = "busy" /\ ~open /\ open' = TRUE /\ UNCHANGED <<phase, cancelled, event>>

Release == phase = "busy" /\ open /\ open' = FALSE /\ UNCHANGED <<phase, cancelled, event>>

AnnounceAddress ==
    /\ phase = "busy"
    /\ open
    /\ event' = [addr |-> TRUE, attempt |-> 0, backoff |-> 0]
    /\ UNCHANGED <<phase, cancelled, open>>

ReportFailure ==
    /\ phase = "busy"
    /\ ~open
    /\ event' = [addr |-> FALSE, attempt |-> event.attempt + 1,
                 backoff |-> Delay]
    /\ UNCHANGED <<phase, cancelled, open>>

End ==
    /\ phase = "busy"
    /\ cancelled
    /\ ~open
    /\ phase' = "ended"
    /\ UNCHANGED <<cancelled, open, event>>

Next == Begin \/ Cancel \/ Acquire \/ Release \/ AnnounceAddress \/ ReportFailure \/ End

\* What a call never does, and with it that a call that was cancelled ends.
Safety == Init /\ [][Next]_supervisionVars
Spec == Safety /\ WF_supervisionVars(End)
=============================================================================
