----------------------------- MODULE ServeCall -----------------------------
(***************************************************************************)
(* One call of Serve, any of those that run beside each other, as the code *)
(* that reports its events sees it: an implementation of Supervision.      *)
(***************************************************************************)
EXTENDS Serve

CONSTANT Call  \* the call that is looked at

ASSUME CallAssumption == Call \in Loops

\* The part of an event that Supervision speaks about.
Told(e) == [addr |-> e.addr, attempt |-> e.attempt, backoff |-> e.backoff]

Promise ==
    INSTANCE Supervision WITH
        phase <- CASE pc[Call] = "idle" -> "idle"
                   [] pc[Call] = "returned" -> "ended"
                   [] OTHER -> "busy",
        cancelled <- cancelled[Call],
        open <- sock[Call] = "open",
        event <- Told(event[Call])

\* A call of Serve keeps the promise: addresses are announced while held,
\* failures are counted since the last success, with the doubled wait, and it
\* ends, after a cancellation and only then, holding nothing (serve.go:25-70).
ImplementsSupervision == Promise!Spec
=============================================================================
