------------------------------ MODULE Request -------------------------------
(***************************************************************************)
(* The requests of the web UI (request of api.ts): an answer, the limit of *)
(* time, the abort of the caller and a broken connection race for the      *)
(* verdict, and the backend may apply a write whatever the verdict is.     *)
(*                                                                         *)
(* fetch rejects a task after its signal is aborted, so both reasons may   *)
(* have come by then.                                                      *)
(***************************************************************************)
EXTENDS Naturals

CONSTANT Requests

VARIABLES at,          \* where each request is
          timer,       \* of the limit: "off", "armed", "fired"
          listening,   \* to the abort of the caller
          aborted,     \* the caller aborted
          backend,     \* what it did: "none", "pending", "applied", "refused"
          answer,      \* on its way or here: "none", "ok", "saved", "http", "garbled"
          verdict

vars == <<at, timer, listening, aborted, backend, answer, verdict>>

Kinds == {"ok", "saved", "http", "invalid", "network", "timeout", "aborted"}

Init ==
    /\ at = [r \in Requests |-> "new"]
    /\ timer = [r \in Requests |-> "off"] /\ listening = [r \in Requests |-> FALSE]
    /\ aborted \in [Requests -> BOOLEAN]
    /\ backend = [r \in Requests |-> "none"] /\ answer = [r \in Requests |-> "none"]
    /\ verdict = [r \in Requests |-> "none"]

\* The signal of fetch.
Signalled(r) == timer[r] = "fired" \/ (listening[r] /\ aborted[r])

\* The verdict, and the finally block.
Settle(r, kind) ==
    /\ at' = [at EXCEPT ![r] = "done"] /\ verdict' = [verdict EXCEPT ![r] = kind]
    /\ listening' = [listening EXCEPT ![r] = FALSE]
    /\ timer' = [timer EXCEPT ![r] = IF @ = "armed" THEN "off" ELSE @]

\* A caller that aborted before sends nothing.
Send(r) ==
    /\ at[r] = "new"
    /\ IF aborted[r]
       THEN Settle(r, "aborted") /\ UNCHANGED backend
       ELSE /\ at' = [at EXCEPT ![r] = "sent"] /\ timer' = [timer EXCEPT ![r] = "armed"]
            /\ listening' = [listening EXCEPT ![r] = TRUE] /\ UNCHANGED verdict
            /\ backend' = [backend EXCEPT ![r] = "pending"]
    /\ UNCHANGED <<aborted, answer>>

\* setTimeout: sets timedOut and aborts.
TimeOut(r) ==
    /\ timer[r] = "armed" /\ timer' = [timer EXCEPT ![r] = "fired"]
    /\ UNCHANGED <<at, listening, aborted, backend, answer, verdict>>

\* forwardAbort
Abort(r) ==
    /\ at[r] # "done" /\ ~aborted[r] /\ aborted' = [aborted EXCEPT ![r] = TRUE]
    /\ UNCHANGED <<at, timer, listening, backend, answer, verdict>>

\* The backend has the request, perhaps after the page gave it up; what it says
\* may be unreadable.
Handle(r) ==
    /\ backend[r] = "pending"
    /\ \E did \in {"applied", "refused"} :
         /\ backend' = [backend EXCEPT ![r] = did]
         /\ \E said \in IF did = "applied" THEN {"ok", "saved", "garbled"} ELSE {"http"} :
                answer' = [answer EXCEPT ![r] = said]
    /\ UNCHANGED <<at, timer, listening, aborted, verdict>>

\* The connection breaks, before or after the backend had the request.
Break(r) ==
    /\ at[r] = "sent" /\ at' = [at EXCEPT ![r] = "broken"]
    /\ UNCHANGED <<timer, listening, aborted, backend, answer, verdict>>

\* response.text() is here before an abort has made fetch reject.
Arrive(r) ==
    /\ at[r] = "sent" /\ answer[r] # "none"
    /\ Settle(r, IF answer[r] = "garbled" THEN "invalid" ELSE answer[r])
    /\ UNCHANGED <<aborted, backend, answer>>

\* Mutant: an abort of the caller is a broken connection.
ReasonUnsignalled(r) == IF timer[r] = "fired" THEN "timeout" ELSE "network"
\* The reason a rejected fetch is given.
Reason(r) == IF ~Signalled(r) THEN "network"
             ELSE IF timer[r] = "fired" THEN "timeout" ELSE "aborted"

Reject(r) ==
    /\ at[r] = "broken" \/ (at[r] = "sent" /\ Signalled(r))
    /\ Settle(r, Reason(r))
    /\ UNCHANGED <<aborted, backend, answer>>

Next == \E r \in Requests :
    \/ Send(r) \/ TimeOut(r) \/ Abort(r) \/ Handle(r) \/ Break(r) \/ Arrive(r) \/ Reject(r)

Spec == Init /\ [][Next]_vars

-----------------------------------------------------------------------------
(* Properties.                                                             *)

\* Every variable keeps its type.
RequestTypeOK ==
    /\ at \in [Requests -> {"new", "sent", "broken", "done"}]
    /\ timer \in [Requests -> {"off", "armed", "fired"}]
    /\ listening \in [Requests -> BOOLEAN] /\ aborted \in [Requests -> BOOLEAN]
    /\ backend \in [Requests -> {"none", "pending", "applied", "refused"}]
    /\ answer \in [Requests -> {"none", "ok", "saved", "http", "garbled"}]
    /\ verdict \in [Requests -> Kinds \cup {"none"}]

\* The pages trust the verdicts: ok and "saved, but" mean that the backend did
\* it, another answer that it did not, "aborted" that the caller asked for it
\* and "timeout" that the limit passed; a request its caller gave up is never
\* reported as a broken connection.
VerdictIsSound ==
    \A r \in Requests :
        /\ verdict[r] \in {"ok", "saved", "invalid"} => backend[r] = "applied"
        /\ verdict[r] = "http" => backend[r] = "refused"
        /\ verdict[r] = "aborted" => aborted[r]
        /\ verdict[r] = "timeout" => timer[r] = "fired"
        /\ verdict[r] = "network" => ~aborted[r]

\* A request that waits for an answer has its limit before it, or is already told
\* to stop waiting; no timer and no listener outlives the request.
LimitIsSet ==
    \A r \in Requests :
        /\ at[r] \in {"sent", "broken"} => timer[r] = "armed" \/ Signalled(r)
        /\ at[r] = "done" => timer[r] # "armed" /\ ~listening[r]
=============================================================================
