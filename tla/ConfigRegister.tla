-------------------------- MODULE ConfigRegister --------------------------
(***************************************************************************)
(* What the configs service promises about config.yaml: every call takes   *)
(* effect at once or not at all, its answer says which, only valid configs *)
(* are written, and nothing a call replaces is lost but an edit made by    *)
(* hand while the call was being carried out.                              *)
(***************************************************************************)
EXTENDS ConfigDocument

CONSTANT Requests   \* calls of the service

VARIABLES doc,        \* what the file holds
          op,         \* what a request asks, or None
          status,     \* what has become of it
          overtaken   \* requests in progress when the file was edited by hand

registerVars == <<doc, op, status, overtaken>>

Init ==
    /\ doc \in {Absent, Empty, Default}
    /\ op = [r \in Requests |-> None]
    /\ status = [r \in Requests |-> "none"]
    /\ overtaken = {}

Open(r) == op[r] # None /\ status[r] = "none"

Ask(r) ==
    /\ op[r] = None
    /\ \E o \in Operations :
          /\ op' = [op EXCEPT ![r] = o]
          /\ status' = IF BadArgument(o) THEN [status EXCEPT ![r] = "refused"] ELSE status
    /\ UNCHANGED <<doc, overtaken>>

Write(r) ==
    /\ Open(r)
    /\ \/ ~Modifies(op[r]) /\ doc' = op[r].conf
       \/ /\ Modifies(op[r])
          /\ Readable(doc)
          /\ ~Refuses(op[r], Parse(doc))
          /\ doc' = Result(op[r], Parse(doc))
       \/ Modifies(op[r]) /\ r \in overtaken
    /\ doc' \in Config /\ Valid(doc')
    /\ status' = [status EXCEPT ![r] = "written"]
    /\ UNCHANGED <<op, overtaken>>

Refuse(r) ==
    /\ Open(r)
    /\ status' = [status EXCEPT ![r] = "refused"]
    /\ UNCHANGED <<doc, op, overtaken>>

Answer(r) ==
    /\ status[r] = "written"
    /\ \E answer \in {"ok", "saved"} : status' = [status EXCEPT ![r] = answer]
    /\ UNCHANGED <<doc, op, overtaken>>

\* Somebody saves the file in an editor.
Edit ==
    /\ overtaken \subseteq overtaken'
    /\ \A r \in overtaken' \ overtaken : Open(r)
    /\ UNCHANGED <<op, status>>

\* A file that is missing or empty is given the default, perhaps in part.
Seed ==
    /\ doc \in {Absent, Empty}
    /\ doc' \in CutShort \cup {Default}
    /\ UNCHANGED <<op, status, overtaken>>

\* The process ends: the requests under way have no answer.
End ==
    /\ status' = [r \in Requests |->
                    IF Open(r) \/ status[r] = "written" THEN "lost" ELSE status[r]]
    /\ UNCHANGED <<doc, op, overtaken>>

Next ==
    \/ \E r \in Requests : Ask(r) \/ Write(r) \/ Refuse(r) \/ Answer(r)
    \/ Edit \/ Seed \/ End

Spec == Init /\ [][Next]_registerVars
=============================================================================
