-------------------------------- MODULE Yaml --------------------------------
(***************************************************************************)
(* The editor of config.yaml as text (YamlPage.svelte): the load, typing,  *)
(* the save with its re-read after the status of the web UI is known, and  *)
(* the reload that asks before it drops what is typed.  Other clients      *)
(* write the file as well.                                                 *)
(*                                                                         *)
(* Every request that is tracked by `busy` disables the text.  The wait    *)
(* for status between a save and its re-read is not tracked.               *)
(***************************************************************************)
EXTENDS Naturals, FiniteSets

CONSTANTS Texts, None,
          Saves          \* the saves a page makes: a bound

\* What the constants are assumed to be.
YamlAssumption == None \notin Texts /\ IsFiniteSet(Saves)

VARIABLES disk, text, baseline, ready,
          load,       \* the request of load: where it is, what it read
          save,       \* of each save
          reload,     \* of the Reload button
          been,       \* the texts the file held, for the properties
          agreed      \* the user let go of this text

page == <<text, baseline, ready>>
vars == <<disk, page, load, save, reload, been, agreed>>

NewSave == [at |-> "new", yaml |-> None, got |-> None]

Init ==
    /\ disk \in Texts /\ been = {disk}
    /\ text = None /\ baseline = None /\ ready = FALSE
    /\ load = [at |-> "sent", got |-> None]
    /\ save = [s \in Saves |-> NewSave]
    /\ reload = [at |-> "no", got |-> None]
    /\ agreed = None

Dirty == ready /\ text # baseline
Busy ==
    \/ \E s \in Saves : save[s].at \in {"put", "kept", "refused", "get", "read"}
    \/ reload.at \in {"get", "read"}
Asking == reload.at = "asking"

Adopt(yaml) == text' = yaml /\ baseline' = yaml /\ ready' = TRUE

-----------------------------------------------------------------------------
(* The load.  A failed one shows a banner with Retry in place of the text. *)

LoadReads ==
    /\ load.at = "sent"
    /\ load' = [at |-> "read", got |-> disk]
    /\ UNCHANGED <<disk, page, save, reload, been, agreed>>

LoadArrives ==
    /\ load.at = "read" /\ load' = [at |-> "no", got |-> None]
    /\ Adopt(load.got)
    /\ UNCHANGED <<disk, save, reload, been, agreed>>

LoadFails ==
    /\ load.at \in {"sent", "read"} /\ load' = [at |-> "failed", got |-> None]
    /\ UNCHANGED <<disk, page, save, reload, been, agreed>>

Retry ==
    /\ load.at = "failed" /\ load' = [at |-> "sent", got |-> None]
    /\ UNCHANGED <<disk, page, save, reload, been, agreed>>

Type(t) ==
    /\ ready /\ ~Busy /\ ~Asking /\ t # text
    /\ text' = t /\ agreed' = None
    /\ UNCHANGED <<disk, baseline, ready, load, save, reload, been>>

-----------------------------------------------------------------------------
(* The save.  Ctrl+S works under the question of Reload as well.           *)

\* The early return of save and of reload.
MayWrite == ready /\ ~Busy /\ load.at = "no"

Save(s) ==
    /\ save[s].at = "new" /\ MayWrite
    /\ save' = [save EXCEPT ![s].at = "put", ![s].yaml = text]
    /\ UNCHANGED <<disk, page, load, reload, been, agreed>>

\* "kept" is ok or "saved, but"; a lost answer may leave the text on disk.
BackendWrites(s) ==
    /\ save[s].at = "put"
    /\ \/ /\ disk' = save[s].yaml /\ been' = been \cup {disk'}
          /\ \E answer \in {"kept", "refused"} : save' = [save EXCEPT ![s].at = answer]
       \/ /\ save' = [save EXCEPT ![s].at = "refused"]
          /\ UNCHANGED <<disk, been>>
    /\ UNCHANGED <<page, load, reload, agreed>>

\* Mutant: a write that got no answer counts as saved.
KeptOrNot(s) == save[s].at \in {"kept", "refused"}
\* The answer says that the text is on disk.
Kept(s) == save[s].at = "kept"

\* Up to the await of afterWrite, which waits for status and is not tracked.
SaveAnswered(s) ==
    /\ Kept(s)
    /\ baseline' = save[s].yaml
    /\ save' = [save EXCEPT ![s].at = "status"]
    /\ UNCHANGED <<disk, text, ready, load, reload, been, agreed>>

SaveFails(s) ==
    /\ ~Kept(s) /\ save[s].at = "refused"
    /\ save' = [save EXCEPT ![s].at = "done"]
    /\ UNCHANGED <<disk, page, load, reload, been, agreed>>

\* The web UI has moved, or status is known and the text is read again.
StatusKnown(s) ==
    /\ save[s].at = "status"
    /\ \E next \in {"done", "get"} : save' = [save EXCEPT ![s].at = next]
    /\ UNCHANGED <<disk, page, load, reload, been, agreed>>

ReReads(s) ==
    /\ save[s].at = "get"
    /\ save' = [save EXCEPT ![s].at = "read", ![s].got = disk]
    /\ UNCHANGED <<disk, page, load, reload, been, agreed>>

\* The text is still the one this save sent.
SameText(s) == text = save[s].yaml

ReReadArrives(s) ==
    /\ save[s].at = "read" /\ save' = [save EXCEPT ![s].at = "done"]
    /\ IF SameText(s) THEN Adopt(save[s].got) ELSE UNCHANGED page
    /\ UNCHANGED <<disk, load, reload, been, agreed>>

ReReadFails(s) ==
    /\ save[s].at \in {"get", "read"} /\ save' = [save EXCEPT ![s].at = "done"]
    /\ UNCHANGED <<disk, page, load, reload, been, agreed>>

-----------------------------------------------------------------------------
(* The Reload button.                                                      *)

Reload ==
    /\ reload.at = "no" /\ MayWrite
    /\ reload' = [reload EXCEPT !.at = IF Dirty THEN "asking" ELSE "get"]
    /\ UNCHANGED <<disk, page, load, save, been, agreed>>

\* A save that began under the question makes a confirmed reload give up.
AnswerReload(ok) ==
    /\ Asking
    /\ reload' = [reload EXCEPT !.at = IF ok /\ ~Busy THEN "get" ELSE "no"]
    /\ agreed' = IF ok THEN text ELSE agreed
    /\ UNCHANGED <<disk, page, load, save, been>>

ReloadReads ==
    /\ reload.at = "get"
    /\ reload' = [at |-> "read", got |-> disk]
    /\ UNCHANGED <<disk, page, load, save, been, agreed>>

ReloadArrives ==
    /\ reload.at = "read" /\ reload' = [at |-> "no", got |-> None]
    /\ Adopt(reload.got)
    /\ UNCHANGED <<disk, load, save, been, agreed>>

ReloadFails ==
    /\ reload.at \in {"get", "read"} /\ reload' = [at |-> "no", got |-> None]
    /\ UNCHANGED <<disk, page, load, save, been, agreed>>

OthersWrite ==
    /\ disk' \in Texts \ {disk} /\ been' = been \cup {disk'}
    /\ UNCHANGED <<page, load, save, reload, agreed>>

Next ==
    \/ LoadReads \/ LoadArrives \/ LoadFails \/ Retry \/ OthersWrite
    \/ \E t \in Texts : Type(t)
    \/ \E s \in Saves : \/ Save(s) \/ BackendWrites(s) \/ SaveAnswered(s) \/ SaveFails(s)
                        \/ StatusKnown(s) \/ ReReads(s) \/ ReReadArrives(s) \/ ReReadFails(s)
    \/ Reload \/ ReloadReads \/ ReloadArrives \/ ReloadFails
    \/ \E ok \in BOOLEAN : AnswerReload(ok)

Spec == Init /\ [][Next]_vars

-----------------------------------------------------------------------------
(* Properties.                                                             *)

\* Every variable keeps its type.
YamlTypeOK ==
    /\ disk \in Texts /\ been \subseteq Texts /\ ready \in BOOLEAN
    /\ text \in Texts \cup {None} /\ baseline \in Texts \cup {None} /\ agreed \in Texts \cup {None}
    /\ load \in [at : {"no", "sent", "read", "failed"}, got : Texts \cup {None}]
    /\ reload \in [at : {"no", "asking", "get", "read"}, got : Texts \cup {None}]
    /\ save \in [Saves -> [at : {"new", "put", "kept", "refused", "status", "get", "read", "done"},
                           yaml : Texts \cup {None}, got : Texts \cup {None}]]

\* A text without unsaved changes was on disk at some moment: a write that was
\* refused, or got no answer, leaves the text dirty (YamlPage.svelte:98-99).
CleanWasOnDisk == ready /\ ~Dirty => text \in been

\* The texts this page asked to write.
Written == {save[s].yaml : s \in Saves}

\* An answer, of the load, of the re-read or of a reload, replaces no text that
\* was typed, never sent, and not let go of in the question of Reload: the wait
\* for status between a save and its re-read leaves the user free to type.  (A
\* text that was sent, replaced and typed again is another matter: the re-read
\* of its first save may still find it the same and replace it.)
TypedKept ==
    (\A t \in Texts : ~Type(t)) /\ Dirty /\ text' # text
        => text = agreed \/ text \in Written
TypedIsKept == [][TypedKept]_vars
=============================================================================
