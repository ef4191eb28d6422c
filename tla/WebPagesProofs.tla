--------------------------- MODULE WebPagesProofs ---------------------------
(***************************************************************************)
(* Proofs about the pages of the web UI, part by part: each has an         *)
(* invariant that its actions keep, from which its properties follow, for  *)
(* any rules, texts, values, connections, questions and bounds.  The last  *)
(* section puts the parts together and states what holds of a behaviour of *)
(* WebPages.                                                               *)
(***************************************************************************)
EXTENDS WebPages, HostsProofs, FiniteSetTheorems, TLAPS

-----------------------------------------------------------------------------
(* The editor of a rule.                                                   *)

EditorWrites == [at : {"no", "sent", "handled"}, previous : Names \cup {None},
           rule : RuleEditor!Drafts \cup {None}, outcome : {"none", "ok", "saved",
           "refused", "lost"},
           live : BOOLEAN]
EditorAnswers == [at : {"no", "asked", "read", "failed"},
rule : RuleEditor!Drafts \cup {None},
            taken : SUBSET Names]

EditorTypes ==
    /\ RuleEditor!RuleEditorTypeOK
    /\ save \in EditorWrites /\ removal \in EditorWrites /\ load \in EditorAnswers
    /\ question \in [name : Names \cup {None}, live : BOOLEAN]

\* A load is of a page that has been told nothing yet.
EditorLoading == load.at # "no" => told = None /\ route.name \in Names

\* While a save is under way the page stays as it was when it was sent: the
\* fieldsets are disabled, no builder is open and no load is awaited.
EditorSaving ==
    save.at # "no" =>
        /\ draft = save.rule /\ save.rule.name # None
        /\ save.previous = savedName
        /\ load.at = "no" /\ ~building

\* What the page takes for saved is what it was told, and a page that has
\* created its rule knows its name.
EditorTold ==
    /\ told # None => baseline = told
    /\ made # {} => savedName # None

EditorInv ==
    /\ RuleEditor!RuleEditorAssumption
    /\ EditorTypes /\ EditorLoading /\ EditorSaving /\ EditorTold

LEMMA EmptyIsADraft ==
    ASSUME RuleEditor!RuleEditorAssumption
    PROVE  RuleEditor!EmptyDraft \in RuleEditor!Drafts /\ RuleEditor!EmptyDraft.name = None
<1>1. PICK p \in Ports, c \in Chains : TRUE
    BY DEF RuleEditor!RuleEditorAssumption
<1>2. [name |-> None, port |-> p, chain |-> c] \in RuleEditor!Drafts
    BY <1>1 DEF RuleEditor!Drafts
<1>3. \E d \in RuleEditor!Drafts : d.name = None
    BY <1>2
<1> QED
    BY <1>3 DEF RuleEditor!EmptyDraft

LEMMA EditorInit ==
    ASSUME RuleEditor!RuleEditorAssumption, RuleEditor!Init
    PROVE  EditorInv
<1>1. EditorTypes
    <2>1. RuleEditor!RuleEditorTypeOK
        <3>1. writes \in 0..MaxWrites
            BY DEF RuleEditor!RuleEditorAssumption, RuleEditor!Init
        <3>2. route \in RuleEditor!Routes
            BY DEF RuleEditor!Init, RuleEditor!Routes
        <3> QED
            BY <3>1, <3>2, EmptyIsADraft DEF RuleEditor!Init, RuleEditor!RuleEditorTypeOK
    <2>2. RuleEditor!NoWrite \in EditorWrites /\ RuleEditor!NoLoad \in EditorAnswers
        BY DEF RuleEditor!NoWrite, EditorWrites, RuleEditor!NoLoad, EditorAnswers
    <2> QED
        BY <2>1, <2>2 DEF RuleEditor!Init, EditorTypes
<1> QED
    BY <1>1 DEF RuleEditor!Init, EditorInv, EditorLoading, EditorSaving, EditorTold,
       RuleEditor!NoWrite, RuleEditor!NoLoad

\* A page that is mounted is told nothing yet, and no save is under way.
LEMMA EditorMount ==
    ASSUME EditorInv, NEW r \in RuleEditor!Routes, RuleEditor!Mount(r), save'.at = "no",
           stored' \in [Names -> RuleEditor!Contents \cup {None}],
           save' \in EditorWrites, removal' \in EditorWrites,
           writes' \in 0..MaxWrites
    PROVE  EditorInv'
<1>1. load' \in EditorAnswers /\ (load'.at # "no" => r.name \in Names)
    BY DEF RuleEditor!Mount, RuleEditor!NoLoad, EditorAnswers, RuleEditor!Routes,
       RuleEditor!Overview
<1>2. savedName' \in Names \cup {None}
    BY DEF RuleEditor!Mount, RuleEditor!Routes, RuleEditor!Overview
<1>3. question' \in [name : Names \cup {None}, live : BOOLEAN]
    BY DEF RuleEditor!Mount, EditorInv, EditorTypes
<1>4. EditorTypes'
    BY <1>1, <1>2, <1>3, EmptyIsADraft DEF RuleEditor!Mount, EditorInv, EditorTypes,
       RuleEditor!RuleEditorTypeOK
<1>5. EditorLoading' /\ EditorSaving' /\ EditorTold'
    BY <1>1 DEF RuleEditor!Mount, EditorLoading, EditorSaving, EditorTold
<1> QED
    BY <1>4, <1>5 DEF EditorInv, RuleEditor!RuleEditorAssumption

\* A step of the backend or of a dialog: the page stays as it is.
LEMMA EditorBeside ==
    ASSUME EditorInv, UNCHANGED <<RuleEditor!page, building, told, made>>, EditorTypes',
           save'.at # "no" => /\ save.at # "no"
                              /\ UNCHANGED <<save.rule, save.previous>>
    PROVE  EditorInv'
BY DEF EditorInv, RuleEditor!RuleEditorAssumption, EditorLoading, EditorSaving,
   EditorTold, RuleEditor!page

LEMMA EditorNavigate ==
    ASSUME EditorInv, NEW r \in RuleEditor!Routes, RuleEditor!Navigate(r)
    PROVE  EditorInv'
<1>1. save.at = "no"
    BY DEF RuleEditor!Navigate, RuleEditor!Busy, EditorInv, EditorTypes, EditorWrites
<1> QED
    BY <1>1, EditorMount DEF RuleEditor!Navigate, EditorInv, EditorTypes,
       RuleEditor!RuleEditorTypeOK

LEMMA EditorLoad ==
    ASSUME EditorInv, RuleEditor!BackendReads \/ RuleEditor!LoadFails \/ RuleEditor!Retry
    PROVE  EditorInv'
<1>1. load' \in EditorAnswers /\ load.at # "no"
    <2>1. CASE RuleEditor!BackendReads
        <3>1. load.at = "asked"
            BY <2>1 DEF RuleEditor!BackendReads
        <3>2. (IF savedName # None THEN savedName ELSE route.name) \in Names
            BY <3>1 DEF EditorInv, EditorLoading, EditorTypes, RuleEditor!RuleEditorTypeOK
        <3>3. ASSUME NEW n \in Names, stored[n] # None
              PROVE  RuleEditor!RuleOf(n, stored[n]) \in RuleEditor!Drafts
            BY <3>3 DEF EditorInv, EditorTypes, RuleEditor!RuleEditorTypeOK,
               RuleEditor!RuleOf, RuleEditor!Contents, RuleEditor!Drafts
        <3>4. {n \in Names : stored[n] # None} \in SUBSET Names /\ {} \in SUBSET Names
            OBVIOUS
        <3> QED
            BY <2>1, <3>1, <3>2, <3>3, <3>4 DEF RuleEditor!BackendReads, EditorAnswers
    <2>2. CASE RuleEditor!LoadFails \/ RuleEditor!Retry
        BY <2>2 DEF RuleEditor!LoadFails, RuleEditor!Retry, RuleEditor!NoLoad, EditorAnswers
    <2> QED
        BY <2>1, <2>2
<1>2. UNCHANGED <<stored, route, savedName, draft, baseline, ready, building, question,
                  save, removal, told, made, writes>>
    BY DEF RuleEditor!BackendReads, RuleEditor!LoadFails, RuleEditor!Retry
<1>3. EditorTypes'
    BY <1>1, <1>2 DEF EditorInv, EditorTypes, RuleEditor!RuleEditorTypeOK
<1> QED
    BY <1>1, <1>2, <1>3 DEF EditorInv, RuleEditor!RuleEditorAssumption, EditorLoading,
       EditorSaving, EditorTold

LEMMA EditorLoadArrives ==
    ASSUME EditorInv, RuleEditor!LoadArrives
    PROVE  EditorInv'
<1>1. load.rule \in RuleEditor!Drafts /\ told = None /\ save.at = "no" /\ load' = RuleEditor!NoLoad
      /\ UNCHANGED <<stored, route, savedName, building, question, save, removal, made, writes>>
    BY DEF RuleEditor!LoadArrives, EditorInv, EditorTypes, EditorAnswers, EditorLoading,
       EditorSaving
<1>2. RuleEditor!NoLoad \in EditorAnswers /\ RuleEditor!NoLoad.at = "no"
    BY DEF RuleEditor!NoLoad, EditorAnswers
<1>3. /\ draft' \in RuleEditor!Drafts /\ baseline' \in RuleEditor!Drafts /\ ready' \in BOOLEAN
      /\ told' \in RuleEditor!Drafts \cup {None} /\ (told' # None => baseline' = told')
    <2>1. CASE savedName = None
        <3>1. PICK n \in Names : draft' = [load.rule EXCEPT !.name = n]
            BY <2>1 DEF RuleEditor!LoadArrives, RuleEditor!AdoptCopy
        <3>2. draft' \in RuleEditor!Drafts
            BY <1>1, <3>1 DEF RuleEditor!Drafts
        <3> QED
            BY <1>1, <2>1, <3>2, EmptyIsADraft DEF RuleEditor!LoadArrives,
               RuleEditor!AdoptCopy, EditorInv
    <2>2. CASE savedName # None
        BY <1>1, <2>2 DEF RuleEditor!LoadArrives, RuleEditor!Adopt
    <2> QED
        BY <2>1, <2>2
<1>4. EditorTypes'
    BY <1>1, <1>2, <1>3 DEF EditorInv, EditorTypes, RuleEditor!RuleEditorTypeOK
<1> QED
    BY <1>1, <1>2, <1>3, <1>4 DEF EditorInv, RuleEditor!RuleEditorAssumption,
       EditorLoading, EditorSaving, EditorTold

\* Whatever changes the draft finds no save under way.
LEMMA EditorDraft ==
    ASSUME EditorInv,
           \/ RuleEditor!EditGeneral \/ RuleEditor!EditListen
           \/ RuleEditor!EditExit \/ RuleEditor!BuilderSettles
    PROVE  EditorInv'
<1>1. save.at = "no"
    BY DEF RuleEditor!EditGeneral, RuleEditor!EditListen, RuleEditor!EditExit,
       RuleEditor!Typed, RuleEditor!BuilderSettles, RuleEditor!Busy, EditorInv, EditorTypes,
        EditorWrites, EditorSaving
<1>2. draft' \in RuleEditor!Drafts /\ building' \in BOOLEAN
    BY DEF RuleEditor!EditGeneral, RuleEditor!EditListen, RuleEditor!EditExit,
       RuleEditor!Typed, RuleEditor!BuilderSettles, EditorInv, EditorTypes,
        RuleEditor!RuleEditorTypeOK, RuleEditor!Drafts
<1>3. UNCHANGED <<stored, route, savedName, baseline, ready, load, question,
                  save, removal, told, made, writes>>
    BY DEF RuleEditor!EditGeneral, RuleEditor!EditListen, RuleEditor!EditExit,
       RuleEditor!Typed, RuleEditor!BuilderSettles
<1>4. EditorTypes'
    BY <1>2, <1>3 DEF EditorInv, EditorTypes, RuleEditor!RuleEditorTypeOK
<1> QED
    BY <1>1, <1>3, <1>4 DEF EditorInv, RuleEditor!RuleEditorAssumption, EditorLoading,
       EditorSaving, EditorTold

LEMMA EditorOpenBuilder ==
    ASSUME EditorInv, RuleEditor!OpenBuilder
    PROVE  EditorInv'
<1>1. save.at = "no"
    BY DEF RuleEditor!OpenBuilder, RuleEditor!Busy, EditorInv, EditorTypes, EditorWrites
<1>2. EditorTypes'
    BY DEF RuleEditor!OpenBuilder, RuleEditor!page, EditorInv, EditorTypes,
       RuleEditor!RuleEditorTypeOK
<1> QED
    BY <1>1, <1>2 DEF RuleEditor!OpenBuilder, RuleEditor!page, EditorInv,
       RuleEditor!RuleEditorAssumption, EditorLoading, EditorSaving, EditorTold

LEMMA EditorSave ==
    ASSUME EditorInv, RuleEditor!Save
    PROVE  EditorInv'
<1>1. save.at = "no" /\ load.at = "no" /\ ~building /\ draft.name # None
    BY DEF RuleEditor!Save, RuleEditor!MaySave, RuleEditor!Valid, RuleEditor!Busy,
       EditorInv, EditorTypes, EditorWrites
<1>2. /\ save' \in EditorWrites /\ save'.rule = draft /\ save'.previous = savedName
    BY DEF RuleEditor!Save, RuleEditor!NoWrite, EditorWrites, EditorInv, EditorTypes,
       RuleEditor!RuleEditorTypeOK
<1>4. writes' \in 0..MaxWrites
    BY DEF RuleEditor!Save, EditorInv, EditorTypes, RuleEditor!RuleEditorTypeOK,
       RuleEditor!RuleEditorAssumption
<1>5. EditorTypes'
    BY <1>2, <1>4 DEF RuleEditor!Save, RuleEditor!page, EditorInv, EditorTypes,
       RuleEditor!RuleEditorTypeOK
<1> QED
    BY <1>1, <1>2, <1>5 DEF RuleEditor!Save, RuleEditor!page, EditorInv,
       RuleEditor!RuleEditorAssumption, EditorLoading,
        EditorSaving, EditorTold

LEMMA EditorBackendSaves ==
    ASSUME EditorInv, RuleEditor!BackendSaves
    PROVE  EditorInv'
<1>1. /\ save.at = "sent" /\ save.rule \in RuleEditor!Drafts /\ save.rule.name \in Names
      /\ UNCHANGED <<RuleEditor!page, building, question, removal, told, made, writes>>
    BY DEF RuleEditor!BackendSaves, EditorInv, EditorTypes, RuleEditor!RuleEditorTypeOK,
       EditorSaving, RuleEditor!Drafts
<1>2. /\ save' \in EditorWrites /\ save'.at # "no"
      /\ save'.rule = save.rule /\ save'.previous = save.previous
    <2>1. save \in EditorWrites
        BY DEF EditorInv, EditorTypes
    <2>2. PICK o \in {"ok", "saved", "refused", "lost"} :
            save' = [save EXCEPT !.at = "handled", !.outcome = o]
        BY DEF RuleEditor!BackendSaves
    <2> QED
        BY <2>1, <2>2 DEF EditorWrites
<1>3. stored' \in [Names -> RuleEditor!Contents \cup {None}]
    <2>1. RuleEditor!ContentOf(save.rule) \in RuleEditor!Contents
        BY <1>1 DEF RuleEditor!ContentOf, RuleEditor!Contents, RuleEditor!Drafts
    <2>2. CASE stored' = stored
        BY <2>2 DEF EditorInv, EditorTypes, RuleEditor!RuleEditorTypeOK
    <2>3. CASE stored' = [n \in Names |-> IF n = save.rule.name THEN RuleEditor!ContentOf(save.rule)
                                          ELSE IF n = save.previous THEN None ELSE stored[n]]
        BY <2>1, <2>3 DEF EditorInv, EditorTypes, RuleEditor!RuleEditorTypeOK
    <2> QED
        BY <2>2, <2>3 DEF RuleEditor!BackendSaves
<1>4. EditorTypes'
    BY <1>1, <1>2, <1>3 DEF RuleEditor!page, EditorInv, EditorTypes,
       RuleEditor!RuleEditorTypeOK
<1> QED
    BY <1>1, <1>2, <1>4, EditorBeside

\* The answer of a save: nothing was written, the page is left for the one of
\* the new name, or it takes what was sent for saved.
LEMMA EditorSaveAnswered ==
    ASSUME EditorInv, RuleEditor!SaveAnswered
    PROVE  EditorInv'
<1>1. /\ save.at # "no" /\ save' = RuleEditor!NoWrite /\ UNCHANGED <<stored, removal, writes>>
      /\ save.rule = draft /\ draft \in RuleEditor!Drafts /\ save.rule.name \in Names
      /\ load.at = "no"
    BY DEF RuleEditor!SaveAnswered, EditorInv, EditorTypes, RuleEditor!RuleEditorTypeOK,
       EditorSaving, RuleEditor!Drafts
<1>2. RuleEditor!NoWrite \in EditorWrites /\ RuleEditor!NoWrite.at = "no"
    BY DEF RuleEditor!NoWrite, EditorWrites
<1> DEFINE target == [kind |-> "rule", name |-> save.rule.name]
           leaves == route # target /\ removal.at = "no"
<1>3. CASE ~RuleEditor!Persisted(save.outcome)
    <2>1. UNCHANGED <<RuleEditor!page, building, question, told, made>>
        BY <1>3 DEF RuleEditor!SaveAnswered, RuleEditor!Persisted
    <2>2. EditorTypes'
        BY <1>1, <1>2, <2>1 DEF RuleEditor!page, EditorInv, EditorTypes,
           RuleEditor!RuleEditorTypeOK
    <2> QED
        BY <1>1, <1>2, <2>1, <2>2, EditorBeside
<1>4. CASE RuleEditor!Persisted(save.outcome) /\ leaves
    <2>1. RuleEditor!Mount(target)
        BY <1>4 DEF RuleEditor!SaveAnswered
    <2>2. target \in RuleEditor!Routes
        BY <1>1 DEF RuleEditor!Routes
    <2> QED
        BY <1>1, <1>2, <2>1, <2>2, EditorMount DEF EditorInv, EditorTypes,
           RuleEditor!RuleEditorTypeOK
<1>5. CASE RuleEditor!Persisted(save.outcome) /\ ~leaves
    <2>1. /\ baseline' = draft /\ savedName' = save.rule.name /\ told' = save.rule
          /\ made' = IF save.previous = None THEN made \cup {save.rule.name} ELSE made
          /\ UNCHANGED <<route, draft, ready, load, building, question>>
        BY <1>5 DEF RuleEditor!SaveAnswered
    <2>2. EditorTypes'
        BY <1>1, <1>2, <2>1 DEF EditorInv, EditorTypes, RuleEditor!RuleEditorTypeOK
    <2>3. EditorLoading' /\ EditorSaving' /\ EditorTold'
        <3>1. save.rule.name # None
            BY <1>1 DEF EditorInv, EditorSaving
        <3> QED
            BY <1>1, <1>2, <2>1, <3>1 DEF EditorLoading, EditorSaving, EditorTold
    <2> QED
        BY <2>2, <2>3 DEF EditorInv, RuleEditor!RuleEditorAssumption
<1> QED
    BY <1>3, <1>4, <1>5

\* The delete dialog, the backend's part of a delete, and other clients.
LEMMA EditorQuestion ==
    ASSUME EditorInv,
           \/ RuleEditor!AskRemove \/ RuleEditor!Decline \/ RuleEditor!Confirm
           \/ RuleEditor!BackendRemoves \/ RuleEditor!OthersWrite
    PROVE  EditorInv'
<1>1. UNCHANGED <<RuleEditor!page, building, save, told, made>>
    BY DEF RuleEditor!AskRemove, RuleEditor!Decline, RuleEditor!Confirm,
       RuleEditor!BackendRemoves, RuleEditor!OthersWrite
<1>2. /\ question' \in [name : Names \cup {None}, live : BOOLEAN]
      /\ writes' \in 0..MaxWrites
    <2>1. CASE RuleEditor!AskRemove
        BY <2>1 DEF RuleEditor!AskRemove, EditorInv, EditorTypes,
           RuleEditor!RuleEditorTypeOK
    <2>2. CASE RuleEditor!Decline \/ RuleEditor!Confirm
        <3>1. question' = [name |-> None, live |-> FALSE]
            BY <2>2 DEF RuleEditor!Decline, RuleEditor!Confirm
        <3>2. writes' = writes \/ (writes < MaxWrites /\ writes' = writes + 1)
            BY <2>2 DEF RuleEditor!Decline, RuleEditor!Confirm
        <3> QED
            BY <3>1, <3>2 DEF EditorInv, EditorTypes, RuleEditor!RuleEditorTypeOK,
               RuleEditor!RuleEditorAssumption
    <2>3. CASE RuleEditor!BackendRemoves \/ RuleEditor!OthersWrite
        BY <2>3 DEF RuleEditor!BackendRemoves, RuleEditor!OthersWrite, EditorInv,
           EditorTypes, RuleEditor!RuleEditorTypeOK
    <2> QED
        BY <2>1, <2>2, <2>3
<1>3. removal' \in EditorWrites
    <2>1. CASE RuleEditor!Confirm
        BY <2>1 DEF RuleEditor!Confirm, RuleEditor!NoWrite, EditorWrites, EditorInv,
           EditorTypes
    <2>2. CASE RuleEditor!BackendRemoves
        BY <2>2 DEF RuleEditor!BackendRemoves, EditorWrites, EditorInv, EditorTypes
    <2>3. CASE RuleEditor!AskRemove \/ RuleEditor!Decline \/ RuleEditor!OthersWrite
        BY <2>3 DEF RuleEditor!AskRemove, RuleEditor!Decline, RuleEditor!OthersWrite,
           EditorInv, EditorTypes
    <2> QED
        BY <2>1, <2>2, <2>3
<1>4. stored' \in [Names -> RuleEditor!Contents \cup {None}]
    BY DEF RuleEditor!AskRemove, RuleEditor!Decline, RuleEditor!Confirm,
       RuleEditor!BackendRemoves, RuleEditor!OthersWrite, EditorInv, EditorTypes,
        RuleEditor!RuleEditorTypeOK
<1>5. EditorTypes'
    BY <1>1, <1>2, <1>3, <1>4 DEF RuleEditor!page, EditorInv, EditorTypes,
       RuleEditor!RuleEditorTypeOK
<1> QED
    BY <1>1, <1>5, EditorBeside

LEMMA EditorRemoveAnswered ==
    ASSUME EditorInv, RuleEditor!RemoveAnswered
    PROVE  EditorInv'
<1>1. /\ removal' = RuleEditor!NoWrite /\ RuleEditor!NoWrite \in EditorWrites
      /\ UNCHANGED <<stored, save, writes>>
    BY DEF RuleEditor!RemoveAnswered, RuleEditor!NoWrite, EditorWrites
<1>2. CASE UNCHANGED <<RuleEditor!page, building, question, told, made>>
    <2>1. EditorTypes'
        BY <1>1, <1>2 DEF RuleEditor!page, EditorInv, EditorTypes,
           RuleEditor!RuleEditorTypeOK
    <2> QED
        BY <1>1, <1>2, <2>1, EditorBeside
<1>3. CASE save.at = "no" /\ RuleEditor!Mount(RuleEditor!Overview)
    <2>1. RuleEditor!Overview \in RuleEditor!Routes
        BY DEF RuleEditor!Routes
    <2> QED
        BY <1>1, <1>3, <2>1, EditorMount DEF EditorInv, EditorTypes,
           RuleEditor!RuleEditorTypeOK
<1>4. CASE /\ (baseline' = draft /\ told' = None) \/ UNCHANGED <<baseline, told>>
           /\ UNCHANGED <<route, savedName, draft, ready, load, building, question, made>>
    <2>1. EditorTypes'
        BY <1>1, <1>4 DEF EditorInv, EditorTypes, RuleEditor!RuleEditorTypeOK
    <2>2. EditorLoading' /\ EditorSaving' /\ EditorTold'
        BY <1>1, <1>4 DEF EditorInv, EditorLoading, EditorSaving, EditorTold
    <2> QED
        BY <2>1, <2>2 DEF EditorInv, RuleEditor!RuleEditorAssumption
<1> QED
    BY <1>2, <1>3, <1>4 DEF RuleEditor!RemoveAnswered

LEMMA EditorStep ==
    ASSUME EditorInv, RuleEditor!Next
    PROVE  EditorInv'
<1>1. ASSUME NEW r \in RuleEditor!Routes, RuleEditor!Navigate(r) PROVE EditorInv'
    BY <1>1, EditorNavigate
<1>2. CASE RuleEditor!BackendReads \/ RuleEditor!LoadFails \/ RuleEditor!Retry
    BY <1>2, EditorLoad
<1>3. CASE RuleEditor!LoadArrives
    BY <1>3, EditorLoadArrives
<1>4. CASE \/ RuleEditor!EditGeneral \/ RuleEditor!EditListen
           \/ RuleEditor!EditExit \/ RuleEditor!BuilderSettles
    BY <1>4, EditorDraft
<1>5. CASE RuleEditor!OpenBuilder
    BY <1>5, EditorOpenBuilder
<1>6. CASE RuleEditor!Save
    BY <1>6, EditorSave
<1>7. CASE RuleEditor!BackendSaves
    BY <1>7, EditorBackendSaves
<1>8. CASE RuleEditor!SaveAnswered
    BY <1>8, EditorSaveAnswered
<1>9. CASE \/ RuleEditor!AskRemove \/ RuleEditor!Decline \/ RuleEditor!Confirm
           \/ RuleEditor!BackendRemoves \/ RuleEditor!OthersWrite
    BY <1>9, EditorQuestion
<1>10. CASE RuleEditor!RemoveAnswered
    BY <1>10, EditorRemoveAnswered
<1> QED
    BY <1>1, <1>2, <1>3, <1>4, <1>5, <1>6, <1>7, <1>8, <1>9, <1>10 DEF RuleEditor!Next

LEMMA EditorShows ==
    ASSUME EditorInv
    PROVE  RuleEditor!RuleEditorTypeOK /\ RuleEditor!CleanIsStored /\ RuleEditor!SecondIsPut
BY DEF EditorInv, EditorTypes, EditorTold, EditorSaving, RuleEditor!CleanIsStored,
       RuleEditor!Editing, RuleEditor!Dirty, RuleEditor!SecondIsPut

-----------------------------------------------------------------------------
(* The YAML editor.                                                        *)

\* What is read, and what a write that is answered for sent, was on disk; so was
\* what the page takes for saved.
WasOnDisk ==
    /\ disk \in been
    /\ load.at = "read" => load.got \in been
    /\ reload.at = "read" => reload.got \in been
    /\ \A s \in Saves : /\ save[s].at = "kept" => save[s].yaml \in been
                        /\ save[s].at = "read" => save[s].got \in been
                        /\ save[s].at # "new" => save[s].yaml \in Texts
    /\ ready => baseline \in been /\ text \in Texts /\ load.at = "no"
    /\ ~ready => reload.at = "no" /\ \A s \in Saves : save[s].at = "new"

\* While a reload is under way, no save is on its way to the disk, and what it
\* will replace is clean, was let go of or was sent.
Reloading ==
    reload.at \in {"get", "read"} =>
        /\ \A s \in Saves : save[s].at \notin {"put", "kept", "refused"}
        /\ Yaml!Dirty => text = agreed \/ text \in Yaml!Written

YamlInv == Yaml!YamlTypeOK /\ WasOnDisk /\ Reloading

LEMMA YamlInit ==
    ASSUME Yaml!Init
    PROVE  YamlInv
BY DEF Yaml!Init, Yaml!NewSave, YamlInv, Yaml!YamlTypeOK, WasOnDisk, Reloading

LEMMA YamlClean ==
    ASSUME YamlInv
    PROVE  Yaml!YamlTypeOK /\ Yaml!CleanWasOnDisk
BY DEF YamlInv, WasOnDisk, Yaml!CleanWasOnDisk, Yaml!Dirty

\* A step that leaves the text, the reload and what was sent alone.
LEMMA YamlBeside ==
    ASSUME YamlInv, Yaml!YamlTypeOK', WasOnDisk', UNCHANGED <<text, baseline, ready, reload, agreed>>,
           \A s \in Saves : save'[s].yaml = save[s].yaml,
           \A s \in Saves : save'[s].at \in {"put", "kept", "refused"} =>
                                save[s].at \in {"put", "kept", "refused"}
    PROVE  YamlInv'
BY DEF YamlInv, Reloading, Yaml!Dirty, Yaml!Written

LEMMA YamlStep ==
    ASSUME YamlInv, Yaml!Next
    PROVE  YamlInv'
<1> USE DEF YamlInv, Yaml!YamlTypeOK, WasOnDisk, Yaml!page
<1>1. CASE Yaml!LoadReads \/ Yaml!LoadFails \/ Yaml!Retry
    BY <1>1, YamlBeside DEF Yaml!LoadReads, Yaml!LoadFails, Yaml!Retry
<1>2. CASE Yaml!LoadArrives
    <2>1. Yaml!YamlTypeOK' /\ WasOnDisk'
        BY <1>2 DEF Yaml!LoadArrives, Yaml!Adopt
    <2>2. ~Yaml!Dirty' /\ UNCHANGED <<save, reload>>
        BY <1>2 DEF Yaml!LoadArrives, Yaml!Adopt, Yaml!Dirty
    <2> QED
        BY <2>1, <2>2 DEF Reloading
<1>3. CASE Yaml!OthersWrite
    BY <1>3, YamlBeside DEF Yaml!OthersWrite
<1>4. ASSUME NEW t \in Texts, Yaml!Type(t) PROVE YamlInv'
    <2>1. Yaml!YamlTypeOK' /\ WasOnDisk'
        BY <1>4 DEF Yaml!Type
    <2>2. reload' = reload /\ reload.at \notin {"get", "read"}
        BY <1>4 DEF Yaml!Type, Yaml!Busy
    <2> QED
        BY <2>1, <2>2 DEF Reloading
<1>5. ASSUME NEW s \in Saves, Yaml!Save(s) PROVE YamlInv'
    <2>1. Yaml!YamlTypeOK' /\ WasOnDisk'
        BY <1>5 DEF Yaml!Save, Yaml!MayWrite
    <2>2. reload' = reload /\ reload.at \notin {"get", "read"}
        BY <1>5 DEF Yaml!Save, Yaml!MayWrite, Yaml!Busy
    <2> QED
        BY <2>1, <2>2 DEF Reloading
<1>6. ASSUME NEW s \in Saves, Yaml!BackendWrites(s) PROVE YamlInv'
    <2>1. PICK a \in {"kept", "refused"} : save' = [save EXCEPT ![s].at = a]
        BY <1>6 DEF Yaml!BackendWrites
    <2>2. Yaml!YamlTypeOK'
        BY <1>6, <2>1 DEF Yaml!BackendWrites
    <2>3. been \subseteq been' /\ (a = "kept" => save[s].yaml \in been')
        BY <1>6, <2>1 DEF Yaml!BackendWrites
    <2>4. WasOnDisk'
        BY <1>6, <2>1, <2>3 DEF Yaml!BackendWrites
    <2> QED
        BY <1>6, <2>1, <2>2, <2>4, YamlBeside DEF Yaml!BackendWrites
<1>7. ASSUME NEW s \in Saves, Yaml!SaveAnswered(s) PROVE YamlInv'
    <2>1. Yaml!YamlTypeOK' /\ WasOnDisk'
        BY <1>7 DEF Yaml!SaveAnswered, Yaml!Kept
    <2>2. reload' = reload /\ reload.at \notin {"get", "read"}
        BY <1>7 DEF Yaml!SaveAnswered, Yaml!Kept, Reloading
    <2> QED
        BY <2>1, <2>2 DEF Reloading
<1>8. ASSUME NEW s \in Saves,
             Yaml!SaveFails(s) \/ Yaml!StatusKnown(s) \/ Yaml!ReReads(s) \/ Yaml!ReReadFails(s)
      PROVE  YamlInv'
    BY <1>8, YamlBeside DEF Yaml!SaveFails, Yaml!StatusKnown, Yaml!ReReads, Yaml!ReReadFails
<1>9. ASSUME NEW s \in Saves, Yaml!ReReadArrives(s) PROVE YamlInv'
    <2>1. /\ save[s].at = "read" /\ save' = [save EXCEPT ![s].at = "done"]
          /\ UNCHANGED <<disk, load, reload, been, agreed>>
        BY <1>9 DEF Yaml!ReReadArrives
    <2>2. CASE Yaml!SameText(s)
        <3>1. Yaml!Adopt(save[s].got)
            BY <1>9, <2>2 DEF Yaml!ReReadArrives
        <3>2. Yaml!YamlTypeOK' /\ WasOnDisk'
            BY <2>1, <3>1 DEF Yaml!Adopt
        <3>3. ~Yaml!Dirty'
            BY <3>1 DEF Yaml!Adopt, Yaml!Dirty
        <3> QED
            BY <2>1, <3>2, <3>3 DEF Reloading
    <2>3. CASE ~Yaml!SameText(s)
        BY <1>9, <2>1, <2>3, YamlBeside DEF Yaml!ReReadArrives
    <2> QED
        BY <2>2, <2>3
<1>10. CASE Yaml!Reload
    <2>1. Yaml!YamlTypeOK' /\ WasOnDisk'
        BY <1>10 DEF Yaml!Reload, Yaml!MayWrite
    <2>2. /\ \A s \in Saves : save[s].at \notin {"put", "kept", "refused"}
          /\ reload'.at \in {"get", "read"} => ~Yaml!Dirty
          /\ UNCHANGED <<save, text, baseline, ready, agreed>>
        BY <1>10 DEF Yaml!Reload, Yaml!MayWrite, Yaml!Busy
    <2> QED
        BY <2>1, <2>2 DEF Reloading, Yaml!Dirty
<1>11. ASSUME NEW ok \in BOOLEAN, Yaml!AnswerReload(ok) PROVE YamlInv'
    <2>1. Yaml!YamlTypeOK' /\ WasOnDisk'
        BY <1>11 DEF Yaml!AnswerReload, Yaml!Asking
    <2>2. /\ reload'.at \in {"get", "read"} =>
                /\ \A s \in Saves : save[s].at \notin {"put", "kept", "refused"}
                /\ agreed' = text
          /\ UNCHANGED <<save, text>>
        BY <1>11 DEF Yaml!AnswerReload, Yaml!Busy
    <2> QED
        BY <2>1, <2>2 DEF Reloading
<1>12. CASE Yaml!ReloadReads
    <2>1. Yaml!YamlTypeOK' /\ WasOnDisk'
        BY <1>12 DEF Yaml!ReloadReads
    <2> QED
        BY <1>12, <2>1 DEF Yaml!ReloadReads, Reloading, Yaml!Dirty, Yaml!Written
<1>13. CASE Yaml!ReloadArrives
    <2>1. Yaml!YamlTypeOK' /\ WasOnDisk'
        BY <1>13 DEF Yaml!ReloadArrives, Yaml!Adopt
    <2> QED
        BY <1>13, <2>1 DEF Yaml!ReloadArrives, Reloading
<1>14. CASE Yaml!ReloadFails
    <2>1. Yaml!YamlTypeOK' /\ WasOnDisk'
        BY <1>14 DEF Yaml!ReloadFails
    <2> QED
        BY <1>14, <2>1 DEF Yaml!ReloadFails, Reloading
<1> QED
    BY <1>1, <1>2, <1>3, <1>4, <1>5, <1>6, <1>7, <1>8, <1>9, <1>10, <1>11, <1>12, <1>13,
       <1>14
       DEF Yaml!Next

\* No answer replaces what was typed.
LEMMA YamlTyped ==
    ASSUME YamlInv, Yaml!Next
    PROVE  Yaml!TypedKept
<1> SUFFICES ASSUME \A t \in Texts : ~Yaml!Type(t), Yaml!Dirty, text' # text
             PROVE  text = agreed \/ text \in Yaml!Written
    BY DEF Yaml!TypedKept
<1>1. CASE Yaml!LoadArrives
    BY <1>1 DEF Yaml!LoadArrives, YamlInv, WasOnDisk, Yaml!Dirty
<1>2. ASSUME NEW s \in Saves, Yaml!ReReadArrives(s) PROVE text \in Yaml!Written
    BY <1>2 DEF Yaml!ReReadArrives, Yaml!SameText, Yaml!Written, Yaml!page
<1>3. CASE Yaml!ReloadArrives
    BY <1>3 DEF Yaml!ReloadArrives, YamlInv, Reloading
<1> QED
    BY <1>1, <1>2, <1>3
       DEF Yaml!Next, Yaml!page, Yaml!LoadReads, Yaml!LoadFails, Yaml!Retry,
       Yaml!OthersWrite,
           Yaml!Save, Yaml!BackendWrites, Yaml!SaveAnswered, Yaml!SaveFails,
           Yaml!StatusKnown,
           Yaml!ReReads, Yaml!ReReadFails, Yaml!Reload, Yaml!ReloadReads, Yaml!ReloadFails,
           Yaml!AnswerReload

-----------------------------------------------------------------------------
(* The overview.                                                           *)

Cards == [at : {"idle", "reading", "read", "putting", "rereading", "reread", "asking",
"deleting"},
          want : BOOLEAN, rule : Overview!StoredRules \cup {None},
          answer : {"none", "ok", "saved", "refused", "lost"}]

OverviewTypes ==
    /\ Overview!OverviewAssumption /\ Overview!OverviewTypeOK
    /\ op \in [Names -> Cards]
    /\ load.at = "no" => load = Overview!NoLoad
    /\ load.at = "read" => load.got \in Overview!Lists
    /\ left => load = Overview!NoLoad

\* The writes that may yet be applied.
LateWrites == [name : Names, rule : Overview!StoredRules \cup {None}, click : 0..MaxClicks]

\* A card that does something: what it read, and what it will write.
CardIsSound(n) ==
    /\ op[n].at # "idle" => shown # None
    /\ op[n].at \in {"reading", "read", "asking"} => op[n].answer = "none"
    /\ op[n].at = "reading" /\ stored[n] # None => stored[n].fields \in since[n]
    /\ op[n].at \in {"read", "putting"} /\ op[n].rule # None => op[n].rule.fields \in since[n]
    /\ op[n].at = "putting" => op[n].rule # None

\* The backend may have done what the card asked, and the page has not heard.
Unsettled(n) ==
    \/ op[n].at \in {"putting", "deleting"} /\ op[n].answer \in {"ok", "saved", "lost"}
    \/ op[n].at \in {"rereading", "reread"}

\* A rule that no other client wrote: the page shows it as it is stored, unless an
\* answer about it or a list is still to come; and it is not made again once it is
\* gone.
CardIsTold(n) ==
    /\ load.at = "read" => load.got[n] = stored[n] \/ Unsettled(n)
    /\ ~left /\ shown # None =>
         shown[n] = stored[n] \/ Unsettled(n) \/ load # Overview!NoLoad \/ failed
    /\ shown # None /\ shown[n] = None => stored[n] = None
    /\ load.at = "read" /\ load.got[n] = None => stored[n] = None
    /\ op[n].at = "putting" /\ op[n].answer \in {"ok", "saved"} => stored[n] = op[n].rule
    /\ op[n].at = "deleting" /\ op[n].answer \in {"ok", "saved"} => stored[n] = None
    /\ op[n].at = "reread" => stored[n] = op[n].rule

OverviewInv ==
    /\ OverviewTypes
    /\ \A n \in Names : CardIsSound(n)
    /\ \A n \in Names \ doubt : CardIsTold(n)

LEMMA OverviewInit ==
    ASSUME Overview!OverviewAssumption, Overview!Init
    PROVE  OverviewInv
<1>1. load = [at |-> "asked", got |-> None]
    BY DEF Overview!Init, Overview!Asked
<1>2. Overview!Idle \in Cards
    BY DEF Overview!Idle, Cards
<1>3. /\ stored \in Overview!Lists /\ shown = None /\ failed = FALSE /\ left = FALSE
      /\ clicks \in 0..MaxClicks /\ doubt = {} /\ late = {}
      /\ since \in [Names -> SUBSET Fields] /\ op \in [Names -> Cards]
      /\ \A n \in Names : op[n] = Overview!Idle
    BY <1>2 DEF Overview!Init, Overview!Lists, Overview!OverviewAssumption
<1>4. OverviewTypes
    BY <1>1, <1>3 DEF OverviewTypes, Overview!OverviewTypeOK
<1> QED
    BY <1>1, <1>3, <1>4 DEF OverviewInv, CardIsSound, CardIsTold, Unsettled, Overview!Idle

LEMMA OverviewShows ==
    ASSUME OverviewInv
    PROVE  Overview!OverviewTypeOK /\ Overview!ShowsStored /\ Overview!HiddenKept
<1>1. Overview!ShowsStored
    <2> SUFFICES ASSUME Overview!Quiet, ~left, shown # None, NEW n \in Names \ doubt
                 PROVE  shown[n] = stored[n]
        BY DEF Overview!ShowsStored
    <2>1. op[n].at = "idle" /\ load = Overview!NoLoad /\ ~failed
        BY DEF Overview!Quiet, Overview!Idle
    <2> QED
        BY <2>1 DEF OverviewInv, CardIsTold, Unsettled
<1> QED
    BY <1>1 DEF OverviewInv, OverviewTypes, CardIsSound, Overview!HiddenKept

\* A step of the list or of the page leaves the rules and the cards alone.
LEMMA OverviewList ==
    ASSUME OverviewInv, \/ Overview!ListReads \/ Overview!ListArrives \/ Overview!ListFails
                        \/ Overview!Retry \/ Overview!Leave
    PROVE  OverviewInv'
<1>1. UNCHANGED <<stored, op, late, clicks, doubt, since>>
    BY DEF Overview!ListReads, Overview!ListArrives, Overview!ListFails, Overview!Retry,
           Overview!Leave, Overview!props
<1>2. OverviewTypes /\ None \notin Overview!Lists /\ stored \in Overview!Lists
    BY DEF OverviewInv, OverviewTypes, Overview!OverviewAssumption, Overview!OverviewTypeOK
<1>3. \/ /\ load = [at |-> "asked", got |-> None] /\ load' = [at |-> "read", got |-> stored]
         /\ UNCHANGED <<shown, failed, left>>
      \/ /\ load.at = "read" /\ load' = [at |-> "no", got |-> None] /\ shown' = load.got
         /\ UNCHANGED <<failed, left>>
      \/ /\ load # Overview!NoLoad /\ load' = [at |-> "no", got |-> None] /\ failed' = TRUE
         /\ UNCHANGED <<shown, left>>
      \/ /\ ~left /\ load' = [at |-> "asked", got |-> None] /\ failed' = FALSE
         /\ UNCHANGED <<shown, left>>
      \/ /\ load' = [at |-> "no", got |-> None] /\ left' = TRUE
         /\ UNCHANGED <<shown, failed>>
    BY DEF Overview!ListReads, Overview!ListArrives, Overview!ListFails, Overview!Retry,
           Overview!Leave, Overview!NoLoad, Overview!Asked, Overview!Reload
<1>4. OverviewTypes' /\ (shown # None => shown' # None)
    <2>1. load' \in [at : {"no", "asked", "read"}, got : Overview!Lists \cup {None}]
        BY <1>2, <1>3
    <2>2. shown' \in Overview!Lists \cup {None} /\ (shown # None => shown' # None)
        BY <1>2, <1>3 DEF OverviewTypes, Overview!OverviewTypeOK
    <2>3. /\ load'.at = "no" => load' = Overview!NoLoad
          /\ load'.at = "read" => load'.got \in Overview!Lists
          /\ left' => load' = Overview!NoLoad
        BY <1>2, <1>3 DEF OverviewTypes, Overview!NoLoad
    <2>4. failed' \in BOOLEAN /\ left' \in BOOLEAN
        BY <1>2, <1>3 DEF OverviewTypes, Overview!OverviewTypeOK
    <2> QED
        BY <1>1, <1>2, <2>1, <2>2, <2>3, <2>4 DEF OverviewTypes, Overview!OverviewTypeOK,
           Overview!OverviewAssumption
<1>5. ASSUME NEW n \in Names PROVE CardIsSound(n)'
    BY <1>1, <1>4 DEF OverviewInv, CardIsSound
<1>6. ASSUME NEW n \in Names \ doubt PROVE CardIsTold(n)'
    <2>1. Unsettled(n)' <=> Unsettled(n)
        BY <1>1 DEF Unsettled
    <2>2. CardIsTold(n)
        BY DEF OverviewInv
    <2> QED
        BY <1>1, <1>2, <1>3, <2>1, <2>2 DEF OverviewTypes, CardIsTold, Overview!NoLoad
<1> QED
    BY <1>1, <1>4, <1>5, <1>6 DEF OverviewInv

\* The list as it was, or asked for again.
ListKept == UNCHANGED <<load, failed>> \/ (load' = Overview!Asked /\ failed' = FALSE)

\* A step of the card of c changes nothing of the others.
LEMMA OverviewCard ==
    ASSUME OverviewInv, NEW c \in Names, NEW o \in Cards, op' = [op EXCEPT ![c] = o],
           ListKept, UNCHANGED left, clicks' \in 0..MaxClicks, late' \subseteq LateWrites,
           stored' \in Overview!Lists, \A n \in Names \ {c} : stored'[n] = stored[n],
           shown = None <=> shown' = None, shown' \in Overview!Lists \cup {None},
           shown # None => \A n \in Names \ {c} : shown'[n] = shown[n],
           left => UNCHANGED load,
           since' \in [Names -> SUBSET Fields], \A n \in Names \ {c} : since'[n] = since[n],
           doubt \subseteq doubt', doubt' \subseteq doubt \cup {c},
           CardIsSound(c)', c \notin doubt' => CardIsTold(c)'
    PROVE  OverviewInv'
<1>1. OverviewTypes'
    <2>1. op' \in [Names -> Cards]
        BY DEF OverviewInv, OverviewTypes
    <2>2. /\ load' \in [at : {"no", "asked", "read"}, got : Overview!Lists \cup {None}]
          /\ load'.at = "no" => load' = Overview!NoLoad
          /\ load'.at = "read" => load'.got \in Overview!Lists
          /\ left => load' = Overview!NoLoad
          /\ failed' \in BOOLEAN
        <3>1. CASE UNCHANGED <<load, failed>>
            BY <3>1 DEF OverviewInv, OverviewTypes, Overview!OverviewTypeOK
        <3>2. CASE load' = Overview!Asked /\ failed' = FALSE
            BY <3>2 DEF OverviewInv, OverviewTypes, Overview!Asked
        <3> QED
            BY <3>1, <3>2 DEF ListKept
    <2> QED
        BY <2>1, <2>2 DEF OverviewInv, OverviewTypes, Overview!OverviewTypeOK,
           Overview!OverviewAssumption, LateWrites
<1>2. ASSUME NEW n \in Names \ {c} PROVE CardIsSound(n)'
    <2>1. op'[n] = op[n]
        BY DEF OverviewInv, OverviewTypes
    <2> QED
        BY <2>1 DEF OverviewInv, CardIsSound
<1>3. ASSUME NEW n \in Names \ {c}, n \notin doubt' PROVE CardIsTold(n)'
    <2>1. op'[n] = op[n]
        BY DEF OverviewInv, OverviewTypes
    <2>2. CardIsTold(n) /\ (Unsettled(n)' <=> Unsettled(n))
        BY <1>3, <2>1 DEF OverviewInv, Unsettled
    <2>3. CASE UNCHANGED <<load, failed>>
        BY <2>1, <2>2, <2>3 DEF CardIsTold
    <2>4. CASE load' = Overview!Asked
        BY <2>1, <2>2, <2>4 DEF CardIsTold, Overview!Asked, Overview!NoLoad
    <2> QED
        BY <2>3, <2>4 DEF ListKept
<1> QED
    BY <1>1, <1>2, <1>3 DEF OverviewInv

\* A step of the card of c that changes only what the card does.
LEMMA OverviewQuiet ==
    ASSUME OverviewInv, NEW c \in Names, NEW o \in Cards, op' = [op EXCEPT ![c] = o],
           UNCHANGED <<stored, shown, load, failed, left, late, since>>,
           clicks' \in 0..MaxClicks,
           doubt \subseteq doubt', doubt' \subseteq doubt \cup {c},
           CardIsSound(c)', c \notin doubt' => CardIsTold(c)'
    PROVE  OverviewInv'
BY OverviewCard DEF ListKept, OverviewInv, OverviewTypes, Overview!OverviewTypeOK, LateWrites

LEMMA OverviewClick ==
    ASSUME OverviewInv, NEW c \in Names, Overview!Toggle(c) \/ Overview!Ask(c)
    PROVE  OverviewInv'
<1>1. /\ op[c] = Overview!Idle /\ shown # None /\ clicks' \in 0..MaxClicks
      /\ UNCHANGED <<stored, shown, load, failed, left, late, doubt>>
    BY DEF Overview!Toggle, Overview!Ask, Overview!Click, Overview!props, OverviewInv,
           OverviewTypes, Overview!OverviewTypeOK, Overview!OverviewAssumption
<1>2. c \notin doubt => CardIsTold(c)
    BY DEF OverviewInv
<1>3. CASE Overview!Toggle(c)
    <2> DEFINE o == [Overview!Idle EXCEPT !.at = "reading", !.want = ~shown[c].disabled]
    <2>1. op' = [op EXCEPT ![c] = o]
        BY <1>3 DEF Overview!Toggle, Overview!Set
    <2>2. shown[c].disabled \in BOOLEAN /\ (stored[c] # None => stored[c].fields \in Fields)
        BY <1>3 DEF Overview!Toggle, Overview!Click, OverviewInv, OverviewTypes,
           Overview!OverviewTypeOK, Overview!Lists, Overview!StoredRules
    <2>3. o \in Cards /\ o.at = "reading" /\ o.answer = "none"
        BY <2>2 DEF Overview!Idle, Cards
    <2>4. /\ since' \in [Names -> SUBSET Fields] /\ \A n \in Names \ {c} : since'[n] = since[n]
          /\ stored[c] # None => stored[c].fields \in since'[c]
        BY <1>3, <2>2 DEF Overview!Toggle, OverviewInv, OverviewTypes,
           Overview!OverviewTypeOK
    <2>5. op'[c] = o
        BY <2>1 DEF OverviewInv, OverviewTypes
    <2> HIDE DEF o
    <2>6. CardIsSound(c)' /\ (c \notin doubt => CardIsTold(c)')
        BY <1>1, <1>2, <2>3, <2>4, <2>5 DEF CardIsSound, CardIsTold, Unsettled,
           Overview!Idle
    <2> QED
        <3>1. /\ stored' \in Overview!Lists /\ shown' \in Overview!Lists \cup {None}
              /\ ListKept /\ doubt' = doubt /\ late' \subseteq LateWrites
            BY <1>1 DEF ListKept, OverviewInv, OverviewTypes, Overview!OverviewTypeOK, LateWrites
        <3> QED
            BY <1>1, <2>1, <2>3, <2>4, <2>6, <3>1, OverviewCard
<1>4. CASE Overview!Ask(c)
    <2> DEFINE o == [op[c] EXCEPT !.at = "asking"]
    <2>1. op' = [op EXCEPT ![c] = o] /\ UNCHANGED since
        BY <1>4 DEF Overview!Ask, Overview!At, Overview!Set, Overview!props
    <2>2. o \in Cards /\ o.at = "asking" /\ o.answer = "none"
        <3>1. op[c] \in Cards
            BY DEF OverviewInv, OverviewTypes
        <3>2. op[c].answer = "none"
            BY <1>1 DEF Overview!Idle
        <3> QED
            BY <3>1, <3>2 DEF Cards
    <2>3. op'[c] = o
        BY <2>1 DEF OverviewInv, OverviewTypes
    <2> HIDE DEF o
    <2>4. CardIsSound(c)' /\ (c \notin doubt => CardIsTold(c)')
        BY <1>1, <1>2, <2>1, <2>2, <2>3 DEF CardIsSound, CardIsTold, Unsettled,
           Overview!Idle
    <2> QED
        BY <1>1, <2>1, <2>2, <2>4, OverviewQuiet
<1> QED
    BY <1>3, <1>4

\* The card of a step that only reads or gives up.
LEMMA OverviewReads ==
    ASSUME OverviewInv, NEW c \in Names, Overview!RuleRead(c) \/ Overview!ReadFails(c)
    PROVE  OverviewInv'
<1>1. /\ UNCHANGED <<stored, shown, load, failed, left, late, clicks, since>>
      /\ clicks \in 0..MaxClicks /\ op[c] \in Cards /\ stored[c] \in Overview!StoredRules \cup {None}
      /\ CardIsSound(c) /\ (c \notin doubt => CardIsTold(c))
    BY DEF Overview!RuleRead, Overview!ReadFails, Overview!props, OverviewInv,
       OverviewTypes,
           Overview!OverviewTypeOK, Overview!Lists
<1>2. CASE Overview!RuleRead(c)
    <2> DEFINE o == [op[c] EXCEPT !.at = IF op[c].at = "reading" THEN "read" ELSE "reread",
                                  !.rule = stored[c]]
    <2>1. op[c].at \in {"reading", "rereading"} /\ UNCHANGED doubt
        BY <1>2 DEF Overview!RuleRead, Overview!props
    <2>2. op' = [op EXCEPT ![c] = o]
        BY <1>2 DEF Overview!RuleRead, Overview!Set
    <2>3. /\ o \in Cards /\ o.rule = stored[c] /\ o.answer = op[c].answer
          /\ o.at = IF op[c].at = "reading" THEN "read" ELSE "reread"
        BY <1>1, <2>1 DEF Cards
    <2>4. op'[c] = o
        BY <2>2 DEF OverviewInv, OverviewTypes
    <2> HIDE DEF o
    <2>5. CardIsSound(c)' /\ (c \notin doubt => CardIsTold(c)')
        BY <1>1, <2>1, <2>3, <2>4 DEF CardIsSound, CardIsTold, Unsettled
    <2> QED
        BY <1>1, <2>1, <2>2, <2>3, <2>5, OverviewQuiet
<1>3. CASE Overview!ReadFails(c)
    <2>1. /\ op' = [op EXCEPT ![c] = Overview!Idle]
          /\ op[c].at \in {"reading", "read", "rereading", "reread"}
          /\ doubt \subseteq doubt' /\ doubt' \subseteq doubt \cup {c}
          /\ op[c].at \in {"rereading", "reread"} => c \in doubt'
        BY <1>3 DEF Overview!ReadFails, Overview!Set
    <2>2. op'[c] = Overview!Idle /\ Overview!Idle \in Cards
        BY <2>1 DEF OverviewInv, OverviewTypes, Cards, Overview!Idle
    <2>3. CardIsSound(c)' /\ (c \notin doubt' => CardIsTold(c)')
        BY <1>1, <2>1, <2>2 DEF CardIsSound, CardIsTold, Unsettled, Overview!Idle
    <2> QED
        BY <1>1, <2>1, <2>2, <2>3, OverviewQuiet
<1> QED
    BY <1>2, <1>3

LEMMA OverviewPut ==
    ASSUME OverviewInv, NEW c \in Names, Overview!Put(c)
    PROVE  OverviewInv'
<1>1. /\ UNCHANGED <<stored, shown, load, failed, left, late, clicks, doubt, since>>
      /\ clicks \in 0..MaxClicks /\ op[c] \in Cards
      /\ CardIsSound(c) /\ (c \notin doubt => CardIsTold(c))
      /\ op[c].at = "read" /\ op[c].rule # None
    BY DEF Overview!Put, Overview!props, OverviewInv, OverviewTypes, Overview!OverviewTypeOK
<1> DEFINE o == IF left THEN Overview!Idle
                ELSE [op[c] EXCEPT !.at = "putting", !.rule = Overview!NextRule(c)]
<1>2. op' = [op EXCEPT ![c] = o]
    BY DEF Overview!Put, Overview!Set
<1>3. /\ Overview!NextRule(c) \in Overview!StoredRules /\ Overview!NextRule(c) # None
      /\ Overview!NextRule(c).fields = op[c].rule.fields
    BY <1>1 DEF Cards, Overview!NextRule, Overview!StoredRules, OverviewInv, OverviewTypes,
                Overview!OverviewAssumption
<1>4. /\ o \in Cards /\ o.answer = "none" /\ o.at \in {"idle", "putting"}
      /\ o.at = "putting" => o.rule = Overview!NextRule(c)
    BY <1>1, <1>3 DEF Cards, Overview!Idle, CardIsSound
<1>5. op'[c] = o
    BY <1>2 DEF OverviewInv, OverviewTypes
<1> HIDE DEF o
<1>6. CardIsSound(c)' /\ (c \notin doubt => CardIsTold(c)')
    BY <1>1, <1>3, <1>4, <1>5 DEF CardIsSound, CardIsTold, Unsettled
<1> QED
    BY <1>1, <1>2, <1>4, <1>6, OverviewQuiet

\* What the backend does about a put or a delete.
LEMMA OverviewBackend ==
    ASSUME OverviewInv, NEW c \in Names, Overview!BackendPuts(c) \/ Overview!BackendDeletes(c)
    PROVE  OverviewInv'
<1>1. /\ UNCHANGED <<shown, load, failed, left, clicks, doubt, since>>
      /\ clicks \in 0..MaxClicks /\ op[c] \in Cards /\ stored \in Overview!Lists
      /\ late \subseteq LateWrites
      /\ CardIsSound(c) /\ (c \notin doubt => CardIsTold(c))
      /\ op[c].at \in {"putting", "deleting"} /\ op[c].answer = "none"
    BY DEF Overview!BackendPuts, Overview!BackendDeletes, Overview!Backend, Overview!props,
           OverviewInv, OverviewTypes, Overview!OverviewTypeOK, LateWrites
<1> DEFINE given == IF op[c].at = "putting" THEN op[c].rule ELSE None
<1>2. Overview!Backend(c, given) /\ given \in Overview!StoredRules \cup {None}
    BY <1>1 DEF Overview!BackendPuts, Overview!BackendDeletes, Cards
<1> HIDE DEF given
<1>3. PICK a \in {"ok", "saved", "refused", "lost"} :
        /\ op' = [op EXCEPT ![c] = [op[c] EXCEPT !.answer = a]]
        /\ \/ /\ stored[c] # None /\ a \in {"ok", "saved"}
              /\ stored' = [stored EXCEPT ![c] = given] /\ UNCHANGED late
           \/ /\ a \in {"refused", "lost"} /\ UNCHANGED stored
              /\ late' \subseteq late \cup {[name |-> c, rule |-> given, click |-> clicks]}
    BY <1>2 DEF Overview!Backend, Overview!Set
<1> DEFINE o == [op[c] EXCEPT !.answer = a]
<1>4. o \in Cards /\ o.answer = a /\ o.at = op[c].at /\ o.rule = op[c].rule
    BY <1>1 DEF Cards
<1>5. op'[c] = o /\ op' = [op EXCEPT ![c] = o]
    BY <1>3 DEF OverviewInv, OverviewTypes
<1> HIDE DEF o
<1>6. /\ stored' \in Overview!Lists /\ \A n \in Names \ {c} : stored'[n] = stored[n]
      /\ late' \subseteq LateWrites
    BY <1>1, <1>2, <1>3 DEF Overview!Lists, LateWrites
<1>7. /\ stored'[c] = stored[c] \/ (stored[c] # None /\ stored'[c] = given)
      /\ a \in {"ok", "saved"} => stored[c] # None /\ stored'[c] = given
      /\ a \notin {"ok", "saved"} => stored'[c] = stored[c]
    BY <1>1, <1>3 DEF Overview!Lists
<1>8. CardIsSound(c)'
    BY <1>1, <1>4, <1>5, <1>7 DEF CardIsSound
<1>9. ASSUME c \notin doubt PROVE CardIsTold(c)'
    BY <1>1, <1>4, <1>5, <1>7, <1>9 DEF CardIsTold, Unsettled, given
<1>10. /\ shown' \in Overview!Lists \cup {None} /\ since' \in [Names -> SUBSET Fields]
       /\ ListKept
    BY <1>1 DEF OverviewInv, OverviewTypes, Overview!OverviewTypeOK, ListKept
<1> QED
    BY <1>1, <1>4, <1>5, <1>6, <1>8, <1>9, <1>10, OverviewCard

\* adopt: the rule takes the place of the copy, which is there for a rule that is.
LEMMA OverviewAdopt ==
    ASSUME OverviewInv, NEW c \in Names, NEW w \in Overview!StoredRules,
           op' = [op EXCEPT ![c] = Overview!Idle], Overview!AdoptUnlessLeft(c, w),
           UNCHANGED <<stored, left, late, clicks, doubt, since>>, op[c].at # "idle",
           c \notin doubt => stored[c] = w
    PROVE  OverviewInv'
<1>1. /\ clicks \in 0..MaxClicks /\ stored \in Overview!Lists /\ w # None
      /\ since \in [Names -> SUBSET Fields] /\ op'[c] = Overview!Idle /\ shown \in Overview!Lists
      /\ shown # None /\ None \notin Overview!Lists
      /\ left => load = Overview!NoLoad
      /\ c \notin doubt => CardIsTold(c)
      /\ late' \subseteq LateWrites
    BY DEF OverviewInv, OverviewTypes, Overview!OverviewTypeOK, CardIsSound,
           Overview!OverviewAssumption, LateWrites
<1>2. Overview!Idle \in Cards
    BY DEF Overview!Idle, Cards
<1>3. /\ ListKept /\ (left => UNCHANGED <<shown, load, failed>>)
      /\ shown' = shown \/ (shown[c] # None /\ shown' = [shown EXCEPT ![c] = w])
      /\ ~left /\ shown[c] # None => shown' = [shown EXCEPT ![c] = w]
      /\ ~left /\ load # Overview!NoLoad => load' = Overview!Asked
    BY DEF Overview!AdoptUnlessLeft, Overview!Adopt, ListKept, Overview!Reload
<1>4. shown' \in Overview!Lists /\ \A n \in Names \ {c} : shown'[n] = shown[n]
    BY <1>1, <1>3 DEF Overview!Lists
<1>5. CardIsSound(c)'
    BY <1>1, <1>4 DEF CardIsSound, Overview!Idle
<1>6. ASSUME c \notin doubt PROVE CardIsTold(c)'
    <2>1. shown[c] # None /\ (~left => shown'[c] = stored'[c]) /\ shown'[c] # None
        BY <1>1, <1>3, <1>6 DEF CardIsTold, Overview!Lists
    <2>2. load'.at # "read"
        BY <1>1, <1>3 DEF OverviewInv, OverviewTypes, ListKept, Overview!Asked,
           Overview!NoLoad
    <2> QED
        BY <1>1, <2>1, <2>2 DEF CardIsTold, Overview!Idle
<1> QED
    BY <1>1, <1>2, <1>3, <1>4, <1>5, <1>6, OverviewCard

LEMMA OverviewAnswered ==
    ASSUME OverviewInv, NEW c \in Names, Overview!PutAnswered(c) \/ Overview!ReRead(c)
    PROVE  OverviewInv'
<1>1. /\ UNCHANGED <<stored, left, late, clicks, doubt, since>>
      /\ clicks \in 0..MaxClicks /\ op[c] \in Cards
      /\ CardIsSound(c) /\ (c \notin doubt => CardIsTold(c))
    BY DEF Overview!PutAnswered, Overview!ReRead, Overview!props, OverviewInv,
       OverviewTypes,
           Overview!OverviewTypeOK
<1>2. CASE Overview!ReRead(c)
    <2>1. /\ op[c].at = "reread" /\ op[c].rule # None /\ Overview!AdoptUnlessLeft(c, op[c].rule)
          /\ op' = [op EXCEPT ![c] = Overview!Idle]
        BY <1>2 DEF Overview!ReRead, Overview!Set
    <2>2. op[c].rule \in Overview!StoredRules /\ (c \notin doubt => stored[c] = op[c].rule)
        BY <1>1, <2>1 DEF CardIsTold, Cards
    <2> QED
        BY <1>1, <2>1, <2>2, OverviewAdopt
<1>3. CASE Overview!PutAnswered(c) /\ op[c].answer \in {"ok", "saved"}
    <2>1. /\ op[c].at = "putting" /\ Overview!AdoptUnlessLeft(c, op[c].rule)
          /\ op' = [op EXCEPT ![c] = Overview!Idle]
        BY <1>3 DEF Overview!PutAnswered, Overview!Set
    <2>2. op[c].rule \in Overview!StoredRules /\ (c \notin doubt => stored[c] = op[c].rule)
        BY <1>1, <1>3, <2>1 DEF CardIsTold, CardIsSound, Cards
    <2> QED
        BY <1>1, <2>1, <2>2, OverviewAdopt
<1>4. CASE Overview!PutAnswered(c) /\ op[c].answer = "lost" /\ ~left
    <2> DEFINE o == [op[c] EXCEPT !.at = "rereading", !.answer = "none"]
    <2>1. /\ op[c].at = "putting" /\ op' = [op EXCEPT ![c] = o]
          /\ UNCHANGED <<shown, load, failed>>
        BY <1>4 DEF Overview!PutAnswered, Overview!Set
    <2>2. o \in Cards /\ o.at = "rereading" /\ op'[c] = o
        BY <1>1, <2>1 DEF Cards, OverviewInv, OverviewTypes
    <2> HIDE DEF o
    <2>3. CardIsSound(c)' /\ (c \notin doubt => CardIsTold(c)')
        BY <1>1, <2>1, <2>2 DEF CardIsSound, CardIsTold, Unsettled
    <2> QED
        BY <1>1, <2>1, <2>2, <2>3, OverviewQuiet
<1>5. CASE /\ Overview!PutAnswered(c) /\ op[c].answer \notin {"ok", "saved"}
           /\ ~(op[c].answer = "lost" /\ ~left)
    <2>1. /\ op[c].at = "putting" /\ op' = [op EXCEPT ![c] = Overview!Idle]
          /\ op[c].answer # "none" /\ UNCHANGED <<shown, load, failed>>
        BY <1>5 DEF Overview!PutAnswered, Overview!Set
    <2>2. op'[c] = Overview!Idle /\ Overview!Idle \in Cards
        BY <2>1 DEF OverviewInv, OverviewTypes, Overview!Idle, Cards
    <2>3. op[c].answer = "refused" \/ (left /\ load.at # "read")
        BY <1>1, <1>5, <2>1 DEF Cards, OverviewInv, OverviewTypes, Overview!NoLoad
    <2>4. CardIsSound(c)'
        BY <1>1, <2>1, <2>2 DEF CardIsSound, Overview!Idle
    <2>5. c \notin doubt => CardIsTold(c)'
        BY <1>1, <2>1, <2>2, <2>3 DEF CardIsTold, Unsettled, Overview!Idle
    <2> QED
        BY <1>1, <2>1, <2>2, <2>4, <2>5, OverviewQuiet
<1> QED
    BY <1>2, <1>3, <1>4, <1>5

LEMMA OverviewDelete ==
    ASSUME OverviewInv, NEW c \in Names,
           (\E ok \in BOOLEAN : Overview!Answer(c, ok)) \/ Overview!DeleteAnswered(c)
    PROVE  OverviewInv'
<1>1. /\ UNCHANGED <<stored, left, late, clicks, doubt, since>>
      /\ clicks \in 0..MaxClicks /\ op[c] \in Cards
      /\ CardIsSound(c) /\ (c \notin doubt => CardIsTold(c))
      /\ op[c].at \in {"asking", "deleting"} /\ shown # None
    BY DEF Overview!Answer, Overview!DeleteAnswered, Overview!props, OverviewInv,
           OverviewTypes, Overview!OverviewTypeOK, CardIsSound
<1>2. Overview!Idle \in Cards
    BY DEF Overview!Idle, Cards
<1>3. CASE \E ok \in BOOLEAN : Overview!Answer(c, ok)
    <2> DEFINE o == [op[c] EXCEPT !.at = "deleting"]
    <2>1. /\ op[c].at = "asking" /\ UNCHANGED <<shown, load, failed>>
          /\ op' = [op EXCEPT ![c] = o] \/ op' = [op EXCEPT ![c] = Overview!Idle]
        BY <1>3 DEF Overview!Answer, Overview!At, Overview!Set, Overview!props
    <2>2. /\ o \in Cards /\ o.at = "deleting" /\ o.answer = "none"
          /\ op'[c] \in {o, Overview!Idle} /\ op' = [op EXCEPT ![c] = op'[c]]
        BY <1>1, <2>1 DEF Cards, CardIsSound, OverviewInv, OverviewTypes
    <2> HIDE DEF o
    <2>3. CardIsSound(c)' /\ (c \notin doubt => CardIsTold(c)')
        BY <1>1, <2>1, <2>2 DEF CardIsSound, CardIsTold, Unsettled, Overview!Idle
    <2> QED
        BY <1>1, <1>2, <2>1, <2>2, <2>3, OverviewQuiet
<1>4. CASE Overview!DeleteAnswered(c)
    <2>1. /\ op[c].at = "deleting" /\ op[c].answer # "none"
          /\ op' = [op EXCEPT ![c] = Overview!Idle]
        BY <1>4 DEF Overview!DeleteAnswered, Overview!Set
    <2>2. op'[c] = Overview!Idle
        BY <2>1 DEF OverviewInv, OverviewTypes
    <2>3. CASE left \/ op[c].answer = "refused"
        <3>1. UNCHANGED <<shown, load, failed>> /\ (left => load.at # "read")
            BY <1>4, <2>3 DEF Overview!DeleteAnswered, OverviewInv, OverviewTypes,
               Overview!NoLoad
        <3>2. CardIsSound(c)' /\ (c \notin doubt => CardIsTold(c)')
            BY <1>1, <2>1, <2>2, <2>3, <3>1 DEF CardIsSound, CardIsTold, Unsettled,
               Overview!Idle
        <3> QED
            BY <1>1, <1>2, <2>1, <3>1, <3>2, OverviewQuiet
    <2>4. CASE ~left /\ op[c].answer # "refused"
        <3>1. /\ load' = Overview!Asked /\ failed' = FALSE
              /\ shown' = IF op[c].answer = "lost" THEN shown ELSE [shown EXCEPT ![c] = None]
            BY <1>4, <2>4 DEF Overview!DeleteAnswered, Overview!Reload
        <3>2. /\ shown \in Overview!Lists /\ stored' \in Overview!Lists
              /\ since' \in [Names -> SUBSET Fields] /\ None \notin Overview!Lists
              /\ late' \subseteq LateWrites
            BY <1>1 DEF OverviewInv, OverviewTypes, Overview!OverviewTypeOK,
               Overview!OverviewAssumption, LateWrites
        <3>3. /\ shown' \in Overview!Lists /\ \A n \in Names \ {c} : shown'[n] = shown[n]
              /\ shown'[c] = shown[c] \/ (op[c].answer # "lost" /\ shown'[c] = None)
            BY <3>1, <3>2 DEF Overview!Lists
        <3>4. CardIsSound(c)'
            BY <2>2, <3>2, <3>3 DEF CardIsSound, Overview!Idle
        <3>5. op[c].answer \in {"ok", "saved", "lost"}
            BY <1>1, <2>1, <2>4 DEF Cards
        <3>6. ASSUME c \notin doubt PROVE CardIsTold(c)'
            BY <1>1, <2>1, <2>2, <3>1, <3>3, <3>5, <3>6
               DEF CardIsTold, Overview!Idle, Overview!Asked, Overview!NoLoad
        <3> QED
            BY <1>1, <1>2, <2>1, <2>4, <3>1, <3>2, <3>3, <3>4, <3>6,
               OverviewCard DEF ListKept
    <2> QED
        BY <2>3, <2>4
<1> QED
    BY <1>3, <1>4

LEMMA OverviewOthers ==
    ASSUME OverviewInv, NEW c \in Names, Overview!OthersWrite(c)
    PROVE  OverviewInv'
<1>1. /\ UNCHANGED <<shown, load, failed, left, op, late, clicks>> /\ doubt' = doubt \cup {c}
      /\ late' \subseteq LateWrites
      /\ clicks \in 0..MaxClicks /\ op \in [Names -> Cards] /\ stored \in Overview!Lists
      /\ since \in [Names -> SUBSET Fields] /\ CardIsSound(c)
      /\ shown' \in Overview!Lists \cup {None}
    BY DEF Overview!OthersWrite, OverviewInv, OverviewTypes, Overview!OverviewTypeOK, LateWrites
<1>2. PICK w \in Overview!StoredRules \cup {None} :
        /\ stored' = [stored EXCEPT ![c] = w]
        /\ since' = [since EXCEPT ![c] = IF w = None THEN since[c] ELSE since[c] \cup {w.fields}]
    BY DEF Overview!OthersWrite
<1>3. /\ stored' \in Overview!Lists /\ \A n \in Names \ {c} : stored'[n] = stored[n]
      /\ stored'[c] = w
    BY <1>1, <1>2 DEF Overview!Lists
<1>4. w # None => w.fields \in Fields
    BY DEF Overview!StoredRules
<1>5. /\ since' \in [Names -> SUBSET Fields] /\ \A n \in Names \ {c} : since'[n] = since[n]
      /\ since[c] \subseteq since'[c] /\ (w # None => w.fields \in since'[c])
    BY <1>1, <1>2, <1>4
<1>6. op' = [op EXCEPT ![c] = op[c]] /\ op[c] \in Cards
    BY <1>1
<1>7. CardIsSound(c)'
    BY <1>1, <1>3, <1>5 DEF CardIsSound
<1> QED
    BY <1>1, <1>3, <1>5, <1>6, <1>7, OverviewCard DEF ListKept

\* A late write that is applied: of a rule that is not in doubt a read is ahead.
LEMMA OverviewLands ==
    ASSUME OverviewInv, Overview!Lands
    PROVE  OverviewInv'
<1>1. PICK w \in late :
        /\ stored[w.name] # None /\ stored' = [stored EXCEPT ![w.name] = w.rule]
        /\ late' = late \ {w}
        /\ since' = [since EXCEPT ![w.name] = IF w.rule = None THEN since[w.name]
                                              ELSE since[w.name] \cup {w.rule.fields}]
        /\ doubt' = IF Overview!ReadAhead(w.name) THEN doubt ELSE doubt \cup {w.name}
        /\ UNCHANGED <<shown, load, failed, left, op, clicks>>
    BY DEF Overview!Lands
<1> DEFINE c == w.name
<1>2. /\ clicks' \in 0..MaxClicks /\ op \in [Names -> Cards] /\ stored \in Overview!Lists
      /\ since \in [Names -> SUBSET Fields] /\ shown' \in Overview!Lists \cup {None}
      /\ late' \subseteq LateWrites /\ w \in LateWrites
    BY <1>1 DEF OverviewInv, OverviewTypes, Overview!OverviewTypeOK, LateWrites
<1>3. c \in Names /\ w.rule \in Overview!StoredRules \cup {None}
    BY <1>2 DEF LateWrites
<1> HIDE DEF c
<1>4. /\ stored' \in Overview!Lists /\ \A n \in Names \ {c} : stored'[n] = stored[n]
      /\ stored'[c] = w.rule
    BY <1>1, <1>2, <1>3 DEF Overview!Lists, c
<1>5. w.rule # None => w.rule.fields \in Fields
    BY <1>3 DEF Overview!StoredRules
<1>6. /\ since' \in [Names -> SUBSET Fields] /\ \A n \in Names \ {c} : since'[n] = since[n]
      /\ since[c] \subseteq since'[c] /\ (w.rule # None => w.rule.fields \in since'[c])
    BY <1>1, <1>2, <1>3, <1>5 DEF c
<1>7. /\ op' = [op EXCEPT ![c] = op[c]] /\ op[c] \in Cards /\ op'[c] = op[c]
      /\ doubt \subseteq doubt' /\ doubt' \subseteq doubt \cup {c}
      /\ c \notin doubt' => Overview!ReadAhead(c) /\ c \notin doubt
      /\ stored[c] # None
    BY <1>1, <1>2, <1>3 DEF c
<1>8. CardIsSound(c)'
    <2>1. CardIsSound(c)
        BY <1>3 DEF OverviewInv
    <2> QED
        BY <1>1, <1>4, <1>6, <1>7, <2>1 DEF CardIsSound
<1>9. ASSUME c \notin doubt' PROVE CardIsTold(c)'
    <2>1. CardIsTold(c) /\ Overview!ReadAhead(c)
        BY <1>3, <1>7, <1>9 DEF OverviewInv
    <2>2. /\ (Unsettled(c) \/ load.at = "asked")
          /\ ~(op[c].at = "putting" /\ op[c].answer \in {"ok", "saved"})
          /\ ~(op[c].at = "deleting" /\ op[c].answer \in {"ok", "saved"})
          /\ op[c].at # "reread"
        BY <1>7, <2>1 DEF Overview!ReadAhead, CardIsTold, Unsettled, Overview!Asked
    <2>3. Unsettled(c)' <=> Unsettled(c)
        BY <1>7 DEF Unsettled
    <2>4. /\ ~(shown # None /\ shown[c] = None) /\ ~(load.at = "read" /\ load.got[c] = None)
        BY <1>7, <2>1 DEF CardIsTold
    <2> QED
        BY <1>1, <1>7, <2>2, <2>3, <2>4 DEF CardIsTold, Overview!NoLoad
<1> QED
    BY <1>1, <1>2, <1>3, <1>4, <1>6, <1>7, <1>8, <1>9, OverviewCard DEF ListKept

LEMMA OverviewStep ==
    ASSUME OverviewInv, Overview!Next
    PROVE  OverviewInv'
BY OverviewList, OverviewClick, OverviewReads, OverviewPut, OverviewBackend,
   OverviewAnswered,
   OverviewDelete, OverviewOthers, OverviewLands DEF Overview!Next

\* A page that was left starts no write.
LEMMA OverviewLeft ==
    ASSUME OverviewInv, Overview!Next
    PROVE  Overview!NothingSent
<1> SUFFICES ASSUME left, NEW n \in Names, op'[n].at \in {"putting", "deleting"}
             PROVE  op[n].at = op'[n].at
    BY DEF Overview!NothingSent
<1>1. CASE UNCHANGED op
    BY <1>1
<1>2. CASE \E c \in Names, o \in {Overview!Idle} : op' = [op EXCEPT ![c] = o]
    BY <1>2 DEF OverviewInv, OverviewTypes, Overview!Idle
<1>3. ASSUME NEW c \in Names, Overview!RuleRead(c) PROVE op[n].at = op'[n].at
    BY <1>3 DEF Overview!RuleRead, Overview!Set, OverviewInv, OverviewTypes
<1>4. ASSUME NEW c \in Names, Overview!BackendPuts(c) \/ Overview!BackendDeletes(c)
      PROVE  op[n].at = op'[n].at
    <2>1. PICK a : op' = [op EXCEPT ![c] = [op[c] EXCEPT !.answer = a]]
        BY <1>4 DEF Overview!BackendPuts, Overview!BackendDeletes, Overview!Backend,
           Overview!Set
    <2> QED
        BY <2>1 DEF OverviewInv, OverviewTypes, Cards
<1>5. ASSUME NEW c \in Names, Overview!PutAnswered(c)
      PROVE  op' = [op EXCEPT ![c] = Overview!Idle]
    BY <1>5 DEF Overview!PutAnswered, Overview!Set
<1> QED
    BY <1>1, <1>2, <1>3, <1>4, <1>5
       DEF Overview!Next, Overview!ListReads, Overview!ListArrives, Overview!ListFails,
           Overview!Retry, Overview!Leave, Overview!Toggle, Overview!Ask, Overview!Click,
           Overview!ReadFails, Overview!Put, Overview!ReRead, Overview!Answer,
           Overview!Lands, Overview!GoesOn, Overview!DeleteAnswered, Overview!OthersWrite, Overview!Set

-----------------------------------------------------------------------------
(* The settings.                                                           *)

Puts == [form : Settings!Forms, body : Values,
         answer : {"none", "ok", "saved", "refused", "lost"}]

\* No save is under way before the page is loaded, and the form that is being
\* saved stays as it was sent: its fields are disabled.  What a form takes for
\* saved is what the page was told.
SettingsInv ==
    /\ Settings!SettingsAssumption /\ Settings!SettingsTypeOK
    /\ load \in [at : {"no", "asked", "failed"}, got : [Settings!Forms -> Values \cup {None}]]
    /\ put \in Puts \cup {Settings!NoPut}
    /\ ready => load.at = "no" /\ baseline = told
    /\ ~ready => put = Settings!NoPut
    /\ put # Settings!NoPut => draft[put.form].value = put.body

LEMMA SettingsInit ==
    ASSUME Settings!SettingsAssumption, Settings!Init
    PROVE  SettingsInv
<1>1. PICK v \in Values : TRUE
    BY DEF Settings!SettingsAssumption
<1>2. [value |-> CHOOSE w \in Values : TRUE, tidy |-> TRUE] \in Settings!Drafts
    BY <1>1 DEF Settings!Drafts
<1>3. Settings!NoLoad \in [at : {"no", "asked", "failed"},
                           got : [Settings!Forms -> Values \cup {None}]]
    BY DEF Settings!NoLoad
<1>4. /\ disk \in [Settings!Forms -> Values]
      /\ baseline \in [Settings!Forms -> Values \cup {None}]
      /\ told \in [Settings!Forms -> Values \cup {None}]
    BY DEF Settings!Init, Settings!SettingsAssumption
<1>5. draft \in [Settings!Forms -> Settings!Drafts]
    BY <1>2 DEF Settings!Init
<1>6. load \in [at : {"no", "asked", "failed"},
got : [Settings!Forms -> Values \cup {None}]]
    BY <1>3 DEF Settings!Init
<1>7. ready = FALSE /\ portInvalid = FALSE /\ focus = "none" /\ saves \in 0..MaxSaves
      /\ put = Settings!NoPut
    BY DEF Settings!Init, Settings!SettingsAssumption
<1> QED
    BY <1>4, <1>5, <1>6, <1>7 DEF SettingsInv, Settings!SettingsTypeOK

LEMMA SettingsClean ==
    ASSUME SettingsInv
    PROVE  Settings!SettingsTypeOK /\ Settings!CleanFormIsTold
BY DEF SettingsInv, Settings!SettingsTypeOK, Settings!CleanFormIsTold, Settings!Dirty,
       Settings!Snapshot

LEMMA SettingsStep ==
    ASSUME SettingsInv, Settings!Next
    PROVE  SettingsInv'
<1> USE DEF SettingsInv, Settings!SettingsTypeOK, Settings!SettingsAssumption
<1> Settings!NoPut.answer = "none" /\ Settings!NoPut.form \notin Settings!Forms
    BY DEF Settings!NoPut, Settings!Forms
<1> Settings!NoLoad \in [at : {"no", "asked", "failed"},
                         got : [Settings!Forms -> Values \cup {None}]]
    BY DEF Settings!NoLoad
<1> Settings!NoLoad.at = "no"
    BY DEF Settings!NoLoad
<1>1. CASE \E f \in Settings!Forms : Settings!LoadReads(f)
    BY <1>1 DEF Settings!LoadReads
<1>2. CASE Settings!LoadArrives
    BY <1>2 DEF Settings!LoadArrives, Settings!Drafts
<1>3. CASE Settings!LoadFails \/ Settings!Retry
    BY <1>3 DEF Settings!LoadFails, Settings!Retry
<1>4. CASE \E f \in Settings!Forms, d \in Settings!Drafts : Settings!Type(f, d)
    BY <1>4 DEF Settings!Type, Settings!Busy
<1>5. CASE Settings!Blur
    BY <1>5 DEF Settings!Blur
<1>6. CASE \E f \in Settings!Forms : Settings!Save(f)
    <2> PICK f \in Settings!Forms : Settings!Save(f)
        BY <1>6
    <2>1. draft[f].value \in Values
        BY DEF Settings!Drafts
    <2>2. CASE draft[f].value \in Settings!Usable(f)
        <3>1. [form |-> f, body |-> draft[f].value, answer |-> "none"] \in Puts
            BY <2>1 DEF Puts
        <3> QED
            BY <2>2, <3>1 DEF Settings!Save, Settings!MaySave
    <2>3. CASE draft[f].value \notin Settings!Usable(f)
        BY <2>3 DEF Settings!Save, Settings!MaySave
    <2> QED
        BY <2>2, <2>3
<1>7. CASE Settings!BackendPuts
    BY <1>7 DEF Settings!BackendPuts, Settings!Busy, Puts
<1>8. CASE Settings!Answered
    <2>1. put \in Puts /\ ready
        BY <1>8 DEF Settings!Answered
    <2>2. CASE put.answer \in {"ok", "saved"}
        BY <1>8, <2>1, <2>2 DEF Settings!Answered, Settings!MarkClean, Settings!Snapshot,
           Puts
    <2>3. CASE put.answer \notin {"ok", "saved"}
        BY <1>8, <2>1, <2>3 DEF Settings!Answered
    <2> QED
        BY <2>2, <2>3
<1>9. CASE Settings!OthersWrite
    BY <1>9 DEF Settings!OthersWrite
<1>10. Settings!Target \subseteq Settings!Forms
    BY DEF Settings!Target
<1> QED
    BY <1>1, <1>2, <1>3, <1>4, <1>5, <1>6, <1>7, <1>8, <1>9, <1>10
       DEF Settings!Next, Settings!TypeAddress, Settings!TypeBypass, Settings!Submit,
           Settings!SaveFocused, Settings!Forms

-----------------------------------------------------------------------------
(* The URL builder.                                                        *)

\* Texts that the decoding of a URL leaves as they are: what it makes of any text.
Plain(t) == t \notin {"odd%", "bad%25", "x@u%"}
Credentials == {"username", "password", "identity", "encrypto"}

\* The dialog shows every field of its layout, and credentials that are decoded.
Shows(b) ==
    /\ b.layout \in UrlBuilder!Layouts
    /\ b = [layout |-> b.layout,
            values |-> [f \in UrlBuilder!FieldsOf(b.layout) |-> b.values[f]]]
    /\ \A f \in UrlBuilder!FieldsOf(b.layout) : b.values[f] # None
    /\ \A f \in Credentials \cap UrlBuilder!FieldsOf(b.layout) : Plain(b.values[f])

BuilderInv ==
    /\ UrlBuilder!UrlBuilderAssumption /\ UrlBuilder!UrlBuilderTypeOK
    /\ builder # None => Shows(builder)

LEMMA CodingIsUndone ==
    /\ \A t : Plain(UrlBuilder!Decoded(t))
    /\ \A t : Plain(t) => /\ UrlBuilder!Encoded(t) # "odd"
                          /\ UrlBuilder!Decoded(UrlBuilder!Encoded(t)) = t
BY DEF Plain, UrlBuilder!Decoded, UrlBuilder!Encoded

LEMMA NothingIsNothing ==
    /\ UrlBuilder!Decoded("x@u%") = "x@u"
    /\ \A t : UrlBuilder!Encoded(t) = "" <=> t = ""
    /\ \A t : UrlBuilder!Decoded(t) = "" <=> t = ""
BY DEF UrlBuilder!Decoded, UrlBuilder!Encoded

LEMMA EditsAreFew ==
    ASSUME UrlBuilder!UrlBuilderAssumption
    PROVE  0 \in 0..MaxEdits /\ \A n \in 0..MaxEdits : n < MaxEdits => n + 1 \in 0..MaxEdits
<1>1. MaxEdits \in Nat
    BY DEF UrlBuilder!UrlBuilderAssumption
<1> QED
    BY <1>1

LEMMA OneLayout ==
    /\ \A l \in UrlBuilder!Layouts : UrlBuilder!LayoutsFor(UrlBuilder!SchemeOf(l)) = {l}
    /\ \A s : \A l \in UrlBuilder!LayoutsFor(s) : UrlBuilder!LayoutsFor(s) = {l}
BY DEF UrlBuilder!LayoutsFor, UrlBuilder!SchemeOf, UrlBuilder!Layouts

\* What a dialog starts from.
LEMMA StartIsShown ==
    ASSUME UrlBuilder!UrlBuilderAssumption, NEW l \in UrlBuilder!Layouts, NEW found,
           \A f \in DOMAIN found \cap Credentials : Plain(found[f])
    PROVE  Shows([layout |-> l, values |-> UrlBuilder!InitialValues(l, found)])
<1> DEFINE v == UrlBuilder!InitialValues(l, found)
<1>1. \A f \in Credentials : Plain(UrlBuilder!Default(l, f))
    BY DEF Plain, Credentials, UrlBuilder!Default
<1>2. v = [f \in UrlBuilder!FieldsOf(l) |-> v[f]]
    BY DEF UrlBuilder!InitialValues
<1>3. \A f \in UrlBuilder!FieldsOf(l) :
         v[f] = IF f \in DOMAIN found /\ found[f] # None THEN found[f]
                ELSE UrlBuilder!Default(l, f)
    BY DEF UrlBuilder!InitialValues
<1>4. \A f \in UrlBuilder!FieldsOf(l) : v[f] # None
    BY <1>3 DEF UrlBuilder!UrlBuilderAssumption
<1>5. \A f \in Credentials \cap UrlBuilder!FieldsOf(l) : Plain(v[f])
    BY <1>1, <1>3
<1> HIDE DEF v
<1> QED
    BY <1>2, <1>4, <1>5 DEF Shows, v

\* What is read of a URL is decoded.
LEMMA ReadIsShown ==
    ASSUME UrlBuilder!UrlBuilderAssumption, NEW url, NEW p \in UrlBuilder!ParseURL(url)
    PROVE  /\ p.layout \in UrlBuilder!Layouts
           /\ Shows([layout |-> p.layout,
                     values |-> UrlBuilder!InitialValues(p.layout, p.values)])
<1>1. PICK k \in UrlBuilder!LayoutsFor(url.scheme) :
         p = [layout |-> k,
              values |-> IF k \in UrlBuilder!Commands THEN [command |-> url.command]
                 ELSE [username |-> UrlBuilder!Decoded(UrlBuilder!UsernameRead(url)),
                       password |-> UrlBuilder!Decoded(UrlBuilder!PasswordRead(url)),
                       host |-> UrlBuilder!HostRead(url), port |-> UrlBuilder!PortRead(url),
                       identity |-> UrlBuilder!Decoded(UrlBuilder!IdentityRead(url)),
                       encrypto |-> UrlBuilder!Decoded(UrlBuilder!UsernameRead(url))]]
    BY DEF UrlBuilder!ParseURL
<1>2. p.layout = k /\ k \in UrlBuilder!Layouts
    BY <1>1 DEF UrlBuilder!LayoutsFor
<1>3. \A f \in DOMAIN p.values \cap Credentials : Plain(p.values[f])
  <2>1. CASE k \in UrlBuilder!Commands
      BY <1>1, <2>1 DEF Credentials
  <2>2. CASE k \notin UrlBuilder!Commands
      <3>1. /\ p.values["username"] = UrlBuilder!Decoded(UrlBuilder!UsernameRead(url))
            /\ p.values["password"] = UrlBuilder!Decoded(UrlBuilder!PasswordRead(url))
            /\ p.values["identity"] = UrlBuilder!Decoded(UrlBuilder!IdentityRead(url))
            /\ p.values["encrypto"] = UrlBuilder!Decoded(UrlBuilder!UsernameRead(url))
          BY <1>1, <2>2
      <3>2. \A f \in Credentials : Plain(p.values[f])
          BY <3>1, CodingIsUndone DEF Credentials
      <3> QED
          BY <3>2
  <2> QED
      BY <2>1, <2>2
<1> QED
    BY <1>2, <1>3, StartIsShown

LEMMA BuilderInit ==
    ASSUME UrlBuilder!UrlBuilderAssumption, UrlBuilder!Init
    PROVE  BuilderInv
BY EditsAreFew DEF UrlBuilder!Init, BuilderInv, UrlBuilder!UrlBuilderTypeOK

LEMMA ShownIsTyped ==
    ASSUME NEW b, Shows(b)
    PROVE  /\ b.layout \in UrlBuilder!Layouts /\ DOMAIN b.values = UrlBuilder!FieldsOf(b.layout)
           /\ \A f \in DOMAIN b.values : b.values[f] # None
BY DEF Shows

LEMMA BuilderStep ==
    ASSUME BuilderInv, UrlBuilder!Next
    PROVE  BuilderInv'
<1> USE DEF BuilderInv
<1>0. SUFFICES ASSUME NEW d \in {0}
      PROVE /\ row' \in UrlBuilder!HandWritten
                 \/ \E l \in UrlBuilder!Layouts : row'.scheme = UrlBuilder!SchemeOf(l)
            /\ edits' \in 0..MaxEdits
            /\ builder' # None => Shows(builder')
    BY ShownIsTyped DEF UrlBuilder!UrlBuilderTypeOK
<1> USE DEF UrlBuilder!UrlBuilderTypeOK
<1>1. CASE UrlBuilder!TypeRow
    BY <1>1, EditsAreFew DEF UrlBuilder!TypeRow
<1>2. CASE UrlBuilder!Open
    <2> DEFINE parsed == UrlBuilder!ParseURL(row)
               l == IF parsed = {} THEN "http" ELSE (CHOOSE p \in parsed : TRUE).layout
               found == IF parsed = {} THEN <<>> ELSE (CHOOSE p \in parsed : TRUE).values
               b == [layout |-> l, values |-> UrlBuilder!InitialValues(l, found)]
    <2>1. builder' = b /\ UNCHANGED <<row, edits>>
        BY <1>2 DEF UrlBuilder!Open
    <2>2. CASE parsed = {}
        <3>1. b = [layout |-> "http", values |-> UrlBuilder!InitialValues("http", <<>>)]
            BY <2>2
        <3>2. "http" \in UrlBuilder!Layouts
            BY DEF UrlBuilder!Layouts
        <3>3. Shows([layout |-> "http", values |-> UrlBuilder!InitialValues("http", <<>>)])
            BY <3>2, StartIsShown
        <3> QED
            BY <2>1, <3>1, <3>3
    <2>3. CASE parsed # {}
        <3> DEFINE first == CHOOSE p \in parsed : TRUE
        <3>1. first \in parsed
            BY <2>3
        <3>2. b = [layout |-> first.layout,
                   values |-> UrlBuilder!InitialValues(first.layout, first.values)]
            BY <2>3
        <3> HIDE DEF first, b
        <3>3. Shows(b)
            BY <3>1, <3>2, ReadIsShown
        <3> QED
            BY <2>1, <3>3
    <2> QED
        BY <2>2, <2>3
<1>3. CASE UrlBuilder!SelectLayout
    <2>1. PICK l \in UrlBuilder!Layouts :
             builder' = [layout |-> l, values |-> UrlBuilder!InitialValues(l, <<>>)]
        BY <1>3 DEF UrlBuilder!SelectLayout, UrlBuilder!StartsFrom
    <2>2. Shows([layout |-> l, values |-> UrlBuilder!InitialValues(l, <<>>)])
        BY StartIsShown
    <2>3. edits' \in 0..MaxEdits /\ UNCHANGED row
        BY <1>3, EditsAreFew DEF UrlBuilder!SelectLayout
    <2> QED
        BY <2>1, <2>2, <2>3
<1>4. CASE UrlBuilder!Type
    <2>1. builder # None /\ edits' \in 0..MaxEdits /\ UNCHANGED row /\ Shows(builder)
        BY <1>4, EditsAreFew DEF UrlBuilder!Type
    <2>f. PICK f \in UrlBuilder!FieldsOf(builder.layout) : \E t \in UrlBuilder!Typeable(f) :
             builder' = [builder EXCEPT !.values[f] = t]
        BY <1>4 DEF UrlBuilder!Type
    <2>2. PICK t \in UrlBuilder!Typeable(f) : builder' = [builder EXCEPT !.values[f] = t]
        BY <2>f
    <2>3. t # None /\ (f \in Credentials => Plain(t))
        BY <2>1, <2>2 DEF UrlBuilder!UrlBuilderAssumption, UrlBuilder!Typeable,
           Credentials, Plain
    <2>4. /\ builder'.layout = builder.layout
          /\ builder'.values = [builder.values EXCEPT ![f] = t]
          /\ builder' = [layout |-> builder'.layout, values |-> builder'.values]
        BY <2>1, <2>2 DEF Shows
    <2>5. /\ builder'.values = [g \in UrlBuilder!FieldsOf(builder.layout) |-> builder'.values[g]]
          /\ \A g \in UrlBuilder!FieldsOf(builder.layout) :
               builder'.values[g] = IF g = f THEN t ELSE builder.values[g]
        BY <2>1, <2>4
    <2>6. \A g \in UrlBuilder!FieldsOf(builder.layout) :
             builder'.values[g] # None /\ (g \in Credentials => Plain(builder'.values[g]))
        BY <2>1, <2>3, <2>5 DEF Shows
    <2>7. Shows(builder')
        BY <2>1, <2>4, <2>5, <2>6 DEF Shows
    <2> QED
        BY <2>1, <2>7
<1>5. CASE UrlBuilder!Use
    <2>1. builder # None /\ builder' = None /\ UNCHANGED edits
          /\ row' = UrlBuilder!BuildURL(builder)
        BY <1>5 DEF UrlBuilder!Use
    <2>2. row'.scheme = UrlBuilder!SchemeOf(builder.layout)
        BY <2>1 DEF UrlBuilder!BuildURL
    <2> QED
        BY <2>1, <2>2
<1>6. CASE UrlBuilder!Cancel
    BY <1>6 DEF UrlBuilder!Cancel
<1> QED
    BY <1>1, <1>2, <1>3, <1>4, <1>5, <1>6 DEF UrlBuilder!Next

LEMMA TextsAreShown ==
    ASSUME None \notin {"", "[v6]"}, NEW t, t # None
    PROVE  /\ UrlBuilder!Trimmed(t) # None
           /\ UrlBuilder!Trimmed(UrlBuilder!Trimmed(t)) = UrlBuilder!Trimmed(t)
BY DEF UrlBuilder!Trimmed

\* What a command writes, and reads again.
LEMMA CommandReopens ==
    ASSUME UrlBuilder!UrlBuilderAssumption, NEW b, Shows(b), UrlBuilder!MayUse(b),
           b.layout \in UrlBuilder!Commands
    PROVE  /\ UrlBuilder!Reopened(b) = {UrlBuilder!Seen(b)}
           /\ UrlBuilder!MayUse(UrlBuilder!Seen(b))
           /\ UrlBuilder!Seen(b).layout = b.layout
           /\ UrlBuilder!Seen(UrlBuilder!Seen(b)) = UrlBuilder!Seen(b)
<1> DEFINE l == b.layout
           url == UrlBuilder!BuildURL(b)
           found == [command |-> url.command]
           seen == UrlBuilder!Seen(b)
<1>1. UrlBuilder!FieldsOf(l) = {"command"} /\ l \in UrlBuilder!Layouts
    BY DEF UrlBuilder!FieldsOf, UrlBuilder!Commands, Shows
<1>2. url = [scheme |-> UrlBuilder!SchemeOf(l), command |-> UrlBuilder!Trimmed(b.values.command)]
    BY DEF UrlBuilder!BuildURL
<1>3. UrlBuilder!Trimmed(url.command) = url.command /\ url.command # None
    <2>1. None \notin {"", "[v6]"} /\ b.values["command"] # None
        BY <1>1 DEF UrlBuilder!UrlBuilderAssumption, Shows
    <2>2. url.command = UrlBuilder!Trimmed(b.values["command"])
        BY <1>2
    <2> HIDE DEF url
    <2> QED
        BY <2>1, <2>2, TextsAreShown
<1>4. UrlBuilder!LayoutsFor(url.scheme) = {l} /\ UrlBuilder!Readable(url)
    BY <1>1, <1>2, OneLayout DEF UrlBuilder!Readable
<1> HIDE DEF url
<1>5. UrlBuilder!ParseURL(url) = {[layout |-> l, values |-> found]}
    BY <1>4 DEF UrlBuilder!ParseURL
<1>6. seen = [layout |-> l, values |-> [f \in {"command"} |-> url.command]]
    BY <1>1, <1>2 DEF UrlBuilder!Seen
<1>7. UrlBuilder!InitialValues(l, found) = [f \in {"command"} |-> url.command]
    BY <1>1, <1>3 DEF UrlBuilder!InitialValues
<1>8. UrlBuilder!Reopened(b) = {seen}
    <2>1. UrlBuilder!Reopened(b) =
            {[layout |-> p.layout, values |-> UrlBuilder!InitialValues(p.layout, p.values)] :
                p \in UrlBuilder!ParseURL(url)}
        BY DEF UrlBuilder!Reopened, url
    <2> QED
        BY <1>5, <1>6, <1>7, <2>1
<1> HIDE DEF seen
<1>9. seen.layout = l /\ seen.values.command = url.command
    BY <1>6
<1>10. UrlBuilder!MayUse(seen)
    <2>1. l = "netcat" \/ url.command # ""
        BY <1>2 DEF UrlBuilder!MayUse
    <2> QED
        BY <1>3, <1>9, <2>1 DEF UrlBuilder!MayUse
<1>11. UrlBuilder!Seen(seen) = seen
    <2>1. UrlBuilder!Seen(seen) = [layout |-> l, values |-> [f \in {"command"} |-> url.command]]
        BY <1>1, <1>3, <1>9 DEF UrlBuilder!Seen
    <2> QED
        BY <1>6, <2>1
<1> QED
    BY <1>8, <1>9, <1>10, <1>11 DEF seen

\* The other layouts write an address.
Addressed == {"http", "socks4", "ssh", "shadowsocks"}

LEMMA AddressFields ==
    ASSUME NEW l \in Addressed
    PROVE  /\ l \in UrlBuilder!Layouts /\ l \notin UrlBuilder!Commands
           /\ UrlBuilder!FieldsOf(l) \subseteq Credentials \cup {"host", "port"}
           /\ "host" \in UrlBuilder!FieldsOf(l) /\ "port" \in UrlBuilder!FieldsOf(l)
           /\ "encrypto" \in UrlBuilder!FieldsOf(l) <=> l = "shadowsocks"
           /\ "username" \in UrlBuilder!FieldsOf(l) <=> l # "shadowsocks"
           /\ l = "shadowsocks" => "password" \in UrlBuilder!FieldsOf(l)
           /\ UrlBuilder!SchemeOf(l) = "http" <=> l = "http"
           /\ UrlBuilder!Default(l, "port") = UrlBuilder!DefaultPort(l)
           /\ UrlBuilder!DefaultPort("http") = "80"
           /\ UrlBuilder!DefaultPort(l) \notin {"", "bad", "0080"}
BY DEF Addressed, Credentials, UrlBuilder!Layouts, UrlBuilder!Commands, UrlBuilder!FieldsOf,
       UrlBuilder!SchemeOf, UrlBuilder!Default, UrlBuilder!DefaultPort

\* What is written of each field.
LEMMA AddressIsWritten ==
    ASSUME NEW b, Shows(b), b.layout \in Addressed
    PROVE  LET url == UrlBuilder!BuildURL(b)
               v == b.values
               fields == UrlBuilder!FieldsOf(b.layout)
           IN  /\ DOMAIN url = {"scheme", "username", "password", "host", "port", "identity"}
               /\ url.scheme = UrlBuilder!SchemeOf(b.layout)
               /\ "username" \in fields => url.username = UrlBuilder!Encoded(v["username"])
               /\ "encrypto" \in fields => url.username = UrlBuilder!Encoded(v["encrypto"])
               /\ url.password = IF "password" \in fields
                                 THEN UrlBuilder!Encoded(v["password"]) ELSE ""
               /\ url.identity = IF "identity" \in fields
                                 THEN UrlBuilder!Encoded(v["identity"]) ELSE ""
               /\ url.host = UrlBuilder!Bracketed(UrlBuilder!Trimmed(v["host"]))
               /\ url.port = UrlBuilder!PortOf(b)
<1>1. DOMAIN b.values = UrlBuilder!FieldsOf(b.layout)
    BY DEF Shows
<1> QED
    BY <1>1, AddressFields DEF UrlBuilder!BuildURL, UrlBuilder!Password

\* What a builder writes of an address, and what of it can be read.
LEMMA AddressIsUsable ==
    ASSUME UrlBuilder!UrlBuilderAssumption, NEW b, Shows(b), UrlBuilder!MayUse(b),
           b.layout \in Addressed
    PROVE  LET url == UrlBuilder!BuildURL(b)
               site == b.values["host"]
           IN  /\ site \notin {"", "blank", None}
               /\ url.host = UrlBuilder!Bracketed(site)
               /\ url.port \notin {"", "bad", None}
               /\ b.layout = "shadowsocks" => url.username # "" /\ url.password # ""
               /\ UrlBuilder!Readable(url) <=> site \notin {"h:p", "[h:p]"}
<1> DEFINE l == b.layout
           v == b.values
           F == UrlBuilder!FieldsOf(l)
           url == UrlBuilder!BuildURL(b)
           site == v["host"]
<1>1. /\ None # UrlBuilder!DefaultPort(l) /\ \A f \in F : v[f] # None
      /\ \A f \in F \cap Credentials : Plain(v[f])
    <2>1. l \in UrlBuilder!Layouts /\ "port" \in F
        BY AddressFields
    <2>2. None # UrlBuilder!Default(l, "port")
        BY <2>1 DEF UrlBuilder!UrlBuilderAssumption
    <2> QED
        BY <2>2, AddressFields DEF Shows
<1>2. site # None /\ v["port"] # None
    BY <1>1, AddressFields
<1>3. UrlBuilder!Trimmed(site) # "" /\ UrlBuilder!PortOf(b) # "bad"
    BY AddressFields DEF UrlBuilder!MayUse
<1>4. site \notin {"", "blank"} /\ UrlBuilder!Trimmed(site) = site
    BY <1>3 DEF UrlBuilder!Trimmed
<1>5. /\ "username" \in F => url.username = UrlBuilder!Encoded(v["username"])
      /\ "encrypto" \in F => url.username = UrlBuilder!Encoded(v["encrypto"])
      /\ url.password = IF "password" \in F THEN UrlBuilder!Encoded(v["password"]) ELSE ""
      /\ url.identity = IF "identity" \in F THEN UrlBuilder!Encoded(v["identity"]) ELSE ""
      /\ url.host = UrlBuilder!Bracketed(site) /\ url.port = UrlBuilder!PortOf(b)
      /\ DOMAIN url = {"scheme", "username", "password", "host", "port", "identity"}
    BY <1>4, AddressIsWritten
<1>6. url.port \notin {"", "bad", None}
    BY <1>1, <1>2, <1>3, <1>5, AddressFields DEF UrlBuilder!PortOf
<1> HIDE DEF url
<1>7. "odd" \notin {url.username, url.password, url.identity}
    <2>1. "username" \in Credentials /\ "encrypto" \in Credentials /\ "password" \in Credentials
          /\ "identity" \in Credentials
        BY DEF Credentials
    <2>2. \A f \in F \cap Credentials : UrlBuilder!Encoded(v[f]) # "odd"
        BY <1>1, CodingIsUndone
    <2>3. url.username # "odd"
        BY <1>5, <2>1, <2>2, AddressFields
    <2>4. url.password # "odd" /\ url.identity # "odd"
        BY <1>5, <2>1, <2>2
    <2> QED
        BY <2>3, <2>4
<1>8. l = "shadowsocks" => url.username # "" /\ url.password # ""
    <2>1. l = "shadowsocks" => v["encrypto"] # "" /\ v["password"] # ""
        BY AddressFields DEF UrlBuilder!MayUse
    <2>2. l = "shadowsocks" => /\ url.username = UrlBuilder!Encoded(v["encrypto"])
                               /\ url.password = UrlBuilder!Encoded(v["password"])
        BY <1>5, AddressFields
    <2> QED
        BY ONLY <2>1, <2>2, NothingIsNothing
<1>9. UrlBuilder!Readable(url) <=> url.host \notin {"", "v6", "[h:p]"}
    BY <1>5, <1>6, <1>7 DEF UrlBuilder!Readable
<1>10. url.host \notin {"", "v6", "[h:p]"} <=> site \notin {"h:p", "[h:p]"}
    BY <1>4, <1>5 DEF UrlBuilder!Bracketed
<1> QED
    BY <1>2, <1>4, <1>5, <1>6, <1>8, <1>9, <1>10 DEF url

\* What is read of an address, and opened again.
FoundIn(url) ==
    [username |-> UrlBuilder!Decoded(UrlBuilder!UsernameRead(url)),
     password |-> UrlBuilder!Decoded(UrlBuilder!PasswordRead(url)),
     host |-> UrlBuilder!HostRead(url), port |-> UrlBuilder!PortRead(url),
     identity |-> UrlBuilder!Decoded(UrlBuilder!IdentityRead(url)),
     encrypto |-> UrlBuilder!Decoded(UrlBuilder!UsernameRead(url))]
OpenedAgain(b) ==
    [layout |-> b.layout,
     values |-> UrlBuilder!InitialValues(b.layout, FoundIn(UrlBuilder!BuildURL(b)))]

LEMMA AddressIsRead ==
    ASSUME UrlBuilder!UrlBuilderAssumption, NEW b, Shows(b), UrlBuilder!MayUse(b),
           b.layout \in Addressed
    PROVE  UrlBuilder!Reopened(b) = IF b.values["host"] \in {"h:p", "[h:p]"} THEN {}
                                    ELSE {OpenedAgain(b)}
<1> DEFINE l == b.layout  url == UrlBuilder!BuildURL(b)
<1>1. UrlBuilder!Reopened(b) =
        {[layout |-> p.layout, values |-> UrlBuilder!InitialValues(p.layout, p.values)] :
            p \in UrlBuilder!ParseURL(url)}
    BY DEF UrlBuilder!Reopened
<1>2. UrlBuilder!LayoutsFor(url.scheme) = {l} /\ l \notin UrlBuilder!Commands
    BY AddressFields, AddressIsWritten, OneLayout
<1>3. UrlBuilder!Readable(url) <=> b.values["host"] \notin {"h:p", "[h:p]"}
    BY AddressIsUsable
<1>4. OpenedAgain(b) = [layout |-> l, values |-> UrlBuilder!InitialValues(l, FoundIn(url))]
    BY DEF OpenedAgain
<1> HIDE DEF url, l
<1>5. UrlBuilder!ParseURL(url) = IF UrlBuilder!Readable(url)
                                 THEN {[layout |-> l, values |-> FoundIn(url)]} ELSE {}
    BY <1>2 DEF UrlBuilder!ParseURL, FoundIn
<1> QED
    BY <1>1, <1>3, <1>4, <1>5

\* Whatever is read back may be used, and is seen as it is.
LEMMA OpenedIsPlain ==
    ASSUME UrlBuilder!UrlBuilderAssumption, NEW b, Shows(b), UrlBuilder!MayUse(b),
           b.layout \in Addressed, b.values["host"] \notin {"h:p", "[h:p]"}
    PROVE  LET r == OpenedAgain(b)
               url == UrlBuilder!BuildURL(b)
           IN  /\ Shows(r) /\ UrlBuilder!MayUse(r) /\ r.layout = b.layout
               /\ UrlBuilder!IsHost(r.values["host"]) /\ UrlBuilder!Seen(r) = r
               /\ r.values["host"] = UrlBuilder!HostRead(url)
               /\ r.values["port"] = IF UrlBuilder!PortRead(url) = None
                                     THEN UrlBuilder!DefaultPort(b.layout)
                                     ELSE UrlBuilder!Number(url.port)
<1> DEFINE l == b.layout
           F == UrlBuilder!FieldsOf(l)
           url == UrlBuilder!BuildURL(b)
           found == FoundIn(url)
           site == b.values["host"]
           r == OpenedAgain(b)
<1>1. /\ site \notin {"", "blank", None} /\ url.host = UrlBuilder!Bracketed(site)
      /\ url.port \notin {"", "bad", None}
      /\ l = "shadowsocks" => url.username # "" /\ url.password # ""
      /\ url.scheme = "http" <=> l = "http"
    BY AddressIsUsable, AddressIsWritten, AddressFields
<1>a. "password" \in F => /\ url.password = UrlBuilder!Encoded(b.values["password"])
                          /\ b.values["password"] # None /\ Plain(b.values["password"])
    BY AddressIsWritten DEF Shows, Credentials
<1>2. None \notin {"", "[v6]", "x@u", "h", "80"} /\ None # UrlBuilder!DefaultPort(l)
    <2>1. None \notin {"", "[v6]", "x@u"}
        BY DEF UrlBuilder!UrlBuilderAssumption
    <2>2. \A k \in Addressed : /\ None # UrlBuilder!DefaultPort(k)
                              /\ None \notin UrlBuilder!Typeable("host")
        <3>1. TAKE k \in Addressed
        <3>2. /\ k \in UrlBuilder!Layouts /\ "host" \in UrlBuilder!FieldsOf(k)
              /\ "port" \in UrlBuilder!FieldsOf(k)
              /\ UrlBuilder!Default(k, "port") = UrlBuilder!DefaultPort(k)
            BY AddressFields
        <3> QED
            BY <3>2 DEF UrlBuilder!UrlBuilderAssumption
    <2>3. None # UrlBuilder!DefaultPort("http") /\ None # UrlBuilder!DefaultPort(l)
          /\ None \notin UrlBuilder!Typeable("host")
        BY <2>2 DEF Addressed
    <2> QED
        BY <2>1, <2>3, AddressFields DEF UrlBuilder!Typeable, Addressed
<1>3. /\ r.layout = l /\ DOMAIN r.values = F
      /\ \A f \in F : r.values[f] = IF f \in DOMAIN found /\ found[f] # None THEN found[f]
                                    ELSE UrlBuilder!Default(l, f)
      /\ r = [layout |-> r.layout, values |-> [f \in F |-> r.values[f]]]
    BY DEF OpenedAgain, UrlBuilder!InitialValues
<1>4. Shows(r)
    <2>1. \A f \in DOMAIN found \cap Credentials : Plain(found[f])
        <3>1. /\ found["username"] = UrlBuilder!Decoded(UrlBuilder!UsernameRead(url))
              /\ found["password"] = UrlBuilder!Decoded(UrlBuilder!PasswordRead(url))
              /\ found["identity"] = UrlBuilder!Decoded(UrlBuilder!IdentityRead(url))
              /\ found["encrypto"] = UrlBuilder!Decoded(UrlBuilder!UsernameRead(url))
            BY DEF FoundIn
        <3> HIDE DEF found
        <3> QED
            BY <3>1, CodingIsUndone DEF Credentials
    <2> HIDE DEF found
    <2> QED
        BY <2>1, AddressFields, StartIsShown DEF OpenedAgain, found
<1>5. /\ DOMAIN found = {"username", "password", "host", "port", "identity", "encrypto"}
      /\ found["host"] = UrlBuilder!HostRead(url) /\ found["port"] = UrlBuilder!PortRead(url)
      /\ found["encrypto"] = UrlBuilder!Decoded(UrlBuilder!UsernameRead(url))
      /\ found["password"] = UrlBuilder!Decoded(UrlBuilder!PasswordRead(url))
    BY DEF FoundIn
<1> HIDE DEF found, r, url
<1>6. /\ r.values["host"] = UrlBuilder!HostRead(url)
      /\ r.values["host"] \notin {"", "blank", "v6", "h:p", "[h:p]", "u@h"} \cup UrlBuilder!Cut
      /\ l = "http" => r.values["host"] # "H"
    <2>1. /\ UrlBuilder!HostRead(url) # None
          /\ UrlBuilder!HostRead(url) \notin
               {"", "blank", "v6", "h:p", "[h:p]", "u@h"} \cup UrlBuilder!Cut
          /\ l = "http" => UrlBuilder!HostRead(url) # "H"
        BY <1>1, <1>2 DEF UrlBuilder!HostRead, UrlBuilder!Bracketed, UrlBuilder!Cut
    <2> QED
        BY <1>3, <1>5, <2>1, AddressFields
<1>7. /\ r.values["port"] = IF UrlBuilder!PortRead(url) = None THEN UrlBuilder!DefaultPort(l)
                            ELSE UrlBuilder!Number(url.port)
      /\ r.values["port"] \notin {"", "bad", "0080"}
    <2>1. r.values["port"] = IF UrlBuilder!PortRead(url) = None THEN UrlBuilder!DefaultPort(l)
                             ELSE UrlBuilder!PortRead(url)
        <3>1. "port" \in F /\ UrlBuilder!Default(l, "port") = UrlBuilder!DefaultPort(l)
            BY AddressFields
        <3>2. "port" \in DOMAIN found /\ found["port"] = UrlBuilder!PortRead(url)
            BY <1>5
        <3> QED
            BY ONLY <1>3, <3>1, <3>2
    <2>2. UrlBuilder!Number(url.port) \notin {"", "bad", "0080", None}
        <3>1. \/ UrlBuilder!Number(url.port) = url.port /\ url.port # "0080"
              \/ UrlBuilder!Number(url.port) = "80"
            BY DEF UrlBuilder!Number
        <3> QED
            BY ONLY <1>1, <1>2, <3>1
    <2>3. UrlBuilder!PortRead(url) \in {None, UrlBuilder!Number(url.port)}
        BY DEF UrlBuilder!PortRead
    <2> QED
        BY <2>1, <2>2, <2>3, AddressFields
<1>8. l = "shadowsocks" => r.values["encrypto"] # "" /\ r.values["password"] # ""
    <2>1. SUFFICES ASSUME l = "shadowsocks"
          PROVE  r.values["encrypto"] # "" /\ r.values["password"] # ""
        OBVIOUS
    <2>2. UrlBuilder!UsernameRead(url) = url.username
        BY <1>1, <2>1 DEF UrlBuilder!UsernameRead
    <2>3. UrlBuilder!PasswordRead(url) \in {url.password, "x@u%"}
        BY DEF UrlBuilder!PasswordRead
    <2>4. /\ "encrypto" \in F /\ "password" \in F
          /\ UrlBuilder!Default(l, "encrypto") # ""
        BY <2>1, AddressFields DEF UrlBuilder!Default
    <2>5. r.values["encrypto"] # ""
        BY <1>1, <1>3, <1>5, <2>1, <2>2, <2>4, NothingIsNothing
    <2>6. UrlBuilder!Decoded(url.password) = b.values["password"] /\ b.values["password"] # None
        BY <1>a, <2>1, <2>4, CodingIsUndone
    <2>7. found["password"] \notin {"", None}
        BY <1>1, <1>2, <1>5, <2>1, <2>3, <2>6, NothingIsNothing
    <2> QED
        BY <1>3, <1>5, <2>4, <2>5, <2>7
<1>9. UrlBuilder!PortOf(r) = r.values["port"] /\ UrlBuilder!Number(r.values["port"]) = r.values["port"]
    BY <1>7 DEF UrlBuilder!PortOf, UrlBuilder!Number
<1>10. /\ UrlBuilder!Trimmed(r.values["host"]) = r.values["host"]
       /\ UrlBuilder!Bracketed(r.values["host"]) = r.values["host"]
    BY <1>6 DEF UrlBuilder!Trimmed, UrlBuilder!Bracketed
<1>11. UrlBuilder!MayUse(r)
    BY <1>3, <1>6, <1>7, <1>8, <1>9, <1>10, AddressFields DEF UrlBuilder!MayUse
<1>12. UrlBuilder!Seen(r) = r
    <2>1. \A f \in F : UrlBuilder!Seen(r).values[f] = r.values[f]
        <3>1. TAKE f \in F
        <3>2. f \in Credentials \cup {"host", "port"}
            BY AddressFields
        <3>3. CASE f = "host"
            BY <1>3, <1>6, <1>10, <3>3 DEF UrlBuilder!Seen
        <3>4. CASE f = "port"
            BY <1>3, <1>9, <3>4 DEF UrlBuilder!Seen
        <3>5. CASE f \in Credentials
            BY <1>3, <3>5 DEF UrlBuilder!Seen, Credentials
        <3> QED
            BY <3>2, <3>3, <3>4, <3>5
    <2>2. /\ UrlBuilder!Seen(r).layout = l
          /\ UrlBuilder!Seen(r) =
               [layout |-> l, values |-> [f \in F |-> UrlBuilder!Seen(r).values[f]]]
        BY <1>3 DEF UrlBuilder!Seen
    <2> QED
        BY <1>3, <2>1, <2>2
<1>13. UrlBuilder!IsHost(r.values["host"])
    BY <1>6 DEF UrlBuilder!IsHost
<1> QED
    BY <1>3, <1>4, <1>6, <1>7, <1>11, <1>12, <1>13 DEF r, url

\* A host that is one is read back with all that was typed.
LEMMA HostIsKept ==
    ASSUME UrlBuilder!UrlBuilderAssumption, NEW b, Shows(b), UrlBuilder!MayUse(b),
           b.layout \in Addressed, UrlBuilder!IsHost(b.values["host"])
    PROVE  OpenedAgain(b) = UrlBuilder!Seen(b)
<1> DEFINE l == b.layout
           v == b.values
           F == UrlBuilder!FieldsOf(l)
           url == UrlBuilder!BuildURL(b)
           found == FoundIn(url)
           site == v["host"]
           r == OpenedAgain(b)
           seen == UrlBuilder!Seen(b)
<1>1. /\ site \notin {"", "blank", None} /\ url.host = UrlBuilder!Bracketed(site)
      /\ url.port \notin {"", "bad", None}
    BY AddressIsUsable
<1>2. /\ url.scheme = "http" <=> l = "http"
      /\ "username" \in F => url.username = UrlBuilder!Encoded(v["username"])
      /\ "encrypto" \in F => url.username = UrlBuilder!Encoded(v["encrypto"])
      /\ "password" \in F => url.password = UrlBuilder!Encoded(v["password"])
      /\ "identity" \in F => url.identity = UrlBuilder!Encoded(v["identity"])
      /\ url.port = UrlBuilder!PortOf(b)
    BY AddressIsWritten, AddressFields
<1>3. site \notin {"h:p", "[h:p]", "u@h"} \cup UrlBuilder!Cut
    BY DEF UrlBuilder!IsHost
<1>4. url.host \notin {"u@h"} \cup UrlBuilder!Cut /\ (url.host = "H" <=> site = "H")
    BY <1>1, <1>3 DEF UrlBuilder!Bracketed, UrlBuilder!Cut
<1>5. /\ r.layout = l /\ r = [layout |-> l, values |-> [f \in F |-> r.values[f]]]
      /\ \A f \in F : r.values[f] = IF f \in DOMAIN found /\ found[f] # None THEN found[f]
                                    ELSE UrlBuilder!Default(l, f)
    BY DEF OpenedAgain, UrlBuilder!InitialValues
<1>6. /\ r.values["host"] = UrlBuilder!HostRead(url)
      /\ r.values["port"] = IF UrlBuilder!PortRead(url) = None THEN UrlBuilder!DefaultPort(l)
                            ELSE UrlBuilder!Number(url.port)
    BY <1>3, OpenedIsPlain
<1>7. \A f \in F \cap Credentials : v[f] # None /\ Plain(v[f])
    BY DEF Shows
<1>8. /\ DOMAIN found = {"username", "password", "host", "port", "identity", "encrypto"}
      /\ found["username"] = UrlBuilder!Decoded(url.username)
      /\ found["encrypto"] = UrlBuilder!Decoded(url.username)
      /\ found["password"] = UrlBuilder!Decoded(url.password)
      /\ found["identity"] = UrlBuilder!Decoded(url.identity)
    BY <1>4 DEF FoundIn, UrlBuilder!UsernameRead, UrlBuilder!PasswordRead,
                UrlBuilder!IdentityRead, UrlBuilder!Cut
<1> HIDE DEF found, r, url
<1>9. \A f \in F : r.values[f] = seen.values[f]
    <2>1. TAKE f \in F
    <2>2. f \in Credentials \cup {"host", "port"}
        BY AddressFields
    <2>3. CASE f \in Credentials
        <3>1. seen.values[f] = v[f]
            BY <2>3 DEF UrlBuilder!Seen, Credentials
        <3>2. found[f] = UrlBuilder!Decoded(UrlBuilder!Encoded(v[f]))
            <4>1. CASE f = "username"
                BY <1>2, <1>8, <4>1
            <4>2. CASE f = "encrypto"
                BY <1>2, <1>8, <4>2
            <4>3. CASE f = "password"
                BY <1>2, <1>8, <4>3
            <4>4. CASE f = "identity"
                BY <1>2, <1>8, <4>4
            <4> QED
                BY <2>3, <4>1, <4>2, <4>3, <4>4 DEF Credentials
        <3>3. found[f] = v[f] /\ v[f] # None /\ f \in DOMAIN found
            BY <1>7, <1>8, <2>3, <3>2, CodingIsUndone DEF Credentials
        <3> QED
            BY <1>5, <3>1, <3>3
    <2>4. CASE f = "host"
        <3>1. seen.values[f] = IF l = "http" /\ site = "H" THEN "h"
                               ELSE UrlBuilder!Bracketed(UrlBuilder!Trimmed(site))
            BY <2>4 DEF UrlBuilder!Seen
        <3>2. UrlBuilder!Trimmed(site) = site
            BY <1>1 DEF UrlBuilder!Trimmed
        <3> QED
            BY <1>1, <1>2, <1>4, <1>6, <2>4, <3>1, <3>2 DEF UrlBuilder!HostRead
    <2>5. CASE f = "port"
        <3>1. seen.values[f] = UrlBuilder!Number(url.port)
            BY <1>2, <2>5 DEF UrlBuilder!Seen
        <3>2. UrlBuilder!PortRead(url) = IF l = "http" /\ UrlBuilder!Number(url.port) = "80"
                                         THEN None ELSE UrlBuilder!Number(url.port)
            BY <1>1, <1>2, <1>4 DEF UrlBuilder!PortRead
        <3>3. UrlBuilder!Number(url.port) # None
            <4>1. None \notin UrlBuilder!Typeable("port")
                <5>1. "http" \in UrlBuilder!Layouts /\ "port" \in UrlBuilder!FieldsOf("http")
                    BY DEF UrlBuilder!Layouts, UrlBuilder!FieldsOf
                <5> QED
                    BY <5>1 DEF UrlBuilder!UrlBuilderAssumption
            <4>2. None # "80"
                BY <4>1 DEF UrlBuilder!Typeable
            <4> QED
                BY <1>1, <4>2 DEF UrlBuilder!Number
        <3>4. r.values[f] = IF UrlBuilder!PortRead(url) = None THEN UrlBuilder!DefaultPort(l)
                            ELSE UrlBuilder!Number(url.port)
            BY <1>6, <2>5
        <3>5. l = "http" => UrlBuilder!DefaultPort(l) = "80"
            BY AddressFields
        <3> QED
            BY ONLY <3>1, <3>2, <3>3, <3>4, <3>5
    <2> QED
        BY <2>2, <2>3, <2>4, <2>5
<1>10. seen = [layout |-> l, values |-> [f \in F |-> seen.values[f]]]
    BY DEF UrlBuilder!Seen
<1> HIDE DEF seen
<1> QED
    BY <1>5, <1>9, <1>10 DEF seen, r

LEMMA AddressReopens ==
    ASSUME BuilderInv, builder # None, UrlBuilder!MayUse(builder), builder.layout \in Addressed
    PROVE  UrlBuilder!BuiltReopens
<1> DEFINE site == builder.values["host"]  r == OpenedAgain(builder)
<1>1. UrlBuilder!UrlBuilderAssumption /\ Shows(builder) /\ builder.layout \notin UrlBuilder!Commands
    BY AddressFields DEF BuilderInv
<1>2. CASE site \in {"h:p", "[h:p]"}
    <2>1. UrlBuilder!Reopened(builder) = {}
        BY <1>1, <1>2, AddressIsRead
    <2>2. ~UrlBuilder!IsHost(site)
        BY <1>2 DEF UrlBuilder!IsHost
    <2> QED
        BY <1>1, <2>1, <2>2 DEF UrlBuilder!BuiltReopens
<1>3. CASE site \notin {"h:p", "[h:p]"}
    <2>1. UrlBuilder!Reopened(builder) = {r}
        BY <1>1, <1>3, AddressIsRead
    <2>2. /\ Shows(r) /\ UrlBuilder!MayUse(r) /\ r.layout = builder.layout
          /\ UrlBuilder!IsHost(r.values["host"]) /\ UrlBuilder!Seen(r) = r
          /\ r.values["host"] = UrlBuilder!HostRead(UrlBuilder!BuildURL(builder))
        BY <1>1, <1>3, OpenedIsPlain
    <2>3. UrlBuilder!IsHost(site) => r = UrlBuilder!Seen(builder)
        BY <1>1, HostIsKept
    <2>4. ~UrlBuilder!IsHost(site) => r # UrlBuilder!Seen(builder)
        <3>1. SUFFICES ASSUME ~UrlBuilder!IsHost(site) PROVE r # UrlBuilder!Seen(builder)
            OBVIOUS
        <3>2. site \in {"u@h"} \cup UrlBuilder!Cut
            BY <1>3, <3>1 DEF UrlBuilder!IsHost
        <3>3. UrlBuilder!Trimmed(site) = site /\ UrlBuilder!Bracketed(site) = site /\ site \notin {"h", "H"}
            BY <3>2 DEF UrlBuilder!Cut, UrlBuilder!Trimmed, UrlBuilder!Bracketed
        <3>4. UrlBuilder!Seen(builder).values["host"] = site
            BY <1>1, <3>3, AddressFields DEF UrlBuilder!Seen
        <3>5. UrlBuilder!BuildURL(builder).host = site
            BY <1>1, <3>3, AddressIsWritten
        <3>6. r.values["host"] = "h"
            BY <2>2, <3>2, <3>5 DEF UrlBuilder!HostRead
        <3> QED
            BY <3>3, <3>4, <3>6
    <2>5. UrlBuilder!Reopened(r) = {r}
        <3>1. r.values["host"] \notin {"h:p", "[h:p]"}
            BY <2>2 DEF UrlBuilder!IsHost
        <3> HIDE DEF r
        <3>2. UrlBuilder!Reopened(r) = {OpenedAgain(r)}
            BY <1>1, <2>2, <3>1, AddressIsRead
        <3>3. OpenedAgain(r) = r
            BY <1>1, <2>2, HostIsKept
        <3> QED
            BY <3>2, <3>3
    <2> HIDE DEF r
    <2> QED
        BY <1>1, <2>1, <2>2, <2>3, <2>4, <2>5 DEF UrlBuilder!BuiltReopens
<1> QED
    BY <1>2, <1>3

\* What was built reopens as what was typed, if a host was.
LEMMA BuilderShows ==
    ASSUME BuilderInv
    PROVE  UrlBuilder!UrlBuilderTypeOK /\ UrlBuilder!BuiltReopens
<1>1. builder # None => builder.layout \in UrlBuilder!Commands \cup Addressed
    BY DEF BuilderInv, Shows, UrlBuilder!Layouts, UrlBuilder!Commands, Addressed
<1>2. CASE builder = None \/ ~UrlBuilder!MayUse(builder)
    BY <1>2 DEF BuilderInv, UrlBuilder!BuiltReopens
<1>3. CASE builder # None /\ UrlBuilder!MayUse(builder) /\ builder.layout \in UrlBuilder!Commands
    <2>1. UrlBuilder!UrlBuilderAssumption /\ Shows(builder)
        BY <1>3 DEF BuilderInv
    <2> DEFINE seen == UrlBuilder!Seen(builder)
    <2>2. /\ UrlBuilder!Reopened(builder) = {seen} /\ UrlBuilder!MayUse(seen)
          /\ seen.layout = builder.layout /\ UrlBuilder!Seen(seen) = seen
        BY <1>3, <2>1, CommandReopens
    <2>3. Shows(seen)
        <3>1. PICK p \in UrlBuilder!ParseURL(UrlBuilder!BuildURL(builder)) :
                 seen = [layout |-> p.layout,
                         values |-> UrlBuilder!InitialValues(p.layout, p.values)]
            BY <2>2 DEF UrlBuilder!Reopened
        <3> HIDE DEF seen
        <3> QED
            BY <2>1, <3>1, ReadIsShown
    <2> HIDE DEF seen
    <2>4. UrlBuilder!Reopened(seen) = {seen}
        BY <1>3, <2>1, <2>2, <2>3, CommandReopens
    <2> QED
        BY <1>3, <2>2, <2>4 DEF BuilderInv, UrlBuilder!BuiltReopens, seen
<1> QED
    BY <1>1, <1>2, <1>3, AddressReopens DEF BuilderInv

-----------------------------------------------------------------------------
(* The connections of a rule.                                              *)

\* Every connection that anything still speaks of.
SpokenOf == live \cup data \cup answer \cup opened \cup gone \cup {c.row : c \in calls}

\* An id is given once in a boot, and the next one to none before.
IdsAreUnique ==
    /\ \A x \in SpokenOf : x.boot <= boot /\ (x.boot = boot => x.id < nextId)
    /\ \A x, y \in SpokenOf : x.id = y.id /\ x.boot = y.boot => x = y

\* A connection that was closed is in no list that is read later.
ClosedIsUnread ==
    /\ gone \cap (live \cup answer \cup data) = {}
    /\ \A c \in calls : /\ c.ok => c.row \notin live
                        /\ c.at = "reads" => load # "idle"
                        /\ c.at = "reads" /\ load = "read" /\ c.ok => c.row \notin answer

ConnectionsTypes ==
    /\ Connections!ConnectionsAssumption /\ Connections!ConnectionsTypeOK
    /\ gone \subseteq Connections!Connection
    /\ accepted \in Nat /\ nextId \in Nat /\ boot \in Nat

ClosedAsClicked == \A pair \in closed : pair[1].boot = pair[2].boot => pair[1] = pair[2]

ConnectionsInv ==
    /\ ConnectionsTypes /\ IdsAreUnique /\ ClosedIsUnread /\ ClosedAsClicked
    /\ Connections!SelectionIsRoute

LEMMA ConnectionsInit ==
    ASSUME Connections!ConnectionsAssumption, Connections!Init
    PROVE  ConnectionsInv
BY DEF Connections!Init, Connections!ConnectionsAssumption, ConnectionsInv,
   ConnectionsTypes,
       Connections!ConnectionsTypeOK, IdsAreUnique, SpokenOf, ClosedIsUnread,
       ClosedAsClicked,
       Connections!SelectionIsRoute

LEMMA ShownIsData == Connections!Shown \subseteq data
BY DEF Connections!Shown, Connections!Filtered

LEMMA ConnectionsShows ==
    ASSUME ConnectionsInv
    PROVE  Connections!ConnectionsTypeOK /\ Connections!RowsKeepIdentity
<1>1. Connections!OneConnection
    BY ShownIsData DEF ConnectionsInv, ClosedAsClicked, IdsAreUnique, SpokenOf,
       Connections!OneConnection
<1>2. Connections!ClosedIsGone
    BY DEF ConnectionsInv, ClosedIsUnread, Connections!ClosedIsGone
<1> QED
    BY <1>1, <1>2 DEF ConnectionsInv, ConnectionsTypes, Connections!RowsKeepIdentity

\* A step in which nothing new is spoken of, and nothing comes back to life.
LEMMA ConnectionsFewer ==
    ASSUME ConnectionsInv, SpokenOf' \subseteq SpokenOf, UNCHANGED <<accepted, nextId, boot>>
    PROVE  IdsAreUnique'
BY DEF ConnectionsInv, IdsAreUnique

LEMMA ConnectionsProgram ==
    ASSUME ConnectionsInv,
           Connections!Accept \/ Connections!EndsItself \/ Connections!Restart
    PROVE  ConnectionsInv'
<1>1. UNCHANGED <<data, load, answer, calls, rule, routeRule, refused, limit, opened,
                  closed, gone>>
    BY DEF Connections!Accept, Connections!EndsItself, Connections!Restart,
       Connections!loads,
           Connections!view
<1>2. CASE Connections!Accept
    <2>1. PICK r \in Rules :
            live' = live \cup {[id |-> nextId, rule |-> r, uid |-> accepted + 1,
            boot |-> boot]}
        BY <1>2 DEF Connections!Accept, Connections!NextId
    <2> DEFINE new == [id |-> nextId, rule |-> r, uid |-> accepted + 1, boot |-> boot]
    <2>2. accepted' = accepted + 1 /\ nextId' = nextId + 1 /\ boot' = boot
        BY <1>2 DEF Connections!Accept
    <2>3. new \in Connections!Connection /\ new.id = nextId /\ new.boot = boot
        BY DEF Connections!Connection, ConnectionsInv, ConnectionsTypes
    <2> HIDE DEF new
    <2>4. \A x \in SpokenOf : x \in Connections!Connection
        BY DEF SpokenOf, ConnectionsInv, ConnectionsTypes, Connections!ConnectionsTypeOK
    <2>5. new \notin SpokenOf
        BY <2>3 DEF ConnectionsInv, ConnectionsTypes, IdsAreUnique
    <2>6. SpokenOf' = SpokenOf \cup {new}
        BY <1>1, <2>1 DEF SpokenOf, new
    <2>7. IdsAreUnique'
        BY <2>2, <2>3, <2>4, <2>6 DEF IdsAreUnique, ConnectionsInv, ConnectionsTypes,
           Connections!Connection
    <2>8. ClosedIsUnread'
        BY <1>1, <2>1, <2>5 DEF ClosedIsUnread, ConnectionsInv, SpokenOf, new
    <2>9. ConnectionsTypes' /\ ClosedAsClicked' /\ Connections!SelectionIsRoute'
        BY <1>1, <2>1, <2>2, <2>3 DEF ConnectionsInv, ConnectionsTypes, ClosedAsClicked,
           new,
           Connections!ConnectionsTypeOK, Connections!SelectionIsRoute
    <2> QED
        BY <2>7, <2>8, <2>9 DEF ConnectionsInv
<1>3. CASE Connections!EndsItself \/ Connections!Restart
    <2>1. /\ live' \subseteq live /\ accepted' = accepted
          /\ (boot' = boot /\ nextId' = nextId) \/ (boot' = boot + 1 /\ nextId' = 1)
        BY <1>3 DEF Connections!EndsItself, Connections!Restart
    <2>2. SpokenOf' \subseteq SpokenOf
        BY <1>1, <2>1 DEF SpokenOf
    <2>3. \A x \in SpokenOf : x \in Connections!Connection
        BY DEF SpokenOf, ConnectionsInv, ConnectionsTypes, Connections!ConnectionsTypeOK
    <2>4. IdsAreUnique'
        BY <2>1, <2>2, <2>3 DEF IdsAreUnique, ConnectionsInv, ConnectionsTypes,
           Connections!Connection
    <2>5. ClosedIsUnread'
        BY <1>1, <2>1 DEF ClosedIsUnread, ConnectionsInv
    <2>6. ConnectionsTypes' /\ ClosedAsClicked' /\ Connections!SelectionIsRoute'
        BY <1>1, <2>1 DEF ConnectionsInv, ConnectionsTypes, ClosedAsClicked,
           Connections!ConnectionsTypeOK, Connections!SelectionIsRoute
    <2> QED
        BY <2>4, <2>5, <2>6 DEF ConnectionsInv
<1> QED
    BY <1>2, <1>3

LEMMA ConnectionsLoads ==
    ASSUME ConnectionsInv, \/ Connections!Poll \/ Connections!Read \/ Connections!Deliver
                           \/ Connections!LoadFails
    PROVE  ConnectionsInv'
<1>1. UNCHANGED <<live, accepted, nextId, boot, closed, rule, routeRule, refused, limit,
                  opened>>
    BY DEF Connections!Poll, Connections!Read, Connections!Deliver, Connections!LoadFails,
           Connections!program, Connections!view
<1>2. calls' \subseteq calls
    BY DEF Connections!Poll, Connections!Read, Connections!Deliver, Connections!LoadFails
<1>3. SpokenOf' \subseteq SpokenOf
    <2>1. data' \cup answer' \subseteq live \cup data \cup answer
        BY DEF Connections!Poll, Connections!Read, Connections!Deliver,
           Connections!LoadFails
    <2>2. gone' \subseteq gone \cup {c.row : c \in calls}
        BY DEF Connections!Poll, Connections!Read, Connections!Deliver,
           Connections!LoadFails,
               Connections!Refreshed
    <2> QED
        BY <1>1, <1>2, <2>1, <2>2 DEF SpokenOf
<1>4. IdsAreUnique'
    BY <1>1, <1>3, ConnectionsFewer
<1>5. ClosedIsUnread'
    <2>1. CASE Connections!Poll
        BY <1>1, <2>1 DEF Connections!Poll, ClosedIsUnread, ConnectionsInv
    <2>2. CASE Connections!Read
        BY <1>1, <2>2 DEF Connections!Read, ClosedIsUnread, ConnectionsInv
    <2>3. CASE Connections!Deliver
        BY <1>1, <2>3 DEF Connections!Deliver, Connections!Refreshed, ClosedIsUnread,
           ConnectionsInv
    <2>4. CASE Connections!LoadFails
        BY <1>1, <2>4 DEF Connections!LoadFails, Connections!Refreshed, ClosedIsUnread,
           ConnectionsInv
    <2> QED
        BY <2>1, <2>2, <2>3, <2>4
<1>6. ConnectionsTypes' /\ ClosedAsClicked' /\ Connections!SelectionIsRoute'
    <2>1. data' \cup answer' \cup gone' \subseteq SpokenOf
        BY <1>3 DEF SpokenOf
    <2>2. SpokenOf \subseteq Connections!Connection
        BY DEF SpokenOf, ConnectionsInv, ConnectionsTypes, Connections!ConnectionsTypeOK
    <2>3. load' \in {"idle", "asked", "read"}
        BY DEF Connections!Poll, Connections!Read, Connections!Deliver,
           Connections!LoadFails
    <2> QED
        BY <1>1, <1>2, <2>1, <2>2, <2>3 DEF ConnectionsInv, ConnectionsTypes,
           ClosedAsClicked,
           Connections!ConnectionsTypeOK, Connections!SelectionIsRoute
<1> QED
    BY <1>4, <1>5, <1>6 DEF ConnectionsInv

LEMMA ConnectionsServe ==
    ASSUME ConnectionsInv, Connections!Serve
    PROVE  ConnectionsInv'
<1>1. PICK c \in calls :
        LET found == {d \in live : d.id = c.row.id}
        IN  /\ c.at = "asked"
            /\ live' = live \ found
            /\ closed' = closed \cup {<<c.row, d>> : d \in found}
            /\ \E heard \in BOOLEAN : Connections!Proceeds(c, "answered", heard /\ found # {})
    BY DEF Connections!Serve
<1> DEFINE found == {d \in live : d.id = c.row.id}
<1>2. PICK ok \in BOOLEAN :
        calls' = (calls \ {c}) \cup {[c EXCEPT !.at = "answered", !.ok = ok]}
    BY <1>1 DEF Connections!Proceeds
<1> DEFINE answered == [c EXCEPT !.at = "answered", !.ok = ok]
<1>3. /\ answered \in [row : Connections!Connection, at : {"asked", "answered", "reads"},
                       ok : BOOLEAN]
      /\ answered.at = "answered" /\ answered.row = c.row
    BY DEF ConnectionsInv, ConnectionsTypes, Connections!ConnectionsTypeOK
<1>4. UNCHANGED <<accepted, nextId, boot, data, load, answer, rule, routeRule, refused,
                  limit,
                  opened, gone>>
    BY DEF Connections!Serve, Connections!loads, Connections!view
<1>5. live' = live \ found /\ closed' = closed \cup {<<c.row, d>> : d \in found}
    BY <1>1
<1> HIDE DEF answered
<1>6. SpokenOf' \subseteq SpokenOf
    <2>1. {d.row : d \in calls'} \subseteq {d.row : d \in calls}
        BY <1>2, <1>3 DEF answered
    <2> QED
        BY <1>4, <1>5, <2>1 DEF SpokenOf
<1>7. IdsAreUnique'
    BY <1>4, <1>6, ConnectionsFewer
<1>8. c.row \notin live' /\ live' \subseteq live
    BY <1>5
<1>9. ClosedIsUnread'
    BY <1>2, <1>3, <1>4, <1>8 DEF ClosedIsUnread, ConnectionsInv, answered
<1>10. ClosedAsClicked'
    <2>1. ASSUME NEW d \in found, c.row.boot = d.boot PROVE c.row = d
        BY <2>1 DEF ConnectionsInv, IdsAreUnique, SpokenOf
    <2> QED
        BY <1>5, <2>1 DEF ConnectionsInv, ClosedAsClicked
<1>11. ConnectionsTypes' /\ Connections!SelectionIsRoute'
    BY <1>2, <1>3, <1>4, <1>8 DEF ConnectionsInv, ConnectionsTypes, answered,
       Connections!ConnectionsTypeOK, Connections!SelectionIsRoute
<1> QED
    BY <1>7, <1>9, <1>10, <1>11 DEF ConnectionsInv

LEMMA ConnectionsCalls ==
    ASSUME ConnectionsInv, \/ Connections!Disconnect \/ Connections!CallFails
                           \/ Connections!Refresh \/ Connections!RefreshSkipped
                           \/ Connections!Reset
    PROVE  ConnectionsInv'
<1>1. UNCHANGED <<live, accepted, nextId, boot, closed, data, answer, rule, routeRule,
                  refused,
                  limit, opened, gone>>
    BY DEF Connections!Disconnect, Connections!CallFails, Connections!Refresh,
       Connections!Reset,
           Connections!RefreshSkipped, Connections!program, Connections!loads,
           Connections!view
<1>2. /\ load' = load \/ (load = "idle" /\ load' = "asked")
      /\ \A d \in calls' \ calls :
           /\ d \in [row : Connections!Connection, at : {"asked", "answered", "reads"}, ok : BOOLEAN]
           /\ d.row \in data \cup {c.row : c \in calls}
           /\ d.ok => d.row \notin live
           /\ d.at = "reads" => load' = "asked"
    <2>1. CASE Connections!Disconnect
        <3>1. PICK clicked \in data : calls' = calls \cup {[row |-> clicked,
        at |-> "asked", ok |-> FALSE]}
            BY <2>1, ShownIsData DEF Connections!Disconnect
        <3>2. clicked \in Connections!Connection /\ load' = load
            BY <2>1 DEF ConnectionsInv, ConnectionsTypes, Connections!ConnectionsTypeOK,
               Connections!Disconnect, Connections!loads
        <3> DEFINE d == [row |-> clicked, at |-> "asked", ok |-> FALSE]
        <3>3. /\ d \in [row : Connections!Connection, at : {"asked", "answered", "reads"},
                        ok : BOOLEAN]
              /\ d.row = clicked /\ ~d.ok /\ d.at = "asked"
            BY <3>2
        <3> HIDE DEF d
        <3>4. calls' \ calls \subseteq {d}
            BY <3>1 DEF d
        <3> QED
            BY <3>2, <3>3, <3>4
    <2>2. CASE Connections!CallFails
        <3>1. PICK c \in calls :
                calls' = (calls \ {c}) \cup {[c EXCEPT !.at = "answered", !.ok = FALSE]}
            BY <2>2 DEF Connections!CallFails, Connections!Proceeds
        <3>2. load' = load
            BY <2>2 DEF Connections!CallFails, Connections!loads
        <3> QED
            BY <3>1, <3>2 DEF ConnectionsInv, ConnectionsTypes,
               Connections!ConnectionsTypeOK
    <2>3. CASE Connections!Refresh
        <3>1. PICK c \in calls :
                calls' = (calls \ {c}) \cup {[c EXCEPT !.at = "reads", !.ok = c.ok]}
            BY <2>3 DEF Connections!Refresh, Connections!Proceeds
        <3>2. load = "idle" /\ load' = "asked"
            BY <2>3 DEF Connections!Refresh
        <3>3. /\ c \in [row : Connections!Connection, at : {"asked", "answered", "reads"},
                        ok : BOOLEAN]
              /\ c.ok => c.row \notin live
            BY DEF ConnectionsInv, ConnectionsTypes, Connections!ConnectionsTypeOK,
               ClosedIsUnread
        <3> DEFINE d == [c EXCEPT !.at = "reads", !.ok = c.ok]
        <3>4. /\ d \in [row : Connections!Connection, at : {"asked", "answered", "reads"},
                        ok : BOOLEAN]
              /\ d.row = c.row /\ d.ok = c.ok
            BY <3>3
        <3> HIDE DEF d
        <3>5. calls' \ calls \subseteq {d}
            BY <3>1 DEF d
        <3> QED
            BY <3>2, <3>3, <3>4, <3>5
    <2>4. CASE Connections!RefreshSkipped \/ Connections!Reset
        BY <2>4 DEF Connections!RefreshSkipped, Connections!Reset, Connections!loads
    <2> QED
        BY <2>1, <2>2, <2>3, <2>4
<1>3. SpokenOf' \subseteq SpokenOf
    BY <1>1, <1>2 DEF SpokenOf
<1>4. IdsAreUnique'
    BY <1>1, <1>3, ConnectionsFewer
<1>5. ClosedIsUnread'
    BY <1>1, <1>2 DEF ClosedIsUnread, ConnectionsInv
<1>6. ConnectionsTypes' /\ ClosedAsClicked' /\ Connections!SelectionIsRoute'
    BY <1>1, <1>2 DEF ConnectionsInv, ConnectionsTypes, ClosedAsClicked,
       Connections!ConnectionsTypeOK, Connections!SelectionIsRoute
<1> QED
    BY <1>4, <1>5, <1>6 DEF ConnectionsInv

LEMMA ConnectionsView ==
    ASSUME ConnectionsInv, \/ Connections!SelectRule \/ Connections!Follow
                           \/ Connections!ToggleRow \/ Connections!ShowMore
    PROVE  ConnectionsInv'
<1>1. UNCHANGED <<live, accepted, nextId, boot, closed, data, load, answer, calls, gone>>
    BY DEF Connections!SelectRule, Connections!Follow, Connections!ToggleRow,
           Connections!ShowMore, Connections!program, Connections!loads
<1>2. opened' \subseteq opened \cup data
    BY ShownIsData DEF Connections!SelectRule, Connections!Follow, Connections!ToggleRow,
                       Connections!ShowMore
<1>3. SpokenOf' \subseteq SpokenOf
    BY <1>1, <1>2 DEF SpokenOf
<1>4. IdsAreUnique' /\ ClosedIsUnread' /\ ClosedAsClicked'
    BY <1>1, <1>3, ConnectionsFewer DEF ConnectionsInv, ClosedIsUnread, ClosedAsClicked
<1>5. /\ limit' \in Nat /\ rule' \in Choices /\ routeRule' \in Choices
      /\ Connections!SelectionIsRoute'
    <2>1. /\ limit \in Nat /\ PageSize \in Nat /\ rule \in Choices /\ routeRule \in Choices
          /\ rule = routeRule \/ refused
        BY DEF ConnectionsInv, ConnectionsTypes, Connections!ConnectionsTypeOK,
           Connections!ConnectionsAssumption, Connections!SelectionIsRoute
    <2>2. CASE Connections!SelectRule
        BY <2>1, <2>2 DEF Connections!SelectRule, Connections!Choose,
           Connections!SelectionIsRoute
    <2>3. CASE Connections!Follow
        BY <2>1, <2>3 DEF Connections!Follow, Connections!Choose,
           Connections!SelectionIsRoute
    <2>4. CASE Connections!ToggleRow \/ Connections!ShowMore
        BY <2>1, <2>4 DEF Connections!ToggleRow, Connections!ShowMore,
           Connections!SelectionIsRoute
    <2> QED
        BY <2>2, <2>3, <2>4
<1>6. ConnectionsTypes'
    BY <1>1, <1>2, <1>5 DEF ConnectionsInv, ConnectionsTypes, Connections!ConnectionsTypeOK
<1> QED
    BY <1>4, <1>5, <1>6 DEF ConnectionsInv

LEMMA ConnectionsStep ==
    ASSUME ConnectionsInv, Connections!Next
    PROVE  ConnectionsInv'
BY ConnectionsProgram, ConnectionsLoads, ConnectionsServe, ConnectionsCalls, ConnectionsView
   DEF Connections!Next

-----------------------------------------------------------------------------
(* A request.                                                              *)

\* A request is new, waits, or is done; the backend has heard of it once it was
\* sent, and says nothing else than it did.  A request that waits listens to its
\* caller and has its limit armed, unless the limit has passed.
RequestInv ==
    /\ Request!RequestTypeOK
    /\ \A r \in Requests :
         /\ at[r] = "new" =>
              backend[r] = "none" /\ timer[r] = "off" /\ ~listening[r] /\ verdict[r] = "none"
         /\ at[r] \in {"sent", "broken"} =>
              timer[r] # "off" /\ listening[r] /\ verdict[r] = "none"
         /\ at[r] = "done" => timer[r] # "armed" /\ ~listening[r]
         /\ answer[r] \in {"ok", "saved", "garbled"} => backend[r] = "applied"
         /\ answer[r] = "http" => backend[r] = "refused"
    /\ Request!VerdictIsSound

LEMMA RequestInit ==
    ASSUME Request!Init
    PROVE  RequestInv
BY DEF Request!Init, RequestInv, Request!RequestTypeOK, Request!VerdictIsSound,
   Request!Kinds

LEMMA RequestLimit ==
    ASSUME RequestInv
    PROVE  Request!RequestTypeOK /\ Request!VerdictIsSound /\ Request!LimitIsSet
BY DEF RequestInv, Request!RequestTypeOK, Request!LimitIsSet, Request!Signalled

LEMMA RequestStep ==
    ASSUME RequestInv, Request!Next
    PROVE  RequestInv'
<1> USE DEF RequestInv, Request!RequestTypeOK, Request!VerdictIsSound, Request!Kinds
<1> PICK q \in Requests : \/ Request!Send(q) \/ Request!TimeOut(q) \/ Request!Abort(q)
                          \/ Request!Handle(q) \/ Request!Break(q) \/ Request!Arrive(q)
                          \/ Request!Reject(q)
    BY DEF Request!Next
<1>1. CASE Request!Send(q)
    <2>1. at[q] = "new" /\ UNCHANGED <<aborted, answer>>
        BY <1>1 DEF Request!Send
    <2>2. CASE aborted[q]
        <3>1. UNCHANGED backend /\ Request!Settle(q, "aborted")
            BY <1>1, <2>2 DEF Request!Send
        <3> QED
            BY <2>1, <2>2, <3>1 DEF Request!Settle
    <2>3. CASE ~aborted[q]
        <3>1. /\ at' = [at EXCEPT ![q] = "sent"] /\ timer' = [timer EXCEPT ![q] = "armed"]
              /\ listening' = [listening EXCEPT ![q] = TRUE] /\ UNCHANGED verdict
              /\ backend' = [backend EXCEPT ![q] = "pending"]
            BY <1>1, <2>3 DEF Request!Send
        <3> QED
            BY <2>1, <2>3, <3>1
    <2> QED
        BY <2>2, <2>3
<1>2. CASE Request!TimeOut(q)
    BY <1>2 DEF Request!TimeOut
<1>3. CASE Request!Abort(q)
    BY <1>3 DEF Request!Abort
<1>4. CASE Request!Handle(q)
    BY <1>4 DEF Request!Handle
<1>5. CASE Request!Break(q)
    BY <1>5 DEF Request!Break
<1>6. CASE Request!Arrive(q)
    BY <1>6 DEF Request!Arrive, Request!Settle
<1>7. CASE Request!Reject(q)
    BY <1>7 DEF Request!Reject, Request!Settle, Request!Reason, Request!Signalled
<1> QED
    BY <1>1, <1>2, <1>3, <1>4, <1>5, <1>6, <1>7

-----------------------------------------------------------------------------
(* A question.                                                             *)

\* No question is open without its component, and one that is open will be in
\* sight, is, or was put out of it by the user, who declined it that way.
Asking ==
    /\ ~host => pending = None /\ ~open /\ closing = 0
    /\ pending # None => pending \in ticks \/ open \/ (closing > 0 /\ user[pending] = "no")

\* What the user did about a question that is not answered.
Undecided ==
    \A q \in Questions : /\ answer[q] = "unasked" => user[q] = "nothing"
                         /\ answer[q] = "open" => user[q] \in {"nothing", "no"}

DialogInv ==
    /\ Dialog!DialogAssumption /\ Dialog!DialogTypeOK
    /\ Asking /\ Undecided /\ Dialog!AnswerIsUsers

LEMMA DialogInit ==
    ASSUME Dialog!DialogAssumption, Dialog!Init
    PROVE  DialogInv
BY DEF Dialog!DialogAssumption, Dialog!Init, DialogInv, Dialog!DialogTypeOK, Asking,
   Undecided,
       Dialog!AnswerIsUsers

LEMMA DialogShows ==
    ASSUME DialogInv
    PROVE  Dialog!DialogTypeOK /\ Dialog!AnswerIsUsers /\ Dialog!NoneIsHidden
BY DEF DialogInv, Asking, Dialog!NoneIsHidden

LEMMA DialogStep ==
    ASSUME DialogInv, Dialog!Next
    PROVE  DialogInv'
<1> USE DEF DialogInv, Dialog!DialogAssumption, Dialog!DialogTypeOK, Asking, Undecided,
        Dialog!AnswerIsUsers
<1>1. CASE Dialog!Mount
    BY <1>1 DEF Dialog!Mount
<1>2. CASE Dialog!Unmount
    <2>1. CASE pending = None
        BY <1>2, <2>1 DEF Dialog!Unmount
    <2>2. CASE pending # None
        BY <1>2, <2>2 DEF Dialog!Unmount
    <2> QED
        BY <2>1, <2>2
<1>3. CASE Dialog!Escape
    <2>1. /\ open /\ open' = FALSE /\ closing' = closing + 1
          /\ UNCHANGED <<host, pending, ticks, answer>>
          /\ user' = IF pending = None THEN user ELSE [user EXCEPT ![pending] = "no"]
        BY <1>3 DEF Dialog!Escape, Dialog!CloseModal
    <2>2. host /\ closing' \in Nat /\ closing' > 0
        BY <2>1
    <2>3. CASE pending = None
        BY <2>1, <2>2, <2>3
    <2>4. CASE pending # None
        <3>1. pending \in Questions /\ answer[pending] = "open" /\ user'[pending] = "no"
            BY <2>1, <2>4
        <3>2. Dialog!DialogTypeOK' /\ Asking'
            BY <2>1, <2>2, <2>4, <3>1
        <3>3. Undecided' /\ Dialog!AnswerIsUsers'
            BY <2>1, <2>4, <3>1
        <3> QED
            BY <3>2, <3>3
    <2> QED
        BY <2>3, <2>4
<1>4. CASE Dialog!OnClose
    <2>1. CASE Dialog!Closes
        <3>1. /\ pending # None /\ ~open /\ closing > 0 /\ pending' = None /\ open' = FALSE
              /\ closing' = closing - 1 /\ ticks = {}
              /\ answer' = [answer EXCEPT ![pending] = "no"] /\ UNCHANGED <<host, ticks, user>>
            BY <1>4, <2>1 DEF Dialog!OnClose, Dialog!Closes
        <3>2. user[pending] = "no" /\ closing' \in Nat
            BY <3>1
        <3> QED
            BY <3>1, <3>2
    <2>2. CASE ~Dialog!Closes
        BY <1>4, <2>2 DEF Dialog!OnClose, Dialog!Closes
    <2> QED
        BY <2>1, <2>2
<1>5. ASSUME NEW q \in Questions, Dialog!AskNative(q) PROVE DialogInv'
    BY <1>5 DEF Dialog!AskNative
<1>6. ASSUME NEW q \in Questions, Dialog!Ask(q) PROVE DialogInv'
    <2>1. CASE pending = None
        BY <1>6, <2>1 DEF Dialog!Ask
    <2>2. CASE pending # None
        BY <1>6, <2>2 DEF Dialog!Ask
    <2> QED
        BY <2>1, <2>2
<1>7. ASSUME NEW q \in Questions, Dialog!Tick(q) PROVE DialogInv'
    BY <1>7 DEF Dialog!Tick
<1>8. ASSUME NEW a \in {"yes", "no"}, Dialog!Click(a) PROVE DialogInv'
    <2>1. /\ pending # None /\ user' = [user EXCEPT ![pending] = a] /\ pending' = None
          /\ answer' = [answer EXCEPT ![pending] = a] /\ open' = FALSE
          /\ closing' = closing + 1 /\ UNCHANGED <<host, ticks>> /\ host
        BY <1>8 DEF Dialog!Click, Dialog!Settle, Dialog!CloseModal
    <2>2. pending \in Questions /\ answer[pending] = "open" /\ closing' \in Nat
        BY <2>1
    <2>3. Dialog!DialogTypeOK' /\ Asking'
        BY <2>1, <2>2
    <2>4. Undecided' /\ Dialog!AnswerIsUsers'
        BY <2>1, <2>2
    <2> QED
        BY <2>3, <2>4
<1> QED
    BY <1>1, <1>2, <1>3, <1>4, <1>5, <1>6, <1>7, <1>8 DEF Dialog!Next

-----------------------------------------------------------------------------
(* The statistics of the rules.                                            *)

StatsRows == [name : RuleNames, disabled : BOOLEAN]
StatsEntries == [name : RuleNames, bytes : {0, 1}]

StatsTypes ==
    /\ StatsRules!StatsRulesAssumption /\ StatsRules!StatsRulesTypeOK
    /\ snapshot \in Seq(StatsEntries)
    /\ sort \in [key : {"configured", "name", "bytes"}, up : BOOLEAN]

StatsInv == StatsTypes /\ StatsRules!FocusIsAsked

LEMMA RulesAreASequence ==
    ASSUME StatsTypes
    PROVE  rules \in Seq(StatsRows)
<1>1. rules \in Configs \cup {<<>>}
    BY DEF StatsTypes, StatsRules!StatsRulesTypeOK
<1>2. CASE rules = <<>>
    BY <1>2
<1>3. CASE rules \in Configs
    BY <1>3 DEF StatsTypes, StatsRules!StatsRulesAssumption, StatsRows
<1> QED
    BY <1>1, <1>2, <1>3

StatsNames == StatsRules!Named(rules) \cup StatsRules!Named(snapshot)

LEMMA NamesAreNames ==
    ASSUME StatsRules!StatsRulesAssumption,
           NEW r \in Configs \cup {<<>>}, NEW s \in Seq(StatsEntries)
    PROVE  /\ StatsRules!Named(r) \subseteq RuleNames /\ StatsRules!Named(s) \subseteq RuleNames
           /\ RuleNames \subseteq Nat /\ 0 \notin RuleNames
<1>1. r \in Seq(StatsRows)
  <2>1. CASE r = <<>>
      BY <2>1
  <2>2. CASE r \in Configs
      BY <2>2 DEF StatsRules!StatsRulesAssumption, StatsRows
  <2> QED
      BY <2>1, <2>2
<1>2. \A i \in DOMAIN r : r[i] \in StatsRows
    BY <1>1
<1>3. \A i \in DOMAIN s : s[i] \in StatsEntries
    OBVIOUS
<1>4. StatsRules!Named(r) \subseteq RuleNames /\ StatsRules!Named(s) \subseteq RuleNames
    BY <1>2, <1>3 DEF StatsRules!Named, StatsRules!ToSet, StatsRows, StatsEntries
<1> QED
    BY <1>4 DEF StatsRules!StatsRulesAssumption

LEMMA NamesAreRuleNames ==
    ASSUME StatsTypes
    PROVE  StatsNames \subseteq RuleNames /\ RuleNames \subseteq Nat /\ 0 \notin RuleNames
BY NamesAreNames DEF StatsTypes, StatsRules!StatsRulesTypeOK, StatsNames

LEMMA JoinedAre ==
    ASSUME NEW X, NEW s \in Seq(X), NEW t \in Seq(X)
    PROVE  /\ s \o t \in Seq(X) /\ Len(s \o t) = Len(s) + Len(t)
           /\ \A i \in 1..Len(s) : (s \o t)[i] = s[i]
           /\ \A k \in 1..Len(t) : (s \o t)[Len(s) + k] = t[k]
OBVIOUS

\* What a filter leaves of an array that lists each member once.
PlacesOf(K, s, c) == {i \in 1..c : s[i] \in K}

LEMMA FilterEnumerates ==
    ASSUME NEW s, NEW c, NEW S, Enumerates(s, c, S), NEW K,
           NEW F, F = StatsRules!At(s, StatsRules!Ascending(PlacesOf(K, s, c)))
    PROVE  \E d, p : /\ Ascends(p, d, PlacesOf(K, s, c)) /\ F = Picked(s, p, d)
                     /\ Enumerates(F, d, S \cap K)
<1> DEFINE T == PlacesOf(K, s, c)
<1>a. \A i : i \in T <=> i \in 1..c /\ s[i] \in K
    BY DEF PlacesOf
<1> HIDE DEF T
<1>1. c \in Nat /\ DOMAIN s = 1..c
    BY DEF Enumerates
<1>2. IsFiniteSet(T) /\ T \subseteq Nat
  <2>1. T \subseteq 1..c
      BY <1>a
  <2> QED
      BY ONLY <1>1, <2>1, PlacesAreFinite
<1>3. PICK d, p : Ascends(p, d, T) /\ F = Picked(s, p, d)
  <2>1. PICK d, p : /\ Ascends(p, d, T)
                    /\ StatsRules!At(s, StatsRules!Ascending(T)) = Picked(s, p, d)
      BY <1>2, PickedInOrder
  <2> QED
      BY <2>1 DEF T
<1>4. /\ d \in Nat /\ DOMAIN F = 1..d /\ F = [k \in 1..d |-> F[k]]
      /\ \A k \in 1..d : p[k] \in T /\ F[k] = s[p[k]]
    BY <1>3 DEF Ascends, Picked
<1>5. ASSUME NEW k \in 1..d PROVE F[k] \in S \cap K
  <2>1. p[k] \in 1..c /\ s[p[k]] \in K /\ F[k] = s[p[k]]
      BY <1>4, <1>a
  <2> QED
      BY <2>1 DEF Enumerates
<1>6. \A x \in S \cap K : \E k \in 1..d : F[k] = x
  <2>1. TAKE x \in S \cap K
  <2>2. PICK i \in 1..c : s[i] = x
      BY DEF Enumerates
  <2>3. PICK k \in 1..d : p[k] = i
      BY <1>3, <1>a, <2>2 DEF Ascends
  <2> QED
      BY <1>4, <2>2, <2>3
<1>7. \A j, k \in 1..d : F[j] = F[k] => j = k
  <2>1. SUFFICES ASSUME NEW j \in 1..d, NEW k \in 1..d, F[j] = F[k] PROVE j = k
      OBVIOUS
  <2>2. p[j] \in 1..c /\ p[k] \in 1..c /\ s[p[j]] = s[p[k]]
      BY <1>4, <1>a, <2>1
  <2>3. p[j] = p[k]
      BY <2>2 DEF Enumerates
  <2> QED
      BY <1>3, <2>3 DEF Ascends
<1>8. Enumerates(F, d, S \cap K)
    BY <1>4, <1>5, <1>6, <1>7 DEF Enumerates
<1> QED
    BY <1>3, <1>8 DEF T

\* The rows are the rules of the list, then the names that only the snapshot has.
StatsAll == StatsRules!ToSet(StatsRules!BuildRows)
OnlyPolled == StatsRules!Named(snapshot) \ StatsRules!Named(rules)

LEMMA RowsAreBuilt ==
    ASSUME StatsTypes
    PROVE  \E l, d \in Nat : \E u :
             /\ DOMAIN rules = 1..l /\ Enumerates(u, d, OnlyPolled)
             /\ StatsRules!BuildRows =
                  [i \in 1..l + d |-> [name |-> IF i <= l THEN rules[i].name ELSE u[i - l],
                                     place |-> i]]
<1> DEFINE first == StatsRules!Mapped(rules, StatsRules!NameOf)
           polls == StatsRules!Mapped(snapshot, StatsRules!NameOf)
           all == StatsRules!Uniques(polls)
           T == {i \in DOMAIN all : all[i] \notin StatsRules!Named(rules)}
           u == StatsRules!At(all, StatsRules!Ascending(T))
           l == Len(rules)
           m == Len(snapshot)
<1>1. rules \in Seq(StatsRows) /\ snapshot \in Seq(StatsEntries)
    BY RulesAreASequence DEF StatsTypes
<1>2. /\ l \in Nat /\ m \in Nat /\ DOMAIN rules = 1..l /\ DOMAIN snapshot = 1..m
      /\ \A i \in 1..l : rules[i] \in StatsRows
      /\ \A i \in 1..m : snapshot[i] \in StatsEntries
    BY <1>1
<1>3. /\ first = [i \in 1..l |-> rules[i].name]
      /\ polls = [i \in 1..m |-> snapshot[i].name]
    BY <1>1 DEF StatsRules!Mapped, StatsRules!NameOf
<1>4. StatsRules!BuildRows = StatsRules!Rows(first \o u)
    BY DEF StatsRules!BuildRows, StatsRules!Filtered
<1>5. StatsRules!Named(snapshot) = {snapshot[i].name : i \in 1..m}
    BY <1>2 DEF StatsRules!Named, StatsRules!ToSet
<1>6. \A i \in 1..l : rules[i].name \in RuleNames
    BY <1>2 DEF StatsRows
<1> HIDE DEF first, polls, l, m
<1>7. {polls[i] : i \in 1..m} = StatsRules!Named(snapshot) /\ DOMAIN polls = 1..m
    BY <1>3, <1>5
<1>8. PICK c : Enumerates(all, c, StatsRules!Named(snapshot))
  <2>1. \E c : Enumerates(StatsRules!Uniques(polls), c, {polls[i] : i \in 1..m})
      BY <1>2, <1>7, UniquesAreUnique
  <2> QED
      BY <1>7, <2>1
<1> HIDE DEF all
<1>9. T = PlacesOf(OnlyPolled, all, c)
    BY <1>8 DEF Enumerates, OnlyPolled, PlacesOf
<1>10. StatsRules!Named(snapshot) \cap OnlyPolled = OnlyPolled
    BY DEF OnlyPolled
<1>11. PICK d : Enumerates(u, d, OnlyPolled)
  <2>1. u = StatsRules!At(all, StatsRules!Ascending(PlacesOf(OnlyPolled, all, c)))
      BY <1>9
  <2> HIDE DEF T, u
  <2>2. \E d, p : Enumerates(u, d, StatsRules!Named(snapshot) \cap OnlyPolled)
      BY <1>8, <2>1, FilterEnumerates
  <2> QED
      BY <1>10, <2>2
<1> HIDE DEF u
<1>12. /\ first \in Seq(RuleNames) /\ Len(first) = l
       /\ \A i \in 1..l : first[i] = rules[i].name
    BY <1>2, <1>3, <1>6
<1>13. /\ d \in Nat /\ DOMAIN u = 1..d /\ u \in Seq(OnlyPolled) /\ Len(u) = d
  <2>1. d \in Nat /\ DOMAIN u = 1..d /\ u \in [1..d -> OnlyPolled]
      BY <1>11 DEF Enumerates
  <2> QED
      BY <2>1
<1>14. first \o u = [i \in 1..l + d |-> IF i <= l THEN rules[i].name ELSE u[i - l]]
  <2>1. first \in Seq(RuleNames \cup OnlyPolled) /\ u \in Seq(RuleNames \cup OnlyPolled)
      BY <1>12, <1>13
  <2> DEFINE both == first \o u
  <2>2. /\ both \in Seq(RuleNames \cup OnlyPolled) /\ Len(both) = l + d
        /\ \A i \in 1..l : both[i] = first[i]
        /\ \A k \in 1..d : both[l + k] = u[k]
    <3>1. /\ both \in Seq(RuleNames \cup OnlyPolled) /\ Len(both) = Len(first) + Len(u)
          /\ \A i \in 1..Len(first) : both[i] = first[i]
          /\ \A k \in 1..Len(u) : both[Len(first) + k] = u[k]
        BY ONLY <2>1, JoinedAre
    <3>2. Len(first) = l /\ Len(u) = d
        BY <1>12, <1>13
    <3> QED
        BY ONLY <3>1, <3>2
  <2> HIDE DEF both
  <2>3. both = [i \in 1..l + d |-> both[i]]
      BY <2>2
  <2>4. ASSUME NEW i \in 1..l + d
        PROVE  both[i] = IF i <= l THEN rules[i].name ELSE u[i - l]
    <3>1. CASE i <= l
      <4>1. i \in 1..l
          BY <1>2, <3>1
      <4> QED
          BY <1>12, <2>2, <3>1, <4>1
    <3>2. CASE ~(i <= l)
      <4>1. i - l \in 1..d /\ l + (i - l) = i
          BY <1>2, <1>13, <3>2
      <4> QED
          BY <2>2, <3>2, <4>1
    <3> QED
        BY <3>1, <3>2
  <2> QED
      BY <2>3, <2>4 DEF both
<1> HIDE DEF first
<1>15. StatsRules!BuildRows =
         [i \in 1..l + d |-> [name |-> IF i <= l THEN rules[i].name ELSE u[i - l], place |-> i]]
    BY <1>4, <1>14 DEF StatsRules!Rows
<1> QED
    BY <1>2, <1>11, <1>13, <1>15

\* Every rule of the list has the row at its place, and every other name one row.
LEMMA RowsAreWhole ==
    ASSUME StatsTypes
    PROVE  \E c :
             LET rows == StatsRules!BuildRows
             IN  /\ Enumerates(rows, c, StatsAll)
                 /\ \A i \in 1..c : rows[i].place = i
                 /\ \A i \in DOMAIN rules : i \in DOMAIN rows /\ rows[i].name = rules[i].name
                 /\ \A i \in DOMAIN rows \ DOMAIN rules : rows[i].name \in OnlyPolled
                 /\ \A n \in OnlyPolled :
                      \E i \in DOMAIN rows : \A j \in DOMAIN rows : rows[j].name = n <=> j = i
<1> DEFINE rows == StatsRules!BuildRows
<1>1. PICK l, d, u :
         /\ l \in Nat /\ d \in Nat /\ DOMAIN rules = 1..l /\ Enumerates(u, d, OnlyPolled)
         /\ rows = [i \in 1..l + d |-> [name |-> IF i <= l THEN rules[i].name ELSE u[i - l],
                                       place |-> i]]
    BY RowsAreBuilt
<1> HIDE DEF rows
<1> DEFINE c == l + d
<1>2. /\ c \in Nat /\ DOMAIN rows = 1..c /\ rows = [i \in 1..c |-> rows[i]]
      /\ \A i \in 1..c : rows[i].place = i
      /\ \A i \in 1..c : rows[i].name = IF i <= l THEN rules[i].name ELSE u[i - l]
    BY <1>1
<1>3. /\ \A i \in 1..l : i \in 1..c /\ i <= l
      /\ \A i \in 1..c : i \notin 1..l => ~(i <= l) /\ i - l \in 1..d
      /\ \A k \in 1..d : l + k \in 1..c /\ l + k \notin 1..l /\ (l + k) - l = k
      /\ \A i \in 1..c : \A k \in 1..d : i - l = k => i = l + k
    BY <1>1
<1> HIDE DEF c
<1>4. Enumerates(rows, c, {rows[i] : i \in 1..c})
  <2>1. \A j, k \in 1..c : rows[j] = rows[k] => j = k
      BY <1>2
  <2> QED
      BY <1>2, <2>1 DEF Enumerates
<1>5. StatsAll = {rows[i] : i \in 1..c}
    BY <1>2 DEF StatsAll, StatsRules!ToSet, rows
<1>6. \A i \in DOMAIN rules : i \in DOMAIN rows /\ rows[i].name = rules[i].name
    BY <1>1, <1>2, <1>3
<1>7. \A i \in 1..c : i \notin 1..l => rows[i].name = u[i - l] /\ i - l \in 1..d
    BY <1>2, <1>3
<1>8. \A i \in DOMAIN rows \ DOMAIN rules : rows[i].name \in OnlyPolled
    BY <1>1, <1>2, <1>7 DEF Enumerates
<1>9. ASSUME NEW n \in OnlyPolled
      PROVE  \E i \in DOMAIN rows : \A j \in DOMAIN rows : rows[j].name = n <=> j = i
  <2>1. PICK k \in 1..d : u[k] = n
      BY <1>1 DEF Enumerates
  <2>2. l + k \in DOMAIN rows /\ rows[l + k].name = n
      BY <1>2, <1>3, <1>7, <2>1
  <2>3. \A i \in DOMAIN rules : rules[i].name # n
      BY DEF OnlyPolled, StatsRules!Named, StatsRules!ToSet
  <2>4. ASSUME NEW j \in DOMAIN rows, rows[j].name = n PROVE j = l + k
    <3>1. j \in 1..c /\ j \notin 1..l
        BY <1>1, <1>2, <1>6, <2>3, <2>4
    <3>2. u[j - l] = u[k] /\ j - l \in 1..d
        BY <1>7, <2>1, <2>4, <3>1
    <3>3. j - l = k
        BY <1>1, <3>2 DEF Enumerates
    <3> QED
        BY <1>3, <3>1, <3>3
  <2> QED
      BY <2>2, <2>4
<1> QED
    BY <1>2, <1>4, <1>5, <1>6, <1>8, <1>9 DEF rows

\* The rows have the names of the list and of the snapshot.
LEMMA RowsAreNamed ==
    ASSUME StatsTypes
    PROVE  {w.name : w \in StatsAll} = StatsNames
<1> DEFINE rows == StatsRules!BuildRows
<1>1. PICK c :
        /\ Enumerates(rows, c, StatsAll)
        /\ \A i \in DOMAIN rules : i \in DOMAIN rows /\ rows[i].name = rules[i].name
        /\ \A i \in DOMAIN rows \ DOMAIN rules : rows[i].name \in OnlyPolled
        /\ \A n \in OnlyPolled :
             \E i \in DOMAIN rows : \A j \in DOMAIN rows : rows[j].name = n <=> j = i
    BY RowsAreWhole
<1> HIDE DEF rows
<1>2. /\ \A w \in StatsAll : \E i \in DOMAIN rows : rows[i] = w
      /\ \A i \in DOMAIN rows : rows[i] \in StatsAll
    BY <1>1 DEF Enumerates
<1>3. /\ \A i \in DOMAIN rules : rules[i].name \in StatsRules!Named(rules)
      /\ \A n \in StatsRules!Named(rules) : \E i \in DOMAIN rules : rules[i].name = n
    BY DEF StatsRules!Named, StatsRules!ToSet
<1>4. StatsNames = StatsRules!Named(rules) \cup OnlyPolled
    BY DEF StatsNames, OnlyPolled
<1>5. ASSUME NEW w \in StatsAll PROVE w.name \in StatsNames
  <2>1. PICK i \in DOMAIN rows : rows[i] = w
      BY <1>2
  <2> QED
      BY <1>1, <1>3, <1>4, <2>1
<1>6. ASSUME NEW n \in StatsNames PROVE \E w \in StatsAll : w.name = n
  <2>1. CASE n \in StatsRules!Named(rules)
    <3>1. PICK i \in DOMAIN rules : rules[i].name = n
        BY <1>3, <2>1
    <3> QED
        BY <1>1, <1>2, <3>1
  <2>2. CASE n \in OnlyPolled
    <3>1. PICK i \in DOMAIN rows : rows[i].name = n
        BY <1>1, <2>2
    <3> QED
        BY <1>2, <3>1
  <2> QED
      BY <1>4, <2>1, <2>2
<1> QED
    BY <1>5, <1>6

\* The search keeps the rows of its rule, in their order.
Found == {w \in StatsAll : StatsRules!Matches(w.name)}

LEMMA SearchKeepsOrder ==
    ASSUME NEW rows, NEW c, Enumerates(rows, c, StatsAll), rows = StatsRules!BuildRows
    PROVE  \E d, p : /\ Ascends(p, d, PlacesOf(Found, rows, c))
                     /\ StatsRules!FilterRows = Picked(rows, p, d)
                     /\ Enumerates(StatsRules!FilterRows, d, Found)
<1> DEFINE F == StatsRules!FilterRows
<1>1. DOMAIN rows = 1..c /\ \A i \in 1..c : rows[i] \in StatsAll
    BY DEF Enumerates
<1>2. PlacesOf(Found, rows, c) = {i \in 1..c : StatsRules!Matches(rows[i].name)}
    BY <1>1 DEF Found, PlacesOf
<1>3. F = StatsRules!At(rows, StatsRules!Ascending({i \in 1..c : StatsRules!Matches(rows[i].name)}))
    BY <1>1 DEF StatsRules!FilterRows, StatsRules!Filtered
<1>4. StatsAll \cap Found = Found
    BY DEF Found
<1>5. F = StatsRules!At(rows, StatsRules!Ascending(PlacesOf(Found, rows, c)))
    BY <1>2, <1>3
<1> HIDE DEF F
<1>6. \E d, p : /\ Ascends(p, d, PlacesOf(Found, rows, c)) /\ F = Picked(rows, p, d)
               /\ Enumerates(F, d, StatsAll \cap Found)
    BY <1>5, FilterEnumerates
<1> QED
    BY <1>4, <1>6 DEF F

\* What is found under a name is an entry of that name.
LEMMA EntriesAreFound ==
    ASSUME NEW X, NEW s \in Seq(X), NEW name \in StatsRules!Named(s)
    PROVE  \E i \in DOMAIN s : s[i].name = name /\ StatsRules!Function(s)[name] = s[i]
<1> DEFINE T == {i \in 1..Len(s) : s[i].name = name}
           first == StatsRules!SelectInSeq(s, LAMBDA e : e.name = name)
<1>1. Len(s) \in Nat /\ DOMAIN s = 1..Len(s)
    OBVIOUS
<1>2. T # {}
    BY <1>1 DEF StatsRules!Named, StatsRules!ToSet
<1>3. T \subseteq 1..Len(s)
    OBVIOUS
<1>4. first = CHOOSE i \in T : \A j \in T : i <= j
    BY <1>2 DEF StatsRules!SelectInSeq, StatsRules!Min
<1>5. \A i : i \in T <=> i \in 1..Len(s) /\ s[i].name = name
    OBVIOUS
<1>6. StatsRules!Function(s)[name] = s[first]
    BY <1>1 DEF StatsRules!Function, StatsRules!Named
<1> HIDE DEF T, first
<1>7. IsFiniteSet(T) /\ T \subseteq Nat
    BY <1>1, <1>3, PlacesAreFinite
<1>8. first \in T
    BY <1>2, <1>4, <1>7, FirstPlace
<1> QED
    BY <1>1, <1>5, <1>6, <1>8

LEMMA BytesAreNumbers ==
    ASSUME StatsTypes
    PROVE  \A n : StatsRules!Bytes(n) \in Nat
<1>1. snapshot \in Seq(StatsEntries)
    BY DEF StatsTypes
<1>2. \A i \in DOMAIN snapshot : snapshot[i].bytes \in Nat
  <2>1. \A i \in DOMAIN snapshot : snapshot[i] \in StatsEntries
      BY <1>1
  <2> QED
      BY <2>1 DEF StatsEntries
<1>3. DOMAIN StatsRules!EntryOf = StatsRules!Named(snapshot)
    BY DEF StatsRules!EntryOf, StatsRules!Function, StatsRules!Named
<1>4. TAKE n
<1>5. CASE n \in StatsRules!Named(snapshot)
  <2>1. PICK i \in DOMAIN snapshot : StatsRules!Function(snapshot)[n] = snapshot[i]
      BY <1>1, <1>5, EntriesAreFound
  <2> QED
      BY <1>2, <1>3, <1>5, <2>1 DEF StatsRules!Bytes, StatsRules!EntryOf
<1>6. CASE n \notin StatsRules!Named(snapshot)
    BY <1>3, <1>6 DEF StatsRules!Bytes
<1> QED
    BY <1>5, <1>6

\* sort is stable: it lists the same rows, and those with equal bytes as they were.
LEMMA SortIsStable ==
    ASSUME StatsTypes, NEW F, NEW c, NEW S, Enumerates(F, c, S),
           \A w \in S : w.name \in RuleNames, sort.key # "configured"
    PROVE  \E q : /\ Enumerates(q, c, 1..c)
                  /\ StatsRules!SortRows(F) = Picked(F, q, c)
                  /\ sort.key = "bytes" =>
                       \A i, j \in 1..c :
                         i < j /\ StatsRules!Bytes(F[q[i]].name) = StatsRules!Bytes(F[q[j]].name)
                           => q[i] < q[j]
<1> DEFINE D == 1..c
           key == [i \in D |-> IF sort.key = "name" THEN F[i].name
                              ELSE StatsRules!Bytes(F[i].name)]
           less(a, b) == IF sort.up THEN a < b ELSE b < a
           order == {p \in D \X D : \/ less(key[p[1]], key[p[2]])
                                    \/ ~less(key[p[2]], key[p[1]]) /\ p[1] < p[2]}
           q == StatsRules!InOrder(D, order)
<1>1. c \in Nat /\ DOMAIN F = D /\ \A i \in D : F[i].name \in Nat
  <2>1. RuleNames \subseteq Nat
      BY NamesAreRuleNames
  <2> QED
      BY <2>1 DEF Enumerates
<1>2. IsFiniteSet(D) /\ Cardinality(D) = c
    BY <1>1, FS_Interval
<1>3. \A i \in D : i \in Nat /\ key[i] \in Nat
  <2>1. SUFFICES ASSUME NEW i \in D PROVE i \in Nat /\ key[i] \in Nat
      OBVIOUS
  <2>2. F[i].name \in Nat /\ StatsRules!Bytes(F[i].name) \in Nat
      BY <1>1, BytesAreNumbers
  <2> QED
      BY <1>1, <2>2
<1>4. StatsRules!SortRows(F) = StatsRules!At(F, q)
  <2>1. StatsRules!SortRows(F) = StatsRules!StableSort(F, StatsRules!Before)
      BY DEF StatsRules!SortRows
  <2> QED
      BY <1>1, <2>1 DEF StatsRules!StableSort, StatsRules!Before, StatsRules!Below
<1>5. sort.key = "bytes" => \A i \in D : key[i] = StatsRules!Bytes(F[i].name)
    OBVIOUS
<1> HIDE DEF key
<1>6. \A i, j \in D :
         <<i, j>> \in order <=> less(key[i], key[j]) \/ (~less(key[j], key[i]) /\ i < j)
    OBVIOUS
<1> HIDE DEF order, D
<1>7. sort.up \in BOOLEAN
    BY DEF StatsTypes
<1>8. IsOrder(D, order)
  <2>1. CASE sort.up
    <3>1. \A i, j \in D : <<i, j>> \in order <=> key[i] < key[j] \/ (key[i] = key[j] /\ i < j)
      <4>1. TAKE i, j \in D
      <4>2. key[i] \in Nat /\ key[j] \in Nat
          BY <1>3
      <4>3. less(key[i], key[j]) <=> key[i] < key[j]
          BY <2>1
      <4>4. less(key[j], key[i]) <=> key[j] < key[i]
          BY <2>1
      <4> HIDE DEF less
      <4>5. <<i, j>> \in order <=> less(key[i], key[j]) \/ (~less(key[j], key[i]) /\ i < j)
          BY <1>6
      <4> QED
          BY <4>2, <4>3, <4>4, <4>5
    <3> QED
        BY <1>3, <3>1 DEF IsOrder
  <2>2. CASE ~sort.up
    <3>1. \A i, j \in D : <<i, j>> \in order <=> key[j] < key[i] \/ (key[i] = key[j] /\ i < j)
      <4>1. TAKE i, j \in D
      <4>2. key[i] \in Nat /\ key[j] \in Nat
          BY <1>3
      <4>3. less(key[i], key[j]) <=> key[j] < key[i]
          BY <2>2
      <4>4. less(key[j], key[i]) <=> key[i] < key[j]
          BY <2>2
      <4> HIDE DEF less
      <4>5. <<i, j>> \in order <=> less(key[i], key[j]) \/ (~less(key[j], key[i]) /\ i < j)
          BY <1>6
      <4> QED
          BY <4>2, <4>3, <4>4, <4>5
    <3> QED
        BY <1>3, <3>1 DEF IsOrder
  <2> QED
      BY <2>1, <2>2
<1> HIDE DEF q, less
<1>9. q = StatsRules!InOrder(D, order)
    BY DEF q
<1>10. /\ q \in [1..c -> D]
       /\ \A i, j \in 1..c : i < j => <<q[i], q[j]>> \in order
       /\ \A i, j \in 1..c : q[i] = q[j] => i = j
       /\ \A x \in D : \E i \in 1..c : q[i] = x
    BY <1>2, <1>8, <1>9, InOrderIsInOrder
<1>11. Enumerates(q, c, D)
    BY <1>1, <1>10 DEF Enumerates
<1>12. StatsRules!SortRows(F) = Picked(F, q, c)
    BY <1>4, <1>10 DEF StatsRules!At, Picked
<1>13. ASSUME sort.key = "bytes", NEW i \in 1..c, NEW j \in 1..c, i < j,
              StatsRules!Bytes(F[q[i]].name) = StatsRules!Bytes(F[q[j]].name)
       PROVE  q[i] < q[j]
  <2>1. q[i] \in D /\ q[j] \in D /\ <<q[i], q[j]>> \in order
      BY <1>10, <1>13
  <2>2. key[q[i]] = key[q[j]]
      BY <1>5, <1>13, <2>1
  <2> QED
      BY <1>3, <1>6, <2>1, <2>2 DEF less
<1>14. D = 1..c
    BY DEF D
<1> QED
    BY <1>11, <1>12, <1>13, <1>14

\* What is shown are the rows that the search leaves, however they are sorted, once each.
LEMMA ShownIsFound ==
    ASSUME StatsTypes
    PROVE  \E d : Enumerates(StatsRules!Shown, d, Found)
<1> DEFINE F == StatsRules!FilterRows
<1>1. PICK d : Enumerates(F, d, Found)
  <2>1. PICK c : Enumerates(StatsRules!BuildRows, c, StatsAll)
      BY RowsAreWhole
  <2> QED
      BY <2>1, SearchKeepsOrder
<1>2. \A w \in Found : w.name \in RuleNames
    BY NamesAreRuleNames, RowsAreNamed DEF Found
<1>3. StatsRules!Shown = StatsRules!SortRows(F)
    BY DEF StatsRules!Shown
<1> HIDE DEF F
<1>5. sort.key \in {"configured", "name", "bytes"} /\ sort.up \in BOOLEAN
    BY DEF StatsTypes
<1>6. CASE sort.key = "configured" /\ sort.up
  <2>1. StatsRules!SortRows(F) = F
      BY <1>6 DEF StatsRules!SortRows
  <2> QED
      BY <1>1, <1>3, <2>1
<1>7. CASE sort.key = "configured" /\ ~sort.up
  <2>1. StatsRules!SortRows(F) = [i \in 1..Len(F) |-> F[Len(F) - i + 1]]
      BY <1>7 DEF StatsRules!SortRows, StatsRules!Reverse
  <2>2. Len(F) = d /\ d \in Nat
    <3>1. F \in [1..d -> Found] /\ d \in Nat
        BY <1>1 DEF Enumerates
    <3> QED
        BY <3>1
  <2> DEFINE q == [i \in 1..d |-> d - i + 1]
  <2>3. \A i \in 1..d : q[i] \in 1..d /\ q[q[i]] = i
      BY <2>2
  <2>4. StatsRules!SortRows(F) = Picked(F, q, d)
      BY <2>1, <2>2 DEF Picked
  <2>5. DOMAIN q = 1..d /\ q = [k \in 1..d |-> q[k]]
      OBVIOUS
  <2> HIDE DEF q
  <2>6. Enumerates(q, d, 1..d)
      BY <2>2, <2>3, <2>5 DEF Enumerates
  <2> QED
      BY <1>1, <1>3, <2>4, <2>6, PickedEnumerates
<1>8. CASE sort.key # "configured"
  <2>1. PICK q : Enumerates(q, d, 1..d) /\ StatsRules!SortRows(F) = Picked(F, q, d)
      BY <1>1, <1>2, <1>8, SortIsStable
  <2> QED
      BY <1>1, <1>3, <2>1, PickedEnumerates
<1> QED
    BY <1>5, <1>6, <1>7, <1>8

\* The chips of the configured rows add up to the counts of the overview, where
\* rules of one name are alike.
LEMMA ChipsAddUp ==
    ASSUME StatsTypes, NEW state, NEW rows,
           \A i, j \in DOMAIN rules : rules[i].name = rules[j].name =>
                                      rules[i].disabled = rules[j].disabled,
           \A i \in DOMAIN rules : rows[i].name = rules[i].name
    PROVE  StatsRules!CountRuleStates(state) =
             StatsRules!Cardinality({i \in DOMAIN rules : StatsRules!Chip(rows[i].name) = state})
<1>1. rules \in Seq(StatsRows)
    BY RulesAreASequence
<1>2. ASSUME NEW j \in DOMAIN rules
      PROVE  StatsRules!Chip(rows[j].name) = StatsRules!CardState(rules[j])
  <2>1. /\ StatsRules!Configured(rules[j].name) /\ rows[j].name = rules[j].name
        /\ rules[j].name \in StatsRules!Named(rules)
      BY DEF StatsRules!Configured, StatsRules!Named, StatsRules!ToSet
  <2>2. PICK i \in DOMAIN rules : /\ rules[i].name = rules[j].name
                                  /\ StatsRules!Function(rules)[rules[j].name] = rules[i]
      BY <1>1, <2>1, EntriesAreFound
  <2>3. StatsRules!RuleOf[rules[j].name].disabled = rules[j].disabled
      BY <2>2 DEF StatsRules!RuleOf
  <2>4. rules[j].disabled \in BOOLEAN
    <3>1. rules[j] \in StatsRows
        BY <1>1
    <3> QED
        BY <3>1 DEF StatsRows
  <2> QED
      BY <2>1, <2>3, <2>4 DEF StatsRules!Chip, StatsRules!CardState
<1>3. {i \in DOMAIN rules : StatsRules!Chip(rows[i].name) = state} =
        {i \in DOMAIN rules : StatsRules!CardState(rules[i]) = state}
    BY <1>2
<1> QED
    BY <1>3 DEF StatsRules!CountRuleStates

LEMMA RowsShow ==
    ASSUME StatsTypes
    PROVE  StatsRules!RowsAreWhole
<1> DEFINE rows == StatsRules!BuildRows  F == StatsRules!FilterRows  listed == StatsRules!Shown
<1>1. PICK c :
        /\ Enumerates(rows, c, StatsAll) /\ \A i \in 1..c : rows[i].place = i
        /\ \A i \in DOMAIN rules : i \in DOMAIN rows /\ rows[i].name = rules[i].name
        /\ \A i \in DOMAIN rows \ DOMAIN rules : rows[i].name \in OnlyPolled
        /\ \A n \in OnlyPolled :
             \E i \in DOMAIN rows : \A j \in DOMAIN rows : rows[j].name = n <=> j = i
    BY RowsAreWhole
<1>2. PICK d, p : /\ Ascends(p, d, PlacesOf(Found, rows, c))
                  /\ F = Picked(rows, p, d) /\ Enumerates(F, d, Found)
    BY <1>1, SearchKeepsOrder
<1>3. StatsRules!ToSet(rows) = StatsAll
    BY DEF StatsAll
<1>4. PICK e : Enumerates(listed, e, Found)
    BY ShownIsFound
<1>5. listed = StatsRules!SortRows(F)
    BY DEF StatsRules!Shown
<1>6. StatsRules!OnPage = IF StatsRules!Ready THEN {n \in StatsNames : StatsRules!Matches(n)} ELSE {}
    BY DEF StatsRules!OnPage, StatsNames
<1> HIDE DEF rows, F, listed
<1>7. /\ StatsRules!ToSet(listed) = Found
      /\ \A i, j \in DOMAIN listed : listed[i] = listed[j] => i = j
    BY <1>4 DEF Enumerates, StatsRules!ToSet
<1>8. {w.name : w \in Found} = {n \in StatsNames : StatsRules!Matches(n)}
    BY RowsAreNamed DEF Found
<1>9. ASSUME \A i, j \in DOMAIN rules : rules[i].name = rules[j].name =>
                                        rules[i].disabled = rules[j].disabled,
             NEW state
      PROVE  StatsRules!CountRuleStates(state) =
               StatsRules!Cardinality({i \in DOMAIN rules : StatsRules!Chip(rows[i].name) = state})
    BY <1>1, <1>9, ChipsAddUp
<1>10. ASSUME sort.key = "bytes", NEW i \in DOMAIN listed, NEW j \in DOMAIN listed, i < j,
              StatsRules!Bytes(listed[i].name) = StatsRules!Bytes(listed[j].name)
       PROVE  listed[i].place < listed[j].place
  <2>1. \A w \in Found : w.name \in RuleNames
      BY NamesAreRuleNames, RowsAreNamed DEF Found
  <2>2. PICK q : /\ Enumerates(q, d, 1..d) /\ listed = Picked(F, q, d)
                 /\ \A k, m \in 1..d :
                      (k < m /\ StatsRules!Bytes(F[q[k]].name) = StatsRules!Bytes(F[q[m]].name))
                        => q[k] < q[m]
      BY <1>2, <1>5, <1>10, <2>1, SortIsStable
  <2>3. /\ i \in 1..d /\ j \in 1..d /\ q[i] \in 1..d /\ q[j] \in 1..d
        /\ listed[i] = F[q[i]] /\ listed[j] = F[q[j]]
      BY <2>2 DEF Picked, Enumerates
  <2>4. q[i] < q[j]
      BY <1>10, <2>2, <2>3
  <2>5. /\ p[q[i]] \in 1..c /\ p[q[j]] \in 1..c /\ p[q[i]] < p[q[j]]
        /\ listed[i] = rows[p[q[i]]] /\ listed[j] = rows[p[q[j]]]
      BY <1>2, <2>3, <2>4 DEF Ascends, Picked, PlacesOf
  <2> QED
      BY <1>1, <2>5
<1>11. /\ \A i \in DOMAIN rules : i \in DOMAIN rows /\ rows[i].name = rules[i].name
       /\ \A i \in DOMAIN rows \ DOMAIN rules :
            rows[i].name \in StatsRules!Named(snapshot) \ StatsRules!Named(rules)
       /\ \A n \in StatsRules!Named(snapshot) \ StatsRules!Named(rules) :
            \E i \in DOMAIN rows : \A j \in DOMAIN rows : rows[j].name = n <=> j = i
    BY <1>1 DEF OnlyPolled
<1>12. StatsRules!ToSet(listed) = {w \in StatsRules!ToSet(rows) : StatsRules!Matches(w.name)}
    BY <1>3, <1>7 DEF Found
<1>13. StatsRules!Ready => {w.name : w \in StatsRules!ToSet(listed)} = StatsRules!OnPage
    BY <1>6, <1>7, <1>8
<1> QED
    BY <1>7, <1>9, <1>10, <1>11, <1>12, <1>13 DEF StatsRules!RowsAreWhole, rows, listed

LEMMA StatsShows == StatsInv => /\ StatsRules!StatsRulesTypeOK /\ StatsRules!RowsAreWhole
                                /\ StatsRules!FocusIsAsked
BY RowsShow DEF StatsInv, StatsTypes

LEMMA StatsInit ==
    ASSUME StatsRules!StatsRulesAssumption, StatsRules!Init
    PROVE  StatsInv
<1>1. /\ config \in Configs /\ asked = "asked" /\ answer = <<>> /\ known = FALSE /\ rules = <<>>
      /\ runtime = <<>> /\ polled = FALSE /\ snapshot = <<>> /\ query = 0
      /\ sort = [key |-> "configured", up |-> TRUE]
      /\ route \in {0} \cup RuleNames /\ focusPending = route
      /\ visits = (IF route = 0 THEN 0 ELSE 1) /\ focuses = 0
    BY DEF StatsRules!Init
<1>2. StatsRules!StatsRulesTypeOK
  <2>1. running \in Configs \cup {<<>>} /\ StatsRules!Distinct(running)
      BY DEF StatsRules!Init
  <2> QED
      BY <1>1, <2>1 DEF StatsRules!StatsRulesTypeOK, StatsRules!Range
<1>3. snapshot \in Seq(StatsEntries)
    BY <1>1
<1>4. sort \in [key : {"configured", "name", "bytes"}, up : BOOLEAN]
    BY <1>1
<1>5. StatsRules!FocusIsAsked
    BY <1>1 DEF StatsRules!FocusIsAsked, StatsRules!OnPage, StatsRules!Ready
<1> QED
    BY <1>2, <1>3, <1>4, <1>5 DEF StatsInv, StatsTypes

\* The effect on what is to be focused, after a step that changed what it reads.
LEMMA StatsFocus ==
    ASSUME StatsRules!StatsRulesAssumption,
           rules' \in Configs \cup {<<>>}, snapshot' \in Seq(StatsEntries),
           NEW wanted \in {0} \cup RuleNames, StatsRules!Focus(wanted),
           focuses \in Nat, visits' \in Nat, focuses <= visits',
           wanted # 0 => focuses < visits'
    PROVE  /\ focuses' \in Nat /\ focusPending' \in {0} \cup RuleNames
           /\ StatsRules!FocusIsAsked'
<1>1. StatsRules!OnPage' \subseteq RuleNames /\ 0 \notin RuleNames
    BY NamesAreNames DEF StatsRules!OnPage
<1>2. CASE wanted \in StatsRules!OnPage' /\ focusPending' = 0 /\ focuses' = focuses + 1
    BY <1>1, <1>2 DEF StatsRules!FocusIsAsked
<1>3. CASE /\ wanted \notin StatsRules!OnPage' \/ ~StatsRules!Distinct(rules')
           /\ focusPending' = wanted /\ UNCHANGED focuses
    BY <1>1, <1>3 DEF StatsRules!FocusIsAsked
<1> QED
    BY <1>2, <1>3 DEF StatsRules!Focus

\* Steps after which the page has the rows it had.
LEMMA StatsQuiet ==
    ASSUME StatsInv,
           UNCHANGED <<known, rules, polled, snapshot, query, visits, focusPending, focuses>>
    PROVE  StatsRules!FocusIsAsked'
<1>1. StatsRules!OnPage' = StatsRules!OnPage
    BY DEF StatsRules!OnPage, StatsRules!Ready, StatsRules!Named, StatsRules!Matches
<1>2. StatsRules!Distinct(rules') <=> StatsRules!Distinct(rules)
    OBVIOUS
<1> QED
    BY <1>1, <1>2 DEF StatsInv, StatsRules!FocusIsAsked

LEMMA SnapshotIsOfEntries ==
    ASSUME StatsTypes, NEW bytes \in [StatsRules!Enabled -> {0, 1}]
    PROVE  StatsRules!Mapped(StatsRules!Filtered(running, LAMBDA r : ~r.disabled),
                             LAMBDA r : [name |-> r.name, bytes |-> bytes[r.name]])
             \in Seq(StatsEntries)
<1> DEFINE T == {i \in DOMAIN running : ~running[i].disabled}
           on == StatsRules!Filtered(running, LAMBDA r : ~r.disabled)
<1>1. running \in Seq(StatsRows)
  <2>1. CASE running = <<>>
      BY <2>1
  <2>2. CASE running \in Configs
      BY <2>2 DEF StatsTypes, StatsRules!StatsRulesAssumption, StatsRows
  <2> QED
      BY <2>1, <2>2 DEF StatsTypes, StatsRules!StatsRulesTypeOK
<1>2. Len(running) \in Nat /\ T \subseteq 1..Len(running)
  <2> HIDE DEF on
  <2>1. Len(running) \in Nat /\ DOMAIN running = 1..Len(running)
      BY <1>1
  <2> QED
      BY <2>1
<1>3. \A i \in T : i \in DOMAIN running /\ running[i].name \in StatsRules!Enabled
    BY DEF StatsRules!Enabled
<1>4. on = StatsRules!At(running, StatsRules!Ascending(T))
    BY DEF StatsRules!Filtered
<1>5. StatsRules!Mapped(on, LAMBDA r : [name |-> r.name, bytes |-> bytes[r.name]]) =
        [k \in DOMAIN on |-> [name |-> on[k].name, bytes |-> bytes[on[k].name]]]
    BY DEF StatsRules!Mapped
<1> HIDE DEF T, on
<1>6. IsFiniteSet(T) /\ T \subseteq Nat
    BY <1>2, PlacesAreFinite
<1>7. PICK d, p : /\ Ascends(p, d, T)
                  /\ StatsRules!At(running, StatsRules!Ascending(T)) = Picked(running, p, d)
    BY <1>6, PickedInOrder
<1>8. /\ d \in Nat /\ DOMAIN on = 1..d
      /\ \A k \in 1..d : p[k] \in T /\ on[k] = running[p[k]]
    BY <1>4, <1>7 DEF Ascends, Picked
<1>11. \A i \in T : running[i] \in StatsRows
    BY <1>1, <1>3
<1>9. \A k \in 1..d : on[k].name \in RuleNames /\ on[k].name \in StatsRules!Enabled
  <2>1. TAKE k \in 1..d
  <2>2. on[k] \in StatsRows /\ on[k].name \in StatsRules!Enabled
      BY <1>3, <1>8, <1>11
  <2> QED
      BY <2>2 DEF StatsRows
<1>10. \A k \in 1..d : [name |-> on[k].name, bytes |-> bytes[on[k].name]] \in StatsEntries
    BY <1>9 DEF StatsEntries
<1> DEFINE e == [k \in DOMAIN on |-> [name |-> on[k].name, bytes |-> bytes[on[k].name]]]
<1>12. DOMAIN e = 1..d /\ \A k \in 1..d : e[k] \in StatsEntries
    BY <1>8, <1>10
<1>13. e = [k \in 1..d |-> e[k]]
    BY <1>8
<1> HIDE DEF e
<1>14. e \in [1..d -> StatsEntries]
    BY <1>12, <1>13
<1>15. e \in Seq(StatsEntries)
    BY <1>8, <1>14
<1> QED
    BY <1>5, <1>15 DEF e, on

LEMMA StatsStep ==
    ASSUME StatsInv, StatsRules!Next
    PROVE  StatsInv'
<1> DEFINE types == /\ StatsRules!StatsRulesTypeOK' /\ snapshot' \in Seq(StatsEntries)
                    /\ sort' \in [key : {"configured", "name", "bytes"}, up : BOOLEAN]
<1>1. /\ StatsRules!StatsRulesAssumption
      /\ running \in Configs \cup {<<>>} /\ StatsRules!Distinct(running)
      /\ config \in Configs /\ answer \in Configs \cup {<<>>} /\ rules \in Configs \cup {<<>>}
      /\ asked \in {"no", "asked", "answered", "failed"}
      /\ DOMAIN runtime \subseteq RuleNames /\ StatsRules!Range(runtime) \subseteq States
      /\ query \in {0} \cup RuleNames /\ route \in {0} \cup RuleNames
      /\ focusPending \in {0} \cup RuleNames /\ visits \in Nat /\ focuses \in Nat
      /\ snapshot \in Seq(StatsEntries)
      /\ sort \in [key : {"configured", "name", "bytes"}, up : BOOLEAN]
      /\ focuses <= visits /\ (focusPending # 0 => focuses < visits)
    BY DEF StatsInv, StatsTypes, StatsRules!StatsRulesTypeOK, StatsRules!FocusIsAsked
<1>2. SUFFICES types /\ StatsRules!FocusIsAsked'
    BY <1>1, <1>2 DEF StatsInv, StatsTypes
<1>3. CASE \/ StatsRules!Edit \/ StatsRules!Reload \/ StatsRules!Answer \/ StatsRules!LoadFails
           \/ StatsRules!Retry
  <2>1. /\ config' \in Configs /\ answer' \in Configs \cup {<<>>}
        /\ running' \in Configs \cup {<<>>} /\ StatsRules!Distinct(running')
        /\ asked' \in {"no", "asked", "answered", "failed"}
        /\ UNCHANGED <<known, rules, polled, snapshot, runtime, query, sort, route, visits,
                       focusPending, focuses>>
    <3>1. CASE StatsRules!Edit
        BY <1>1, <3>1 DEF StatsRules!Edit, StatsRules!loads, StatsRules!polls, StatsRules!view
    <3>2. CASE StatsRules!Reload
        BY <1>1, <3>2 DEF StatsRules!Reload, StatsRules!loads, StatsRules!polls, StatsRules!view
    <3>3. CASE StatsRules!Answer \/ StatsRules!LoadFails \/ StatsRules!Retry
        BY <1>1, <3>3 DEF StatsRules!Answer, StatsRules!LoadFails, StatsRules!Retry,
           StatsRules!server, StatsRules!polls, StatsRules!view
    <3> QED
        BY <1>3, <3>1, <3>2, <3>3
  <2>2. StatsRules!FocusIsAsked'
      BY <2>1, StatsQuiet
  <2> QED
      BY <1>1, <2>1, <2>2 DEF StatsRules!StatsRulesTypeOK, StatsRules!Range
<1>4. CASE StatsRules!Loaded
  <2>1. /\ asked' = "no" /\ rules' \in Configs \cup {<<>>} /\ answer' = <<>>
        /\ UNCHANGED <<config, running, runtime, polled, snapshot, query, sort, route, visits>>
        /\ StatsRules!Focus(focusPending)
      BY <1>1, <1>4 DEF StatsRules!Loaded, StatsRules!server, StatsRules!polls, StatsRules!view
  <2>2. /\ StatsRules!FocusIsAsked'
        /\ focuses' \in Nat /\ focusPending' \in {0} \cup RuleNames
      BY <1>1, <2>1, StatsFocus
  <2> QED
      BY <1>1, <2>1, <2>2 DEF StatsRules!StatsRulesTypeOK, StatsRules!Range
<1>5. CASE StatsRules!PollStatus
  <2>1. /\ runtime' \in [StatsRules!Enabled -> States]
        /\ UNCHANGED <<config, running, asked, answer, known, rules, polled, snapshot, query, sort, route,
                       visits, focusPending, focuses>>
      BY <1>5 DEF StatsRules!PollStatus, StatsRules!server, StatsRules!loads, StatsRules!view
  <2>2. StatsRules!FocusIsAsked'
      BY <2>1, StatsQuiet
  <2>3. StatsRules!Enabled \subseteq RuleNames
    <3>1. running \in Seq(StatsRows)
      <4>1. running = <<>> => running \in Seq(StatsRows)
          OBVIOUS
      <4> QED
          BY <1>1, <4>1 DEF StatsRules!StatsRulesAssumption, StatsRows
    <3>2. \A i \in DOMAIN running : running[i] \in StatsRows
        BY <3>1
    <3> QED
        BY <3>2 DEF StatsRules!Enabled, StatsRows
  <2>4. DOMAIN runtime' \subseteq RuleNames /\ StatsRules!Range(runtime') \subseteq States
      BY <2>1, <2>3 DEF StatsRules!Range
  <2> QED
      BY <1>1, <2>1, <2>2, <2>4 DEF StatsRules!StatsRulesTypeOK, StatsRules!Range
<1>6. CASE StatsRules!PollStats
  <2>1. /\ snapshot' \in Seq(StatsEntries)
        /\ UNCHANGED <<config, running, asked, answer, known, rules, runtime, query, sort, route, visits>>
        /\ StatsRules!Focus(focusPending)
      BY <1>6, SnapshotIsOfEntries DEF StatsInv, StatsRules!PollStats, StatsRules!server, StatsRules!loads,
         StatsRules!view
  <2>2. /\ StatsRules!FocusIsAsked'
        /\ focuses' \in Nat /\ focusPending' \in {0} \cup RuleNames
      BY <1>1, <2>1, StatsFocus
  <2> QED
      BY <1>1, <2>1, <2>2 DEF StatsRules!StatsRulesTypeOK, StatsRules!Range
<1>7. CASE StatsRules!Visit
  <2>1. PICK n \in RuleNames :
          /\ route' = n /\ visits' = visits + 1
          /\ UNCHANGED <<config, running, asked, answer, known, rules, runtime, polled, snapshot, query, sort>>
          /\ StatsRules!Focus(n)
      BY <1>7 DEF StatsRules!Visit, StatsRules!server, StatsRules!loads, StatsRules!polls
  <2>2. focuses <= visits' /\ focuses < visits' /\ visits' \in Nat
      BY <1>1, <2>1
  <2>3. /\ StatsRules!FocusIsAsked'
        /\ focuses' \in Nat /\ focusPending' \in {0} \cup RuleNames
      BY <1>1, <2>1, <2>2, StatsFocus
  <2> QED
      BY <1>1, <2>1, <2>2, <2>3 DEF StatsRules!StatsRulesTypeOK, StatsRules!Range
<1>8. CASE StatsRules!LeaveRule \/ StatsRules!SortBy
  <2>1. /\ route' \in {0} \cup RuleNames
        /\ sort' \in [key : {"configured", "name", "bytes"}, up : BOOLEAN]
        /\ UNCHANGED <<config, running, asked, answer, known, rules, runtime, polled, snapshot, query,
                       visits, focusPending, focuses>>
      BY <1>1, <1>8 DEF StatsRules!LeaveRule, StatsRules!SortBy, StatsRules!server, StatsRules!loads,
         StatsRules!polls, StatsRules!StatsRulesAssumption
  <2>2. StatsRules!FocusIsAsked'
      BY <2>1, StatsQuiet
  <2> QED
      BY <1>1, <2>1, <2>2 DEF StatsRules!StatsRulesTypeOK, StatsRules!Range
<1>9. CASE StatsRules!Search
  <2>1. /\ query' \in {0} \cup RuleNames
        /\ UNCHANGED <<config, running, asked, answer, known, rules, runtime, polled, snapshot, sort, route,
                       visits>>
        /\ StatsRules!Focus(focusPending)
      BY <1>1, <1>9 DEF StatsRules!Search, StatsRules!server, StatsRules!loads, StatsRules!polls,
         StatsRules!StatsRulesAssumption
  <2>2. /\ StatsRules!FocusIsAsked'
        /\ focuses' \in Nat /\ focusPending' \in {0} \cup RuleNames
      BY <1>1, <2>1, StatsFocus
  <2> QED
      BY <1>1, <2>1, <2>2 DEF StatsRules!StatsRulesTypeOK, StatsRules!Range
<1> QED
    BY <1>3, <1>4, <1>5, <1>6, <1>7, <1>8, <1>9 DEF StatsRules!Next

-----------------------------------------------------------------------------
(* The form of a rule: its chains.                                         *)

LEMMA SameAscending ==
    \A T : RuleForm!Ascending(T) = StatsRules!Ascending(T)
BY DEF RuleForm!Ascending, StatsRules!Ascending, RuleForm!InOrder, StatsRules!InOrder,
       RuleForm!Cardinality, StatsRules!Cardinality, RuleForm!IsFiniteSet, StatsRules!IsFiniteSet

\* Fewer places than there are.
LEMMA AscendsWithin ==
    ASSUME NEW n \in Nat, NEW T, T \subseteq 1..n, NEW p, NEW c, Ascends(p, c, T)
    PROVE  c <= n
<1>1. IsFiniteSet(T)
    BY PlacesAreFinite
<1>2. c \in Nat /\ p \in Injection(1..c, T)
    BY DEF Ascends, Injection, IsInjective
<1>3. Cardinality(1..c) = c /\ IsFiniteSet(1..n) /\ Cardinality(1..n) = n
    BY <1>2, FS_Interval
<1>4. Cardinality(1..c) <= Cardinality(T)
    BY <1>1, <1>2, FS_Injection
<1>5. Cardinality(T) <= n /\ Cardinality(T) \in Nat
  <2> DEFINE D == 1..n
  <2>1. T \in SUBSET D /\ IsFiniteSet(D) /\ Cardinality(D) = n
      BY <1>3
  <2> HIDE DEF D
  <2> QED
      BY <2>1, <1>1, FS_Subset, FS_CardinalityType
<1> QED
    BY <1>2, <1>3, <1>4, <1>5

\* All places, ascending, are where they are.
LEMMA AscendsAll ==
    ASSUME NEW n \in Nat, NEW p, NEW c, Ascends(p, c, 1..n)
    PROVE  c = n /\ \A i \in 1..n : p[i] = i
<1>1. c \in Nat /\ c <= n
    BY AscendsWithin DEF Ascends
<1>2. c = n
  <2>1. p \in Surjection(1..c, 1..n)
      BY DEF Ascends, Surjection
  <2>2. /\ IsFiniteSet(1..c) /\ Cardinality(1..c) = c /\ Cardinality(1..n) = n
      BY <1>1, FS_Interval
  <2>3. Cardinality(1..n) <= Cardinality(1..c)
      BY <2>1, <2>2, FS_Surjection
  <2> QED
      BY <1>1, <2>2, <2>3
<1>3. ASSUME \E i \in 1..n : p[i] # i
      PROVE  FALSE
  <2> DEFINE W == {i \in 1..n : p[i] # i}
  <2>1. W # {} /\ IsFiniteSet(W) /\ W \subseteq Nat
    <3>1. W \subseteq 1..n /\ W # {}
        BY <1>3
    <3> HIDE DEF W
    <3> QED
        BY <3>1, PlacesAreFinite
  <2>2. PICK i \in W : \A j \in W : i <= j
    <3> HIDE DEF W
    <3> QED
        BY <2>1, FirstPlace
  <2>3. /\ i \in 1..n /\ p[i] # i /\ p[i] \in 1..n
        /\ \A j \in 1..n : j < i => p[j] = j
      BY <1>2, <2>2 DEF Ascends
  <2>4. PICK k \in 1..n : p[k] = i
      BY <1>2, <2>3 DEF Ascends
  <2>5. i < k
      BY <2>3, <2>4
  <2>6. p[i] < i
      BY <1>2, <2>3, <2>4, <2>5 DEF Ascends
  <2>7. p[p[i]] = p[i]
      BY <2>3, <2>6
  <2> QED
      BY <1>2, <2>3, <2>6, <2>7 DEF Ascends
<1> QED
    BY <1>2, <1>3

-----------------------------------------------------------------------------
(* The form of a rule: its chains.                                         *)

FormURLs == RuleForm!HopURLs
FilledURLs == RuleForm!HopURLs \ {RuleForm!Empty}

\* What is left of an array that was filtered.
LEMMA FilteredIsPicked ==
    ASSUME NEW S, NEW s \in Seq(S), NEW T, T \subseteq DOMAIN s, NEW f,
           f = RuleForm!At(s, RuleForm!Ascending(T))
    PROVE  /\ f \in Seq({s[i] : i \in T})
           /\ Len(f) <= Len(s)
           /\ \A i \in T : \E k \in DOMAIN f : f[k] = s[i]
           /\ T = DOMAIN s => f = s
<1>1. Len(s) \in Nat /\ DOMAIN s = 1..Len(s)
    OBVIOUS
<1>2. IsFiniteSet(T) /\ T \subseteq Nat
    BY <1>1, PlacesAreFinite
<1>3. f = StatsRules!At(s, StatsRules!Ascending(T))
    BY SameAscending DEF RuleForm!At, StatsRules!At
<1>4. PICK c, p : Ascends(p, c, T) /\ f = Picked(s, p, c)
    BY <1>2, <1>3, PickedInOrder
<1>5. /\ c \in Nat /\ DOMAIN f = 1..c /\ f = [k \in 1..c |-> s[p[k]]]
      /\ \A k \in 1..c : p[k] \in T /\ f[k] = s[p[k]]
    BY <1>4 DEF Ascends, Picked
<1>6. f \in [1..c -> {s[i] : i \in T}]
    BY <1>5
<1>7. f \in Seq({s[i] : i \in T}) /\ Len(f) = c
    BY <1>5, <1>6
<1>8. c <= Len(s)
    BY <1>1, <1>4, AscendsWithin
<1>9. \A i \in T : \E k \in DOMAIN f : f[k] = s[i]
    BY <1>4, <1>5 DEF Ascends
<1>10. ASSUME T = DOMAIN s
       PROVE  f = s
  <2>1. c = Len(s) /\ \A k \in 1..c : p[k] = k
      BY <1>1, <1>4, <1>10, AscendsAll
  <2>2. s = [k \in 1..Len(s) |-> s[k]]
      OBVIOUS
  <2> QED
      BY <1>5, <2>1, <2>2
<1> QED
    BY <1>7, <1>8, <1>9, <1>10

\* The URLs of a hop that are not blank.
LEMMA FilledHop ==
    ASSUME NEW h \in Seq(FormURLs)
    PROVE  /\ RuleForm!Filled(h) \in Seq(FilledURLs)
           /\ \A k \in DOMAIN RuleForm!Filled(h) :
                \E i \in DOMAIN h : RuleForm!Filled(h)[k] = h[i]
           /\ \A i \in DOMAIN h : h[i] # RuleForm!Empty =>
                \E k \in DOMAIN RuleForm!Filled(h) : RuleForm!Filled(h)[k] = h[i]
           /\ h \in Seq(FilledURLs) => RuleForm!Filled(h) = h
<1> DEFINE T == {i \in DOMAIN h : h[i] # RuleForm!Empty}  f == RuleForm!Filled(h)
<1>1. f = RuleForm!At(h, RuleForm!Ascending(T))
    BY DEF RuleForm!Filled, RuleForm!Filtered
<1>7. \A i \in DOMAIN h : h[i] \in FormURLs
    OBVIOUS
<1>8. h \in Seq(FilledURLs) => \A i \in DOMAIN h : h[i] \in FilledURLs
    OBVIOUS
<1>9. \A u : u \in FilledURLs <=> u \in FormURLs /\ u # RuleForm!Empty
    BY DEF FormURLs, FilledURLs
<1>2. /\ T \subseteq DOMAIN h
      /\ \A i \in T : h[i] \in FilledURLs /\ i \in DOMAIN h
      /\ \A i \in DOMAIN h : h[i] # RuleForm!Empty => i \in T
      /\ h \in Seq(FilledURLs) => T = DOMAIN h
    BY <1>7, <1>8, <1>9
<1> HIDE DEF T, f
<1>3. /\ f \in Seq({h[i] : i \in T})
      /\ \A i \in T : \E k \in DOMAIN f : f[k] = h[i]
      /\ T = DOMAIN h => f = h
    BY <1>1, <1>2, FilteredIsPicked
<1>4. \A k \in DOMAIN f : f[k] \in {h[i] : i \in T}
    BY <1>3
<1>5. \A k \in DOMAIN f : f[k] \in FilledURLs /\ \E i \in DOMAIN h : f[k] = h[i]
    BY <1>2, <1>4
<1>6. f \in Seq(FilledURLs)
    BY <1>3, <1>5
<1> QED
    BY <1>2, <1>3, <1>5, <1>6 DEF f

FormChains == Seq(Seq(FormURLs))

\* The hops that have a URL, as what they are filled with.
LEMMA WayIsFilled ==
    ASSUME NEW hops \in FormChains
    PROVE  /\ RuleForm!WayOf(hops) \in Seq(Seq(FilledURLs) \ {<<>>})
           /\ Len(RuleForm!WayOf(hops)) <= Len(hops)
           /\ \A k \in DOMAIN RuleForm!WayOf(hops) :
                \E i \in DOMAIN hops : RuleForm!WayOf(hops)[k] = RuleForm!Filled(hops[i])
           /\ \A i \in DOMAIN hops : RuleForm!Filled(hops[i]) # <<>> =>
                \E k \in DOMAIN RuleForm!WayOf(hops) :
                   RuleForm!WayOf(hops)[k] = RuleForm!Filled(hops[i])
           /\ hops \in Seq(Seq(FilledURLs) \ {<<>>}) => RuleForm!WayOf(hops) = hops
<1> DEFINE m == [i \in DOMAIN hops |-> RuleForm!Filled(hops[i])]
           T == {i \in DOMAIN m : m[i] # <<>>}
           w == RuleForm!WayOf(hops)
<1>1. w = RuleForm!At(m, RuleForm!Ascending(T))
    BY DEF RuleForm!WayOf, RuleForm!Filtered, RuleForm!Mapped
<1>2. Len(hops) \in Nat /\ DOMAIN hops = 1..Len(hops) /\ \A i \in DOMAIN hops : hops[i] \in Seq(FormURLs)
    BY DEF FormChains
<1>3. \A i \in DOMAIN hops : /\ m[i] = RuleForm!Filled(hops[i]) /\ m[i] \in Seq(FilledURLs)
                             /\ hops[i] \in Seq(FilledURLs) => m[i] = hops[i]
    BY <1>2, FilledHop
<1>4. DOMAIN m = DOMAIN hops /\ m = [i \in DOMAIN hops |-> m[i]]
    OBVIOUS
<1>5. \A i : i \in T <=> i \in DOMAIN m /\ m[i] # <<>>
    OBVIOUS
<1> HIDE DEF m, T, w
<1>6. m \in Seq(Seq(FilledURLs)) /\ Len(m) = Len(hops)
  <2>1. m \in [1..Len(hops) -> Seq(FilledURLs)]
      BY <1>2, <1>3, <1>4
  <2> QED
      BY <1>2, <2>1
<1>7. /\ w \in Seq({m[i] : i \in T}) /\ Len(w) <= Len(m)
      /\ \A i \in T : \E k \in DOMAIN w : w[k] = m[i]
      /\ T = DOMAIN m => w = m
  <2>1. T \subseteq DOMAIN m
      BY <1>5
  <2> DEFINE S == Seq(FilledURLs)
  <2>2. m \in Seq(S)
      BY <1>6
  <2> HIDE DEF S
  <2>3. Len(w) <= Len(m)
      BY <1>1, <2>1, <2>2, FilteredIsPicked
  <2>4. /\ w \in Seq({m[i] : i \in T})
        /\ \A i \in T : \E k \in DOMAIN w : w[k] = m[i]
        /\ T = DOMAIN m => w = m
      BY <1>1, <2>1, <2>2, FilteredIsPicked
  <2> QED
      BY <2>3, <2>4
<1>8. \A k \in DOMAIN w : w[k] \in {m[i] : i \in T}
    BY <1>7
<1>9. \A k \in DOMAIN w : /\ w[k] \in Seq(FilledURLs) \ {<<>>}
                          /\ \E i \in DOMAIN hops : w[k] = RuleForm!Filled(hops[i])
    BY <1>3, <1>4, <1>5, <1>8
<1>10. w \in Seq(Seq(FilledURLs) \ {<<>>})
    BY <1>7, <1>9
<1>11. \A i \in DOMAIN hops : RuleForm!Filled(hops[i]) # <<>> =>
         \E k \in DOMAIN w : w[k] = RuleForm!Filled(hops[i])
    BY <1>3, <1>4, <1>5, <1>7
<1>12. ASSUME hops \in Seq(Seq(FilledURLs) \ {<<>>})
       PROVE  w = hops
  <2>1. \A i \in DOMAIN hops : hops[i] \in Seq(FilledURLs) \ {<<>>}
      BY <1>12
  <2>2. \A i \in DOMAIN hops : m[i] = hops[i] /\ i \in T
      BY <1>3, <1>4, <1>5, <2>1
  <2>3. T = DOMAIN m
      BY <1>4, <1>5, <2>2
  <2>4. m = hops
    <3>1. hops = [i \in DOMAIN hops |-> hops[i]]
        BY <1>2, <1>12
    <3> QED
        BY <1>4, <2>2, <3>1
  <2> QED
      BY <1>7, <2>3, <2>4
<1> QED
    BY <1>6, <1>7, <1>9, <1>10, <1>11, <1>12 DEF w

\* What the form finds in a chain is what the server would refuse in the way
\* that is sent, but for a hop left blank and a URL that does not parse, and the
\* form passes the way that was sent.
LEMMA WaysAreChecked ==
    ASSUME NEW hops \in FormChains
    PROVE  /\ RuleForm!WayErrors(hops) \subseteq {"hopUrlEmpty", "hopUrlNoScheme"}
           /\ RuleForm!WayErrors(hops) = {} =>
                (RuleForm!ValidateWay(RuleForm!WayOf(hops)) <=>
                   ~RuleForm!Holds(hops, "unparsable"))
           /\ "hopUrlNoScheme" \in RuleForm!WayErrors(hops) =>
                ~RuleForm!ValidateWay(RuleForm!WayOf(hops))
           /\ RuleForm!WayErrors(hops) = {} => RuleForm!WayErrors(RuleForm!WayOf(hops)) = {}
           /\ RuleForm!WayOf(RuleForm!WayOf(hops)) = RuleForm!WayOf(hops)
           /\ RuleForm!WayOf(hops) \in FormChains
<1> DEFINE w == RuleForm!WayOf(hops)
<1>1. /\ w \in Seq(Seq(FilledURLs) \ {<<>>})
      /\ \A k \in DOMAIN w : \E i \in DOMAIN hops : w[k] = RuleForm!Filled(hops[i])
      /\ \A i \in DOMAIN hops : RuleForm!Filled(hops[i]) # <<>> =>
           \E k \in DOMAIN w : w[k] = RuleForm!Filled(hops[i])
    BY WayIsFilled
<1> HIDE DEF w
<1>2. \A i \in DOMAIN hops : hops[i] \in Seq(FormURLs)
    BY DEF FormChains
<1>3. \A k \in DOMAIN w : /\ w[k] \in Seq(FilledURLs) /\ w[k] # <<>>
                          /\ \A j \in DOMAIN w[k] : w[k][j] \in FilledURLs
    BY <1>1
<1>4. \A u : u \in FilledURLs <=> u \in {"good", "noscheme", "unparsable"}
    BY DEF FilledURLs, RuleForm!HopURLs, RuleForm!Empty
<1>5. /\ "hopUrlNoScheme" \in RuleForm!WayErrors(hops) <=> RuleForm!Holds(hops, "noscheme")
      /\ \A e \in RuleForm!WayErrors(hops) : e \in {"hopUrlEmpty", "hopUrlNoScheme"}
    BY DEF RuleForm!WayErrors, RuleForm!Holds
<1>6. ASSUME NEW k \in DOMAIN w, NEW j \in DOMAIN w[k]
      PROVE  RuleForm!Holds(hops, w[k][j])
  <2>1. PICK i \in DOMAIN hops : w[k] = RuleForm!Filled(hops[i])
      BY <1>1
  <2>2. \E m \in DOMAIN hops[i] : w[k][j] = hops[i][m]
      BY <1>2, <2>1, FilledHop
  <2> QED
      BY <2>2 DEF RuleForm!Holds
<1>7. ASSUME NEW u, u # RuleForm!Empty, RuleForm!Holds(hops, u)
      PROVE  \E k \in DOMAIN w : \E j \in DOMAIN w[k] : w[k][j] = u
  <2>1. PICK i \in DOMAIN hops : \E m \in DOMAIN hops[i] : hops[i][m] = u
      BY <1>7 DEF RuleForm!Holds
  <2>2. \E j \in DOMAIN RuleForm!Filled(hops[i]) : RuleForm!Filled(hops[i])[j] = u
      BY <1>2, <1>7, <2>1, FilledHop
  <2>3. RuleForm!Filled(hops[i]) # <<>>
      BY <2>2
  <2> QED
      BY <1>1, <2>2, <2>3
<1>8. ASSUME RuleForm!WayErrors(hops) = {}, ~RuleForm!Holds(hops, "unparsable")
      PROVE  RuleForm!ValidateWay(w)
  <2>1. \A k \in DOMAIN w : \A j \in DOMAIN w[k] : w[k][j] = "good"
      BY <1>3, <1>4, <1>5, <1>6, <1>8
  <2> QED
      BY <1>3, <2>1 DEF RuleForm!ValidateWay
<1>9. ASSUME NEW u \in {"noscheme", "unparsable"}, RuleForm!Holds(hops, u)
      PROVE  ~RuleForm!ValidateWay(w)
  <2>1. u # RuleForm!Empty /\ u # "good"
      BY DEF RuleForm!Empty
  <2> QED
      BY <1>7, <1>9, <2>1 DEF RuleForm!ValidateWay
<1>10. ASSUME RuleForm!WayErrors(hops) = {}
       PROVE  RuleForm!WayErrors(w) = {}
  <2>1. \A k \in DOMAIN w : \A j \in DOMAIN w[k] :
          w[k][j] # "noscheme" /\ w[k][j] # RuleForm!Empty
      BY <1>3, <1>5, <1>6, <1>10 DEF FilledURLs
  <2>2. \A k \in DOMAIN w : 1 \in DOMAIN w[k]
    <3>1. TAKE k \in DOMAIN w
    <3> QED
        BY <1>3
  <2> QED
      BY <2>1, <2>2 DEF RuleForm!WayErrors
<1>11. w \in FormChains
  <2>1. \A k \in DOMAIN w : w[k] \in Seq(FormURLs)
    <3>1. TAKE k \in DOMAIN w
    <3>2. w[k] \in Seq(FilledURLs) /\ FilledURLs \subseteq FormURLs
        BY <1>3 DEF FilledURLs, FormURLs
    <3> QED
        BY <3>2
  <2> QED
      BY <1>1, <2>1 DEF FormChains
<1>12. RuleForm!WayOf(w) = w
    BY <1>1, <1>11, WayIsFilled
<1> QED
    BY <1>5, <1>8, <1>9, <1>10, <1>11, <1>12 DEF w

-----------------------------------------------------------------------------
(* The form of a rule: its drafts.                                         *)

CiphersOf(type) == IF type = "ss" THEN RuleForm!Ciphers ELSE {RuleForm!Empty}

FormRow(type) ==
    [enabled : BOOLEAN, custom : BOOLEAN, username : RuleForm!Users,
     password : RuleForm!Passwords, cipher : CiphersOf(type)]

\* What the form may hold, and so what the server may be sent.
FormDraft(d) ==
    /\ d \in [name : RuleForm!FormNames, enabled : BOOLEAN, mode : {"proxy", "forward"},
              kind : {"address", "virtual"}, host : RuleForm!Hosts, port : RuleForm!PortTexts,
              channel : RuleForm!Channels, username : RuleForm!Users,
              password : RuleForm!Passwords, rows : [Types -> UNION {FormRow(t) : t \in Types}],
              way : FormChains, targetKind : {"address", "virtual"},
              targetHost : RuleForm!Hosts, targetPort : RuleForm!PortTexts,
              targetChannel : RuleForm!Channels, exit : FormChains]
    /\ \A t \in Types : d.rows[t] \in FormRow(t)

LEMMA DraftFields ==
    ASSUME NEW d, FormDraft(d)
    PROVE  /\ d.name \in RuleForm!FormNames /\ d.enabled \in BOOLEAN
           /\ d.mode \in {"proxy", "forward"}
           /\ d.kind \in {"address", "virtual"} /\ d.host \in RuleForm!Hosts
           /\ d.port \in RuleForm!PortTexts /\ d.channel \in RuleForm!Channels
           /\ d.username \in RuleForm!Users /\ d.password \in RuleForm!Passwords
           /\ d.way \in FormChains /\ d.exit \in FormChains
           /\ d.targetKind \in {"address", "virtual"} /\ d.targetHost \in RuleForm!Hosts
           /\ d.targetPort \in RuleForm!PortTexts /\ d.targetChannel \in RuleForm!Channels
           /\ \A t \in Types :
                /\ d.rows[t].enabled \in BOOLEAN /\ d.rows[t].custom \in BOOLEAN
                /\ d.rows[t].username \in RuleForm!Users
                /\ d.rows[t].password \in RuleForm!Passwords
                /\ d.rows[t].cipher \in CiphersOf(t)
<1>1. \A t \in Types : d.rows[t] \in FormRow(t)
    BY DEF FormDraft
<1>2. \A t \in Types :
        /\ d.rows[t].enabled \in BOOLEAN /\ d.rows[t].custom \in BOOLEAN
        /\ d.rows[t].username \in RuleForm!Users
        /\ d.rows[t].password \in RuleForm!Passwords
        /\ d.rows[t].cipher \in CiphersOf(t)
    BY <1>1 DEF FormRow
<1> QED
    BY <1>2 DEF FormDraft

\* A row of Shadowsocks has a cipher, and no other row has one.
LEMMA CiphersAre ==
    \A t : \A c \in CiphersOf(t) : c # RuleForm!Empty <=> t = "ss"
BY DEF CiphersOf, RuleForm!Ciphers, RuleForm!Empty

\* Ports: the texts that parse are told apart by what they parse to.
LEMMA PortsParse ==
    /\ RuleForm!PortOf["0"] = 0 /\ RuleForm!PortOf["80"] = 80
    /\ RuleForm!PortOf["81"] = 81 /\ RuleForm!PortOf["bad"] = RuleForm!NoPort
    /\ RuleForm!NoPort = 99999
    /\ RuleForm!PortText(0) = "0" /\ RuleForm!PortText(80) = "80" /\ RuleForm!PortText(81) = "81"
<1>1. /\ RuleForm!PortOf["0"] = 0 /\ RuleForm!PortOf["80"] = 80
      /\ RuleForm!PortOf["81"] = 81 /\ RuleForm!PortOf["bad"] = 99999
      /\ RuleForm!NoPort = 99999
    BY DEF RuleForm!PortOf, RuleForm!PortTexts, RuleForm!NoPort
<1>2. \A p \in RuleForm!PortTexts : p \in {"0", "80", "81", "bad"}
    BY DEF RuleForm!PortTexts
<1>3. /\ {"0", "80", "81", "bad"} = RuleForm!PortTexts
    BY DEF RuleForm!PortTexts
<1>4. RuleForm!PortText(0) = "0"
    BY <1>1, <1>3 DEF RuleForm!PortText
<1>5. RuleForm!PortText(80) = "80"
    BY <1>1, <1>3 DEF RuleForm!PortText
<1>6. RuleForm!PortText(81) = "81"
    BY <1>1, <1>3 DEF RuleForm!PortText
<1> QED
    BY <1>1, <1>4, <1>5, <1>6

LEMMA PortsAre ==
    ASSUME NEW port \in RuleForm!PortTexts
    PROVE  /\ RuleForm!ParsePort(port, 0) \in {0, 80, 81, RuleForm!NoPort}
           /\ RuleForm!ParsePort(port, 1) \in {80, 81, RuleForm!NoPort}
<1>1. port \in {"0", "80", "81", "bad"}
    BY DEF RuleForm!PortTexts
<1> QED
    BY <1>1, PortsParse DEF RuleForm!ParsePort

\* The entries that the rows of a draft are sent as.
SentEntries(d) ==
    {RuleForm!Entry(t, RuleForm!OwnUser(d.rows[t]), RuleForm!OwnPassword(d.rows[t]),
                    d.rows[t].cipher) : t \in RuleForm!Enabled(d)}

\* The rule that a draft is sent as, field by field.
LEMMA SentFields ==
    ASSUME NEW d, NEW r, r = RuleForm!RuleOf(d)
    PROVE  /\ r.name = d.name /\ r.disabled = ~d.enabled
           /\ r.listen.host = (IF RuleForm!ListenVirtual(d) THEN RuleForm!Empty ELSE d.host)
           /\ r.listen.port = RuleForm!ListenPort(d)
           /\ r.listen.virtual =
                (IF RuleForm!ListenVirtual(d) THEN d.channel ELSE RuleForm!Empty)
           /\ r.listen.username =
                (IF RuleForm!Forwarding(d) THEN RuleForm!Empty ELSE d.username)
           /\ r.listen.password =
                (IF RuleForm!Forwarding(d) THEN RuleForm!Empty ELSE d.password)
           /\ r.listen.cipher = RuleForm!Empty
           /\ RuleForm!Forwarding(d) => r.listen.protocols = {}
           /\ ~RuleForm!Forwarding(d) => r.listen.protocols = SentEntries(d)
           /\ r.listen.way = RuleForm!ListenWay(d)
           /\ r.forward.host =
                (IF RuleForm!Forwarding(d) /\ ~RuleForm!TargetVirtual(d) THEN d.targetHost
                 ELSE RuleForm!Empty)
           /\ r.forward.port =
                (IF RuleForm!Forwarding(d) /\ ~RuleForm!TargetVirtual(d)
                 THEN RuleForm!ParsePort(d.targetPort, 1) ELSE 0)
           /\ r.forward.virtual =
                (IF RuleForm!TargetVirtual(d) THEN d.targetChannel ELSE RuleForm!Empty)
           /\ r.forward.way =
                (IF RuleForm!TargetVirtual(d) THEN <<>> ELSE RuleForm!WayOf(d.exit))
BY DEF RuleForm!RuleOf, RuleForm!SharedSent, SentEntries

\* It has no other fields.
LEMMA SentWhole ==
    ASSUME NEW d, NEW r, r = RuleForm!RuleOf(d)
    PROVE  /\ r = [name |-> r.name, disabled |-> r.disabled, listen |-> r.listen,
                   forward |-> r.forward]
           /\ r.listen = [host |-> r.listen.host, port |-> r.listen.port,
                          virtual |-> r.listen.virtual, username |-> r.listen.username,
                          password |-> r.listen.password, cipher |-> r.listen.cipher,
                          protocols |-> r.listen.protocols, way |-> r.listen.way]
           /\ r.forward = [host |-> r.forward.host, port |-> r.forward.port,
                           virtual |-> r.forward.virtual, way |-> r.forward.way]
<1>1. \E a, b, c, e : r = [name |-> a, disabled |-> b, listen |-> c, forward |-> e]
    BY DEF RuleForm!RuleOf
<1>2. \E a, b, c, e, f, g, h, i :
        r.listen = [host |-> a, port |-> b, virtual |-> c, username |-> e, password |-> f,
                    cipher |-> g, protocols |-> h, way |-> i]
    BY DEF RuleForm!RuleOf
<1>3. \E a, b, c, e : r.forward = [host |-> a, port |-> b, virtual |-> c, way |-> e]
    BY DEF RuleForm!RuleOf
<1> QED
    BY <1>1, <1>2, <1>3

-----------------------------------------------------------------------------
(* The form of a rule: its errors.                                         *)

Lonely(d, t) ==
    /\ t # "ss" /\ (RuleForm!OwnPassword(d.rows[t]) # RuleForm!Empty \/ d.password # RuleForm!Empty)
    /\ RuleForm!OwnUser(d.rows[t]) = RuleForm!Empty /\ d.username = RuleForm!Empty
    /\ RuleForm!OwnPassword(d.rows[t]) # RuleForm!Empty \/ ~RuleForm!SharedForSS(d)

AuthNames == {"usernameColon", "rowUsernameColon", "passwordNeedsUsername"}

LEMMA AuthErrorsAre ==
    ASSUME NEW d
    PROVE  /\ RuleForm!AuthErrors(d) \subseteq AuthNames
           /\ "usernameColon" \in RuleForm!AuthErrors(d) <=> d.username = "a:b"
           /\ "rowUsernameColon" \in RuleForm!AuthErrors(d) <=>
                \E t \in RuleForm!Enabled(d) : /\ RuleForm!OwnUser(d.rows[t]) = "a:b"
                                               /\ "username" \in RuleForm!RowFields(t)
           /\ "passwordNeedsUsername" \in RuleForm!AuthErrors(d) <=>
                \E t \in RuleForm!Enabled(d) : Lonely(d, t)
<1> DEFINE colon(t) == /\ RuleForm!OwnUser(d.rows[t]) = "a:b"
                       /\ "username" \in RuleForm!RowFields(t)
           lonely(t) == Lonely(d, t)
           ofRow(t) == RuleForm!Mark(colon(t), "rowUsernameColon")
                       \cup RuleForm!Mark(lonely(t), "passwordNeedsUsername")
           ofRows == UNION {ofRow(t) : t \in RuleForm!Enabled(d)}
<1>1. RuleForm!AuthErrors(d) = RuleForm!Mark(d.username = "a:b", "usernameColon") \cup ofRows
    BY DEF RuleForm!AuthErrors, Lonely
<1> HIDE DEF colon, lonely
<1>2. \A t, e : e \in ofRow(t) <=> \/ e = "rowUsernameColon" /\ colon(t)
                                   \/ e = "passwordNeedsUsername" /\ lonely(t)
    BY DEF RuleForm!Mark
<1> HIDE DEF ofRow
<1>3. \A e : e \in ofRows <=> \E t \in RuleForm!Enabled(d) : e \in ofRow(t)
    OBVIOUS
<1> HIDE DEF ofRows
<1>4. \A e : e \in RuleForm!AuthErrors(d) <=> \/ e = "usernameColon" /\ d.username = "a:b"
                                              \/ e \in ofRows
    BY <1>1 DEF RuleForm!Mark
<1>5. \A e : e \in RuleForm!AuthErrors(d) <=>
         \/ e = "usernameColon" /\ d.username = "a:b"
         \/ e = "rowUsernameColon" /\ \E t \in RuleForm!Enabled(d) : colon(t)
         \/ e = "passwordNeedsUsername" /\ \E t \in RuleForm!Enabled(d) : lonely(t)
    BY <1>2, <1>3, <1>4
<1> QED
    BY <1>5 DEF AuthNames, colon, lonely

ProtocolNames == {"protocolRequired", "cipherRequired", "passwordRequired"}

LEMMA ProtocolErrorsAre ==
    ASSUME NEW d
    PROVE  /\ RuleForm!ProtocolErrors(d) \subseteq ProtocolNames
           /\ "protocolRequired" \in RuleForm!ProtocolErrors(d) <=> RuleForm!Enabled(d) = {}
           /\ "cipherRequired" \in RuleForm!ProtocolErrors(d) <=>
                "ss" \in RuleForm!Enabled(d) /\ d.rows["ss"].cipher = RuleForm!Empty
           /\ "passwordRequired" \in RuleForm!ProtocolErrors(d) <=>
                /\ "ss" \in RuleForm!Enabled(d) /\ d.password = RuleForm!Empty
                /\ RuleForm!OwnPassword(d.rows["ss"]) = RuleForm!Empty
BY DEF RuleForm!ProtocolErrors, RuleForm!Mark, ProtocolNames

\* The address of a draft, whether it counts, and whether another rule has it.
FormAddress(d) ==
    IF RuleForm!ListenVirtual(d) THEN RuleForm!VirtualAddress(d.channel)
    ELSE RuleForm!JoinHostPort(d.host, RuleForm!ListenPort(d))
FormCounts(d) ==
    /\ d.enabled /\ RuleForm!ListenPort(d) # RuleForm!NoPort
    /\ RuleForm!ListenVirtual(d) => RuleForm!IsVirtualChannel(d.channel)
    /\ \/ RuleForm!ListenVirtual(d)
       \/ RuleForm!ListenPort(d) # 0 /\ RuleForm!ListenWay(d) = <<>>
FormTaken(d) ==
    \E r \in RuleForm!Others : /\ r.name # savedName /\ RuleForm!Listens(r)
                               /\ RuleForm!Address(r.listen) = FormAddress(d)

AddressNames == {"listenAddressTaken", "listenAddressWebUI"}

LEMMA AddressErrorsAre ==
    ASSUME NEW d
    PROVE  /\ RuleForm!AddressErrors(d) \subseteq AddressNames
           /\ "listenAddressTaken" \in RuleForm!AddressErrors(d) <=> FormCounts(d) /\ FormTaken(d)
           /\ "listenAddressWebUI" \in RuleForm!AddressErrors(d) <=>
                FormCounts(d) /\ ~FormTaken(d) /\ RuleForm!WebUI = FormAddress(d)
<1>1. RuleForm!AddressErrors(d) =
        RuleForm!Mark(FormCounts(d) /\ FormTaken(d), "listenAddressTaken")
        \cup RuleForm!Mark(FormCounts(d) /\ ~FormTaken(d) /\ RuleForm!WebUI = FormAddress(d),
                           "listenAddressWebUI")
    BY DEF RuleForm!AddressErrors, FormCounts, FormTaken, FormAddress
<1> QED
    BY <1>1 DEF RuleForm!Mark, AddressNames

NameTaken(d) == \E r \in RuleForm!Others : r.name = d.name /\ r.name # savedName

LEMMA ErrorsAre ==
    ASSUME NEW d, NEW e
    PROVE  e \in RuleForm!Errors(d) <=>
             \/ e = "ruleNameRequired" /\ d.name = RuleForm!Empty
             \/ e = "ruleNameSlash" /\ d.name = "a/b"
             \/ e = "ruleNameTaken" /\ NameTaken(d)
             \/ e = "invalidPort" /\ RuleForm!ListenPort(d) = RuleForm!NoPort
             \/ /\ e = "invalidVirtualChannel"
                /\ RuleForm!ListenVirtual(d) /\ ~RuleForm!IsVirtualChannel(d.channel)
             \/ ~RuleForm!ListenVirtual(d) /\ e \in RuleForm!WayErrors(d.way)
             \/ /\ ~RuleForm!Forwarding(d)
                /\ e \in RuleForm!ProtocolErrors(d) \/ e \in RuleForm!AuthErrors(d)
             \/ /\ e = "invalidForwardPort"
                /\ RuleForm!Forwarding(d) /\ ~RuleForm!TargetVirtual(d)
                /\ RuleForm!ParsePort(d.targetPort, 1) = RuleForm!NoPort
             \/ /\ e = "invalidTargetChannel"
                /\ RuleForm!TargetVirtual(d) /\ ~RuleForm!IsVirtualChannel(d.targetChannel)
             \/ /\ e = "virtualSelfLoop" /\ RuleForm!TargetVirtual(d) /\ RuleForm!ListenVirtual(d)
                /\ d.channel = d.targetChannel /\ RuleForm!IsVirtualChannel(d.channel)
             \/ ~RuleForm!TargetVirtual(d) /\ e \in RuleForm!WayErrors(d.exit)
             \/ e \in RuleForm!AddressErrors(d)
BY DEF RuleForm!Errors, RuleForm!Mark, NameTaken

\* A draft that the form passes, as the conditions that it checked.
LEMMA PassedDraft ==
    ASSUME NEW d, RuleForm!Errors(d) = {}
    PROVE  /\ d.name # RuleForm!Empty /\ d.name # "a/b" /\ ~NameTaken(d)
           /\ RuleForm!ListenPort(d) # RuleForm!NoPort
           /\ RuleForm!ListenVirtual(d) => RuleForm!IsVirtualChannel(d.channel)
           /\ ~RuleForm!ListenVirtual(d) => RuleForm!WayErrors(d.way) = {}
           /\ ~RuleForm!Forwarding(d) =>
                RuleForm!ProtocolErrors(d) = {} /\ RuleForm!AuthErrors(d) = {}
           /\ RuleForm!Forwarding(d) /\ ~RuleForm!TargetVirtual(d) =>
                RuleForm!ParsePort(d.targetPort, 1) # RuleForm!NoPort
           /\ RuleForm!TargetVirtual(d) => RuleForm!IsVirtualChannel(d.targetChannel)
           /\ RuleForm!TargetVirtual(d) /\ RuleForm!ListenVirtual(d) =>
                d.channel # d.targetChannel
           /\ ~RuleForm!TargetVirtual(d) => RuleForm!WayErrors(d.exit) = {}
           /\ RuleForm!AddressErrors(d) = {}
<1> DEFINE clear(e) == e \notin RuleForm!Errors(d)
<1>1. \A e : clear(e)
    OBVIOUS
<1>2. /\ clear("ruleNameRequired") /\ clear("ruleNameSlash") /\ clear("ruleNameTaken")
      /\ clear("invalidPort") /\ clear("invalidVirtualChannel") /\ clear("invalidForwardPort")
      /\ clear("invalidTargetChannel") /\ clear("virtualSelfLoop")
    BY <1>1
<1>3. \A e \in RuleForm!WayErrors(d.way) : ~RuleForm!ListenVirtual(d) => ~clear(e)
    BY ErrorsAre
<1>4. \A e \in RuleForm!WayErrors(d.exit) : ~RuleForm!TargetVirtual(d) => ~clear(e)
    BY ErrorsAre
<1>5. \A e \in RuleForm!ProtocolErrors(d) \cup RuleForm!AuthErrors(d) :
         ~RuleForm!Forwarding(d) => ~clear(e)
    BY ErrorsAre
<1>6. \A e \in RuleForm!AddressErrors(d) : ~clear(e)
    BY ErrorsAre
<1> HIDE DEF clear
<1>7. /\ d.name # RuleForm!Empty /\ d.name # "a/b" /\ ~NameTaken(d)
      /\ RuleForm!ListenPort(d) # RuleForm!NoPort
      /\ RuleForm!ListenVirtual(d) => RuleForm!IsVirtualChannel(d.channel)
      /\ RuleForm!Forwarding(d) /\ ~RuleForm!TargetVirtual(d) =>
           RuleForm!ParsePort(d.targetPort, 1) # RuleForm!NoPort
      /\ RuleForm!TargetVirtual(d) => RuleForm!IsVirtualChannel(d.targetChannel)
      /\ RuleForm!TargetVirtual(d) /\ RuleForm!ListenVirtual(d) => d.channel # d.targetChannel
    BY <1>2, ErrorsAre DEF clear
<1> QED
    BY <1>1, <1>3, <1>4, <1>5, <1>6, <1>7

-----------------------------------------------------------------------------
(* The form of a rule: the credentials that the server checks.             *)

\* The scheme that the server makes of an entry.
SchemeOf(listen, e) ==
    [raw |-> e,
     username |-> IF e.username = RuleForm!Empty THEN listen.username ELSE e.username,
     password |-> IF e.password = RuleForm!Empty THEN listen.password ELSE e.password,
     cipher |-> IF e.type = "ss" /\ e.cipher = RuleForm!Empty THEN listen.cipher ELSE e.cipher]

LEMMA SchemesAre ==
    ASSUME NEW listen, listen.protocols # {}
    PROVE  RuleForm!Schemes(listen) = {SchemeOf(listen, e) : e \in listen.protocols}
BY DEF RuleForm!Schemes, SchemeOf

LEMMA LegacySchemes ==
    ASSUME NEW listen, listen.protocols = {}, listen.cipher = RuleForm!Empty,
           NEW s \in RuleForm!Schemes(listen)
    PROVE  s.raw.type # "ss" /\ s.password = listen.password
<1> DEFINE raw == {RuleForm!Entry(t, RuleForm!Empty, RuleForm!Empty, RuleForm!Empty) :
                     t \in RuleForm!Legacy}
<1>1. RuleForm!Schemes(listen) = {SchemeOf(listen, e) : e \in raw}
  <2>1. RuleForm!Legacy \cup RuleForm!Mark(listen.cipher # RuleForm!Empty, "ss") = RuleForm!Legacy
      BY DEF RuleForm!Mark
  <2> QED
      BY <2>1 DEF RuleForm!Schemes, SchemeOf
<1>2. \A e \in raw : e.type # "ss" /\ e.password = RuleForm!Empty
    BY DEF RuleForm!Entry, RuleForm!Legacy
<1> HIDE DEF raw
<1>3. PICK e \in raw : s = SchemeOf(listen, e)
    BY <1>1
<1> QED
    BY <1>2, <1>3 DEF SchemeOf

\* The entries that a draft of a proxy is sent as.
LEMMA EntriesSent ==
    ASSUME NEW d, FormDraft(d), ~RuleForm!Forwarding(d), NEW r, r = RuleForm!RuleOf(d)
    PROVE  /\ \A e \in r.listen.protocols : \E t \in RuleForm!Enabled(d) :
                /\ e.type = t /\ e.username = RuleForm!OwnUser(d.rows[t])
                /\ e.password = RuleForm!OwnPassword(d.rows[t])
                /\ e.cipher = d.rows[t].cipher
           /\ \A t \in RuleForm!Enabled(d) : \E e \in r.listen.protocols :
                /\ e.type = t /\ e.username = RuleForm!OwnUser(d.rows[t])
                /\ e.password = RuleForm!OwnPassword(d.rows[t])
                /\ e.cipher = d.rows[t].cipher
           /\ r.listen.username = d.username /\ r.listen.password = d.password
           /\ r.listen.cipher = RuleForm!Empty
<1>1. /\ r.listen.protocols = SentEntries(d)
      /\ r.listen.username = d.username /\ r.listen.password = d.password
      /\ r.listen.cipher = RuleForm!Empty
    BY SentFields
<1> DEFINE entry(t) == RuleForm!Entry(t, RuleForm!OwnUser(d.rows[t]),
                                      RuleForm!OwnPassword(d.rows[t]), d.rows[t].cipher)
<1>2. \A t \in RuleForm!Enabled(d) :
        /\ entry(t).type = t /\ entry(t).username = RuleForm!OwnUser(d.rows[t])
        /\ entry(t).password = RuleForm!OwnPassword(d.rows[t])
        /\ entry(t).cipher = d.rows[t].cipher
    BY DEF RuleForm!Entry
<1>3. r.listen.protocols = {entry(t) : t \in RuleForm!Enabled(d)}
    BY <1>1 DEF SentEntries
<1> HIDE DEF entry
<1> QED
    BY <1>1, <1>2, <1>3

\* The shared password may serve Shadowsocks alone, for the form and the server.
LEMMA SharedAlike ==
    ASSUME NEW d, FormDraft(d), ~RuleForm!Forwarding(d), NEW r, r = RuleForm!RuleOf(d)
    PROVE  (\E e \in r.listen.protocols : e.type = "ss" /\ e.password = RuleForm!Empty) <=>
             RuleForm!SharedForSS(d)
BY EntriesSent DEF RuleForm!SharedForSS

\* What the form does not look at in the row of Shadowsocks.
SecretsLeft(d) ==
    /\ "ss" \in RuleForm!Enabled(d)
    /\ RuleForm!OwnUser(d.rows["ss"]) = "a:b" \/ ~RuleForm!IsCipher(d.rows["ss"].cipher)

LEMMA CredentialsPass ==
    ASSUME NEW d, FormDraft(d), ~RuleForm!Forwarding(d), NEW r, r = RuleForm!RuleOf(d),
           RuleForm!ProtocolErrors(d) = {}, RuleForm!AuthErrors(d) = {}, ~SecretsLeft(d)
    PROVE  RuleForm!ValidateListenAuth(r.listen, TRUE)
<1> DEFINE E == r.listen.protocols
<1>1. /\ \A e \in E : \E t \in RuleForm!Enabled(d) :
           /\ e.type = t /\ e.username = RuleForm!OwnUser(d.rows[t])
           /\ e.password = RuleForm!OwnPassword(d.rows[t])
           /\ e.cipher = d.rows[t].cipher
      /\ \A t \in RuleForm!Enabled(d) : \E e \in E : e.type = t
      /\ r.listen.username = d.username /\ r.listen.password = d.password
      /\ r.listen.cipher = RuleForm!Empty
    BY EntriesSent
<1>2. /\ RuleForm!Enabled(d) # {} /\ d.username # "a:b"
      /\ ~(/\ "ss" \in RuleForm!Enabled(d) /\ d.password = RuleForm!Empty
           /\ RuleForm!OwnPassword(d.rows["ss"]) = RuleForm!Empty)
      /\ \A t \in RuleForm!Enabled(d) :
           /\ ~(RuleForm!OwnUser(d.rows[t]) = "a:b" /\ "username" \in RuleForm!RowFields(t))
           /\ ~Lonely(d, t)
    BY AuthErrorsAre, ProtocolErrorsAre
<1>3. E # {}
    BY <1>1, <1>2
<1>4. \A t \in RuleForm!Enabled(d) : /\ d.rows[t].cipher # RuleForm!Empty <=> t = "ss"
                                     /\ t = "ss" => RuleForm!IsCipher(d.rows[t].cipher)
    BY DraftFields, CiphersAre DEF RuleForm!Enabled, SecretsLeft
<1>5. \A t \in RuleForm!Enabled(d) : RuleForm!OwnUser(d.rows[t]) # "a:b"
  <2>1. TAKE t \in RuleForm!Enabled(d)
  <2>2. CASE t = "ss"
      BY <2>2 DEF SecretsLeft
  <2>3. CASE t # "ss"
    <3>1. "username" \in RuleForm!RowFields(t)
        BY <2>3 DEF RuleForm!RowFields
    <3> QED
        BY <1>2, <3>1
  <2> QED
      BY <2>2, <2>3
<1>6. \A e \in E : /\ e.username # "a:b"
                   /\ e.cipher # RuleForm!Empty => e.type = "ss" /\ RuleForm!IsCipher(e.cipher)
    BY <1>1, <1>4, <1>5
<1> DEFINE shared == \/ E = {} /\ r.listen.cipher # RuleForm!Empty
                     \/ \E e \in E : e.type = "ss" /\ e.password = RuleForm!Empty
<1>7. shared <=> RuleForm!SharedForSS(d)
    BY <1>3, SharedAlike
<1>8. ASSUME NEW s \in RuleForm!Schemes(r.listen)
      PROVE  IF s.raw.type = "ss" THEN s.cipher # RuleForm!Empty /\ s.password # RuleForm!Empty
             ELSE \/ s.password = RuleForm!Empty \/ s.username # RuleForm!Empty
                  \/ s.raw.password = RuleForm!Empty /\ shared
  <2> HIDE DEF E, shared
  <2>1. PICK e \in E : s = SchemeOf(r.listen, e)
      BY <1>3, <1>8, SchemesAre DEF E
  <2>2. PICK t \in RuleForm!Enabled(d) :
           /\ e.type = t /\ e.username = RuleForm!OwnUser(d.rows[t])
           /\ e.password = RuleForm!OwnPassword(d.rows[t])
           /\ e.cipher = d.rows[t].cipher
      BY <1>1, <2>1
  <2>3. /\ s.raw = e
        /\ s.username = IF e.username = RuleForm!Empty THEN d.username ELSE e.username
        /\ s.password = IF e.password = RuleForm!Empty THEN d.password ELSE e.password
        /\ e.cipher # RuleForm!Empty => s.cipher = e.cipher
      BY <1>1, <2>1 DEF SchemeOf
  <2>4. CASE t = "ss"
    <3>1. s.cipher # RuleForm!Empty /\ s.raw.type = "ss"
        BY <1>4, <2>2, <2>3, <2>4
    <3>2. s.password # RuleForm!Empty
        BY <1>2, <2>2, <2>3, <2>4
    <3> QED
        BY <3>1, <3>2
  <2>5. CASE t # "ss"
    <3>1. ~Lonely(d, t)
        BY <1>2
    <3> QED
        BY <1>7, <2>2, <2>3, <2>5, <3>1 DEF Lonely
  <2> QED
      BY <2>4, <2>5
<1>9. r.listen.username # "a:b"
    BY <1>1, <1>2
<1> QED
    BY <1>1, <1>6, <1>8, <1>9 DEF RuleForm!ValidateListenAuth

LEMMA CredentialsLeft ==
    ASSUME NEW d, FormDraft(d), ~RuleForm!Forwarding(d), NEW r, r = RuleForm!RuleOf(d),
           SecretsLeft(d), NEW proxy, RuleForm!ValidateListenAuth(r.listen, proxy)
    PROVE  FALSE
<1>1. PICK e \in r.listen.protocols : /\ e.username = RuleForm!OwnUser(d.rows["ss"])
                                      /\ e.cipher = d.rows["ss"].cipher
    BY EntriesSent DEF SecretsLeft
<1>2. d.rows["ss"].cipher # RuleForm!Empty
    BY DraftFields, CiphersAre DEF SecretsLeft, RuleForm!Enabled
<1>3. e.username # "a:b" /\ RuleForm!IsCipher(e.cipher)
    BY <1>1, <1>2 DEF RuleForm!ValidateListenAuth
<1> QED
    BY <1>1, <1>3 DEF SecretsLeft

LEMMA CredentialsFail ==
    ASSUME NEW d, FormDraft(d), ~RuleForm!Forwarding(d), NEW r, r = RuleForm!RuleOf(d),
           NEW e, e \in RuleForm!ProtocolErrors(d) \/ e \in RuleForm!AuthErrors(d),
           e # "protocolRequired", NEW proxy, RuleForm!ValidateListenAuth(r.listen, proxy)
    PROVE  FALSE
<1> DEFINE E == r.listen.protocols
           shared == \/ E = {} /\ r.listen.cipher # RuleForm!Empty
                     \/ \E x \in E : x.type = "ss" /\ x.password = RuleForm!Empty
<1>1. /\ \A t \in RuleForm!Enabled(d) : \E x \in E :
           /\ x.type = t /\ x.username = RuleForm!OwnUser(d.rows[t])
           /\ x.password = RuleForm!OwnPassword(d.rows[t])
      /\ r.listen.username = d.username /\ r.listen.password = d.password
      /\ r.listen.cipher = RuleForm!Empty
    BY EntriesSent
<1>2. /\ r.listen.username # "a:b"
      /\ \A x \in E : x.username # "a:b"
      /\ \A s \in RuleForm!Schemes(r.listen) :
            IF s.raw.type = "ss" THEN s.cipher # RuleForm!Empty /\ s.password # RuleForm!Empty
            ELSE \/ s.password = RuleForm!Empty \/ s.username # RuleForm!Empty
                 \/ s.raw.password = RuleForm!Empty /\ shared
    BY DEF RuleForm!ValidateListenAuth
<1>3. E # {} => (shared <=> RuleForm!SharedForSS(d))
    BY SharedAlike
<1> HIDE DEF shared, E
<1>4. \A x \in E : LET s == SchemeOf(r.listen, x)
                   IN  IF x.type = "ss" THEN s.cipher # RuleForm!Empty /\ s.password # RuleForm!Empty
                       ELSE \/ s.password = RuleForm!Empty \/ s.username # RuleForm!Empty
                            \/ x.password = RuleForm!Empty /\ shared
  <2>1. TAKE x \in E
  <2>2. SchemeOf(r.listen, x) \in RuleForm!Schemes(r.listen)
      BY SchemesAre DEF E
  <2>3. SchemeOf(r.listen, x).raw = x
      BY DEF SchemeOf
  <2> QED
      BY <1>2, <2>2, <2>3
<1>5. CASE e \in RuleForm!ProtocolErrors(d)
  <2>1. e \in {"cipherRequired", "passwordRequired"}
      BY <1>5, ProtocolErrorsAre DEF ProtocolNames
  <2>2. "ss" \in RuleForm!Enabled(d)
      BY <1>5, <2>1, ProtocolErrorsAre
  <2>3. d.rows["ss"].cipher # RuleForm!Empty
      BY <2>2, DraftFields, CiphersAre DEF RuleForm!Enabled
  <2>4. d.password = RuleForm!Empty /\ RuleForm!OwnPassword(d.rows["ss"]) = RuleForm!Empty
      BY <1>5, <2>1, <2>3, ProtocolErrorsAre
  <2>5. PICK x \in E : x.type = "ss" /\ x.password = RuleForm!Empty
      BY <1>1, <2>2, <2>4
  <2>6. SchemeOf(r.listen, x).password = RuleForm!Empty
      BY <1>1, <2>4, <2>5 DEF SchemeOf
  <2> QED
      BY <1>4, <2>5, <2>6
<1>6. CASE e \in RuleForm!AuthErrors(d)
  <2>1. e \in AuthNames
      BY <1>6, AuthErrorsAre
  <2>2. CASE e = "usernameColon"
      BY <1>1, <1>2, <1>6, <2>2, AuthErrorsAre
  <2>3. CASE e = "rowUsernameColon"
      BY <1>1, <1>2, <1>6, <2>3, AuthErrorsAre
  <2>4. CASE e = "passwordNeedsUsername"
    <3>1. PICK t \in RuleForm!Enabled(d) : Lonely(d, t)
        BY <1>6, <2>4, AuthErrorsAre
    <3>2. PICK x \in E : /\ x.type = t /\ x.username = RuleForm!OwnUser(d.rows[t])
                         /\ x.password = RuleForm!OwnPassword(d.rows[t])
        BY <1>1
    <3>3. /\ SchemeOf(r.listen, x).username = RuleForm!Empty
          /\ SchemeOf(r.listen, x).password # RuleForm!Empty
        BY <1>1, <3>1, <3>2 DEF SchemeOf, Lonely
    <3> QED
        BY <1>3, <1>4, <3>1, <3>2, <3>3 DEF Lonely
  <2> QED
      BY <2>1, <2>2, <2>3, <2>4 DEF AuthNames
<1> QED
    BY <1>5, <1>6

\* A forward rule is sent without any.
LEMMA NoCredentialsPass ==
    ASSUME NEW d, RuleForm!Forwarding(d), NEW r, r = RuleForm!RuleOf(d), NEW proxy
    PROVE  RuleForm!ValidateListenAuth(r.listen, proxy)
<1>1. /\ r.listen.username = RuleForm!Empty /\ r.listen.password = RuleForm!Empty
      /\ r.listen.cipher = RuleForm!Empty /\ r.listen.protocols = {}
    BY SentFields
<1>2. \A s \in RuleForm!Schemes(r.listen) : s.raw.type # "ss" /\ s.password = RuleForm!Empty
    BY <1>1, LegacySchemes
<1>3. RuleForm!Empty # "a:b"
    BY DEF RuleForm!Empty
<1> QED
    BY <1>1, <1>2, <1>3 DEF RuleForm!ValidateListenAuth

-----------------------------------------------------------------------------
(* The form of a rule: it mirrors the server, and what it saved reopens.   *)

LEMMA ChannelsAre ==
    \A c : RuleForm!IsVirtualChannel(c) => c # RuleForm!Empty /\ c \in RuleForm!Channels
BY DEF RuleForm!IsVirtualChannel, RuleForm!Empty, RuleForm!Channels

\* The server counts a rule that the form counted, at the same address.
LEMMA CountsAlike ==
    ASSUME NEW d, NEW r, r = RuleForm!RuleOf(d)
    PROVE  /\ FormCounts(d) =>
                RuleForm!Listens(r) /\ RuleForm!Address(r.listen) = FormAddress(d)
           /\ /\ RuleForm!ListenPort(d) # RuleForm!NoPort
              /\ RuleForm!ListenVirtual(d) => RuleForm!IsVirtualChannel(d.channel)
              /\ RuleForm!Listens(r)
              => FormCounts(d)
<1>1. /\ r.disabled = ~d.enabled /\ r.listen.port = RuleForm!ListenPort(d)
      /\ r.listen.way = RuleForm!ListenWay(d)
      /\ r.listen.host = (IF RuleForm!ListenVirtual(d) THEN RuleForm!Empty ELSE d.host)
      /\ r.listen.virtual = (IF RuleForm!ListenVirtual(d) THEN d.channel ELSE RuleForm!Empty)
    BY SentFields
<1>2. RuleForm!ListenVirtual(d) => RuleForm!ListenPort(d) = 0 /\ RuleForm!ListenWay(d) = <<>>
    BY DEF RuleForm!ListenPort, RuleForm!ListenWay
<1>3. CASE RuleForm!ListenVirtual(d)
    BY <1>1, <1>2, <1>3, ChannelsAre DEF FormCounts, FormAddress, RuleForm!Listens,
       RuleForm!Address
<1>4. CASE ~RuleForm!ListenVirtual(d)
    BY <1>1, <1>4 DEF FormCounts, FormAddress, RuleForm!Listens, RuleForm!Address
<1> QED
    BY <1>3, <1>4

\* A listen port that parsed, and the port of a target.
LEMMA SentPorts ==
    ASSUME NEW d, FormDraft(d)
    PROVE  /\ RuleForm!ListenPort(d) \in {0, 80, 81, RuleForm!NoPort}
           /\ RuleForm!ParsePort(d.targetPort, 1) \in {80, 81, RuleForm!NoPort}
           /\ RuleForm!ListenVirtual(d) => RuleForm!ListenPort(d) = 0
<1>1. d.port \in RuleForm!PortTexts /\ d.targetPort \in RuleForm!PortTexts
    BY DraftFields
<1> QED
    BY <1>1, PortsAre DEF RuleForm!ListenPort

\* What the form passes the server takes, but for what is left to it.
LEMMA PassedIsValid ==
    ASSUME NEW d, FormDraft(d), RuleForm!Errors(d) = {}, ~RuleForm!LeftToServer(d)
    PROVE  RuleForm!Validate(RuleForm!RuleOf(d))
<1> DEFINE r == RuleForm!RuleOf(d)
           rest == {o \in RuleForm!Others : o.name # savedName}
           proxy == RuleForm!IsProxy(r.forward)
<1>1. /\ r.name = d.name
      /\ r.listen.host = (IF RuleForm!ListenVirtual(d) THEN RuleForm!Empty ELSE d.host)
      /\ r.listen.port = RuleForm!ListenPort(d)
      /\ r.listen.virtual = (IF RuleForm!ListenVirtual(d) THEN d.channel ELSE RuleForm!Empty)
      /\ r.listen.way = RuleForm!ListenWay(d)
      /\ r.forward.host =
           (IF RuleForm!Forwarding(d) /\ ~RuleForm!TargetVirtual(d) THEN d.targetHost
            ELSE RuleForm!Empty)
      /\ r.forward.port =
           (IF RuleForm!Forwarding(d) /\ ~RuleForm!TargetVirtual(d)
            THEN RuleForm!ParsePort(d.targetPort, 1) ELSE 0)
      /\ r.forward.virtual =
           (IF RuleForm!TargetVirtual(d) THEN d.targetChannel ELSE RuleForm!Empty)
      /\ r.forward.way = (IF RuleForm!TargetVirtual(d) THEN <<>> ELSE RuleForm!WayOf(d.exit))
    BY SentFields
<1> HIDE DEF r
<1>2. /\ d.name # RuleForm!Empty /\ d.name # "a/b" /\ ~NameTaken(d)
      /\ RuleForm!ListenPort(d) # RuleForm!NoPort
      /\ RuleForm!ListenVirtual(d) => RuleForm!IsVirtualChannel(d.channel)
      /\ ~RuleForm!ListenVirtual(d) => RuleForm!WayErrors(d.way) = {}
      /\ ~RuleForm!Forwarding(d) =>
           RuleForm!ProtocolErrors(d) = {} /\ RuleForm!AuthErrors(d) = {}
      /\ RuleForm!Forwarding(d) /\ ~RuleForm!TargetVirtual(d) =>
           RuleForm!ParsePort(d.targetPort, 1) # RuleForm!NoPort
      /\ RuleForm!TargetVirtual(d) => RuleForm!IsVirtualChannel(d.targetChannel)
      /\ RuleForm!TargetVirtual(d) /\ RuleForm!ListenVirtual(d) => d.channel # d.targetChannel
      /\ ~RuleForm!TargetVirtual(d) => RuleForm!WayErrors(d.exit) = {}
      /\ RuleForm!AddressErrors(d) = {}
    BY PassedDraft
<1>3. r.name \notin {RuleForm!Empty, "a/b"} \cup {o.name : o \in rest}
    BY <1>1, <1>2 DEF NameTaken
<1>4. /\ r.listen.port \in {0, 80, 81} /\ r.forward.port \in {0, 80, 81}
      /\ RuleForm!Forwarding(d) /\ ~RuleForm!TargetVirtual(d) => r.forward.port # 0
      /\ RuleForm!ListenVirtual(d) => r.listen.port = 0
    BY <1>1, <1>2, SentPorts
<1>5. RuleForm!TargetVirtual(d) => RuleForm!Forwarding(d)
    BY DEF RuleForm!TargetVirtual
<1>6. proxy <=> ~RuleForm!Forwarding(d)
    BY <1>1, <1>2, <1>4, <1>5, ChannelsAre DEF RuleForm!IsProxy
<1>7. r.forward.host # RuleForm!Empty => ~proxy
    BY <1>1, <1>6
<1>8. RuleForm!ValidateListenAuth(r.listen, proxy)
  <2> HIDE DEF proxy
  <2>1. CASE RuleForm!Forwarding(d)
      BY <2>1, NoCredentialsPass DEF r
  <2>2. CASE ~RuleForm!Forwarding(d)
    <3>1. proxy = TRUE
        BY <1>6, <2>2 DEF proxy, RuleForm!IsProxy
    <3> QED
        BY <1>2, <2>2, <3>1, CredentialsPass DEF r, SecretsLeft, RuleForm!LeftToServer
  <2> QED
      BY <2>1, <2>2
<1>9. RuleForm!ValidateVirtual(r.listen)
  <2>1. RuleForm!ListenVirtual(d) => RuleForm!ListenWay(d) = <<>>
      BY DEF RuleForm!ListenWay
  <2> QED
      BY <1>1, <1>2, <1>4, <2>1 DEF RuleForm!ValidateVirtual
<1>10. RuleForm!ValidateVirtual(r.forward)
    BY <1>1, <1>2 DEF RuleForm!ValidateVirtual
<1>11. r.listen.virtual # RuleForm!Empty => r.listen.virtual # r.forward.virtual
    BY <1>1, <1>2
<1>12. d.way \in FormChains /\ d.exit \in FormChains
    BY DraftFields
<1>13. RuleForm!ValidateWay(<<>>)
    BY DEF RuleForm!ValidateWay
<1>14. RuleForm!ValidateWay(r.listen.way)
    BY <1>1, <1>2, <1>12, <1>13, WaysAreChecked DEF RuleForm!ListenWay, RuleForm!LeftToServer
<1>15. RuleForm!ValidateWay(r.forward.way)
    BY <1>1, <1>2, <1>12, <1>13, WaysAreChecked DEF RuleForm!LeftToServer
<1>16. RuleForm!Listens(r) =>
         /\ \A o \in rest : RuleForm!Listens(o) =>
              RuleForm!Address(o.listen) # RuleForm!Address(r.listen)
         /\ RuleForm!Address(r.listen) # RuleForm!WebUI
  <2>1. SUFFICES ASSUME RuleForm!Listens(r)
                 PROVE  ~FormTaken(d) /\ FormAddress(d) # RuleForm!WebUI
                        /\ RuleForm!Address(r.listen) = FormAddress(d)
      BY DEF FormTaken
  <2>2. FormCounts(d) /\ RuleForm!Address(r.listen) = FormAddress(d)
      BY <1>2, <2>1, CountsAlike DEF r
  <2> QED
      BY <1>2, <2>2, AddressErrorsAre
<1>17. r.listen.port <= 65535 /\ r.forward.port <= 65535
    BY <1>4
<1> QED
    BY <1>3, <1>7, <1>8, <1>9, <1>10, <1>11, <1>14, <1>15, <1>16, <1>17
    DEF RuleForm!Validate, r

\* What is left to the server it refuses.
LEMMA LeftIsInvalid ==
    ASSUME NEW d, FormDraft(d), RuleForm!Errors(d) = {}, RuleForm!LeftToServer(d),
           RuleForm!Validate(RuleForm!RuleOf(d))
    PROVE  FALSE
<1> DEFINE r == RuleForm!RuleOf(d)  proxy == RuleForm!IsProxy(r.forward)
<1>1. /\ ~RuleForm!ListenVirtual(d) => r.listen.way = RuleForm!WayOf(d.way)
      /\ ~RuleForm!TargetVirtual(d) => r.forward.way = RuleForm!WayOf(d.exit)
    BY SentFields DEF RuleForm!ListenWay
<1>2. /\ RuleForm!ValidateListenAuth(r.listen, proxy)
      /\ RuleForm!ValidateWay(r.listen.way) /\ RuleForm!ValidateWay(r.forward.way)
    BY DEF RuleForm!Validate
<1> HIDE DEF r, proxy
<1>3. d.way \in FormChains /\ d.exit \in FormChains
    BY DraftFields
<1>4. /\ ~RuleForm!ListenVirtual(d) => RuleForm!WayErrors(d.way) = {}
      /\ ~RuleForm!TargetVirtual(d) => RuleForm!WayErrors(d.exit) = {}
    BY PassedDraft
<1>5. CASE ~RuleForm!ListenVirtual(d) /\ RuleForm!Holds(d.way, "unparsable")
    BY <1>1, <1>2, <1>3, <1>4, <1>5, WaysAreChecked
<1>6. CASE ~RuleForm!TargetVirtual(d) /\ RuleForm!Holds(d.exit, "unparsable")
    BY <1>1, <1>2, <1>3, <1>4, <1>6, WaysAreChecked
<1>7. CASE ~RuleForm!Forwarding(d) /\ SecretsLeft(d)
    BY <1>2, <1>7, CredentialsLeft DEF r
<1> QED
    BY <1>5, <1>6, <1>7 DEF RuleForm!LeftToServer, SecretsLeft

\* What the form refuses, but by its own rules, the server refuses.
LEMMA RefusedIsInvalid ==
    ASSUME NEW d, FormDraft(d), NEW e \in RuleForm!Errors(d), e \notin RuleForm!FormOnly,
           RuleForm!Validate(RuleForm!RuleOf(d))
    PROVE  FALSE
<1> DEFINE r == RuleForm!RuleOf(d)
           rest == {o \in RuleForm!Others : o.name # savedName}
<1>1. /\ r.name = d.name
      /\ r.listen.virtual = (IF RuleForm!ListenVirtual(d) THEN d.channel ELSE RuleForm!Empty)
      /\ r.listen.way = RuleForm!ListenWay(d)
      /\ r.forward.virtual =
           (IF RuleForm!TargetVirtual(d) THEN d.targetChannel ELSE RuleForm!Empty)
      /\ r.forward.way = (IF RuleForm!TargetVirtual(d) THEN <<>> ELSE RuleForm!WayOf(d.exit))
    BY SentFields
<1>2. /\ r.name \notin {RuleForm!Empty, "a/b"} \cup {o.name : o \in rest}
      /\ RuleForm!ValidateListenAuth(r.listen, RuleForm!IsProxy(r.forward))
      /\ r.listen.virtual # RuleForm!Empty => r.listen.virtual # r.forward.virtual
      /\ RuleForm!ValidateWay(r.listen.way) /\ RuleForm!ValidateWay(r.forward.way)
      /\ RuleForm!Listens(r) =>
           /\ \A o \in rest : RuleForm!Listens(o) =>
                RuleForm!Address(o.listen) # RuleForm!Address(r.listen)
           /\ RuleForm!Address(r.listen) # RuleForm!WebUI
    BY DEF RuleForm!Validate
<1> HIDE DEF r
<1>3. \A x \in RuleForm!FormOnly : x # e
    OBVIOUS
<1>4. /\ e # "protocolRequired" /\ e # "hopUrlEmpty" /\ e # "invalidPort"
      /\ e # "invalidForwardPort" /\ e # "invalidVirtualChannel"
      /\ e # "invalidTargetChannel"
    BY <1>3 DEF RuleForm!FormOnly
<1>5. d.way \in FormChains /\ d.exit \in FormChains
    BY DraftFields
<1>6. CASE d.name = RuleForm!Empty \/ d.name = "a/b" \/ NameTaken(d)
    BY <1>1, <1>2, <1>6 DEF NameTaken
<1>7. CASE ~RuleForm!ListenVirtual(d) /\ e \in RuleForm!WayErrors(d.way)
  <2>1. e = "hopUrlNoScheme"
      BY <1>4, <1>5, <1>7, WaysAreChecked
  <2> QED
      BY <1>1, <1>2, <1>5, <1>7, <2>1, WaysAreChecked DEF RuleForm!ListenWay
<1>8. CASE ~RuleForm!TargetVirtual(d) /\ e \in RuleForm!WayErrors(d.exit)
  <2>1. e = "hopUrlNoScheme"
      BY <1>4, <1>5, <1>8, WaysAreChecked
  <2> QED
      BY <1>1, <1>2, <1>5, <1>8, <2>1, WaysAreChecked
<1>9. CASE /\ ~RuleForm!Forwarding(d)
           /\ e \in RuleForm!ProtocolErrors(d) \/ e \in RuleForm!AuthErrors(d)
  <2> DEFINE proxy == RuleForm!IsProxy(r.forward)
  <2>1. RuleForm!ValidateListenAuth(r.listen, proxy)
      BY <1>2
  <2> HIDE DEF proxy
  <2> QED
      BY <1>4, <1>9, <2>1, CredentialsFail DEF r
<1>10. CASE /\ RuleForm!TargetVirtual(d) /\ RuleForm!ListenVirtual(d)
            /\ d.channel = d.targetChannel /\ RuleForm!IsVirtualChannel(d.channel)
    BY <1>1, <1>2, <1>10, ChannelsAre
<1>11. CASE e \in RuleForm!AddressErrors(d)
  <2>1. FormCounts(d) /\ (FormTaken(d) \/ RuleForm!WebUI = FormAddress(d))
      BY <1>11, AddressErrorsAre DEF AddressNames
  <2>2. RuleForm!Listens(r) /\ RuleForm!Address(r.listen) = FormAddress(d)
      BY <2>1, CountsAlike DEF r
  <2> QED
      BY <1>2, <2>1, <2>2 DEF FormTaken
<1> QED
    BY <1>4, <1>6, <1>7, <1>8, <1>9, <1>10, <1>11, ErrorsAre

\* A passed draft that is read back: what the server stored of it, field by field.
LEMMA ReadBack ==
    ASSUME NEW r
    PROVE  LET b == RuleForm!DraftFrom(r)
           IN  /\ b.name = r.name /\ b.enabled = ~r.disabled
               /\ b.mode = (IF r.forward.port > 0 \/ r.forward.virtual # RuleForm!Empty
                            THEN "forward" ELSE "proxy")
               /\ b.kind = (IF r.listen.virtual # RuleForm!Empty THEN "virtual" ELSE "address")
               /\ b.host = r.listen.host /\ b.port = RuleForm!PortText(r.listen.port)
               /\ b.channel = r.listen.virtual /\ b.username = r.listen.username
               /\ b.password = r.listen.password /\ b.way = r.listen.way
               /\ b.rows = [t \in Types |-> RuleForm!RowOf(r.listen, t)]
               /\ b.targetKind = (IF r.forward.virtual # RuleForm!Empty THEN "virtual"
                                  ELSE "address")
               /\ b.targetHost = r.forward.host
               /\ b.targetPort = (IF r.forward.port > 0 THEN RuleForm!PortText(r.forward.port)
                                  ELSE "bad")
               /\ b.targetChannel = r.forward.virtual /\ b.exit = r.forward.way
BY DEF RuleForm!DraftFrom

StoredOf(listen, t) == {e \in listen.protocols : e.type = t}

RowSends(r, username, password, cipher) ==
    /\ r.enabled = TRUE /\ r.username = username /\ r.password = password
    /\ r.custom = (username # RuleForm!Empty \/ password # RuleForm!Empty)
    /\ r.cipher = cipher
RowIsBlank(r, t) ==
    /\ r.enabled \in BOOLEAN /\ r.custom = FALSE
    /\ r.username = RuleForm!Empty /\ r.password = RuleForm!Empty
    /\ r.cipher \in CiphersOf(t)

LEMMA RowBack ==
    ASSUME NEW listen, NEW t,
           NEW username, NEW password, NEW cipher \in CiphersOf(t),
           StoredOf(listen, t) = {RuleForm!Entry(t, username, password, cipher)}
    PROVE  RowSends(RuleForm!RowOf(listen, t), username, password, cipher)
<1> DEFINE e == RuleForm!Entry(t, username, password, cipher)
           found == StoredOf(listen, t)
<1>1. e.username = username /\ e.password = password /\ e.cipher = cipher
    BY DEF RuleForm!Entry
<1>2. found = {e} /\ found # {} /\ listen.protocols # {}
    BY DEF StoredOf
<1> HIDE DEF e
<1>3. (CHOOSE x \in found : TRUE) = e
    BY <1>2
<1>4. cipher # RuleForm!Empty <=> t = "ss"
    BY CiphersAre
<1> QED
    BY <1>1, <1>2, <1>3, <1>4 DEF RuleForm!RowOf, RuleForm!IsCustom, StoredOf, RowSends

LEMMA RowAbsent ==
    ASSUME NEW listen, NEW t, StoredOf(listen, t) = {},
           listen.cipher \in {RuleForm!Empty} \cup RuleForm!Ciphers
    PROVE  /\ RowIsBlank(RuleForm!RowOf(listen, t), t)
           /\ listen.protocols # {} => RuleForm!RowOf(listen, t).enabled = FALSE
<1> DEFINE e == RuleForm!Entry(t, RuleForm!Empty, RuleForm!Empty, RuleForm!Empty)
<1>1. /\ e.username = RuleForm!Empty /\ e.password = RuleForm!Empty
      /\ e.cipher = RuleForm!Empty
    BY DEF RuleForm!Entry
<1> HIDE DEF e
<1>2. RuleForm!DefaultCipher \in RuleForm!Ciphers
    BY DEF RuleForm!DefaultCipher, RuleForm!Ciphers
<1>3. RuleForm!RowOf(listen, t).cipher \in CiphersOf(t)
    BY <1>1, <1>2 DEF RuleForm!RowOf, StoredOf, CiphersOf, e
<1> QED
    BY <1>1, <1>3 DEF RuleForm!RowOf, RuleForm!IsCustom, StoredOf, RowIsBlank, e

\* The rows of a proxy that was saved: those that were checked, and what they send.
LEMMA RowsBack ==
    ASSUME NEW d, FormDraft(d), ~RuleForm!Forwarding(d), RuleForm!Enabled(d) # {},
           NEW b, b = RuleForm!DraftFrom(RuleForm!RuleOf(d))
    PROVE  /\ RuleForm!Enabled(b) = RuleForm!Enabled(d)
           /\ \A t \in RuleForm!Enabled(d) :
                /\ RuleForm!OwnUser(b.rows[t]) = RuleForm!OwnUser(d.rows[t])
                /\ RuleForm!OwnPassword(b.rows[t]) = RuleForm!OwnPassword(d.rows[t])
                /\ b.rows[t].cipher = d.rows[t].cipher
           /\ \A t \in Types :
                /\ b.rows[t].enabled \in BOOLEAN /\ b.rows[t].custom \in BOOLEAN
                /\ b.rows[t].username \in RuleForm!Users
                /\ b.rows[t].password \in RuleForm!Passwords
                /\ b.rows[t].cipher \in CiphersOf(t)
<1> DEFINE listen == RuleForm!RuleOf(d).listen
           sender(t) == RuleForm!OwnUser(d.rows[t])
           password(t) == RuleForm!OwnPassword(d.rows[t])
           cipher(t) == d.rows[t].cipher
           entry(t) == RuleForm!Entry(t, sender(t), password(t), cipher(t))
<1>1. /\ listen.protocols = {entry(t) : t \in RuleForm!Enabled(d)}
      /\ listen.cipher = RuleForm!Empty
    BY SentFields DEF SentEntries
<1>2. \A t \in Types : b.rows[t] = RuleForm!RowOf(listen, t)
    BY DEF RuleForm!DraftFrom
<1>3. \A t : entry(t).type = t
    BY DEF RuleForm!Entry
<1>4. RuleForm!Empty \in RuleForm!Users /\ RuleForm!Empty \in RuleForm!Passwords
    BY DEF RuleForm!Empty, RuleForm!Users, RuleForm!Passwords
<1>5. \A t \in RuleForm!Enabled(d) : /\ t \in Types /\ sender(t) \in RuleForm!Users
                                     /\ password(t) \in RuleForm!Passwords
                                     /\ cipher(t) \in CiphersOf(t)
    BY <1>4, DraftFields DEF RuleForm!Enabled, RuleForm!OwnUser, RuleForm!OwnPassword
<1> HIDE DEF listen
<1>6. ASSUME NEW t \in Types, t \in RuleForm!Enabled(d)
      PROVE  RowSends(RuleForm!RowOf(listen, t), sender(t), password(t), cipher(t))
  <2>1. StoredOf(listen, t) = {entry(t)}
    <3> HIDE DEF entry
    <3> QED
        BY <1>1, <1>3, <1>6 DEF StoredOf
  <2>2. cipher(t) \in CiphersOf(t)
      BY <1>5, <1>6
  <2> HIDE DEF sender, password, cipher
  <2> QED
      BY <2>1, <2>2, RowBack
<1>7. ASSUME NEW t \in Types, t \notin RuleForm!Enabled(d)
      PROVE  /\ RowIsBlank(RuleForm!RowOf(listen, t), t)
             /\ RuleForm!RowOf(listen, t).enabled = FALSE
  <2>1. StoredOf(listen, t) = {} /\ listen.protocols # {}
    <3> HIDE DEF entry
    <3> QED
        BY <1>1, <1>3, <1>7 DEF StoredOf
  <2> QED
      BY <1>1, <2>1, RowAbsent
<1> HIDE DEF entry, sender, password, cipher
<1>8. \A t \in Types : b.rows[t].enabled <=> t \in RuleForm!Enabled(d)
    BY <1>2, <1>6, <1>7 DEF RowSends
<1>9. RuleForm!Enabled(b) = RuleForm!Enabled(d)
    BY <1>8 DEF RuleForm!Enabled
<1>10. ASSUME NEW t \in RuleForm!Enabled(d)
       PROVE  /\ RuleForm!OwnUser(b.rows[t]) = sender(t)
              /\ RuleForm!OwnPassword(b.rows[t]) = password(t)
              /\ b.rows[t].cipher = cipher(t)
    BY <1>2, <1>5, <1>6, <1>10 DEF RuleForm!OwnUser, RuleForm!OwnPassword, RowSends
<1>11. ASSUME NEW t \in Types
       PROVE  /\ b.rows[t].enabled \in BOOLEAN /\ b.rows[t].custom \in BOOLEAN
              /\ b.rows[t].username \in RuleForm!Users
              /\ b.rows[t].password \in RuleForm!Passwords
              /\ b.rows[t].cipher \in CiphersOf(t)
  <2>1. CASE t \in RuleForm!Enabled(d)
    <3>1. RowSends(b.rows[t], sender(t), password(t), cipher(t))
        BY <1>2, <1>6, <2>1
    <3>2. /\ sender(t) \in RuleForm!Users /\ password(t) \in RuleForm!Passwords
          /\ cipher(t) \in CiphersOf(t)
        BY <1>5, <2>1
    <3>3. /\ b.rows[t].enabled = TRUE /\ b.rows[t].username = sender(t)
          /\ b.rows[t].password = password(t)
          /\ b.rows[t].custom = (sender(t) # RuleForm!Empty \/ password(t) # RuleForm!Empty)
          /\ b.rows[t].cipher = cipher(t)
        BY ONLY <3>1, Zenon DEF RowSends
    <3>4. b.rows[t].custom \in BOOLEAN /\ b.rows[t].enabled \in BOOLEAN
        BY ONLY <3>3
    <3> QED
        BY ONLY <3>2, <3>3, <3>4, Zenon
  <2>2. CASE t \notin RuleForm!Enabled(d)
    <3>1. RowIsBlank(b.rows[t], t)
        BY <1>2, <1>7, <2>2
    <3> QED
        BY <1>4, <3>1 DEF RowIsBlank
  <2> QED
      BY <2>1, <2>2
<1> QED
    BY <1>9, <1>10, <1>11 DEF sender, password, cipher

\* The rows of a forward rule that was saved: the form does not show them.
LEMMA RowsForwarding ==
    ASSUME NEW d, RuleForm!Forwarding(d), NEW b, b = RuleForm!DraftFrom(RuleForm!RuleOf(d)),
           NEW t \in Types
    PROVE  /\ b.rows[t].enabled \in BOOLEAN /\ b.rows[t].custom \in BOOLEAN
           /\ b.rows[t].username \in RuleForm!Users
           /\ b.rows[t].password \in RuleForm!Passwords
           /\ b.rows[t].cipher \in CiphersOf(t)
<1> DEFINE listen == RuleForm!RuleOf(d).listen
<1>1. listen.protocols = {} /\ listen.cipher = RuleForm!Empty
    BY SentFields
<1>2. b.rows[t] = RuleForm!RowOf(listen, t)
    BY DEF RuleForm!DraftFrom
<1>3. RuleForm!Empty \in RuleForm!Users /\ RuleForm!Empty \in RuleForm!Passwords
    BY DEF RuleForm!Empty, RuleForm!Users, RuleForm!Passwords
<1> HIDE DEF listen
<1>4. StoredOf(listen, t) = {}
    BY <1>1 DEF StoredOf
<1>5. RowIsBlank(b.rows[t], t)
    BY <1>1, <1>2, <1>4, RowAbsent
<1> QED
    BY <1>3, <1>5 DEF RowIsBlank

\* What is sent of a draft that the form passes is read back as a draft that says
\* the same wherever it is looked at.
LEMMA SameDraft ==
    ASSUME NEW d, FormDraft(d), RuleForm!Errors(d) = {},
           NEW b, b = RuleForm!DraftFrom(RuleForm!RuleOf(d))
    PROVE  /\ b.name = d.name /\ b.enabled = d.enabled /\ b.mode = d.mode /\ b.kind = d.kind
           /\ b.host = (IF RuleForm!ListenVirtual(d) THEN RuleForm!Empty ELSE d.host)
           /\ b.port \in RuleForm!PortTexts
           /\ RuleForm!ParsePort(b.port, 0) = RuleForm!ListenPort(d)
           /\ b.channel = (IF RuleForm!ListenVirtual(d) THEN d.channel ELSE RuleForm!Empty)
           /\ b.username = (IF RuleForm!Forwarding(d) THEN RuleForm!Empty ELSE d.username)
           /\ b.password = (IF RuleForm!Forwarding(d) THEN RuleForm!Empty ELSE d.password)
           /\ b.way = RuleForm!ListenWay(d)
           /\ b.targetKind = (IF RuleForm!TargetVirtual(d) THEN "virtual" ELSE "address")
           /\ b.targetHost =
                (IF RuleForm!Forwarding(d) /\ ~RuleForm!TargetVirtual(d) THEN d.targetHost
                 ELSE RuleForm!Empty)
           /\ b.targetPort \in RuleForm!PortTexts
           /\ RuleForm!Forwarding(d) /\ ~RuleForm!TargetVirtual(d) =>
                RuleForm!ParsePort(b.targetPort, 1) = RuleForm!ParsePort(d.targetPort, 1)
           /\ b.targetChannel =
                (IF RuleForm!TargetVirtual(d) THEN d.targetChannel ELSE RuleForm!Empty)
           /\ b.exit = (IF RuleForm!TargetVirtual(d) THEN <<>> ELSE RuleForm!WayOf(d.exit))
           /\ b.rows = [t \in Types |-> b.rows[t]]
<1> DEFINE r == RuleForm!RuleOf(d)
<1>1. /\ r.name = d.name /\ r.disabled = ~d.enabled
      /\ r.listen.host = (IF RuleForm!ListenVirtual(d) THEN RuleForm!Empty ELSE d.host)
      /\ r.listen.port = RuleForm!ListenPort(d)
      /\ r.listen.virtual = (IF RuleForm!ListenVirtual(d) THEN d.channel ELSE RuleForm!Empty)
      /\ r.listen.username = (IF RuleForm!Forwarding(d) THEN RuleForm!Empty ELSE d.username)
      /\ r.listen.password = (IF RuleForm!Forwarding(d) THEN RuleForm!Empty ELSE d.password)
      /\ r.listen.way = RuleForm!ListenWay(d)
      /\ r.forward.host =
           (IF RuleForm!Forwarding(d) /\ ~RuleForm!TargetVirtual(d) THEN d.targetHost
            ELSE RuleForm!Empty)
      /\ r.forward.port =
           (IF RuleForm!Forwarding(d) /\ ~RuleForm!TargetVirtual(d)
            THEN RuleForm!ParsePort(d.targetPort, 1) ELSE 0)
      /\ r.forward.virtual =
           (IF RuleForm!TargetVirtual(d) THEN d.targetChannel ELSE RuleForm!Empty)
      /\ r.forward.way = (IF RuleForm!TargetVirtual(d) THEN <<>> ELSE RuleForm!WayOf(d.exit))
    BY SentFields
<1>2. /\ b.name = r.name /\ b.enabled = ~r.disabled
      /\ b.mode = (IF r.forward.port > 0 \/ r.forward.virtual # RuleForm!Empty
                   THEN "forward" ELSE "proxy")
      /\ b.kind = (IF r.listen.virtual # RuleForm!Empty THEN "virtual" ELSE "address")
      /\ b.host = r.listen.host /\ b.port = RuleForm!PortText(r.listen.port)
      /\ b.channel = r.listen.virtual /\ b.username = r.listen.username
      /\ b.password = r.listen.password /\ b.way = r.listen.way
      /\ b.targetKind = (IF r.forward.virtual # RuleForm!Empty THEN "virtual" ELSE "address")
      /\ b.targetHost = r.forward.host
      /\ b.targetPort = (IF r.forward.port > 0 THEN RuleForm!PortText(r.forward.port)
                         ELSE "bad")
      /\ b.targetChannel = r.forward.virtual /\ b.exit = r.forward.way
    BY ReadBack
<1>10. b.rows = [t \in Types |-> b.rows[t]]
    BY DEF RuleForm!DraftFrom
<1> HIDE DEF r
<1>3. /\ RuleForm!ListenPort(d) \in {0, 80, 81}
      /\ RuleForm!Forwarding(d) /\ ~RuleForm!TargetVirtual(d) =>
           RuleForm!ParsePort(d.targetPort, 1) \in {80, 81}
      /\ RuleForm!ListenVirtual(d) => d.channel # RuleForm!Empty
      /\ RuleForm!TargetVirtual(d) => d.targetChannel # RuleForm!Empty
    BY PassedDraft, SentPorts, ChannelsAre
<1>4. /\ d.enabled \in BOOLEAN /\ d.mode \in {"proxy", "forward"}
      /\ d.kind \in {"address", "virtual"}
    BY DraftFields
<1>5. /\ RuleForm!Forwarding(d) <=> d.mode = "forward"
      /\ RuleForm!ListenVirtual(d) <=> d.kind = "virtual"
      /\ RuleForm!TargetVirtual(d) => RuleForm!Forwarding(d)
    BY DEF RuleForm!Forwarding, RuleForm!ListenVirtual, RuleForm!TargetVirtual
<1>6. b.mode = d.mode /\ b.kind = d.kind
  <2>1. CASE RuleForm!TargetVirtual(d)
      BY <1>1, <1>2, <1>3, <1>4, <1>5, <2>1
  <2>2. CASE RuleForm!Forwarding(d) /\ ~RuleForm!TargetVirtual(d)
      BY <1>1, <1>2, <1>3, <1>4, <1>5, <2>2
  <2>3. CASE ~RuleForm!Forwarding(d)
      BY <1>1, <1>2, <1>3, <1>4, <1>5, <2>3
  <2> QED
      BY <2>1, <2>2, <2>3
<1>7. \A p \in {0, 80, 81} : /\ RuleForm!PortText(p) \in RuleForm!PortTexts
                             /\ RuleForm!ParsePort(RuleForm!PortText(p), 0) = p
                             /\ p # 0 => RuleForm!ParsePort(RuleForm!PortText(p), 1) = p
    BY PortsParse DEF RuleForm!ParsePort, RuleForm!PortTexts
<1>8. /\ b.port \in RuleForm!PortTexts
      /\ RuleForm!ParsePort(b.port, 0) = RuleForm!ListenPort(d)
    BY <1>1, <1>2, <1>3, <1>7
<1>9. /\ b.targetPort \in RuleForm!PortTexts
      /\ RuleForm!Forwarding(d) /\ ~RuleForm!TargetVirtual(d) =>
           RuleForm!ParsePort(b.targetPort, 1) = RuleForm!ParsePort(d.targetPort, 1)
  <2>1. CASE RuleForm!Forwarding(d) /\ ~RuleForm!TargetVirtual(d)
    <3>1. r.forward.port \in {80, 81} /\ r.forward.port > 0
        BY <1>1, <1>3, <2>1
    <3> QED
        BY <1>1, <1>2, <1>7, <2>1, <3>1
  <2>2. CASE ~(RuleForm!Forwarding(d) /\ ~RuleForm!TargetVirtual(d))
    <3>1. b.targetPort = "bad"
        BY <1>1, <1>2, <2>2
    <3> QED
        BY <2>2, <3>1 DEF RuleForm!PortTexts
  <2> QED
      BY <2>1, <2>2
<1>11. b.enabled = d.enabled
    BY <1>1, <1>2, <1>4
<1>12. b.targetKind = (IF RuleForm!TargetVirtual(d) THEN "virtual" ELSE "address")
    BY <1>1, <1>2, <1>3
<1> QED
    BY <1>1, <1>2, <1>6, <1>8, <1>9, <1>10, <1>11, <1>12

LEMMA SameModes ==
    ASSUME NEW d, FormDraft(d), RuleForm!Errors(d) = {},
           NEW b, b = RuleForm!DraftFrom(RuleForm!RuleOf(d))
    PROVE  /\ RuleForm!Forwarding(b) <=> RuleForm!Forwarding(d)
           /\ RuleForm!ListenVirtual(b) <=> RuleForm!ListenVirtual(d)
           /\ RuleForm!TargetVirtual(b) <=> RuleForm!TargetVirtual(d)
           /\ RuleForm!ListenPort(b) = RuleForm!ListenPort(d)
           /\ RuleForm!ListenWay(b) = RuleForm!ListenWay(d)
<1>1. /\ b.mode = d.mode /\ b.kind = d.kind
      /\ b.targetKind = (IF RuleForm!TargetVirtual(d) THEN "virtual" ELSE "address")
      /\ RuleForm!ParsePort(b.port, 0) = RuleForm!ListenPort(d)
      /\ b.way = RuleForm!ListenWay(d)
    BY SameDraft
<1>2. /\ RuleForm!Forwarding(b) <=> RuleForm!Forwarding(d)
      /\ RuleForm!ListenVirtual(b) <=> RuleForm!ListenVirtual(d)
    BY <1>1 DEF RuleForm!Forwarding, RuleForm!ListenVirtual
<1>3. RuleForm!TargetVirtual(b) <=> RuleForm!TargetVirtual(d)
    BY <1>1, <1>2 DEF RuleForm!TargetVirtual
<1>4. RuleForm!ListenPort(b) = RuleForm!ListenPort(d)
    BY <1>1, <1>2 DEF RuleForm!ListenPort
<1>5. RuleForm!ListenWay(b) = RuleForm!ListenWay(d)
  <2>1. d.way \in FormChains
      BY DraftFields
  <2> QED
      BY <1>1, <1>2, <2>1, WaysAreChecked DEF RuleForm!ListenWay
<1> QED
    BY <1>2, <1>3, <1>4, <1>5

\* The draft that is read back is one that the form may hold.
LEMMA ReadBackIsADraft ==
    ASSUME NEW d, FormDraft(d), RuleForm!Errors(d) = {},
           NEW b, b = RuleForm!DraftFrom(RuleForm!RuleOf(d))
    PROVE  FormDraft(b)
<1>1. \A t \in Types : b.rows[t] \in FormRow(t)
  <2>1. TAKE t \in Types
  <2>2. /\ b.rows[t].enabled \in BOOLEAN /\ b.rows[t].custom \in BOOLEAN
        /\ b.rows[t].username \in RuleForm!Users
        /\ b.rows[t].password \in RuleForm!Passwords
        /\ b.rows[t].cipher \in CiphersOf(t)
    <3>1. CASE RuleForm!Forwarding(d)
        BY <3>1, RowsForwarding
    <3>2. CASE ~RuleForm!Forwarding(d)
      <4>1. RuleForm!Enabled(d) # {}
          BY <3>2, PassedDraft, ProtocolErrorsAre
      <4> QED
          BY <3>2, <4>1, RowsBack
    <3> QED
        BY <3>1, <3>2
  <2>3. b.rows[t] = [enabled |-> b.rows[t].enabled, custom |-> b.rows[t].custom,
                     username |-> b.rows[t].username, password |-> b.rows[t].password,
                     cipher |-> b.rows[t].cipher]
      BY DEF RuleForm!DraftFrom, RuleForm!RowOf
  <2> QED
      BY <2>2, <2>3 DEF FormRow
<1>2. b.rows \in [Types -> UNION {FormRow(t) : t \in Types}]
  <2>1. b.rows = [t \in Types |-> b.rows[t]]
      BY SameDraft
  <2> QED
      BY <1>1, <2>1
<1>3. /\ d.way \in FormChains /\ d.exit \in FormChains /\ <<>> \in FormChains
      /\ RuleForm!WayOf(d.way) \in FormChains /\ RuleForm!WayOf(d.exit) \in FormChains
    BY DraftFields, WaysAreChecked DEF FormChains
<1>4. b.way \in FormChains /\ b.exit \in FormChains
    BY <1>3, SameDraft DEF RuleForm!ListenWay
<1>5. /\ RuleForm!Empty \in RuleForm!Users /\ RuleForm!Empty \in RuleForm!Passwords
      /\ RuleForm!Empty \in RuleForm!Hosts /\ RuleForm!Empty \in RuleForm!Channels
    BY DEF RuleForm!Users, RuleForm!Passwords, RuleForm!Hosts, RuleForm!Channels
<1>6. /\ b.name \in RuleForm!FormNames /\ b.enabled \in BOOLEAN
      /\ b.mode \in {"proxy", "forward"}
      /\ b.kind \in {"address", "virtual"} /\ b.host \in RuleForm!Hosts
      /\ b.port \in RuleForm!PortTexts /\ b.channel \in RuleForm!Channels
      /\ b.username \in RuleForm!Users /\ b.password \in RuleForm!Passwords
      /\ b.targetKind \in {"address", "virtual"} /\ b.targetHost \in RuleForm!Hosts
      /\ b.targetPort \in RuleForm!PortTexts /\ b.targetChannel \in RuleForm!Channels
  <2>1. /\ d.name \in RuleForm!FormNames /\ d.enabled \in BOOLEAN
        /\ d.mode \in {"proxy", "forward"} /\ d.kind \in {"address", "virtual"}
        /\ d.host \in RuleForm!Hosts /\ d.channel \in RuleForm!Channels
        /\ d.username \in RuleForm!Users /\ d.password \in RuleForm!Passwords
        /\ d.targetHost \in RuleForm!Hosts /\ d.targetChannel \in RuleForm!Channels
      BY DraftFields
  <2>2. /\ b.name = d.name /\ b.enabled = d.enabled /\ b.mode = d.mode /\ b.kind = d.kind
        /\ b.host \in {RuleForm!Empty, d.host} /\ b.port \in RuleForm!PortTexts
        /\ b.channel \in {RuleForm!Empty, d.channel}
        /\ b.username \in {RuleForm!Empty, d.username}
        /\ b.password \in {RuleForm!Empty, d.password}
        /\ b.targetKind \in {"address", "virtual"}
        /\ b.targetHost \in {RuleForm!Empty, d.targetHost}
        /\ b.targetPort \in RuleForm!PortTexts
        /\ b.targetChannel \in {RuleForm!Empty, d.targetChannel}
    <3>1. /\ b.name = d.name /\ b.enabled = d.enabled /\ b.mode = d.mode /\ b.kind = d.kind
          /\ b.port \in RuleForm!PortTexts /\ b.targetPort \in RuleForm!PortTexts
        BY SameDraft
    <3>2. /\ b.host = (IF RuleForm!ListenVirtual(d) THEN RuleForm!Empty ELSE d.host)
          /\ b.channel = (IF RuleForm!ListenVirtual(d) THEN d.channel ELSE RuleForm!Empty)
          /\ b.username = (IF RuleForm!Forwarding(d) THEN RuleForm!Empty ELSE d.username)
          /\ b.password = (IF RuleForm!Forwarding(d) THEN RuleForm!Empty ELSE d.password)
        BY SameDraft
    <3>3. /\ b.targetKind = (IF RuleForm!TargetVirtual(d) THEN "virtual" ELSE "address")
          /\ b.targetHost =
               (IF RuleForm!Forwarding(d) /\ ~RuleForm!TargetVirtual(d) THEN d.targetHost
                ELSE RuleForm!Empty)
          /\ b.targetChannel =
               (IF RuleForm!TargetVirtual(d) THEN d.targetChannel ELSE RuleForm!Empty)
        BY SameDraft
    <3> QED
        BY ONLY <3>1, <3>2, <3>3
  <2> QED
      BY ONLY <1>5, <2>1, <2>2
<1>7. b = [name |-> b.name, enabled |-> b.enabled, mode |-> b.mode, kind |-> b.kind,
           host |-> b.host, port |-> b.port, channel |-> b.channel,
           username |-> b.username, password |-> b.password, rows |-> b.rows,
           way |-> b.way, targetKind |-> b.targetKind, targetHost |-> b.targetHost,
           targetPort |-> b.targetPort, targetChannel |-> b.targetChannel, exit |-> b.exit]
    BY DEF RuleForm!DraftFrom
<1> QED
    BY <1>1, <1>2, <1>4, <1>6, <1>7 DEF FormDraft

\* It is sent as the same rule.
LEMMA SentAgain ==
    ASSUME NEW d, FormDraft(d), RuleForm!Errors(d) = {},
           NEW b, b = RuleForm!DraftFrom(RuleForm!RuleOf(d))
    PROVE  RuleForm!RuleOf(b) = RuleForm!RuleOf(d)
<1>1. /\ RuleForm!Forwarding(b) <=> RuleForm!Forwarding(d)
      /\ RuleForm!ListenVirtual(b) <=> RuleForm!ListenVirtual(d)
      /\ RuleForm!TargetVirtual(b) <=> RuleForm!TargetVirtual(d)
      /\ RuleForm!ListenPort(b) = RuleForm!ListenPort(d)
      /\ RuleForm!ListenWay(b) = RuleForm!ListenWay(d)
    BY SameModes
<1>2. /\ b.name = d.name /\ b.enabled = d.enabled
      /\ b.host = (IF RuleForm!ListenVirtual(d) THEN RuleForm!Empty ELSE d.host)
      /\ b.channel = (IF RuleForm!ListenVirtual(d) THEN d.channel ELSE RuleForm!Empty)
      /\ b.username = (IF RuleForm!Forwarding(d) THEN RuleForm!Empty ELSE d.username)
      /\ b.password = (IF RuleForm!Forwarding(d) THEN RuleForm!Empty ELSE d.password)
      /\ b.targetHost =
           (IF RuleForm!Forwarding(d) /\ ~RuleForm!TargetVirtual(d) THEN d.targetHost
            ELSE RuleForm!Empty)
      /\ RuleForm!Forwarding(d) /\ ~RuleForm!TargetVirtual(d) =>
           RuleForm!ParsePort(b.targetPort, 1) = RuleForm!ParsePort(d.targetPort, 1)
      /\ b.targetChannel =
           (IF RuleForm!TargetVirtual(d) THEN d.targetChannel ELSE RuleForm!Empty)
      /\ b.exit = (IF RuleForm!TargetVirtual(d) THEN <<>> ELSE RuleForm!WayOf(d.exit))
    BY SameDraft
<1>3. ~RuleForm!TargetVirtual(d) => RuleForm!WayOf(b.exit) = RuleForm!WayOf(d.exit)
    BY <1>2, DraftFields, WaysAreChecked
<1>4. ~RuleForm!Forwarding(d) => SentEntries(b) = SentEntries(d)
  <2>1. SUFFICES ASSUME ~RuleForm!Forwarding(d) PROVE SentEntries(b) = SentEntries(d)
      OBVIOUS
  <2>2. RuleForm!Enabled(d) # {}
      BY <2>1, PassedDraft, ProtocolErrorsAre
  <2>3. /\ RuleForm!Enabled(b) = RuleForm!Enabled(d)
        /\ \A t \in RuleForm!Enabled(d) :
             /\ RuleForm!OwnUser(b.rows[t]) = RuleForm!OwnUser(d.rows[t])
             /\ RuleForm!OwnPassword(b.rows[t]) = RuleForm!OwnPassword(d.rows[t])
             /\ b.rows[t].cipher = d.rows[t].cipher
      BY <2>1, <2>2, RowsBack
  <2> QED
      BY <2>3 DEF SentEntries
<1> DEFINE r == RuleForm!RuleOf(b)  q == RuleForm!RuleOf(d)
<1>5. /\ r.name = q.name /\ r.disabled = q.disabled
      /\ r.listen.host = q.listen.host /\ r.listen.port = q.listen.port
      /\ r.listen.virtual = q.listen.virtual /\ r.listen.way = q.listen.way
      /\ r.listen.cipher = q.listen.cipher
  <2>1. /\ r.name = b.name /\ r.disabled = ~b.enabled
        /\ r.listen.host = (IF RuleForm!ListenVirtual(b) THEN RuleForm!Empty ELSE b.host)
        /\ r.listen.port = RuleForm!ListenPort(b)
        /\ r.listen.virtual =
             (IF RuleForm!ListenVirtual(b) THEN b.channel ELSE RuleForm!Empty)
        /\ r.listen.cipher = RuleForm!Empty /\ r.listen.way = RuleForm!ListenWay(b)
      BY SentFields
  <2>2. /\ q.name = d.name /\ q.disabled = ~d.enabled
        /\ q.listen.host = (IF RuleForm!ListenVirtual(d) THEN RuleForm!Empty ELSE d.host)
        /\ q.listen.port = RuleForm!ListenPort(d)
        /\ q.listen.virtual =
             (IF RuleForm!ListenVirtual(d) THEN d.channel ELSE RuleForm!Empty)
        /\ q.listen.cipher = RuleForm!Empty /\ q.listen.way = RuleForm!ListenWay(d)
      BY SentFields
  <2> HIDE DEF r, q
  <2> QED
      BY <1>1, <1>2, <2>1, <2>2
<1>6. /\ r.listen.username = q.listen.username /\ r.listen.password = q.listen.password
      /\ r.listen.protocols = q.listen.protocols
  <2>1. /\ r.listen.username =
             (IF RuleForm!Forwarding(b) THEN RuleForm!Empty ELSE b.username)
        /\ r.listen.password =
             (IF RuleForm!Forwarding(b) THEN RuleForm!Empty ELSE b.password)
        /\ RuleForm!Forwarding(b) => r.listen.protocols = {}
        /\ ~RuleForm!Forwarding(b) => r.listen.protocols = SentEntries(b)
      BY SentFields
  <2>2. /\ q.listen.username =
             (IF RuleForm!Forwarding(d) THEN RuleForm!Empty ELSE d.username)
        /\ q.listen.password =
             (IF RuleForm!Forwarding(d) THEN RuleForm!Empty ELSE d.password)
        /\ RuleForm!Forwarding(d) => q.listen.protocols = {}
        /\ ~RuleForm!Forwarding(d) => q.listen.protocols = SentEntries(d)
      BY SentFields
  <2> HIDE DEF r, q
  <2> QED
      BY <1>1, <1>2, <1>4, <2>1, <2>2
<1>7. /\ r.forward.host = q.forward.host /\ r.forward.port = q.forward.port
      /\ r.forward.virtual = q.forward.virtual /\ r.forward.way = q.forward.way
  <2>1. /\ r.forward.host =
             (IF RuleForm!Forwarding(b) /\ ~RuleForm!TargetVirtual(b) THEN b.targetHost
              ELSE RuleForm!Empty)
        /\ r.forward.port =
             (IF RuleForm!Forwarding(b) /\ ~RuleForm!TargetVirtual(b)
              THEN RuleForm!ParsePort(b.targetPort, 1) ELSE 0)
        /\ r.forward.virtual =
             (IF RuleForm!TargetVirtual(b) THEN b.targetChannel ELSE RuleForm!Empty)
        /\ r.forward.way =
             (IF RuleForm!TargetVirtual(b) THEN <<>> ELSE RuleForm!WayOf(b.exit))
      BY SentFields
  <2>2. /\ q.forward.host =
             (IF RuleForm!Forwarding(d) /\ ~RuleForm!TargetVirtual(d) THEN d.targetHost
              ELSE RuleForm!Empty)
        /\ q.forward.port =
             (IF RuleForm!Forwarding(d) /\ ~RuleForm!TargetVirtual(d)
              THEN RuleForm!ParsePort(d.targetPort, 1) ELSE 0)
        /\ q.forward.virtual =
             (IF RuleForm!TargetVirtual(d) THEN d.targetChannel ELSE RuleForm!Empty)
        /\ q.forward.way =
             (IF RuleForm!TargetVirtual(d) THEN <<>> ELSE RuleForm!WayOf(d.exit))
      BY SentFields
  <2> HIDE DEF r, q
  <2> QED
      BY <1>1, <1>2, <1>3, <2>1, <2>2
<1>8. /\ r = [name |-> r.name, disabled |-> r.disabled, listen |-> r.listen,
              forward |-> r.forward]
      /\ r.listen = [host |-> r.listen.host, port |-> r.listen.port,
                     virtual |-> r.listen.virtual, username |-> r.listen.username,
                     password |-> r.listen.password, cipher |-> r.listen.cipher,
                     protocols |-> r.listen.protocols, way |-> r.listen.way]
      /\ r.forward = [host |-> r.forward.host, port |-> r.forward.port,
                      virtual |-> r.forward.virtual, way |-> r.forward.way]
    BY SentWhole
<1>9. /\ q = [name |-> q.name, disabled |-> q.disabled, listen |-> q.listen,
              forward |-> q.forward]
      /\ q.listen = [host |-> q.listen.host, port |-> q.listen.port,
                     virtual |-> q.listen.virtual, username |-> q.listen.username,
                     password |-> q.listen.password, cipher |-> q.listen.cipher,
                     protocols |-> q.listen.protocols, way |-> q.listen.way]
      /\ q.forward = [host |-> q.forward.host, port |-> q.forward.port,
                      virtual |-> q.forward.virtual, way |-> q.forward.way]
    BY SentWhole
<1> HIDE DEF r, q
<1>10. r.listen = q.listen
    BY <1>5, <1>6, <1>8, <1>9
<1>11. r.forward = q.forward
    BY <1>7, <1>8, <1>9
<1>12. r = q
    BY <1>5, <1>8, <1>9, <1>10, <1>11
<1> QED
    BY <1>12 DEF r, q

\* The form passes it.
LEMMA PassedAgain ==
    ASSUME NEW d, FormDraft(d), RuleForm!Errors(d) = {},
           NEW b, b = RuleForm!DraftFrom(RuleForm!RuleOf(d))
    PROVE  RuleForm!Errors(b) = {}
<1>1. /\ RuleForm!Forwarding(b) <=> RuleForm!Forwarding(d)
      /\ RuleForm!ListenVirtual(b) <=> RuleForm!ListenVirtual(d)
      /\ RuleForm!TargetVirtual(b) <=> RuleForm!TargetVirtual(d)
      /\ RuleForm!ListenPort(b) = RuleForm!ListenPort(d)
      /\ RuleForm!ListenWay(b) = RuleForm!ListenWay(d)
    BY SameModes
<1>2. /\ d.name # RuleForm!Empty /\ d.name # "a/b" /\ ~NameTaken(d)
      /\ RuleForm!ListenPort(d) # RuleForm!NoPort
      /\ RuleForm!ListenVirtual(d) => RuleForm!IsVirtualChannel(d.channel)
      /\ ~RuleForm!ListenVirtual(d) => RuleForm!WayErrors(d.way) = {}
      /\ ~RuleForm!Forwarding(d) =>
           RuleForm!ProtocolErrors(d) = {} /\ RuleForm!AuthErrors(d) = {}
      /\ RuleForm!Forwarding(d) /\ ~RuleForm!TargetVirtual(d) =>
           RuleForm!ParsePort(d.targetPort, 1) # RuleForm!NoPort
      /\ RuleForm!TargetVirtual(d) => RuleForm!IsVirtualChannel(d.targetChannel)
      /\ RuleForm!TargetVirtual(d) /\ RuleForm!ListenVirtual(d) => d.channel # d.targetChannel
      /\ ~RuleForm!TargetVirtual(d) => RuleForm!WayErrors(d.exit) = {}
      /\ RuleForm!AddressErrors(d) = {}
    BY PassedDraft
<1>3. /\ b.name = d.name /\ b.enabled = d.enabled
      /\ b.host = (IF RuleForm!ListenVirtual(d) THEN RuleForm!Empty ELSE d.host)
      /\ b.channel = (IF RuleForm!ListenVirtual(d) THEN d.channel ELSE RuleForm!Empty)
      /\ b.username = (IF RuleForm!Forwarding(d) THEN RuleForm!Empty ELSE d.username)
      /\ b.password = (IF RuleForm!Forwarding(d) THEN RuleForm!Empty ELSE d.password)
      /\ b.way = RuleForm!ListenWay(d)
      /\ RuleForm!Forwarding(d) /\ ~RuleForm!TargetVirtual(d) =>
           RuleForm!ParsePort(b.targetPort, 1) = RuleForm!ParsePort(d.targetPort, 1)
      /\ b.targetChannel =
           (IF RuleForm!TargetVirtual(d) THEN d.targetChannel ELSE RuleForm!Empty)
      /\ b.exit = (IF RuleForm!TargetVirtual(d) THEN <<>> ELSE RuleForm!WayOf(d.exit))
    BY SameDraft
<1>4. ~NameTaken(b)
    BY <1>2, <1>3 DEF NameTaken
<1>5. d.way \in FormChains /\ d.exit \in FormChains
    BY DraftFields
<1>6. ~RuleForm!ListenVirtual(d) => RuleForm!WayErrors(b.way) = {}
    BY <1>2, <1>3, <1>5, WaysAreChecked DEF RuleForm!ListenWay
<1>7. ~RuleForm!TargetVirtual(d) => RuleForm!WayErrors(b.exit) = {}
    BY <1>2, <1>3, <1>5, WaysAreChecked
<1>8. FormAddress(b) = FormAddress(d) /\ (FormCounts(b) <=> FormCounts(d))
    BY <1>1, <1>3 DEF FormAddress, FormCounts
<1>9. FormTaken(b) <=> FormTaken(d)
    BY <1>8 DEF FormTaken
<1>10. RuleForm!AddressErrors(b) = {}
  <2>1. \A e \in RuleForm!AddressErrors(b) : e \in AddressNames
      BY AddressErrorsAre
  <2>2. /\ "listenAddressTaken" \notin RuleForm!AddressErrors(b)
        /\ "listenAddressWebUI" \notin RuleForm!AddressErrors(b)
      BY <1>2, <1>8, <1>9, AddressErrorsAre
  <2> QED
      BY <2>1, <2>2 DEF AddressNames
<1>11. ASSUME ~RuleForm!Forwarding(d)
       PROVE  RuleForm!ProtocolErrors(b) = {} /\ RuleForm!AuthErrors(b) = {}
  <2>1. RuleForm!Enabled(d) # {}
      BY <1>2, <1>11, ProtocolErrorsAre
  <2>2. /\ RuleForm!Enabled(b) = RuleForm!Enabled(d)
        /\ \A t \in RuleForm!Enabled(d) :
             /\ RuleForm!OwnUser(b.rows[t]) = RuleForm!OwnUser(d.rows[t])
             /\ RuleForm!OwnPassword(b.rows[t]) = RuleForm!OwnPassword(d.rows[t])
             /\ b.rows[t].cipher = d.rows[t].cipher
      BY <1>11, <2>1, RowsBack
  <2>3. b.username = d.username /\ b.password = d.password
      BY <1>3, <1>11
  <2>4. RuleForm!SharedForSS(b) <=> RuleForm!SharedForSS(d)
      BY <2>2 DEF RuleForm!SharedForSS
  <2>5. \A t \in RuleForm!Enabled(d) : Lonely(b, t) <=> Lonely(d, t)
      BY <2>2, <2>3, <2>4 DEF Lonely
  <2>6. RuleForm!AuthErrors(b) = {}
    <3>1. \A e \in RuleForm!AuthErrors(b) : e \in AuthNames
        BY AuthErrorsAre
    <3>2. "usernameColon" \notin RuleForm!AuthErrors(b)
        BY <1>2, <1>11, <2>3, AuthErrorsAre
    <3>3. "rowUsernameColon" \notin RuleForm!AuthErrors(b)
        BY <1>2, <1>11, <2>2, AuthErrorsAre
    <3>4. "passwordNeedsUsername" \notin RuleForm!AuthErrors(b)
        BY <1>2, <1>11, <2>2, <2>5, AuthErrorsAre
    <3> QED
        BY <3>1, <3>2, <3>3, <3>4 DEF AuthNames
  <2>7. RuleForm!ProtocolErrors(b) = {}
    <3>1. \A e \in RuleForm!ProtocolErrors(b) : e \in ProtocolNames
        BY ProtocolErrorsAre
    <3>2. "protocolRequired" \notin RuleForm!ProtocolErrors(b)
        BY <2>1, <2>2, ProtocolErrorsAre
    <3>3. "cipherRequired" \notin RuleForm!ProtocolErrors(b)
      <4>1. "ss" \in RuleForm!Enabled(b) => b.rows["ss"].cipher # RuleForm!Empty
          BY <2>2, DraftFields, CiphersAre DEF RuleForm!Enabled
      <4> QED
          BY <4>1, ProtocolErrorsAre
    <3>4. "passwordRequired" \notin RuleForm!ProtocolErrors(b)
        BY <1>2, <1>11, <2>2, <2>3, ProtocolErrorsAre
    <3> QED
        BY <3>1, <3>2, <3>3, <3>4 DEF ProtocolNames
  <2> QED
      BY <2>6, <2>7
<1>12. ASSUME NEW e \in RuleForm!Errors(b)
       PROVE  FALSE
    BY <1>1, <1>2, <1>3, <1>4, <1>6, <1>7, <1>10, <1>11, <1>12, ErrorsAre
<1> QED
    BY <1>12

-----------------------------------------------------------------------------
(* The form of a rule: its steps.                                          *)

\* A form that is open holds a draft, of chains that the bound allows.
FormHolds(d, name, n) ==
    /\ RuleForm!RuleFormAssumption
    /\ name \in RuleForm!FormNames /\ n \in 0..MaxEdits /\ FormDraft(d)
    /\ Len(d.way) <= MaxHops /\ Len(d.exit) <= MaxHops

FormInv == FormHolds(draft, savedName, edits)

\* What the form shows is what the server would say.
LEMMA FormMirrors ==
    ASSUME FormDraft(draft)
    PROVE  RuleForm!FormMirrorsServer /\ RuleForm!Reopens
<1>1. RuleForm!Errors(draft) = {} =>
        (RuleForm!Validate(RuleForm!RuleOf(draft)) <=> ~RuleForm!LeftToServer(draft))
    BY PassedIsValid, LeftIsInvalid
<1>2. RuleForm!Errors(draft) \ RuleForm!FormOnly # {} =>
        ~RuleForm!Validate(RuleForm!RuleOf(draft))
  <2>1. SUFFICES ASSUME NEW e \in RuleForm!Errors(draft), e \notin RuleForm!FormOnly,
                        RuleForm!Validate(RuleForm!RuleOf(draft))
                 PROVE  FALSE
      OBVIOUS
  <2> QED
      BY <2>1, RefusedIsInvalid
<1>3. RuleForm!Errors(draft) = {} =>
        RuleForm!Errors(RuleForm!DraftFrom(RuleForm!RuleOf(draft))) = {}
    BY PassedAgain
<1>4. RuleForm!Errors(draft) = {} =>
        RuleForm!RuleOf(RuleForm!DraftFrom(RuleForm!RuleOf(draft))) = RuleForm!RuleOf(draft)
    BY SentAgain
<1> QED
    BY <1>1, <1>2, <1>3, <1>4 DEF RuleForm!FormMirrorsServer, RuleForm!Reopens

LEMMA FormShows ==
    ASSUME FormInv
    PROVE  RuleForm!RuleFormTypeOK /\ RuleForm!FormMirrorsServer /\ RuleForm!Reopens
<1>1. FormDraft(draft) /\ savedName \in RuleForm!FormNames /\ edits \in 0..MaxEdits
      /\ Len(draft.way) <= MaxHops /\ Len(draft.exit) <= MaxHops
    BY DEF FormInv, FormHolds
<1>2. DOMAIN draft = DOMAIN RuleForm!DraftFrom(RuleForm!EmptyRule)
    BY <1>1 DEF FormDraft, RuleForm!DraftFrom
<1>3. DOMAIN draft.rows = Types
    BY <1>1 DEF FormDraft
<1>4. RuleForm!RuleFormTypeOK
    BY <1>1, <1>2, <1>3, DraftFields DEF RuleForm!RuleFormTypeOK
<1> QED
    BY <1>1, <1>4, FormMirrors

\* The protocols of a rule that was not saved by the form: none, or these.
HandWritten == RuleForm!Entry("ss", "a:b", "secret", "unknown")

LEMMA RowOfListen ==
    ASSUME NEW listen, NEW t, listen.protocols \in {{}, {HandWritten}},
           listen.cipher \in {RuleForm!Empty} \cup RuleForm!Ciphers
    PROVE  RuleForm!RowOf(listen, t) \in FormRow(t)
<1> DEFINE x == RuleForm!RowOf(listen, t)
<1>1. /\ RuleForm!Empty \in RuleForm!Users /\ "a:b" \in RuleForm!Users
      /\ RuleForm!Empty \in RuleForm!Passwords /\ "secret" \in RuleForm!Passwords
      /\ "unknown" \in CiphersOf("ss")
    BY DEF RuleForm!Users, RuleForm!Passwords, RuleForm!Ciphers, CiphersOf
<1>2. HandWritten.type = "ss"
    BY DEF HandWritten, RuleForm!Entry
<1>3. x = [enabled |-> x.enabled, custom |-> x.custom, username |-> x.username,
           password |-> x.password, cipher |-> x.cipher]
    BY DEF RuleForm!RowOf
<1> HIDE DEF x
<1>4. /\ x.enabled \in BOOLEAN /\ x.custom \in BOOLEAN /\ x.username \in RuleForm!Users
      /\ x.password \in RuleForm!Passwords /\ x.cipher \in CiphersOf(t)
  <2>1. CASE StoredOf(listen, t) = {}
    <3>1. RowIsBlank(x, t)
        BY <2>1, RowAbsent DEF x
    <3> QED
        BY <1>1, <3>1 DEF RowIsBlank
  <2>2. CASE StoredOf(listen, t) # {}
    <3>1. t = "ss" /\ StoredOf(listen, t) = {HandWritten}
        BY <1>2, <2>2 DEF StoredOf
    <3>2. RowSends(x, "a:b", "secret", "unknown")
        BY <1>1, <3>1, RowBack DEF x, HandWritten
    <3>3. x.custom \in BOOLEAN /\ x.enabled \in BOOLEAN
        BY <3>2 DEF RowSends
    <3> QED
        BY <1>1, <3>1, <3>2, <3>3 DEF RowSends
  <2> QED
      BY <2>1, <2>2
<1>5. x \in FormRow(t)
    BY ONLY <1>3, <1>4 DEF FormRow
<1> QED
    BY <1>5 DEF x

\* It is read as a draft.
LEMMA DraftOfPlain ==
    ASSUME NEW r, NEW b, b = RuleForm!DraftFrom(r),
           r.name \in RuleForm!FormNames, r.disabled \in BOOLEAN,
           r.listen.host \in RuleForm!Hosts, r.listen.port \in {0, 80, 81},
           r.listen.virtual \in RuleForm!Channels, r.listen.username \in RuleForm!Users,
           r.listen.password \in RuleForm!Passwords,
           r.listen.protocols \in {{}, {HandWritten}},
           r.listen.cipher \in {RuleForm!Empty} \cup RuleForm!Ciphers,
           r.listen.way \in FormChains, r.forward.host \in RuleForm!Hosts,
           r.forward.port \in {0, 80, 81}, r.forward.virtual \in RuleForm!Channels,
           r.forward.way \in FormChains
    PROVE  FormDraft(b) /\ b.way = r.listen.way /\ b.exit = r.forward.way
<1>1. /\ b.name = r.name /\ b.enabled = ~r.disabled
      /\ b.mode \in {"proxy", "forward"} /\ b.kind \in {"address", "virtual"}
      /\ b.host = r.listen.host /\ b.port = RuleForm!PortText(r.listen.port)
      /\ b.channel = r.listen.virtual /\ b.username = r.listen.username
      /\ b.password = r.listen.password /\ b.way = r.listen.way
      /\ b.rows = [t \in Types |-> RuleForm!RowOf(r.listen, t)]
      /\ b.targetKind \in {"address", "virtual"}
      /\ b.targetHost = r.forward.host
      /\ b.targetPort = (IF r.forward.port > 0 THEN RuleForm!PortText(r.forward.port)
                         ELSE "bad")
      /\ b.targetChannel = r.forward.virtual /\ b.exit = r.forward.way
    BY ReadBack
<1>2. b.port \in RuleForm!PortTexts /\ b.targetPort \in RuleForm!PortTexts
    BY <1>1, PortsParse DEF RuleForm!PortTexts
<1>3. \A t \in Types : b.rows[t] \in FormRow(t)
  <2>1. \A t \in Types : b.rows[t] = RuleForm!RowOf(r.listen, t)
      BY <1>1
  <2> QED
      BY <2>1, RowOfListen
<1>4. b.rows \in [Types -> UNION {FormRow(t) : t \in Types}]
    BY <1>1, <1>3
<1>5. b = [name |-> b.name, enabled |-> b.enabled, mode |-> b.mode, kind |-> b.kind,
           host |-> b.host, port |-> b.port, channel |-> b.channel,
           username |-> b.username, password |-> b.password, rows |-> b.rows,
           way |-> b.way, targetKind |-> b.targetKind, targetHost |-> b.targetHost,
           targetPort |-> b.targetPort, targetChannel |-> b.targetChannel, exit |-> b.exit]
    BY DEF RuleForm!DraftFrom
<1>6. /\ b.name \in RuleForm!FormNames /\ b.enabled \in BOOLEAN
      /\ b.host \in RuleForm!Hosts /\ b.channel \in RuleForm!Channels
      /\ b.username \in RuleForm!Users /\ b.password \in RuleForm!Passwords
      /\ b.way \in FormChains /\ b.exit \in FormChains
      /\ b.targetHost \in RuleForm!Hosts /\ b.targetChannel \in RuleForm!Channels
    BY <1>1
<1> QED
    BY <1>1, <1>2, <1>3, <1>4, <1>5, <1>6 DEF FormDraft

\* The rule that the form opens on has at most one protocol and one hop.
OneHop == << <<"good">> >>
OpensOn(r) ==
    /\ r.name \in {RuleForm!Empty, "mine"} /\ r.disabled = FALSE
    /\ r.listen.host = "loopback" /\ r.listen.port \in {0, 80, 81}
    /\ r.listen.virtual = RuleForm!Empty /\ r.listen.username = RuleForm!Empty
    /\ r.listen.password \in {RuleForm!Empty, "secret"}
    /\ r.listen.protocols \in {{}, {HandWritten}}
    /\ r.listen.cipher \in {RuleForm!Empty, "cipher"}
    /\ r.listen.way = <<>> /\ r.forward.host = RuleForm!Empty
    /\ r.forward.port \in {0, 80, 81} /\ r.forward.virtual = RuleForm!Empty
    /\ r.forward.way \in {<<>>, OneHop}

LEMMA FormInit ==
    ASSUME RuleForm!RuleFormAssumption, RuleForm!Init
    PROVE  FormInv
<1>1. /\ MaxEdits \in Nat /\ MaxHops \in Nat /\ 1 <= MaxHops
    BY DEF RuleForm!RuleFormAssumption
<1>2. edits = 0 /\ savedName \in {RuleForm!Empty, "mine"}
    BY DEF RuleForm!Init
<1>3. /\ RuleForm!Empty \in RuleForm!FormNames /\ "mine" \in RuleForm!FormNames
      /\ RuleForm!Empty \in RuleForm!Hosts /\ "loopback" \in RuleForm!Hosts
      /\ RuleForm!Empty \in RuleForm!Channels /\ RuleForm!Empty \in RuleForm!Users
      /\ RuleForm!Empty \in RuleForm!Passwords /\ "secret" \in RuleForm!Passwords
    BY DEF RuleForm!FormNames, RuleForm!Hosts, RuleForm!Channels, RuleForm!Users,
           RuleForm!Passwords
<1>4. /\ <<>> \in FormChains /\ OneHop \in FormChains
      /\ Len(<<>>) = 0 /\ Len(OneHop) = 1
  <2>1. "good" \in FormURLs
      BY DEF FormURLs, RuleForm!HopURLs
  <2>2. <<"good">> \in Seq(FormURLs)
      BY <2>1
  <2> QED
      BY <2>2 DEF FormChains, OneHop
<1>5. PICK r : OpensOn(r) /\ draft = RuleForm!DraftFrom(r)
  <2> DEFINE e == RuleForm!EmptyRule
             byHand == [e EXCEPT !.name = "mine", !.listen.port = 81,
                                 !.listen.cipher = "cipher", !.listen.password = "secret"]
             onward(w) == [e EXCEPT !.name = "mine", !.forward.port = 80,
                                    !.forward.way = w]
             written == [e EXCEPT !.name = "mine", !.listen.protocols = {HandWritten}]
  <2>1. OpensOn(e)
      BY DEF OpensOn, RuleForm!EmptyRule, RuleForm!EmptyListen, RuleForm!EmptyForward
  <2>2. OpensOn(byHand)
    <3>1. /\ byHand.name = "mine" /\ byHand.disabled = e.disabled
          /\ byHand.forward = e.forward
        BY DEF RuleForm!EmptyRule
    <3>2. byHand.listen =
            [RuleForm!EmptyListen EXCEPT !.port = 81, !.cipher = "cipher", !.password = "secret"]
        BY DEF RuleForm!EmptyRule
    <3>3. e.listen = RuleForm!EmptyListen
        BY DEF RuleForm!EmptyRule
    <3> HIDE DEF byHand, e
    <3> DEFINE l == byHand.listen
    <3>4. l = [e.listen EXCEPT !.port = 81, !.cipher = "cipher", !.password = "secret"]
        BY <3>2, <3>3
    <3> HIDE DEF l
    <3>5. l.host = e.listen.host /\ l.virtual = e.listen.virtual /\ l.port = 81
        BY <3>3, <3>4 DEF RuleForm!EmptyListen
    <3>6. /\ l.password = "secret" /\ l.username = e.listen.username
          /\ l.protocols = e.listen.protocols
        BY <3>3, <3>4 DEF RuleForm!EmptyListen
    <3>7. l.way = e.listen.way /\ l.cipher = "cipher"
        BY <3>3, <3>4 DEF RuleForm!EmptyListen
    <3>8. byHand.listen = l
        BY DEF l
    <3> QED
        BY <2>1, <3>1, <3>5, <3>6, <3>7, <3>8 DEF OpensOn
  <2>3. OpensOn(onward(OneHop))
    <3>1. \A w : /\ onward(w).listen = e.listen /\ onward(w).disabled = e.disabled
                 /\ onward(w).name = "mine" /\ onward(w).forward.host = e.forward.host
                 /\ onward(w).forward.port = 80 /\ onward(w).forward.way = w
                 /\ onward(w).forward.virtual = e.forward.virtual
        BY DEF RuleForm!EmptyRule, RuleForm!EmptyForward
    <3> HIDE DEF onward
    <3> QED
        BY <2>1, <3>1 DEF OpensOn
  <2>4. OpensOn(written)
    <3>1. /\ written.name = "mine" /\ written.disabled = e.disabled
          /\ written.forward = e.forward
        BY DEF RuleForm!EmptyRule
    <3>2. /\ written.listen.host = e.listen.host /\ written.listen.port = e.listen.port
          /\ written.listen.virtual = e.listen.virtual
          /\ written.listen.username = e.listen.username
        BY DEF RuleForm!EmptyRule, RuleForm!EmptyListen
    <3>3. /\ written.listen.password = e.listen.password
          /\ written.listen.cipher = e.listen.cipher
          /\ written.listen.protocols = {HandWritten} /\ written.listen.way = e.listen.way
        BY DEF RuleForm!EmptyRule, RuleForm!EmptyListen
    <3> HIDE DEF written, e
    <3> QED
        BY <2>1, <3>1, <3>2, <3>3 DEF OpensOn
  <2>5. draft \in {RuleForm!DraftFrom(e), RuleForm!DraftFrom(byHand),
                   RuleForm!DraftFrom(onward(OneHop)), RuleForm!DraftFrom(written)}
      BY DEF RuleForm!Init, OneHop, HandWritten
  <2> HIDE DEF e, byHand, onward, written
  <2> QED
      BY <2>1, <2>2, <2>3, <2>4, <2>5
<1>6. FormDraft(draft) /\ draft.way = r.listen.way /\ draft.exit = r.forward.way
  <2> DEFINE b == RuleForm!DraftFrom(r)
  <2>1. /\ r.name \in RuleForm!FormNames /\ r.disabled \in BOOLEAN
        /\ r.listen.host \in RuleForm!Hosts /\ r.listen.port \in {0, 80, 81}
        /\ r.listen.virtual \in RuleForm!Channels /\ r.listen.username \in RuleForm!Users
        /\ r.listen.password \in RuleForm!Passwords
        /\ r.listen.protocols \in {{}, {HandWritten}}
        /\ r.listen.cipher \in {RuleForm!Empty} \cup RuleForm!Ciphers
        /\ r.listen.way \in FormChains /\ r.forward.host \in RuleForm!Hosts
        /\ r.forward.port \in {0, 80, 81} /\ r.forward.virtual \in RuleForm!Channels
        /\ r.forward.way \in FormChains
      BY <1>3, <1>4, <1>5 DEF OpensOn, RuleForm!Ciphers
  <2> HIDE DEF b
  <2>2. b = RuleForm!DraftFrom(r)
      BY DEF b
  <2>3. FormDraft(b) /\ b.way = r.listen.way /\ b.exit = r.forward.way
      BY <2>1, <2>2, DraftOfPlain
  <2>4. draft = b
      BY <1>5 DEF b
  <2> QED
      BY <2>3, <2>4
<1>7. Len(draft.way) <= MaxHops /\ Len(draft.exit) <= MaxHops
  <2>1. draft.way = <<>> /\ draft.exit \in {<<>>, OneHop}
      BY <1>5, <1>6 DEF OpensOn
  <2>2. \A n \in {0, 1} : n <= MaxHops
      BY <1>1
  <2>3. Len(draft.exit) \in {0, 1} /\ Len(draft.way) \in {0, 1}
      BY <1>4, <2>1
  <2> QED
      BY <2>2, <2>3, Zenon
<1> QED
    BY <1>1, <1>2, <1>3, <1>6, <1>7 DEF FormInv, FormHolds

LEMMA FormEdits ==
    ASSUME FormInv, NEW d, FormDraft(d), Len(d.way) <= MaxHops, Len(d.exit) <= MaxHops,
           RuleForm!Edit(d)
    PROVE  FormInv'
<1>1. /\ draft' = d /\ edits' = edits + 1 /\ edits < MaxEdits /\ savedName' = savedName
    BY DEF RuleForm!Edit
<1>2. FormHolds(d, savedName, edits + 1)
    BY <1>1 DEF FormInv, FormHolds, RuleForm!RuleFormAssumption
<1> QED
    BY <1>1, <1>2 DEF FormInv

\* An edit that leaves the chains alone.
Edited(d, b) == FormDraft(b) /\ b.way = d.way /\ b.exit = d.exit

LEMMA OtherEdits ==
    ASSUME FormInv, NEW d, RuleForm!Edit(d), Edited(draft, d)
    PROVE  FormInv'
BY FormEdits DEF FormInv, FormHolds, Edited

\* The fields, each typed or switched on its own.
LEMMA FieldTyped ==
    ASSUME NEW d, FormDraft(d)
    PROVE  /\ \A x \in RuleForm!FormNames : Edited(d, [d EXCEPT !.name = x])
           /\ \A x \in BOOLEAN : Edited(d, [d EXCEPT !.enabled = x])
           /\ \A x \in {"proxy", "forward"} : Edited(d, [d EXCEPT !.mode = x])
           /\ \A x \in {"address", "virtual"} : Edited(d, [d EXCEPT !.kind = x])
           /\ \A x \in RuleForm!Hosts : Edited(d, [d EXCEPT !.host = x])
           /\ \A x \in RuleForm!PortTexts : Edited(d, [d EXCEPT !.port = x])
           /\ \A x \in RuleForm!Channels : Edited(d, [d EXCEPT !.channel = x])
           /\ \A x \in RuleForm!Users : Edited(d, [d EXCEPT !.username = x])
           /\ \A x \in RuleForm!Passwords : Edited(d, [d EXCEPT !.password = x])
           /\ \A x \in {"address", "virtual"} : Edited(d, [d EXCEPT !.targetKind = x])
           /\ \A x \in RuleForm!Hosts : Edited(d, [d EXCEPT !.targetHost = x])
           /\ \A x \in RuleForm!PortTexts : Edited(d, [d EXCEPT !.targetPort = x])
           /\ \A x \in RuleForm!Channels : Edited(d, [d EXCEPT !.targetChannel = x])
<1>1. \A x \in RuleForm!FormNames : Edited(d, [d EXCEPT !.name = x])
    BY DEF FormDraft, Edited
<1>2. \A x \in BOOLEAN : Edited(d, [d EXCEPT !.enabled = x])
    BY DEF FormDraft, Edited
<1>3. \A x \in {"proxy", "forward"} : Edited(d, [d EXCEPT !.mode = x])
    BY DEF FormDraft, Edited
<1>4. \A x \in {"address", "virtual"} : Edited(d, [d EXCEPT !.kind = x])
    BY DEF FormDraft, Edited
<1>5. \A x \in RuleForm!Hosts : Edited(d, [d EXCEPT !.host = x])
    BY DEF FormDraft, Edited
<1>6. \A x \in RuleForm!PortTexts : Edited(d, [d EXCEPT !.port = x])
    BY DEF FormDraft, Edited
<1>7. \A x \in RuleForm!Channels : Edited(d, [d EXCEPT !.channel = x])
    BY DEF FormDraft, Edited
<1>8. \A x \in RuleForm!Users : Edited(d, [d EXCEPT !.username = x])
    BY DEF FormDraft, Edited
<1>9. \A x \in RuleForm!Passwords : Edited(d, [d EXCEPT !.password = x])
    BY DEF FormDraft, Edited
<1>10. \A x \in {"address", "virtual"} : Edited(d, [d EXCEPT !.targetKind = x])
    BY DEF FormDraft, Edited
<1>11. \A x \in RuleForm!Hosts : Edited(d, [d EXCEPT !.targetHost = x])
    BY DEF FormDraft, Edited
<1>12. \A x \in RuleForm!PortTexts : Edited(d, [d EXCEPT !.targetPort = x])
    BY DEF FormDraft, Edited
<1>13. \A x \in RuleForm!Channels : Edited(d, [d EXCEPT !.targetChannel = x])
    BY DEF FormDraft, Edited
<1> QED
    BY <1>1, <1>2, <1>3, <1>4, <1>5, <1>6, <1>7, <1>8, <1>9,
       <1>10, <1>11, <1>12, <1>13

\* A row, typed or switched.
LEMMA RowTyped ==
    ASSUME NEW d, FormDraft(d), NEW t \in Types
    PROVE  /\ \A x \in BOOLEAN : Edited(d, [d EXCEPT !.rows[t].enabled = x])
           /\ \A x \in BOOLEAN : Edited(d, [d EXCEPT !.rows[t].custom = x])
           /\ \A x \in RuleForm!Users : Edited(d, [d EXCEPT !.rows[t].username = x])
           /\ \A x \in RuleForm!Passwords : Edited(d, [d EXCEPT !.rows[t].password = x])
           /\ \A x \in CiphersOf(t) : Edited(d, [d EXCEPT !.rows[t].cipher = x])
<1>1. ASSUME NEW q \in FormRow(t)
      PROVE  Edited(d, [d EXCEPT !.rows[t] = q])
  <2> DEFINE R == UNION {FormRow(k) : k \in Types}
             rs == [d.rows EXCEPT ![t] = q]
  <2>1. q \in R /\ d.rows \in [Types -> R]
      BY DEF FormDraft
  <2>2. rs \in [Types -> R]
      BY <2>1
  <2>3. \A k \in Types : rs[k] \in FormRow(k)
      BY <2>1 DEF FormDraft
  <2>4. [d EXCEPT !.rows[t] = q] = [d EXCEPT !.rows = rs]
      OBVIOUS
  <2> HIDE DEF rs
  <2>5. Edited(d, [d EXCEPT !.rows = rs])
      BY <2>2, <2>3 DEF FormDraft, Edited
  <2> QED
      BY <2>4, <2>5
<1> DEFINE r == d.rows[t]
<1>2. r \in FormRow(t)
    BY DEF FormDraft
<1>3. \A x \in BOOLEAN : [r EXCEPT !.enabled = x] \in FormRow(t)
    BY <1>2 DEF FormRow
<1>4. \A x \in BOOLEAN : [r EXCEPT !.custom = x] \in FormRow(t)
    BY <1>2 DEF FormRow
<1>5. \A x \in RuleForm!Users : [r EXCEPT !.username = x] \in FormRow(t)
    BY <1>2 DEF FormRow
<1>6. \A x \in RuleForm!Passwords : [r EXCEPT !.password = x] \in FormRow(t)
    BY <1>2 DEF FormRow
<1>7. \A x \in CiphersOf(t) : [r EXCEPT !.cipher = x] \in FormRow(t)
    BY <1>2 DEF FormRow
<1> QED
    BY <1>1, <1>3, <1>4, <1>5, <1>6, <1>7

\* A chain, put in the place of one that is shown.
LEMMA ChainPut ==
    ASSUME NEW d, FormDraft(d), NEW h \in FormChains
    PROVE  /\ FormDraft([d EXCEPT !.way = h]) /\ FormDraft([d EXCEPT !.exit = h])
           /\ [d EXCEPT !.way = h].way = h /\ [d EXCEPT !.way = h].exit = d.exit
           /\ [d EXCEPT !.exit = h].exit = h /\ [d EXCEPT !.exit = h].way = d.way
<1>1. FormDraft([d EXCEPT !.way = h])
    BY DEF FormDraft
<1>2. FormDraft([d EXCEPT !.exit = h])
    BY DEF FormDraft
<1>3. /\ [d EXCEPT !.way = h].way = h /\ [d EXCEPT !.way = h].exit = d.exit
      /\ [d EXCEPT !.exit = h].exit = h /\ [d EXCEPT !.exit = h].way = d.way
    BY DEF FormDraft
<1> QED
    BY <1>1, <1>2, <1>3

\* The chains, edited a hop or a URL at a time.
LEMMA ChainEdited ==
    ASSUME NEW h \in FormChains, NEW n \in Nat, 1 <= n, Len(h) <= n
    PROVE  /\ Len(h) < n =>
                /\ Append(h, <<RuleForm!Empty>>) \in FormChains
                /\ Len(Append(h, <<RuleForm!Empty>>)) <= n
           /\ \A i \in DOMAIN h :
                /\ RuleForm!RemoveAt(h, i) \in FormChains /\ Len(RuleForm!RemoveAt(h, i)) <= n
                /\ \A u \in Seq(FormURLs) :
                     [h EXCEPT ![i] = u] \in FormChains /\ Len([h EXCEPT ![i] = u]) <= n
                /\ Append(h[i], RuleForm!Empty) \in Seq(FormURLs)
                /\ \A k \in DOMAIN h[i] :
                     /\ RuleForm!RemoveAt(h[i], k) \in Seq(FormURLs)
                     /\ \A u \in FormURLs : [h[i] EXCEPT ![k] = u] \in Seq(FormURLs)
           /\ \A i \in 1..Len(h) - 1 :
                /\ [h EXCEPT ![i] = h[i + 1], ![i + 1] = h[i]] \in FormChains
                /\ Len([h EXCEPT ![i] = h[i + 1], ![i + 1] = h[i]]) <= n
<1> DEFINE S == Seq(FormURLs)
<1>1. FormChains = Seq(S)
    BY DEF FormChains
<1>2. RuleForm!Empty \in FormURLs
    BY DEF FormURLs, RuleForm!HopURLs
<1>3. <<RuleForm!Empty>> \in S
    BY <1>2
<1>4. \A U : \A s \in Seq(U) : \A i \in DOMAIN s :
        RuleForm!RemoveAt(s, i) \in Seq(U) /\ Len(RuleForm!RemoveAt(s, i)) = Len(s) - 1
    BY ONLY TRUE DEF RuleForm!RemoveAt
<1>5. \A U : \A s \in Seq(U) : \A i \in DOMAIN s, u \in U :
        [s EXCEPT ![i] = u] \in Seq(U) /\ Len([s EXCEPT ![i] = u]) = Len(s)
    OBVIOUS
<1>6. \A i \in DOMAIN h : h[i] \in S
    BY <1>1
<1>7. \A i \in DOMAIN h : /\ Append(h[i], RuleForm!Empty) \in S
                          /\ \A k \in DOMAIN h[i] :
                               /\ RuleForm!RemoveAt(h[i], k) \in S
                               /\ \A u \in FormURLs : [h[i] EXCEPT ![k] = u] \in S
    BY <1>2, <1>4, <1>5, <1>6
<1> HIDE DEF S
<1>8. \A i \in 1..Len(h) - 1 :
        /\ [h EXCEPT ![i] = h[i + 1], ![i + 1] = h[i]] \in Seq(S)
        /\ Len([h EXCEPT ![i] = h[i + 1], ![i + 1] = h[i]]) = Len(h)
  <2>1. TAKE i \in 1..Len(h) - 1
  <2>2. i \in DOMAIN h /\ i + 1 \in DOMAIN h /\ Len(h) \in Nat /\ h \in Seq(S)
      BY <1>1
  <2> DEFINE g == [h EXCEPT ![i] = h[i + 1]]
  <2>3. h[i] \in S /\ h[i + 1] \in S
      BY <1>6, <2>2
  <2>4. g \in Seq(S) /\ Len(g) = Len(h)
      BY <1>5, <2>2, <2>3
  <2>5. i + 1 \in DOMAIN g
      BY <2>2
  <2> HIDE DEF g
  <2>6. [g EXCEPT ![i + 1] = h[i]] \in Seq(S) /\ Len([g EXCEPT ![i + 1] = h[i]]) = Len(g)
      BY <1>5, <2>3, <2>4, <2>5
  <2>7. [h EXCEPT ![i] = h[i + 1], ![i + 1] = h[i]] = [g EXCEPT ![i + 1] = h[i]]
      BY DEF g
  <2> QED
      BY <2>4, <2>6, <2>7
<1>9. Len(h) \in Nat /\ h \in Seq(S)
    BY <1>1
<1>10. Append(h, <<RuleForm!Empty>>) \in Seq(S)
       /\ Len(Append(h, <<RuleForm!Empty>>)) = Len(h) + 1
    BY <1>3, <1>9
<1>11. \A i \in DOMAIN h :
         /\ RuleForm!RemoveAt(h, i) \in Seq(S) /\ Len(RuleForm!RemoveAt(h, i)) = Len(h) - 1
         /\ \A u \in S : [h EXCEPT ![i] = u] \in Seq(S) /\ Len([h EXCEPT ![i] = u]) = Len(h)
    BY <1>4, <1>5, <1>9
<1> QED
  <2>1. Len(h) < n => /\ Append(h, <<RuleForm!Empty>>) \in FormChains
                      /\ Len(Append(h, <<RuleForm!Empty>>)) <= n
      BY <1>1, <1>9, <1>10
  <2>2. \A i \in DOMAIN h :
          /\ RuleForm!RemoveAt(h, i) \in FormChains /\ Len(RuleForm!RemoveAt(h, i)) <= n
          /\ \A u \in S : [h EXCEPT ![i] = u] \in FormChains /\ Len([h EXCEPT ![i] = u]) <= n
      BY <1>1, <1>9, <1>11
  <2>3. \A i \in 1..Len(h) - 1 :
          /\ [h EXCEPT ![i] = h[i + 1], ![i + 1] = h[i]] \in FormChains
          /\ Len([h EXCEPT ![i] = h[i + 1], ![i + 1] = h[i]]) <= n
      BY <1>1, <1>8
  <2> QED
      BY <1>7, <2>1, <2>2, <2>3 DEF S

\* A chain that is shown keeps its URLs and its bound.
LEMMA ChainTyped ==
    ASSUME FormInv, NEW c \in RuleForm!ChainFields, NEW h \in FormChains, Len(h) <= MaxHops,
           RuleForm!EditChain(c, h)
    PROVE  FormInv'
<1>1. FormDraft(draft) /\ Len(draft.way) <= MaxHops /\ Len(draft.exit) <= MaxHops
    BY DEF FormInv, FormHolds
<1>2. CASE c = "way"
  <2> DEFINE d == [draft EXCEPT !.way = h]
  <2>1. RuleForm!Edit(d)
      BY <1>2 DEF RuleForm!EditChain
  <2>2. FormDraft(d)
      BY <1>1, ChainPut
  <2>3. d.way = h /\ d.exit = draft.exit
      BY <1>1, ChainPut
  <2> HIDE DEF d
  <2> QED
      BY <1>1, <2>1, <2>2, <2>3, FormEdits
<1>3. CASE c = "exit"
  <2> DEFINE d == [draft EXCEPT !.exit = h]
  <2>1. RuleForm!Edit(d)
      BY <1>3 DEF RuleForm!EditChain
  <2>2. FormDraft(d)
      BY <1>1, ChainPut
  <2>3. d.exit = h /\ d.way = draft.way
      BY <1>1, ChainPut
  <2> HIDE DEF d
  <2> QED
      BY <1>1, <2>1, <2>2, <2>3, FormEdits
<1> QED
    BY <1>2, <1>3 DEF RuleForm!ChainFields

\* The steps of HopEditor.
LEMMA ChainStep ==
    ASSUME FormInv, NEW c \in RuleForm!ChainFields,
           \/ RuleForm!AddHop(c) \/ RuleForm!RemoveHop(c) \/ RuleForm!Move(c)
           \/ RuleForm!AddUrl(c) \/ RuleForm!RemoveUrl(c) \/ RuleForm!TypeUrl(c)
    PROVE  FormInv'
<1> DEFINE h == draft[c]
<1>1. FormDraft(draft) /\ MaxHops \in Nat /\ 1 <= MaxHops
      /\ Len(draft.way) <= MaxHops /\ Len(draft.exit) <= MaxHops
    BY DEF FormInv, FormHolds, RuleForm!RuleFormAssumption
<1>2. h \in FormChains /\ Len(h) <= MaxHops
  <2>1. h = draft.way \/ h = draft.exit
      BY DEF RuleForm!ChainFields
  <2> QED
      BY <1>1, <2>1, DraftFields
<1>3. CASE RuleForm!AddHop(c)
  <2> DEFINE g == Append(h, <<RuleForm!Empty>>)
  <2>1. Len(h) < MaxHops /\ RuleForm!EditChain(c, g)
      BY <1>3 DEF RuleForm!AddHop
  <2> HIDE DEF h
  <2>2. g \in FormChains /\ Len(g) <= MaxHops
      BY <1>1, <1>2, <2>1, ChainEdited
  <2> HIDE DEF g
  <2> QED
      BY <2>1, <2>2, ChainTyped
<1>4. CASE RuleForm!RemoveHop(c)
  <2>1. PICK i \in DOMAIN h : RuleForm!EditChain(c, RuleForm!RemoveAt(h, i))
      BY <1>4 DEF RuleForm!RemoveHop
  <2> HIDE DEF h
  <2>2. RuleForm!RemoveAt(h, i) \in FormChains /\ Len(RuleForm!RemoveAt(h, i)) <= MaxHops
      BY <1>1, <1>2, ChainEdited
  <2> QED
      BY <2>1, <2>2, ChainTyped
<1>5. CASE RuleForm!Move(c)
  <2>1. PICK i \in 1..Len(h) - 1 :
          RuleForm!EditChain(c, [h EXCEPT ![i] = h[i + 1], ![i + 1] = h[i]])
      BY <1>5 DEF RuleForm!Move
  <2> HIDE DEF h
  <2> DEFINE g == [h EXCEPT ![i] = h[i + 1], ![i + 1] = h[i]]
  <2>2. g \in FormChains /\ Len(g) <= MaxHops
      BY <1>1, <1>2, ChainEdited
  <2>3. RuleForm!EditChain(c, g)
      BY <2>1
  <2> HIDE DEF g
  <2> QED
      BY <2>2, <2>3, ChainTyped
<1>6. ASSUME NEW i \in DOMAIN h, NEW u \in Seq(FormURLs),
             RuleForm!EditChain(c, [h EXCEPT ![i] = u])
      PROVE  FormInv'
  <2> DEFINE g == [h EXCEPT ![i] = u]
  <2>1. RuleForm!EditChain(c, g)
      BY <1>6
  <2> HIDE DEF h
  <2>2. g \in FormChains /\ Len(g) <= MaxHops
      BY <1>1, <1>2, <1>6, ChainEdited
  <2> HIDE DEF g
  <2> QED
      BY <2>1, <2>2, ChainTyped
<1>7. CASE RuleForm!AddUrl(c)
  <2>1. PICK i \in DOMAIN h :
          RuleForm!EditChain(c, [h EXCEPT ![i] = Append(h[i], RuleForm!Empty)])
      BY <1>7 DEF RuleForm!AddUrl
  <2> HIDE DEF h
  <2>2. Append(h[i], RuleForm!Empty) \in Seq(FormURLs)
      BY <1>1, <1>2, ChainEdited
  <2> QED
      BY <1>6, <2>1, <2>2
<1>8. CASE RuleForm!RemoveUrl(c)
  <2>1. PICK i \in DOMAIN h : \E k \in DOMAIN h[i] :
          RuleForm!EditChain(c, [h EXCEPT ![i] = RuleForm!RemoveAt(h[i], k)])
      BY <1>8 DEF RuleForm!RemoveUrl
  <2>2. PICK k \in DOMAIN h[i] :
          RuleForm!EditChain(c, [h EXCEPT ![i] = RuleForm!RemoveAt(h[i], k)])
      BY <2>1
  <2> HIDE DEF h
  <2>3. RuleForm!RemoveAt(h[i], k) \in Seq(FormURLs)
      BY <1>1, <1>2, ChainEdited
  <2> QED
      BY <1>6, <2>2, <2>3
<1>9. CASE RuleForm!TypeUrl(c)
  <2>1. PICK i \in DOMAIN h : \E k \in DOMAIN h[i], u \in FormURLs :
          RuleForm!EditChain(c, [h EXCEPT ![i] = [h[i] EXCEPT ![k] = u]])
      BY <1>9 DEF RuleForm!TypeUrl, FormURLs
  <2>2. PICK k \in DOMAIN h[i], u \in FormURLs :
          RuleForm!EditChain(c, [h EXCEPT ![i] = [h[i] EXCEPT ![k] = u]])
      BY <2>1
  <2> HIDE DEF h
  <2>3. [h[i] EXCEPT ![k] = u] \in Seq(FormURLs)
      BY <1>1, <1>2, ChainEdited
  <2> QED
      BY <1>6, <2>2, <2>3
<1> QED
    BY <1>3, <1>4, <1>5, <1>7, <1>8, <1>9

\* The fields of the form but for its chains.
LEMMA FieldStep ==
    ASSUME FormInv,
           \/ RuleForm!TypeName \/ RuleForm!SwitchEnabled \/ RuleForm!SwitchMode
           \/ RuleForm!SwitchKind \/ RuleForm!TypeChannel \/ RuleForm!TypeHost
           \/ RuleForm!TypePort \/ RuleForm!SwitchTarget \/ RuleForm!TypeTargetChannel
           \/ RuleForm!TypeTarget \/ RuleForm!TypeShared
    PROVE  FormInv'
<1>1. FormDraft(draft)
    BY DEF FormInv, FormHolds
<1>2. \A d : RuleForm!Edit(d) /\ Edited(draft, d) => FormInv'
    BY OtherEdits
<1>3. CASE RuleForm!TypeName
  <2>1. \A x \in RuleForm!FormNames : Edited(draft, [draft EXCEPT !.name = x])
      BY <1>1, FieldTyped
  <2>2. \E x \in RuleForm!FormNames : RuleForm!Edit([draft EXCEPT !.name = x])
      BY <1>3 DEF RuleForm!TypeName
  <2> QED
      BY <1>2, <2>1, <2>2, Zenon
<1>4. CASE RuleForm!SwitchEnabled
  <2>1. (~draft.enabled) \in BOOLEAN
      BY <1>1, DraftFields
  <2>2. Edited(draft, [draft EXCEPT !.enabled = ~draft.enabled])
      BY <1>1, <2>1, FieldTyped
  <2>3. RuleForm!Edit([draft EXCEPT !.enabled = ~draft.enabled])
      BY <1>4 DEF RuleForm!SwitchEnabled
  <2> QED
      BY <1>2, <2>2, <2>3, Zenon
<1>5. CASE RuleForm!SwitchMode
  <2>1. \A x \in {"proxy", "forward"} : Edited(draft, [draft EXCEPT !.mode = x])
      BY <1>1, FieldTyped
  <2>2. \E x \in {"proxy", "forward"} : RuleForm!Edit([draft EXCEPT !.mode = x])
      BY <1>5 DEF RuleForm!SwitchMode
  <2> QED
      BY <1>2, <2>1, <2>2, Zenon
<1>6. CASE RuleForm!SwitchKind
  <2>1. \A x \in {"address", "virtual"} : Edited(draft, [draft EXCEPT !.kind = x])
      BY <1>1, FieldTyped
  <2>2. \E x \in {"address", "virtual"} : RuleForm!Edit([draft EXCEPT !.kind = x])
      BY <1>6 DEF RuleForm!SwitchKind
  <2> QED
      BY <1>2, <2>1, <2>2, Zenon
<1>7. CASE RuleForm!TypeChannel
  <2>1. \A x \in RuleForm!Channels : Edited(draft, [draft EXCEPT !.channel = x])
      BY <1>1, FieldTyped
  <2>2. \E x \in RuleForm!Channels : RuleForm!Edit([draft EXCEPT !.channel = x])
      BY <1>7 DEF RuleForm!TypeChannel
  <2> QED
      BY <1>2, <2>1, <2>2, Zenon
<1>8. CASE RuleForm!TypeHost
  <2>1. \A x \in RuleForm!Hosts : Edited(draft, [draft EXCEPT !.host = x])
      BY <1>1, FieldTyped
  <2>2. \E x \in RuleForm!Hosts : RuleForm!Edit([draft EXCEPT !.host = x])
      BY <1>8 DEF RuleForm!TypeHost
  <2> QED
      BY <1>2, <2>1, <2>2, Zenon
<1>9. CASE RuleForm!TypePort
  <2>1. \A x \in RuleForm!PortTexts : Edited(draft, [draft EXCEPT !.port = x])
      BY <1>1, FieldTyped
  <2>2. \E x \in RuleForm!PortTexts : RuleForm!Edit([draft EXCEPT !.port = x])
      BY <1>9 DEF RuleForm!TypePort
  <2> QED
      BY <1>2, <2>1, <2>2, Zenon
<1>10. CASE RuleForm!SwitchTarget
  <2>1. \A x \in {"address", "virtual"} : Edited(draft, [draft EXCEPT !.targetKind = x])
      BY <1>1, FieldTyped
  <2>2. \E x \in {"address", "virtual"} : RuleForm!Edit([draft EXCEPT !.targetKind = x])
      BY <1>10 DEF RuleForm!SwitchTarget
  <2> QED
      BY <1>2, <2>1, <2>2, Zenon
<1>11. CASE RuleForm!TypeTargetChannel
  <2>1. \A x \in RuleForm!Channels : Edited(draft, [draft EXCEPT !.targetChannel = x])
      BY <1>1, FieldTyped
  <2>2. \E x \in RuleForm!Channels : RuleForm!Edit([draft EXCEPT !.targetChannel = x])
      BY <1>11 DEF RuleForm!TypeTargetChannel
  <2> QED
      BY <1>2, <2>1, <2>2, Zenon
<1>12. CASE RuleForm!TypeTarget
  <2>1. /\ \A x \in RuleForm!Hosts : Edited(draft, [draft EXCEPT !.targetHost = x])
        /\ \A x \in RuleForm!PortTexts : Edited(draft, [draft EXCEPT !.targetPort = x])
      BY <1>1, FieldTyped
  <2>2. \/ \E x \in RuleForm!Hosts : RuleForm!Edit([draft EXCEPT !.targetHost = x])
        \/ \E x \in RuleForm!PortTexts : RuleForm!Edit([draft EXCEPT !.targetPort = x])
      BY <1>12 DEF RuleForm!TypeTarget
  <2> QED
      BY <1>2, <2>1, <2>2, Zenon
<1>13. CASE RuleForm!TypeShared
  <2>1. /\ \A x \in RuleForm!Users : Edited(draft, [draft EXCEPT !.username = x])
        /\ \A x \in RuleForm!Passwords : Edited(draft, [draft EXCEPT !.password = x])
      BY <1>1, FieldTyped
  <2>2. \/ \E x \in RuleForm!Users : RuleForm!Edit([draft EXCEPT !.username = x])
        \/ \E x \in RuleForm!Passwords : RuleForm!Edit([draft EXCEPT !.password = x])
      BY <1>13 DEF RuleForm!TypeShared
  <2> QED
      BY <1>2, <2>1, <2>2, Zenon
<1> QED
    BY <1>3, <1>4, <1>5, <1>6, <1>7, <1>8, <1>9, <1>10, <1>11, <1>12, <1>13

\* The rows of ListenProtocols.
LEMMA RowStep ==
    ASSUME FormInv, \/ RuleForm!CheckProtocol \/ RuleForm!CheckCustom \/ RuleForm!TypeRow
                    \/ RuleForm!PickCipher
    PROVE  FormInv'
<1>1. FormDraft(draft)
    BY DEF FormInv, FormHolds
<1>2. \A d : RuleForm!Edit(d) /\ Edited(draft, d) => FormInv'
    BY OtherEdits
<1>3. CASE RuleForm!CheckProtocol
  <2>1. PICK t \in Types :
          RuleForm!Edit([draft EXCEPT !.rows[t].enabled = ~draft.rows[t].enabled])
      BY <1>3 DEF RuleForm!CheckProtocol
  <2>2. (~draft.rows[t].enabled) \in BOOLEAN
      BY <1>1, DraftFields
  <2>3. Edited(draft, [draft EXCEPT !.rows[t].enabled = ~draft.rows[t].enabled])
      BY <1>1, <2>2, RowTyped
  <2> QED
      BY <1>2, <2>1, <2>3, Zenon
<1>4. CASE RuleForm!CheckCustom
  <2>1. PICK t \in Types :
          RuleForm!Edit([draft EXCEPT !.rows[t].custom = ~draft.rows[t].custom])
      BY <1>4 DEF RuleForm!CheckCustom, RuleForm!Enabled
  <2>2. (~draft.rows[t].custom) \in BOOLEAN
      BY <1>1, DraftFields
  <2>3. Edited(draft, [draft EXCEPT !.rows[t].custom = ~draft.rows[t].custom])
      BY <1>1, <2>2, RowTyped
  <2> QED
      BY <1>2, <2>1, <2>3, Zenon
<1>5. CASE RuleForm!TypeRow
  <2>1. PICK t \in Types :
          \/ \E x \in RuleForm!Users : RuleForm!Edit([draft EXCEPT !.rows[t].username = x])
          \/ \E x \in RuleForm!Passwords :
               RuleForm!Edit([draft EXCEPT !.rows[t].password = x])
      BY <1>5 DEF RuleForm!TypeRow, RuleForm!Enabled
  <2>2. /\ \A x \in RuleForm!Users : Edited(draft, [draft EXCEPT !.rows[t].username = x])
        /\ \A x \in RuleForm!Passwords :
             Edited(draft, [draft EXCEPT !.rows[t].password = x])
      BY <1>1, RowTyped
  <2> QED
      BY <1>2, <2>1, <2>2, Zenon
<1>6. CASE RuleForm!PickCipher
  <2> DEFINE c == RuleForm!DefaultCipher
  <2>1. "ss" \in Types /\ RuleForm!Edit([draft EXCEPT !.rows["ss"].cipher = c])
      BY <1>6 DEF RuleForm!PickCipher, RuleForm!Enabled
  <2>2. c \in CiphersOf("ss")
      BY DEF RuleForm!DefaultCipher, RuleForm!Ciphers, CiphersOf
  <2>3. Edited(draft, [draft EXCEPT !.rows["ss"].cipher = c])
      BY <1>1, <2>1, <2>2, RowTyped
  <2> HIDE DEF c
  <2> QED
      BY <1>2, <2>1, <2>3, Zenon
<1> QED
    BY <1>3, <1>4, <1>5, <1>6

\* A save: the rule is read back as a draft of chains that are not longer.
LEMMA SaveStep ==
    ASSUME FormInv, RuleForm!SaveAndReopen
    PROVE  FormInv'
<1> DEFINE b == RuleForm!DraftFrom(RuleForm!RuleOf(draft))
<1>1. /\ FormDraft(draft) /\ MaxHops \in Nat
      /\ Len(draft.way) <= MaxHops /\ Len(draft.exit) <= MaxHops
    BY DEF FormInv, FormHolds, RuleForm!RuleFormAssumption
<1>2. /\ RuleForm!Errors(draft) = {}
      /\ savedName' = draft.name /\ draft' = b /\ edits' = edits
    BY DEF RuleForm!SaveAndReopen
<1> HIDE DEF b
<1>3. b = RuleForm!DraftFrom(RuleForm!RuleOf(draft))
    BY DEF b
<1>4. FormDraft(b)
    BY <1>1, <1>2, <1>3, ReadBackIsADraft
<1>5. /\ b.way = RuleForm!ListenWay(draft)
      /\ b.exit = (IF RuleForm!TargetVirtual(draft) THEN <<>> ELSE RuleForm!WayOf(draft.exit))
    BY <1>1, <1>2, <1>3, SameDraft
<1>6. /\ draft.way \in FormChains /\ draft.exit \in FormChains
      /\ draft.name \in RuleForm!FormNames
    BY <1>1, DraftFields
<1>7. \A h \in FormChains :
        Len(h) <= MaxHops => Len(RuleForm!WayOf(h)) <= MaxHops
  <2>1. TAKE h \in FormChains
  <2>2. Len(RuleForm!WayOf(h)) <= Len(h) /\ Len(h) \in Nat
      BY WayIsFilled DEF FormChains
  <2>3. Len(RuleForm!WayOf(h)) \in Nat
      BY WaysAreChecked DEF FormChains
  <2> QED
      BY <1>1, <2>2, <2>3
<1>8. Len(<<>>) <= MaxHops
    BY <1>1
<1>9. Len(b.way) <= MaxHops /\ Len(b.exit) <= MaxHops
    BY <1>1, <1>5, <1>6, <1>7, <1>8 DEF RuleForm!ListenWay
<1>10. FormHolds(b, draft.name, edits)
    BY <1>4, <1>6, <1>9 DEF FormInv, FormHolds
<1> QED
    BY <1>2, <1>10 DEF FormInv

LEMMA FormStep ==
    ASSUME FormInv, RuleForm!Next
    PROVE  FormInv'
<1>1. ASSUME NEW c \in RuleForm!ChainFields,
             \/ RuleForm!AddHop(c) \/ RuleForm!RemoveHop(c) \/ RuleForm!Move(c)
             \/ RuleForm!AddUrl(c) \/ RuleForm!RemoveUrl(c) \/ RuleForm!TypeUrl(c)
      PROVE  FormInv'
    BY <1>1, ChainStep
<1>2. RuleForm!SaveAndReopen => FormInv'
    BY SaveStep
<1>3. \/ RuleForm!CheckProtocol \/ RuleForm!CheckCustom \/ RuleForm!TypeRow
      \/ RuleForm!PickCipher
      => FormInv'
    BY RowStep
<1>4. \/ RuleForm!TypeName \/ RuleForm!SwitchEnabled \/ RuleForm!SwitchMode
      \/ RuleForm!SwitchKind \/ RuleForm!TypeChannel \/ RuleForm!TypeHost
      \/ RuleForm!TypePort \/ RuleForm!SwitchTarget \/ RuleForm!TypeTargetChannel
      \/ RuleForm!TypeTarget \/ RuleForm!TypeShared
      => FormInv'
    BY FieldStep
<1> QED
    BY <1>1, <1>2, <1>3, <1>4 DEF RuleForm!Next

LEMMA FormRests ==
    ASSUME FormInv, UNCHANGED vars
    PROVE  FormInv'
<1>1. draft' = draft /\ savedName' = savedName /\ edits' = edits
    BY DEF vars
<1> QED
    BY <1>1 DEF FormInv

-----------------------------------------------------------------------------
(* The parts together.                                                     *)

LEMMA EditorRests ==
    ASSUME EditorInv, UNCHANGED vars
    PROVE  EditorInv'
BY DEF vars, EditorInv, EditorTypes, EditorLoading, EditorSaving, EditorTold,
       RuleEditor!RuleEditorAssumption, RuleEditor!RuleEditorTypeOK

LEMMA YamlRests ==
    ASSUME YamlInv, UNCHANGED vars
    PROVE  YamlInv'
BY DEF vars, YamlInv, WasOnDisk, Reloading, Yaml!YamlTypeOK, Yaml!Dirty, Yaml!Written

LEMMA OverviewRests ==
    ASSUME OverviewInv, UNCHANGED vars
    PROVE  OverviewInv'
BY DEF vars, OverviewInv, OverviewTypes, CardIsSound, CardIsTold, Unsettled,
       Overview!OverviewAssumption, Overview!OverviewTypeOK

LEMMA SettingsRests ==
    ASSUME SettingsInv, UNCHANGED vars
    PROVE  SettingsInv'
BY DEF vars, SettingsInv, Settings!SettingsAssumption, Settings!SettingsTypeOK

LEMMA BuilderRests ==
    ASSUME BuilderInv, UNCHANGED vars
    PROVE  BuilderInv'
BY DEF vars, BuilderInv, Shows, UrlBuilder!UrlBuilderAssumption, UrlBuilder!UrlBuilderTypeOK

LEMMA ConnectionsRest ==
    ASSUME ConnectionsInv, UNCHANGED vars
    PROVE  ConnectionsInv'
BY DEF vars, ConnectionsInv, ConnectionsTypes, IdsAreUnique, SpokenOf, ClosedIsUnread,
       ClosedAsClicked, Connections!SelectionIsRoute, Connections!ConnectionsAssumption,
       Connections!ConnectionsTypeOK

LEMMA RequestRests ==
    ASSUME RequestInv, UNCHANGED vars
    PROVE  RequestInv'
BY DEF vars, RequestInv, Request!RequestTypeOK, Request!VerdictIsSound

LEMMA DialogRests ==
    ASSUME DialogInv, UNCHANGED vars
    PROVE  DialogInv'
BY DEF vars, DialogInv, Asking, Undecided, Dialog!DialogAssumption, Dialog!DialogTypeOK,
       Dialog!AnswerIsUsers

LEMMA StatsRests ==
    ASSUME StatsInv, UNCHANGED vars
    PROVE  StatsInv'
<1>1. UNCHANGED <<config, running, asked, answer, known, rules, runtime, polled, snapshot,
                  query, sort, route, focusPending, visits, focuses>>
    BY DEF vars
<1>2. StatsRules!FocusIsAsked'
    BY <1>1, StatsQuiet
<1> QED
    BY <1>1, <1>2 DEF StatsInv, StatsTypes, StatsRules!StatsRulesTypeOK,
       StatsRules!StatsRulesAssumption, StatsRules!Distinct, StatsRules!Range

\* Each part keeps the invariant of its module.
PagesInv ==
    /\ part = "editor" => EditorInv
    /\ part = "yaml" => YamlInv
    /\ part = "overview" => OverviewInv
    /\ part = "settings" => SettingsInv
    /\ part = "form" => FormInv
    /\ part = "builder" => BuilderInv
    /\ part = "connections" => ConnectionsInv
    /\ part = "rules" => StatsInv
    /\ part = "hosts" => HostsInv
    /\ part = "request" => RequestInv
    /\ part = "dialog" => DialogInv

LEMMA PagesStart ==
    ASSUME PagesInit
    PROVE  PagesInv
BY PagesAssumption, EditorInit, YamlInit, OverviewInit, SettingsInit, FormInit, BuilderInit,
   ConnectionsInit, StatsInit, HostsInit, RequestInit, DialogInit
   DEF PagesAssumption, PagesInit, PagesInv

LEMMA PagesStep ==
    ASSUME PagesInv, [PagesNext]_vars
    PROVE  PagesInv'
<1>1. CASE part = "editor" /\ RuleEditor!Next /\ UNCHANGED <<part, besideRuleEditor>>
    BY <1>1, EditorStep DEF PagesInv
<1>2. CASE part = "yaml" /\ Yaml!Next /\ UNCHANGED <<part, besideYaml>>
    BY <1>2, YamlStep DEF PagesInv
<1>3. CASE part = "overview" /\ Overview!Next /\ UNCHANGED <<part, besideOverview>>
    BY <1>3, OverviewStep DEF PagesInv
<1>4. CASE part = "settings" /\ Settings!Next /\ UNCHANGED <<part, besideSettings>>
    BY <1>4, SettingsStep DEF PagesInv
<1>5. CASE part = "builder" /\ UrlBuilder!Next /\ UNCHANGED <<part, besideUrlBuilder>>
    BY <1>5, BuilderStep DEF PagesInv
<1>6. CASE part = "connections" /\ Connections!Next /\ UNCHANGED <<part, besideConnections>>
    BY <1>6, ConnectionsStep DEF PagesInv
<1>7. CASE part = "request" /\ Request!Next /\ UNCHANGED <<part, besideRequest>>
    BY <1>7, RequestStep DEF PagesInv
<1>8. CASE part = "dialog" /\ Dialog!Next /\ UNCHANGED <<part, besideDialog>>
    BY <1>8, DialogStep DEF PagesInv
<1>9. CASE part = "hosts" /\ Hosts!Next /\ UNCHANGED <<part, besideHosts>>
    BY <1>9, HostsStep DEF PagesInv
<1>11. CASE part = "rules" /\ StatsRules!Next /\ UNCHANGED <<part, besideStatsRules>>
    BY <1>11, StatsStep DEF PagesInv
<1>12. CASE part = "form" /\ RuleForm!Next /\ UNCHANGED <<part, besideRuleForm>>
    BY <1>12, FormStep DEF PagesInv
<1>10. CASE UNCHANGED vars
    <2>1. UNCHANGED part
        BY <1>10 DEF vars
    <2> QED
        BY <1>10, <2>1, EditorRests, YamlRests, OverviewRests, SettingsRests, FormRests,
           BuilderRests, ConnectionsRest, StatsRests, HostsRest, RequestRests,
           DialogRests DEF PagesInv
<1> QED
    BY <1>1, <1>2, <1>3, <1>4, <1>5, <1>6, <1>7, <1>8, <1>9, <1>10, <1>11,
       <1>12 DEF PagesNext

\* The inductive invariant of all parts.
THEOREM PagesTheorem == Spec => []PagesInv
<1>1. PagesInit => PagesInv
    BY PagesStart
<1>2. PagesInv /\ [PagesNext]_vars => PagesInv'
    BY PagesStep
<1> QED
    BY <1>1, <1>2, PTL DEF Spec

\* The editor of a rule: a form without unsaved changes shows what the backend
\* last told of its rule, and a rule that was created is not created again,
\* whatever other clients write meanwhile.
THEOREM EditorTheorem == Spec => []EditorIsTrue
<1>1. PagesInv => EditorIsTrue
    BY EditorShows DEF PagesInv, EditorIsTrue
<1> QED
    BY <1>1, PagesTheorem, PTL

\* The settings: the save of one form takes nothing typed in the other for saved.
THEOREM SettingsTheorem == Spec => []CleanFormIsTold
<1>1. PagesInv => CleanFormIsTold
    BY SettingsClean DEF PagesInv, CleanFormIsTold
<1> QED
    BY <1>1, PagesTheorem, PTL

\* The form of a rule, of any protocols and with chains of any length: what it
\* passes the server accepts but for what the form leaves to the server, a URL
\* that does not parse, a cipher, a colon in a name; what it refuses the server
\* refuses but for errors of its own; and a rule that is saved reopens as itself.
THEOREM FormTheorem == Spec => []FormMirrorsServer
<1>1. PagesInv => FormMirrorsServer
    BY FormShows DEF PagesInv, FormMirrorsServer
<1> QED
    BY <1>1, PagesTheorem, PTL

\* The connections: rows keep their identity over polls, closes and restarts.
THEOREM ConnectionsTheorem == Spec => []RowsKeepIdentity
<1>1. PagesInv => RowsKeepIdentity
    BY ConnectionsShows DEF PagesInv, RowsKeepIdentity
<1> QED
    BY <1>1, PagesTheorem, PTL

\* The statistics of the rules: however old the three answers are and whatever the
\* file of the config holds, two rules of one name too, every rule of the list has
\* its row and every other name of the snapshot one, all that the search matches
\* are shown once each, ties keep their order, and the focus was asked for.
THEOREM RulesTheorem == Spec => []RulesAreWhole
<1>1. PagesInv => RulesAreWhole
    BY StatsShows DEF PagesInv, RulesAreWhole
<1> QED
    BY <1>1, PagesTheorem, PTL

\* The hosts: every host and endpoint of the entries is there once, each URL counts
\* once in each sum, a host's average and last latency are ones its URLs have, and
\* however the hosts are sorted those that tie stay by traffic and then by name.
THEOREM HostsTheorem == Spec => []HostsConserve
<1>1. PagesInv => HostsConserve
    BY HostsShow DEF PagesInv, HostsConserve
<1> QED
    BY <1>1, PagesTheorem, PTL

\* A request: the pages may trust its verdict, and its limit is armed while it
\* waits.
THEOREM RequestTheorem == Spec => []VerdictIsSound
<1>1. PagesInv => VerdictIsSound
    BY RequestLimit DEF PagesInv, VerdictIsSound
<1> QED
    BY <1>1, PagesTheorem, PTL

\* A question and a URL: an answer is the user's, no question waits out of sight,
\* and a URL that was built reopens as what was typed exactly when its host is one;
\* whatever it reopens as may be used, and reopens as itself.
THEOREM AnswerTheorem == Spec => []AnswerIsUsers
<1>1. PagesInv => AnswerIsUsers
    BY DialogShows, BuilderShows DEF PagesInv, AnswerIsUsers
<1> QED
    BY <1>1, PagesTheorem, PTL

\* The YAML editor: a text without unsaved changes was on disk, and no answer
\* replaces one that was typed.
THEOREM YamlTheorem == Spec => YamlIsKept
<1>1. PagesInv => (part = "yaml" => Yaml!YamlTypeOK /\ Yaml!CleanWasOnDisk)
    BY YamlClean DEF PagesInv
<1>2. PagesInv /\ [PagesNext]_vars => [part = "yaml" => Yaml!TypedKept]_vars
    <2> SUFFICES ASSUME PagesInv, PagesNext, part = "yaml"
                 PROVE  Yaml!TypedKept
        OBVIOUS
    <2> QED
        BY YamlTyped DEF PagesInv, PagesNext
<1> QED
    BY <1>1, <1>2, PagesTheorem, PTL DEF Spec, YamlIsKept

\* The overview: once nothing is on its way the list shows of every rule what is
\* stored, but where another client wrote it, a write without an answer was applied
\* after the last read of it, or the read after a lost answer failed; a switch
\* writes back fields that are not older than its click, and a page that was left
\* sends no write.
THEOREM OverviewTheorem == Spec => OverviewIsTrue
<1>1. PagesInv => (part = "overview" =>
                    Overview!OverviewTypeOK /\ Overview!ShowsStored /\ Overview!HiddenKept)
    BY OverviewShows DEF PagesInv
<1>2. PagesInv /\ [PagesNext]_vars => [part = "overview" => Overview!NothingSent]_vars
    <2> SUFFICES ASSUME PagesInv, PagesNext, part = "overview"
                 PROVE  Overview!NothingSent
        OBVIOUS
    <2> QED
        BY OverviewLeft DEF PagesInv, PagesNext
<1> QED
    BY <1>1, <1>2, PagesTheorem, PTL DEF Spec, OverviewIsTrue

=============================================================================
