---------------------------- MODULE ConfigStore ----------------------------
(***************************************************************************)
(* The configs service and the file it keeps: modify, Update and UpdateRaw *)
(* under the mutex of the service (app/web/services/configs/configs.go),   *)
(* Init, Load and SaveRaw of the store (config/store.go), and the actions  *)
(* worker that reads the file again (app/tray/app.go, reload.go).          *)
(*                                                                         *)
(* The file is also saved by hand, and the process may end at any step.    *)
(* What applying a config does to rules and listeners is in Reload.        *)
(***************************************************************************)
EXTENDS ConfigDocument

CONSTANTS Requests,    \* calls of the service
          Edits,       \* documents that are saved by hand
          Menu,        \* the reloads that no request waits for
          MaxEdits, MaxCrashes   \* bounds of the model

ASSUME StoreAssumption ==
    /\ Edits \subseteq Documents
    /\ Menu \notin Requests \cup {None}
    /\ None \notin Requests
    /\ MaxEdits \in Nat /\ MaxCrashes \in Nat

VARIABLES file,      \* what config.yaml holds
          version,   \* how many times it has changed
          phase,     \* the process: "start", "create" (in Init) or "up"
          asked,     \* what a request asks, or None
          pc,        \* where its handler stands
          conf,      \* the config it has loaded or is about to save
          temp,      \* its temporary file: "none", "partial" or "whole"
          written,   \* the version it wrote, or 0
          outcome,   \* how it was answered
          raced,     \* requests whose config was loaded before a hand edit
          lock,      \* who holds ConfigsService.mu
          worker,    \* whose reload the actions worker runs
          invalid,   \* the config that reload has read is refused
          applied,   \* the version last applied since the process started, or 0
          edits, crashes   \* how many there have been

service == <<asked, pc, conf, temp, written, outcome, raced, lock>>
reloading == <<worker, invalid, applied>>
vars == <<file, version, phase, service, reloading, edits, crashes>>

StoreInit ==
    /\ file \in {Absent, Empty, Default}
    /\ version = 1
    /\ phase = "start"
    /\ asked = [r \in Requests |-> None]
    /\ pc = [r \in Requests |-> "idle"]
    /\ conf = [r \in Requests |-> Default]
    /\ temp = [r \in Requests |-> "none"]
    /\ written = [r \in Requests |-> 0]
    /\ outcome = [r \in Requests |-> "none"]
    /\ raced = {}
    /\ lock = None
    /\ worker = None
    /\ invalid = FALSE
    /\ applied = 0
    /\ edits = 0
    /\ crashes = 0

-----------------------------------------------------------------------------
(* Starting: Store.Init.                                                   *)

\* Mutant: only a missing file is given the default.
InitStatMissing ==
    /\ phase = "start"
    /\ IF file # Absent
       THEN phase' = "up" /\ UNCHANGED <<file, version>>
       ELSE phase' = "create" /\ file' = Empty /\ version' = version + 1
    /\ UNCHANGED <<service, reloading, edits, crashes>>
\* os.WriteFile first creates or truncates the file.
InitStat ==
    /\ phase = "start"
    /\ IF file \notin {Absent, Empty}
       THEN phase' = "up" /\ UNCHANGED <<file, version>>
       ELSE phase' = "create" /\ file' = Empty /\ version' = version + 1
    /\ UNCHANGED <<service, reloading, edits, crashes>>

InitWrite ==
    /\ phase = "create"
    /\ phase' = "up"
    /\ file' = Default
    /\ version' = version + 1
    /\ UNCHANGED <<service, reloading, edits, crashes>>

-----------------------------------------------------------------------------
(* A request that writes.                                                  *)

\* The web server listens once a valid config has been applied.
Begin(r) ==
    /\ pc[r] = "idle"
    /\ phase = "up"
    /\ applied > 0
    /\ \E o \in Operations :
          /\ asked' = [asked EXCEPT ![r] = o]
          /\ pc' = [pc EXCEPT ![r] = IF BadArgument(o) THEN "done" ELSE "queued"]
          /\ outcome' = IF BadArgument(o) THEN [outcome EXCEPT ![r] = "refused"] ELSE outcome
    /\ UNCHANGED <<file, version, phase, conf, temp, written, raced, lock, reloading, edits, crashes>>

\* Mutant: the mutex is not taken.
EnterUnlocked(r) ==
    /\ pc[r] = "queued"
    /\ lock' = r
    /\ pc' = [pc EXCEPT ![r] = "locked"]
    /\ UNCHANGED <<file, version, phase, asked, conf, temp, written, outcome, raced, reloading, edits, crashes>>
Enter(r) ==
    /\ pc[r] = "queued"
    /\ lock = None
    /\ lock' = r
    /\ pc' = [pc EXCEPT ![r] = "locked"]
    /\ UNCHANGED <<file, version, phase, asked, conf, temp, written, outcome, raced, reloading, edits, crashes>>

\* An error before anything is written; the temporary file is removed.
Refuse(r) ==
    /\ pc' = [pc EXCEPT ![r] = "done"]
    /\ outcome' = [outcome EXCEPT ![r] = "refused"]
    /\ temp' = [temp EXCEPT ![r] = "none"]
    /\ lock' = None
    /\ UNCHANGED <<file, version, phase, asked, conf, written, raced, reloading, edits, crashes>>

Load(r) ==
    /\ pc[r] = "locked"
    /\ Modifies(asked[r])
    /\ IF Readable(file)
       THEN /\ conf' = [conf EXCEPT ![r] = Parse(file)]
            /\ pc' = [pc EXCEPT ![r] = "loaded"]
            /\ UNCHANGED <<file, version, phase, asked, temp, written, outcome, raced, lock,
                           reloading, edits, crashes>>
       ELSE Refuse(r) /\ UNCHANGED conf

\* fn and Validate, for the calls that go through modify.
Modify(r) ==
    /\ pc[r] = "loaded"
    /\ IF ~Refuses(asked[r], conf[r]) /\ Valid(Result(asked[r], conf[r]))
       THEN /\ conf' = [conf EXCEPT ![r] = Result(asked[r], conf[r])]
            /\ pc' = [pc EXCEPT ![r] = "save"]
            /\ UNCHANGED <<file, version, phase, asked, temp, written, outcome, raced, lock,
                           reloading, edits, crashes>>
       ELSE Refuse(r) /\ UNCHANGED conf

\* Update and UpdateRaw.
Replace(r) ==
    /\ pc[r] = "locked"
    /\ ~Modifies(asked[r])
    /\ IF Valid(asked[r].conf)
       THEN /\ conf' = [conf EXCEPT ![r] = asked[r].conf]
            /\ pc' = [pc EXCEPT ![r] = "save"]
            /\ UNCHANGED <<file, version, phase, asked, temp, written, outcome, raced, lock,
                           reloading, edits, crashes>>
       ELSE Refuse(r) /\ UNCHANGED conf

-----------------------------------------------------------------------------
(* SaveRaw: a temporary file, written and synced, renamed over the old one. *)

CreateTemp(r) ==
    /\ pc[r] = "save"
    /\ temp' = [temp EXCEPT ![r] = "partial"]
    /\ pc' = [pc EXCEPT ![r] = "fill"]
    /\ UNCHANGED <<file, version, phase, asked, conf, written, outcome, raced, lock, reloading, edits, crashes>>

FillTemp(r) ==
    /\ pc[r] = "fill"
    /\ temp' = [temp EXCEPT ![r] = "whole"]
    /\ pc' = [pc EXCEPT ![r] = "rename"]
    /\ UNCHANGED <<file, version, phase, asked, conf, written, outcome, raced, lock, reloading, edits, crashes>>

Rename(r) ==
    /\ pc[r] = "rename"
    /\ file' = IF temp[r] = "whole" THEN conf[r] ELSE Torn
    /\ version' = version + 1
    /\ written' = [written EXCEPT ![r] = version + 1]
    /\ temp' = [temp EXCEPT ![r] = "none"]
    /\ pc' = [pc EXCEPT ![r] = "saved"]
    /\ UNCHANGED <<phase, asked, conf, outcome, raced, lock, reloading, edits, crashes>>

\* Mutant: the mutex is not released when a step of SaveRaw fails.
SaveFailsLocked(r) ==
    /\ pc[r] \in {"save", "fill", "rename"}
    /\ pc' = [pc EXCEPT ![r] = "done"]
    /\ outcome' = [outcome EXCEPT ![r] = "refused"]
    /\ temp' = [temp EXCEPT ![r] = "none"]
    /\ UNCHANGED <<file, version, phase, asked, conf, written, raced, lock, reloading, edits, crashes>>
\* Any step of SaveRaw may fail.
SaveFails(r) ==
    /\ pc[r] \in {"save", "fill", "rename"}
    /\ Refuse(r)

-----------------------------------------------------------------------------
(* The reload that follows a save, and the reloads of the menu.            *)

\* The worker takes the job and reads the file.
ReloadLoads(w) ==
    /\ phase = "up"
    /\ worker = None
    /\ w # Menu => pc[w] = "saved"
    /\ worker' = w
    /\ invalid' = ~(Readable(file) /\ Valid(Parse(file)))
    /\ applied' = IF invalid' THEN applied ELSE version
    /\ pc' = IF w = Menu THEN pc ELSE [pc EXCEPT ![w] = "reloading"]
    /\ UNCHANGED <<file, version, phase, asked, conf, temp, written, outcome, raced, lock, edits, crashes>>

\* Mutant: a config that could not be applied is not reported.
ReloadEndsWell(w) ==
    /\ worker = w
    /\ worker' = None
    /\ invalid' = FALSE
    /\ IF w = Menu
       THEN UNCHANGED <<pc, outcome, lock>>
       ELSE /\ \E answer \in {"ok", "saved"} : outcome' = [outcome EXCEPT ![w] = answer]
            /\ pc' = [pc EXCEPT ![w] = "done"]
            /\ lock' = None
    /\ UNCHANGED <<file, version, phase, asked, conf, temp, written, raced, applied, edits, crashes>>
\* A reload that has applied a config may still report rules that failed.
ReloadEnds(w) ==
    /\ worker = w
    /\ worker' = None
    /\ invalid' = FALSE
    /\ IF w = Menu
       THEN UNCHANGED <<pc, outcome, lock>>
       ELSE /\ \E answer \in {"ok", "saved"} :
                  /\ invalid => answer = "saved"
                  /\ outcome' = [outcome EXCEPT ![w] = answer]
            /\ pc' = [pc EXCEPT ![w] = "done"]
            /\ lock' = None
    /\ UNCHANGED <<file, version, phase, asked, conf, temp, written, raced, applied, edits, crashes>>

-----------------------------------------------------------------------------
(* What the service does not control.                                      *)

\* Not in the instant between the two system calls of Init's WriteFile.
Edit(d) ==
    /\ edits < MaxEdits
    /\ phase # "create"
    /\ d # file
    /\ file' = d
    /\ version' = version + 1
    /\ raced' = raced \cup {r \in Requests :
                   pc[r] \in {"loaded", "save", "fill", "rename"} /\ Modifies(asked[r])}
    /\ edits' = edits + 1
    /\ UNCHANGED <<phase, asked, pc, conf, temp, written, outcome, lock, reloading, crashes>>

\* The process ends and is started again; a write of Init may be cut short.
Crash ==
    /\ crashes < MaxCrashes
    /\ IF phase = "create"
       THEN file' \in CutShort /\ version' = version + 1
       ELSE UNCHANGED <<file, version>>
    /\ phase' = "start"
    /\ pc' = [r \in Requests |-> IF pc[r] = "idle" THEN "idle" ELSE "done"]
    /\ outcome' = [r \in Requests |-> IF pc[r] \in {"idle", "done"} THEN outcome[r] ELSE "lost"]
    /\ lock' = None
    /\ worker' = None
    /\ invalid' = FALSE
    /\ applied' = 0
    /\ crashes' = crashes + 1
    /\ UNCHANGED <<asked, conf, temp, written, raced, edits>>

-----------------------------------------------------------------------------
Handle(r) ==
    \/ Enter(r) \/ Load(r) \/ Modify(r) \/ Replace(r)
    \/ CreateTemp(r) \/ FillTemp(r) \/ Rename(r) \/ SaveFails(r)

Next ==
    \/ InitStat \/ InitWrite \/ Crash
    \/ \E r \in Requests : Begin(r) \/ Handle(r)
    \/ \E w \in Requests \cup {Menu} : ReloadLoads(w) \/ ReloadEnds(w)
    \/ \E d \in Edits : Edit(d)

\* A goroutine that can run does run; the senders that wait on the channel of
\* the worker are served in the order they came.
Fairness ==
    /\ \A r \in Requests : WF_vars(Handle(r)) /\ SF_vars(ReloadLoads(r))
    /\ \A w \in Requests \cup {Menu} : WF_vars(ReloadEnds(w))
    /\ WF_vars(InitStat) /\ WF_vars(InitWrite)

Spec == StoreInit /\ [][Next]_vars /\ Fairness

-----------------------------------------------------------------------------
(* Properties.                                                             *)

StoreTypeOK ==
    /\ file \in Documents
    /\ version \in Nat \ {0}
    /\ phase \in {"start", "create", "up"}
    /\ asked \in [Requests -> Operations \cup {None}]
    /\ pc \in [Requests -> {"idle", "queued", "locked", "loaded", "save", "fill", "rename",
                            "saved", "reloading", "done"}]
    /\ conf \in [Requests -> Config]
    /\ temp \in [Requests -> {"none", "partial", "whole"}]
    /\ written \in [Requests -> Nat]
    /\ outcome \in [Requests -> {"none", "ok", "saved", "refused", "lost"}]
    /\ raced \subseteq Requests
    /\ lock \in Requests \cup {None}
    /\ worker \in Requests \cup {Menu, None}
    /\ invalid \in BOOLEAN
    /\ applied \in 0..version
    /\ edits \in 0..MaxEdits
    /\ crashes \in 0..MaxCrashes

\* What the caller of a request could know of it.
Status ==
    [r \in Requests |->
       IF pc[r] \in {"saved", "reloading"} THEN "written" ELSE outcome[r]]

\* The service is a register with atomic calls: no call undoes another, an
\* invalid config is never written, a call that was refused has changed
\* nothing, and one that was answered ok or with SavedPrefix has written
\* exactly what it asked, on top of everything but a hand edit made since it
\* loaded the file (configs.go:53-98, store.go:70-100).
Register == INSTANCE ConfigRegister WITH
                doc <- file, op <- asked, status <- Status, overtaken <- raced
ImplementsRegister == Register!Spec

\* A write is applied before it is answered ok: the proxy has read the file
\* at the version the call wrote or at a later one (configs.go:57-62, 82).
AppliedBeforeOk ==
    [][\A r \in Requests :
         outcome[r] # "ok" /\ outcome'[r] = "ok" => applied' >= written[r]]_vars

\* Only Init can leave a file cut short: whatever instant the process ends
\* in, SaveRaw has left the old config or the new one (store.go:74-100).
SavesAreWhole ==
    [][file' # file /\ edits' = edits /\ phase = "up" => file' \in Config]_vars

\* A process that has started finds a file with something in it, unless it
\* has been emptied since by hand (store.go:39-48).
StartsWithAFile ==
    [][phase # "up" /\ phase' = "up" => file' \notin {Absent, Empty}]_vars

\* No temporary file stays behind but those of a process that ended while it
\* was writing them (store.go:82).
NoLitter ==
    \A r \in Requests :
       temp[r] # "none" => pc[r] \in {"fill", "rename"} \/ outcome[r] = "lost"

\* So files neither pile up nor go missing.
FilesAreKept == []NoLitter /\ StartsWithAFile

\* Every request is answered, or lost with the process: the mutex is held
\* over the reload, but the worker always comes to it (configs.go:65-82).
EveryRequestEnds ==
    \A r \in Requests : pc[r] = "queued" ~> pc[r] = "done"
=============================================================================
