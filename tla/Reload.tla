------------------------------- MODULE Reload -------------------------------
(***************************************************************************)
(* App.reload (app/tray/reload.go, webui.go) and what runs beside it: one  *)
(* Serve call per started rule, whose reporter publishes the rule's state, *)
(* the web UI listener, the callers that queue reloads on the actions      *)
(* worker, the user who edits the stored config, and App.stop.             *)
(*                                                                         *)
(* A loop of Serve stands for the runtime, the context and the ruleState   *)
(* that startRule gives it.  A definition is what a fingerprint tells      *)
(* apart: the address the rule binds on this machine and a revision for    *)
(* everything else (target, credentials, chains, no-proxy list).  The      *)
(* system proxy and the menu, which reload refreshes last, are in Tray.    *)
(***************************************************************************)
EXTENDS Serve, FiniteSets

CONSTANTS Rules,       \* rule names
          Ports,       \* addresses of this machine that a listener can hold
          Elsewhere,   \* an address that conflicts with none: port 0, remote
          Revisions,   \* everything else that a rule definition says
          Unbuildable, \* the revisions for which buildRule returns an error
          Stored,      \* the contents the config file may have
          Callers,     \* requests for a reload: menu items and API handlers
          Stoppers,    \* calls of App.stop: Quit, and the end of Run
          None         \* no rule, no loop, no definition

Definitions == [port : Ports \cup {Elsewhere}, rev : Revisions]

\* A disabled or absent rule maps to None.
Configs == [rule : [Rules -> Definitions \cup {None}], web : Ports]

ASSUME ReloadAssumption ==
    /\ None \notin Rules \cup Loops \cup Definitions \cup Configs \cup Ports
    /\ Elsewhere \notin Ports
    /\ Unbuildable \subseteq Revisions
    /\ Stored \subseteq Configs
    /\ Stored # {}

VARIABLES stored,     \* the config on disk
          root,       \* a.root: "unset", "live" or "cancelled"
          owner, def, \* the rule and the definition (fingerprint) of a loop
          running, failed, \* ruleState.running and ruleState.err # nil
          first,      \* what the first channel of a loop received
          runtimes,   \* a.runtimes
          published,  \* a.rules: the loop whose state is shown for a rule
          web,        \* the web UI listener, see WebState
          leaving,    \* http servers whose Serve returned an unexpected error
          caller,     \* what a caller is doing
          answer,     \* what reload returned to a caller
          wpc,        \* where the actions worker stands in reload
          job,        \* the caller whose reload the worker executes
          loaded,     \* conf
          todo,       \* rules the current loop of reload has still to visit
          seen,       \* the rule it looks at, and running as it read it
          stopping,   \* stopped: cancelled runtimes not yet waited for
          fresh,      \* the loops this reload started
          awaited,    \* those whose first listen result it has yet to take
          failures,   \* what it has collected
          stopper     \* where a call of stop stands

workerVars == <<wpc, job, loaded, todo, seen, stopping, fresh, awaited, failures>>
stateVars == <<running, failed, first>>
tableVars == <<owner, def, runtimes, published>>
userVars == <<stored, caller, answer>>
vars == <<serveVars, stateVars, tableVars, userVars, workerVars, root, web,
          leaving, stopper>>

\* want: webListenAddress; listener: webListener # nil; open: its socket is
\* open; server: which http.Server webServer is, 0 for none; made: how many
\* there have been; err: webErr # nil.
WebState == [want : Ports \cup {None}, listener : BOOLEAN, open : BOOLEAN,
             server : Nat, made : Nat, err : BOOLEAN]

Unseen == [rule |-> None, running |-> FALSE]

Pending == "pending"   \* a published rule that startRule has not reached yet

\* config.Validate: no two enabled rules, nor a rule and the web UI, share an
\* address of this machine.
Valid(c) ==
    LET port(r) == c.rule[r].port
        enabled == {r \in Rules : c.rule[r] # None /\ c.rule[r].port # Elsewhere}
    IN  /\ \A r \in enabled : port(r) # c.web
        /\ \A r, s \in enabled : port(r) = port(s) => r = s

Enabled(c) == {r \in Rules : c.rule[r] # None}

\* Someone else of this process listens on the address loop l wants.
HeldForLoop(l) ==
    \/ web.open /\ web.want = def[l].port
    \/ \E k \in Loops \ {l} :
          sock[k] = "open" /\ def[k].port = def[l].port /\ def[l].port # Elsewhere

HeldForWeb(p) == \E k \in Loops : sock[k] = "open" /\ def[k].port = p

ReloadInit ==
    /\ ServeInit
    /\ stored \in Stored
    /\ root = "unset"
    /\ owner = [l \in Loops |-> None]
    /\ def = [l \in Loops |-> None]
    /\ running = [l \in Loops |-> FALSE]
    /\ failed = [l \in Loops |-> FALSE]
    /\ first = [l \in Loops |-> "empty"]
    /\ runtimes = [r \in Rules |-> None]
    /\ published = [r \in Rules |-> None]
    /\ web = [want |-> None, listener |-> FALSE, open |-> FALSE,
              server |-> 0, made |-> 0, err |-> FALSE]
    /\ leaving = {}
    /\ caller = [c \in Callers |-> "idle"]
    /\ answer = [c \in Callers |-> {}]
    /\ wpc = "idle"
    /\ job = None
    /\ loaded = None
    /\ todo = {}
    /\ seen = Unseen
    /\ stopping = {}
    /\ fresh = {}
    /\ awaited = {}
    /\ failures = {}
    /\ stopper = [s \in Stoppers |-> [at |-> "ready", root |-> FALSE, server |-> 0]]

-----------------------------------------------------------------------------
(* The goroutines of the rules.                                            *)

\* ruleReporter: the closed-connection error of a cancelled rule is not news.
Suppressed(l) == cancelled[l] /\ err[l] = "closed"

Deliver(l, result) ==
    first' = [first EXCEPT ![l] = IF @ = "empty" THEN result ELSE @]

ReportAddress(l) ==
    /\ Announce(l)
    /\ running' = [running EXCEPT ![l] = TRUE]
    /\ failed' = [failed EXCEPT ![l] = FALSE]
    /\ Deliver(l, "ok")

\* Mutant: a failure does not clear running.
ReportFailureOnly(l) ==
    /\ Complain(l)
    /\ IF Suppressed(l)
         THEN UNCHANGED stateVars
         ELSE /\ failed' = [failed EXCEPT ![l] = TRUE]
              /\ Deliver(l, "failed")
              /\ UNCHANGED running

ReportFailure(l) ==
    /\ Complain(l)
    /\ IF Suppressed(l)
         THEN UNCHANGED stateVars
         ELSE /\ running' = [running EXCEPT ![l] = FALSE]
              /\ failed' = [failed EXCEPT ![l] = TRUE]
              /\ Deliver(l, "failed")

\* The steps of Serve that report nothing; listen needs the address.
Silent(l) ==
    /\ \/ Enter(l)
       \/ ListenOK(l) /\ ~HeldForLoop(l)
       \/ ListenFail(l)
       \/ Watch(l) \/ Fire(l) \/ ServeClosed(l) \/ Stop(l)
       \/ Check(l) \/ Retry(l) \/ GiveUp(l)
    /\ UNCHANGED stateVars

RuleProceeds(l) ==
    /\ Silent(l) \/ ReportAddress(l) \/ ReportFailure(l)
    /\ UNCHANGED <<tableVars, userVars, workerVars, root, web, leaving, stopper>>

RuleBreaks(l) ==
    /\ ServeFails(l)
    /\ UNCHANGED <<stateVars, tableVars, userVars, workerVars, root, web, leaving, stopper>>

-----------------------------------------------------------------------------
(* The web UI server.                                                      *)

\* The http server fails by itself; its listener is closed on the way out.
WebBreaks ==
    /\ web.open
    /\ Fault
    /\ web' = [web EXCEPT !.open = FALSE]
    /\ leaving' = leaving \cup {web.server}
    /\ UNCHANGED <<loopVars, cancelled, stateVars, tableVars, userVars,
                   workerVars, root, stopper>>

\* Mutant: it records its error whichever server is the current one.
WebLeavesLoudly(s) ==
    /\ s \in leaving
    /\ leaving' = leaving \ {s}
    /\ web' = [web EXCEPT !.listener = FALSE, !.err = TRUE]
    /\ UNCHANGED <<serveVars, stateVars, tableVars, userVars, workerVars, root, stopper>>

\* The goroutine of server s records its error if s is still the server.
WebLeaves(s) ==
    /\ s \in leaving
    /\ leaving' = leaving \ {s}
    /\ web' = IF web.server = s
                THEN [web EXCEPT !.listener = FALSE, !.err = TRUE]
                ELSE web
    /\ UNCHANGED <<serveVars, stateVars, tableVars, userVars, workerVars, root, stopper>>

-----------------------------------------------------------------------------
(* reload, executed by the actions worker.                                 *)

Save(c) ==
    /\ stored # c
    /\ stored' = c
    /\ UNCHANGED <<serveVars, stateVars, tableVars, caller, answer, workerVars,
                   root, web, leaving, stopper>>

\* a.actions <- reload, by App.Reload or by a menu item.
Request(c) ==
    /\ caller[c] = "idle"
    /\ caller' = [caller EXCEPT ![c] = "waiting"]
    /\ UNCHANGED <<serveVars, stateVars, tableVars, stored, answer, workerVars,
                   root, web, leaving, stopper>>

Unused == {l \in Loops : owner[l] = None}

\* The worker receives the request.  Bound: as long as loops are left.
Take(c) ==
    /\ wpc = "idle"
    /\ caller[c] = "waiting"
    /\ Cardinality(Unused) >= Cardinality(Rules)
    /\ wpc' = "load"
    /\ job' = c
    /\ failures' = {}
    /\ fresh' = {}
    /\ UNCHANGED <<serveVars, stateVars, tableVars, userVars, loaded, todo, seen, stopping,
                   awaited, root, web, leaving, stopper>>

\* failReload: the previous rules keep running.
LoadInvalid ==
    /\ wpc = "load"
    /\ ~Valid(stored)
    /\ wpc' = "idle"
    /\ caller' = [caller EXCEPT ![job] = "answered"]
    /\ answer' = [answer EXCEPT ![job] = {"config"}]
    /\ UNCHANGED <<serveVars, stateVars, tableVars, stored, job, loaded, todo, seen,
                   stopping, fresh, awaited, failures, root, web, leaving, stopper>>

\* Mutant: a web UI that listens is left where it is.
LoadKeepsWebUI ==
    /\ wpc = "load"
    /\ Valid(stored)
    /\ loaded' = stored
    /\ root' = IF root = "unset" THEN "live" ELSE root
    /\ wpc' = IF web.listener THEN "stale" ELSE "weblisten"
    /\ web' = IF web.listener THEN web
              ELSE [web EXCEPT !.want = stored.web, !.open = FALSE, !.server = 0, !.err = FALSE]
    /\ leaving' = IF ~web.listener /\ web.open THEN leaving \cup {web.server} ELSE leaving
    /\ todo' = {r \in Rules : runtimes[r] # None}
    /\ UNCHANGED <<serveVars, stateVars, tableVars, userVars, job, seen, stopping, fresh,
                   awaited, failures, stopper>>

\* The root context is made once; listenWebUI closes the previous listener
\* unless it already listens where it should.
LoadValid ==
    /\ wpc = "load"
    /\ Valid(stored)
    /\ loaded' = stored
    /\ root' = IF root = "unset" THEN "live" ELSE root
    /\ LET same == web.listener /\ web.want = stored.web
       IN  /\ wpc' = IF same THEN "stale" ELSE "weblisten"
           /\ web' = IF same THEN web
                      ELSE [web EXCEPT !.want = stored.web, !.listener = FALSE,
                                       !.open = FALSE, !.server = 0, !.err = FALSE]
           /\ leaving' = IF ~same /\ web.open THEN leaving \cup {web.server} ELSE leaving
    /\ todo' = {r \in Rules : runtimes[r] # None}
    /\ UNCHANGED <<serveVars, stateVars, tableVars, userVars, job, seen, stopping, fresh,
                   awaited, failures, stopper>>

WebListens ==
    /\ wpc = "weblisten"
    /\ ~HeldForWeb(web.want)
    /\ wpc' = "stale"
    /\ web' = [web EXCEPT !.listener = TRUE, !.open = TRUE, !.err = FALSE,
                          !.server = web.made + 1, !.made = @ + 1]
    /\ UNCHANGED <<serveVars, stateVars, tableVars, userVars, job, loaded, todo, seen,
                   stopping, fresh, awaited, failures, root, leaving, stopper>>

WebListenFails ==
    /\ wpc = "weblisten"
    /\ IF HeldForWeb(web.want) THEN UNCHANGED faults ELSE Fault
    /\ wpc' = "stale"
    /\ web' = [web EXCEPT !.err = TRUE]
    /\ UNCHANGED <<loopVars, cancelled, stateVars, tableVars, userVars, job, loaded, todo,
                   seen, stopping, fresh, awaited, failures, root, leaving, stopper>>

\* stopStaleRules reads running of one rule under a.mu ...
ReadRunning(r) ==
    /\ wpc = "stale"
    /\ r \in todo
    /\ wpc' = "compare"
    /\ seen' = [rule |-> r, running |-> running[runtimes[r]]]
    /\ UNCHANGED <<serveVars, stateVars, tableVars, userVars, job, loaded, todo, stopping,
                   fresh, awaited, failures, root, web, leaving, stopper>>

\* Mutants: a running rule is kept whatever its definition; no rule is kept.
SurvivesByName(r) == seen.running
SurvivesNever(r) == FALSE

\* ... and decides by what it read once the lock is released: a rule that
\* announces itself in between is stopped although it now serves.
Survives(r) == loaded.rule[r] = def[runtimes[r]] /\ seen.running

KeepRule(r) ==
    /\ wpc = "compare"
    /\ seen.rule = r
    /\ Survives(r)
    /\ wpc' = "stale"
    /\ seen' = Unseen
    /\ todo' = todo \ {r}
    /\ UNCHANGED <<serveVars, stateVars, tableVars, userVars, job, loaded, stopping,
                   fresh, awaited, failures, root, web, leaving, stopper>>

StopRule(r) ==
    /\ wpc = "compare"
    /\ seen.rule = r
    /\ ~Survives(r)
    /\ wpc' = "stale"
    /\ seen' = Unseen
    /\ CancelAll({runtimes[r]})
    /\ stopping' = stopping \cup {runtimes[r]}
    /\ runtimes' = [runtimes EXCEPT ![r] = None]
    /\ todo' = todo \ {r}
    /\ UNCHANGED <<pc, sock, attempt, backoff, err, event, faults, stateVars, owner, def,
                   published, userVars, job, loaded, fresh, awaited, failures, root, web,
                   leaving, stopper>>

\* What syncRuleStates publishes for rule r.
Synced(r) == IF r \notin Enabled(loaded) THEN None
             ELSE IF runtimes[r] # None THEN runtimes[r] ELSE Pending

\* Mutant: the stopped runtimes are not waited for.
SyncWithoutWaiting ==
    /\ wpc = "stale"
    /\ todo = {}
    /\ stopping' = {}
    /\ wpc' = "start"
    /\ published' = [r \in Rules |-> Synced(r)]
    /\ todo' = {r \in Enabled(loaded) : runtimes[r] = None}
    /\ UNCHANGED <<serveVars, stateVars, owner, def, runtimes, userVars, job, loaded,
                   seen, fresh, awaited, failures, root, web, leaving, stopper>>

\* Every stopped runtime is waited for, then syncRuleStates publishes the
\* enabled rules, those that survived with the state they have.
SyncRules ==
    /\ wpc = "stale"
    /\ todo = {}
    /\ \A l \in stopping : pc[l] = "returned"
    /\ stopping' = {}
    /\ wpc' = "start"
    /\ published' = [r \in Rules |-> Synced(r)]
    /\ todo' = {r \in Enabled(loaded) : runtimes[r] = None}
    /\ UNCHANGED <<serveVars, stateVars, owner, def, runtimes, userVars, job, loaded,
                   seen, fresh, awaited, failures, root, web, leaving, stopper>>

\* The next startRule gets a loop that no one had before.
NextLoop == CHOOSE l \in Unused : TRUE

\* context.WithCancel(a.root): a child of a done context is done.
BornCancelled == root = "cancelled"

\* startRule: a context below the root and, if the rule can be built, Serve;
\* if not, the error is reported, the context cancelled and done closed.
StartRule(r) ==
    LET l == NextLoop IN
    /\ wpc = "start"
    /\ r \in todo
    /\ Unused # {}
    /\ todo' = todo \ {r}
    /\ owner' = [owner EXCEPT ![l] = r]
    /\ def' = [def EXCEPT ![l] = loaded.rule[r]]
    /\ runtimes' = [runtimes EXCEPT ![r] = l]
    /\ published' = [published EXCEPT ![r] = l]
    /\ fresh' = fresh \cup {l}
    /\ IF loaded.rule[r].rev \in Unbuildable
         THEN /\ Goto(l, "idle", "returned")
              /\ cancelled' = [cancelled EXCEPT ![l] = TRUE]
              /\ failed' = [failed EXCEPT ![l] = TRUE]
              /\ Deliver(l, "failed")
         ELSE /\ Goto(l, "idle", "head")
              /\ cancelled' = [cancelled EXCEPT ![l] = BornCancelled]
              /\ UNCHANGED <<failed, first>>
    /\ UNCHANGED <<sock, watch, attempt, backoff, err, event, faults, running, userVars,
                   wpc, job, loaded, seen, stopping, awaited, failures, root, web,
                   leaving, stopper>>

StartsDone ==
    /\ wpc = "start"
    /\ todo = {}
    /\ wpc' = "collect"
    /\ awaited' = fresh
    /\ UNCHANGED <<serveVars, stateVars, tableVars, userVars, job, loaded, todo, seen,
                   stopping, fresh, failures, root, web, leaving, stopper>>

\* collectFirstErrors takes the first result of l.
Collect(l) ==
    /\ wpc \in {"collect", "drain"}
    /\ l \in awaited
    /\ first[l] # "empty"
    /\ awaited' = awaited \ {l}
    /\ failures' = IF first[l] = "failed" THEN failures \cup {owner[l]} ELSE failures
    /\ UNCHANGED <<serveVars, stateVars, tableVars, userVars, wpc, job, loaded, todo,
                   seen, stopping, fresh, root, web, leaving, stopper>>

\* Mutant: reload waits for the first results without a time limit.
ExpireNever == FALSE

\* firstEventTimeout passes: from now on only delivered results are taken.
Expire ==
    /\ wpc = "collect"
    /\ awaited # {}
    /\ wpc' = "drain"
    /\ UNCHANGED <<serveVars, stateVars, tableVars, userVars, job, loaded, todo, seen,
                   stopping, fresh, awaited, failures, root, web, leaving, stopper>>

\* Mutant: the deadline drops a result that was delivered in time.
ForgoDelivered(l) ==
    /\ wpc = "drain"
    /\ l \in awaited
    /\ awaited' = awaited \ {l}
    /\ UNCHANGED <<serveVars, stateVars, tableVars, userVars, wpc, job, loaded, todo,
                   seen, stopping, fresh, failures, root, web, leaving, stopper>>

Forgo(l) ==
    /\ wpc = "drain"
    /\ l \in awaited
    /\ first[l] = "empty"
    /\ awaited' = awaited \ {l}
    /\ UNCHANGED <<serveVars, stateVars, tableVars, userVars, wpc, job, loaded, todo,
                   seen, stopping, fresh, failures, root, web, leaving, stopper>>

\* The web UI error joins the others and the caller gets the answer.
Finish ==
    /\ wpc \in {"collect", "drain"}
    /\ awaited = {}
    /\ wpc' = "idle"
    /\ failures' = failures \cup (IF web.err THEN {"web_ui"} ELSE {})
    /\ caller' = [caller EXCEPT ![job] = "answered"]
    /\ answer' = [answer EXCEPT ![job] = failures']
    /\ UNCHANGED <<serveVars, stateVars, tableVars, stored, job, loaded, todo, seen,
                   stopping, fresh, awaited, root, web, leaving, stopper>>

WorkerProceeds ==
    \/ LoadInvalid \/ LoadValid \/ WebListens \/ WebListenFails
    \/ \E r \in Rules : ReadRunning(r) \/ KeepRule(r) \/ StopRule(r) \/ StartRule(r)
    \/ SyncRules \/ StartsDone
    \/ \E l \in Loops : Collect(l) \/ Forgo(l)
    \/ Expire \/ Finish

-----------------------------------------------------------------------------
(* App.stop.                                                               *)

\* It reads a.cancel and a.webServer under a.mu ...
StopReads(s) ==
    /\ stopper[s].at = "ready"
    /\ stopper' = [stopper EXCEPT ![s] = [at |-> "read", root |-> root # "unset",
                                          server |-> web.server]]
    /\ UNCHANGED <<serveVars, stateVars, tableVars, userVars, workerVars, root, web,
                   leaving>>

\* ... and acts on what it read once the lock is released.
StopActs(s) ==
    /\ stopper[s].at = "read"
    /\ stopper' = [stopper EXCEPT ![s].at = "done"]
    /\ IF stopper[s].root
         THEN /\ root' = "cancelled"
              /\ CancelAll({l \in Loops : owner[l] # None})
         ELSE UNCHANGED <<root, cancelled, watch>>
    /\ web' = IF stopper[s].server # 0 /\ stopper[s].server = web.server
                THEN [web EXCEPT !.open = FALSE]
                ELSE web
    /\ UNCHANGED <<pc, sock, attempt, backoff, err, event, faults, stateVars, tableVars,
                   userVars, workerVars, leaving>>

Next ==
    \/ \E l \in Loops : RuleProceeds(l) \/ RuleBreaks(l)
    \/ WebBreaks
    \/ \E s \in leaving : WebLeaves(s)
    \/ \E c \in Stored : Save(c)
    \/ \E c \in Callers : Request(c) \/ Take(c)
    \/ WorkerProceeds
    \/ \E s \in Stoppers : StopReads(s) \/ StopActs(s)

\* Goroutines that can run do run, the worker's timer among them; nothing
\* obliges anyone to save, to ask for a reload, to quit or to fail.
ReloadFairness ==
    /\ \A l \in Loops : WF_vars(RuleProceeds(l))
    /\ WF_vars(\E c \in Callers : Take(c))
    /\ WF_vars(WorkerProceeds)
    /\ \A s \in Stoppers : WF_vars(StopActs(s))

Spec == ReloadInit /\ [][Next]_vars /\ ReloadFairness

-----------------------------------------------------------------------------

\* Every variable holds a value of its type.
TypeOK ==
    /\ ServeTypeOK
    /\ stored \in Stored
    /\ root \in {"unset", "live", "cancelled"}
    /\ owner \in [Loops -> Rules \cup {None}]
    /\ def \in [Loops -> Definitions \cup {None}]
    /\ running \in [Loops -> BOOLEAN]
    /\ failed \in [Loops -> BOOLEAN]
    /\ first \in [Loops -> {"empty", "ok", "failed"}]
    /\ runtimes \in [Rules -> Loops \cup {None}]
    /\ published \in [Rules -> Loops \cup {None, Pending}]
    /\ web \in WebState
    /\ leaving \subseteq Nat
    /\ caller \in [Callers -> {"idle", "waiting", "answered"}]
    /\ answer \in [Callers -> SUBSET (Rules \cup {"config", "web_ui"})]
    /\ wpc \in {"idle", "load", "weblisten", "stale", "compare", "start", "collect",
              "drain"}
    /\ job \in Callers \cup {None}
    /\ loaded \in Stored \cup {None}
    /\ todo \subseteq Rules
    /\ seen \in [rule : Rules \cup {None}, running : BOOLEAN]
    /\ stopping \subseteq Loops
    /\ fresh \subseteq Loops
    /\ awaited \subseteq Loops
    /\ failures \subseteq Rules \cup {"web_ui"}
    /\ stopper \in [Stoppers -> [at : {"ready", "read", "done"}, root : BOOLEAN,
                                  server : Nat]]

Alive(l) == pc[l] \notin {"idle", "returned"}

\* No rule is ever served twice: the goroutine of its old runtime has ended,
\* and with it its listener, before a new one starts (reload.go:132-134).
OneLoopPerRule ==
    \A k, l \in Loops :
        owner[k] # None /\ owner[k] = owner[l] /\ Alive(k) /\ Alive(l) => k = l

\* The rules never stand in each other's way: whatever a reload swaps, when a
\* rule that is still wanted calls listen no other rule holds its address.
NoRuleConflict ==
    \A k, l \in Loops :
        /\ pc[l] = "listen" /\ ~cancelled[l] /\ def[l].port # Elsewhere
        /\ sock[k] = "open" /\ def[k].port = def[l].port
        => k = l

\* So a reload never makes two listeners compete.
RulesAreApart == OneLoopPerRule /\ NoRuleConflict

\* Between reloads the app runs what the last valid config asked for: each
\* enabled rule has a runtime of exactly that definition, which is also the
\* one published; everything older has ended.
SettledMatchesConfig ==
    wpc = "idle" /\ loaded # None =>
        /\ \A r \in Rules :
              IF r \in Enabled(loaded)
                THEN /\ runtimes[r] # None
                     /\ owner[runtimes[r]] = r
                     /\ def[runtimes[r]] = loaded.rule[r]
                     /\ published[r] = runtimes[r]
                ELSE runtimes[r] = None /\ published[r] = None
        /\ \A l \in Loops : Alive(l) => \E r \in Rules : runtimes[r] = l

\* What is shown as running has, or just had, its listener: a rule that was
\* not cancelled leaves "running" only through its own failure, which it is
\* about to report; and one that serves is never shown as down.
RunningIsTrue ==
    \A l \in Loops :
        /\ pc[l] \in {"watch", "serve"} => running[l]
        /\ running[l] /\ ~cancelled[l] => pc[l] \in {"watch", "serve", "stop", "check", "complain"}

\* Who a loop belongs to.  A runtime is a loop of its rule; a loop under way
\* is the runtime of its rule or one of those the worker is waiting for, which
\* no longer are; and the worker starts only rules that have none.
Ownership ==
    /\ \A l \in Loops : pc[l] = "idle" <=> owner[l] = None
    /\ \A l \in Loops : owner[l] # None => def[l] # None
    /\ \A r \in Rules : runtimes[r] # None => owner[runtimes[r]] = r
    /\ \A l \in Loops : Alive(l) => l \in stopping \/ runtimes[owner[l]] = l
    /\ \A l \in stopping : /\ owner[l] # None
                          /\ runtimes[owner[l]] = None
                          /\ \A k \in stopping : owner[k] = owner[l] => k = l
    /\ stopping # {} => wpc \in {"stale", "compare"}
    /\ wpc \in {"weblisten", "stale", "compare"} => \A r \in todo : runtimes[r] # None
    /\ wpc = "compare" => seen.rule \in todo
    /\ wpc = "start" => \A r \in todo : runtimes[r] = None /\ loaded.rule[r] # None
    /\ \A l \in fresh \cup awaited : owner[l] # None

\* What the loops are for.  The config that reload applies is a valid one, the
\* runtimes that it has gone through have the definition that config gives
\* them, and no two loops under way were ever given the same address.
Applied ==
    /\ loaded # None => Valid(loaded)
    /\ wpc \notin {"idle", "load"} => loaded # None
    /\ \A r \in Rules :
          /\ runtimes[r] # None
          /\ wpc \in {"weblisten", "stale", "compare"} => r \notin todo
          => def[runtimes[r]] = loaded.rule[r]
    /\ \A k, l \in Loops :
          /\ Alive(k) /\ Alive(l)
          /\ def[k].port = def[l].port /\ def[l].port # Elsewhere
          => k = l

\* What is shown.  Once the rules are synchronised the published rules are
\* the enabled ones, each with its runtime as soon as it has one.
Published ==
    /\ wpc \in {"idle", "load", "collect", "drain"} /\ loaded # None =>
         \A r \in Rules : /\ published[r] = runtimes[r]
                          /\ runtimes[r] = None <=> loaded.rule[r] = None
    /\ wpc = "start" =>
         \A r \in Rules :
            /\ r \notin todo => published[r] = runtimes[r]
            /\ runtimes[r] = None <=> loaded.rule[r] = None \/ r \in todo
    /\ loaded = None => \A r \in Rules : runtimes[r] = None

\* What the worker keeps about the loops agrees with them at every step of a
\* reload, not only between reloads (reload.go:99-195).
Bookkeeping == Ownership /\ Applied /\ Published

\* A reload that reports success within its time limit means that every rule
\* it started has announced an address, and that the web UI had no error.  And
\* whether in time or after it, no failure that was delivered when the worker
\* turned to its rule is missing from the answer (reload.go:312-341).
SuccessMeansListened ==
    [][ /\ \A c \in Callers :
              caller[c] # "answered" /\ caller'[c] = "answered" =>
                 /\ answer'[c] = {} /\ wpc = "collect"
                       => ~web.err /\ \A l \in fresh : first[l] = "ok"
                 /\ wpc # "load" => failures \subseteq answer'[c]
        /\ \A l \in awaited :
              wpc \in {"collect", "drain"} /\ first[l] = "failed"
                 => l \in awaited' \/ owner[l] \in failures' ]_vars

\* A rule that serves, with the definition the new config gives it, is seen to
\* run when the worker looks at it, and keeps its listener through the reload:
\* only stop, or its own failure, ends it.  The exception is in the code: one
\* that was down when the worker looked, and has come up since, is restarted.
UnchangedRulesKeepServing ==
    [][ \A r \in Rules :
          LET l == runtimes[r] IN
          /\ wpc \in {"weblisten", "stale", "compare"} /\ l # None
          /\ loaded.rule[r] = def[l] /\ pc[l] \in {"watch", "serve"}
          /\ root' # "cancelled"
          => /\ seen' # seen /\ seen'.rule = r => seen'.running
             /\ \/ runtimes'[r] = l /\ ~cancelled'[l]
                \/ seen = [rule |-> r, running |-> FALSE] ]_vars

\* A web server that is listening is shown as such, whatever the goroutine of
\* a server it replaced still has to say (webui.go:49-65).
WebStatusIsTrue == web.open => web.listener /\ ~web.err

\* Every reload that is asked for is answered: no listener that fails to come
\* up, and no stopped rule, keeps the worker waiting for ever.
ReloadAnswered ==
    \A c \in Callers :
        caller[c] = "waiting" /\ Cardinality(Unused) >= Cardinality(Rules) * Cardinality(Callers)
            ~> caller[c] = "answered"

\* Once the root context is cancelled every rule ends, even one that a reload
\* under way starts afterwards.
StopEndsRules ==
    \A l \in Loops : root = "cancelled" /\ owner[l] # None ~> pc[l] = "returned"

\* So neither a reload nor a stop hangs.
ReloadsEnd == ReloadAnswered /\ StopEndsRules

\* The address a finished reload leaves to the web UI is served: a valid
\* config is applied unless something outside this process prevents it.
ReloadAppliesWebUI ==
    wpc = "idle" /\ faults = Faults /\ loaded # None /\ (\A s \in Stoppers : stopper[s].at = "ready")
        => web.open /\ web.want = loaded.web
=============================================================================
