-------------------------------- MODULE Tray --------------------------------
(***************************************************************************)
(* The system proxy and the threads that share it: the actions worker      *)
(* (selectSystemProxy, restoreSystemProxy at the end of a reload, Quit on  *)
(* SIGTERM), the UI thread (the menu, Quit, the stop at the end of Run),   *)
(* the goroutine of SIGINT, and the goroutines of the rules, which report  *)
(* new addresses (app/tray/system_proxy.go, menu.go, app.go).              *)
(*                                                                         *)
(* proxyMu is the lock `holder`; the short sections under a.mu are single  *)
(* steps.  Whatever a thread paints (SetMenu, SetLabel, SetChecked) it     *)
(* waits for the UI thread to do; the UI thread itself paints at once.     *)
(* What makes addresses change, a reload, is in Reload.  The system has a  *)
(* setting for HTTPS and one for HTTP, made by two calls one after the     *)
(* other that may each fail: `os` is either of them.                       *)
(***************************************************************************)
EXTENDS Integers

CONSTANTS Rules,      \* rule names
          Addresses,  \* addresses a local proxy can have
          Off,        \* no proxy, and no address: not a published local proxy
          Keep,       \* a pending setting that leaves the system alone
          None,       \* no rule, no thread
          Worker, Main, Sigint   \* threads; the others are the rules' own

ASSUME TrayAssumption ==
    /\ Off \notin Addresses
    /\ Keep \notin Addresses \cup {Off}
    /\ None \notin Rules \cup {Worker, Main, Sigint}
    /\ {Worker, Main, Sigint} \cap Rules = {}
    /\ Worker # Main /\ Worker # Sigint /\ Main # Sigint

Threads == {Worker, Main, Sigint} \cup Rules

VARIABLES address,   \* localProxyAddress(a.rules, r)
          rule,      \* a.systemProxyRule
          applied,   \* a.systemProxyAddress
          os,        \* the proxy setting of the operating system
          lost,      \* history: the last call that was to change it failed
          stopped,   \* a.stopped
          holder,    \* who holds a.proxyMu
          removed,   \* tray.Remove has been called
          pc,        \* where a thread stands
          task,      \* what it is doing, see Tasks
          pending,   \* the setting it is about to make
          stale      \* rules whose goroutines the worker waits for

vars == <<address, rule, applied, os, lost, stopped, holder, removed, pc,
          task, pending, stale>>

\* "select" with the rule chosen, "restore" for the menu, "stop" for Quit,
\* "exit" for the stop at the end of Run, "report" for a rule's own goroutine.
Tasks == [kind : {"select", "restore", "stop", "exit", "report"}, rule : Rules \cup {None}]
Task(kind, r) == [kind |-> kind, rule |-> r]

Nothing == Task("report", None)

Init ==
    /\ address = [r \in Rules |-> Off]
    /\ rule = None
    /\ applied = Off
    /\ os = Off
    /\ lost = FALSE
    /\ stopped = FALSE
    /\ holder = None
    /\ removed = FALSE
    /\ pc = [t \in Threads |-> "idle"]
    /\ task = [t \in Threads |-> Nothing]
    /\ pending = [t \in Threads |-> Keep]
    /\ stale = {}

Running == pc[Main] # "exited"

\* Thread t, which has nothing else to do, takes up a task.
Takes(t, kind, r) ==
    /\ Running
    /\ pc[t] = "idle"
    /\ task' = [task EXCEPT ![t] = Task(kind, r)]

\* Thread t is done with its task.
Rests(t) ==
    /\ pc' = [pc EXCEPT ![t] = "idle"]
    /\ task' = [task EXCEPT ![t] = Nothing]

-----------------------------------------------------------------------------
(* What makes a thread start.                                              *)

\* A menu item queued selectSystemProxy(r) on the worker; None is manual.
Select(r) ==
    /\ Takes(Worker, "select", r)
    /\ pc' = [pc EXCEPT ![Worker] = "want"]
    /\ UNCHANGED <<address, rule, applied, os, lost, stopped, holder, removed, pending, stale>>

\* reload cancels the rules it replaces, and waits for their goroutines.
Reload(rs) ==
    /\ Takes(Worker, "restore", None)
    /\ pc' = [pc EXCEPT ![Worker] = "wait"]
    /\ stale' = rs
    /\ UNCHANGED <<address, rule, applied, os, lost, stopped, holder, removed, pending>>

\* It publishes the new rules, waits for their first events and goes on to
\* rebuildMenu, which begins with restoreSystemProxy.
Publish ==
    /\ Running
    /\ pc[Worker] = "wait"
    /\ \A r \in stale : pc[r] = "idle"
    /\ \E new \in [Rules -> Addresses \cup {Off}] :
          /\ \A r \in Rules \ stale : new[r] = address[r]
          /\ address' = new
    /\ stale' = {}
    /\ pc' = [pc EXCEPT ![Worker] = "want"]
    /\ UNCHANGED <<rule, applied, os, lost, stopped, holder, removed, task, pending>>

\* Quit: from the menu on the UI thread, by SIGINT, by SIGTERM on the worker.
Quit(t) ==
    /\ t \in {Main, Sigint, Worker}
    /\ t = Main => ~removed
    /\ Takes(t, "stop", None)
    /\ pc' = [pc EXCEPT ![t] = "want"]
    /\ UNCHANGED <<address, rule, applied, os, lost, stopped, holder, removed, pending, stale>>

\* tray.Run returns and Run stops the app once more.
LeaveLoop ==
    /\ removed
    /\ Takes(Main, "exit", None)
    /\ pc' = [pc EXCEPT ![Main] = "want"]
    /\ UNCHANGED <<address, rule, applied, os, lost, stopped, holder, removed, pending, stale>>

\* A rule listens anew, on another address if its port is 0, and its reporter
\* goes on to updateStatus; it leaves the system proxy alone.  A rule that has
\* been cancelled finishes the report it is in and makes no further one.
Rebind(r, a) ==
    /\ address[r] # Off
    /\ r \notin stale
    /\ Takes(r, "report", None)
    /\ address' = [address EXCEPT ![r] = a]
    /\ pc' = [pc EXCEPT ![r] = "paint"]
    /\ UNCHANGED <<rule, applied, os, lost, stopped, holder, removed, pending, stale>>

-----------------------------------------------------------------------------
(* What a thread does under proxyMu.                                       *)

\* syncSystemProxySelection for the selection `chosen`: a selected rule that
\* is no longer a local proxy is deselected.
Found(chosen) == IF chosen = None THEN Off ELSE address[chosen]

\* Mutant: a selected rule that is gone stays selected.
SyncKeepsRule(chosen) ==
    /\ rule' = chosen
    /\ applied' = Found(chosen)

Sync(chosen) ==
    /\ rule' = IF Found(chosen) = Off THEN None ELSE chosen
    /\ applied' = Found(chosen)

Acquire(t) ==
    /\ Running
    /\ pc[t] = "want"
    /\ holder = None

\* selectSystemProxy after stop: nothing more than the lock.
LockStopped(t) ==
    /\ Acquire(t)
    /\ task[t].kind = "select"
    /\ stopped
    /\ Rests(t)
    /\ UNCHANGED <<address, rule, applied, os, lost, stopped, holder, removed, pending, stale>>

\* Mutant: a selection that was queued is made although the app has stopped.
LockSelectAlways(t) ==
    /\ Acquire(t)
    /\ task[t].kind = "select"
    /\ Sync(task[t].rule)
    /\ pending' = [pending EXCEPT ![t] = Found(task[t].rule)]
    /\ holder' = t
    /\ pc' = [pc EXCEPT ![t] = "apply"]
    /\ UNCHANGED <<address, os, lost, stopped, removed, task, stale>>

LockSelect(t) ==
    /\ Acquire(t)
    /\ task[t].kind = "select"
    /\ ~stopped
    /\ Sync(task[t].rule)
    /\ pending' = [pending EXCEPT ![t] = Found(task[t].rule)]
    /\ holder' = t
    /\ pc' = [pc EXCEPT ![t] = "apply"]
    /\ UNCHANGED <<address, os, lost, stopped, removed, task, stale>>

\* restoreSystemProxy touches the system only if the selection changed.
LockRestore(t) ==
    /\ Acquire(t)
    /\ task[t].kind = "restore"
    /\ Sync(rule)
    /\ pending' = [pending EXCEPT ![t] =
                     IF Found(rule) # applied \/ (rule # None /\ Found(rule) = Off)
                       THEN Found(rule) ELSE Keep]
    /\ holder' = t
    /\ pc' = [pc EXCEPT ![t] = "apply"]
    /\ UNCHANGED <<address, os, lost, stopped, removed, task, stale>>

LockStop(t) ==
    /\ Acquire(t)
    /\ task[t].kind \in {"stop", "exit"}
    /\ stopped' = TRUE
    /\ rule' = None
    /\ applied' = Off
    /\ pending' = [pending EXCEPT ![t] = IF applied # Off THEN Off ELSE Keep]
    /\ holder' = t
    /\ pc' = [pc EXCEPT ![t] = "apply"]
    /\ UNCHANGED <<address, os, lost, removed, task, stale>>

\* setSystemProxy: of the two calls, for HTTPS and for HTTP, one or both may
\* fail, which is only logged: the app goes on as if they had been made.
SetSystemProxy(setting) ==
    IF setting = Keep
      THEN UNCHANGED <<os, lost>>
      ELSE \/ os' = setting /\ lost' = FALSE
           \/ os' \in {os, setting} /\ lost' = TRUE

\* Mutant: updateStatus is called before proxyMu is released.
ApplyPaintsLocked(t) ==
    /\ Running
    /\ pc[t] = "apply"
    /\ task[t].kind = "select" => pc[Main] = "idle"
    /\ SetSystemProxy(pending[t])
    /\ pending' = [pending EXCEPT ![t] = Keep]
    /\ holder' = None
    /\ pc' = [pc EXCEPT ![t] = CASE task[t].kind = "stop" -> "remove"
                                 [] task[t].kind = "exit" -> "exited"
                                 [] OTHER -> "paint"]
    /\ UNCHANGED <<address, rule, applied, stopped, removed, task, stale>>

\* The system is told, and proxyMu is released: before any painting.
Apply(t) ==
    /\ Running
    /\ pc[t] = "apply"
    /\ SetSystemProxy(pending[t])
    /\ pending' = [pending EXCEPT ![t] = Keep]
    /\ holder' = None
    /\ pc' = [pc EXCEPT ![t] = CASE task[t].kind = "stop" -> "remove"
                                 [] task[t].kind = "exit" -> "exited"
                                 [] OTHER -> "paint"]
    /\ UNCHANGED <<address, rule, applied, stopped, removed, task, stale>>

\* The UI thread paints for t when it is in its event loop.
Paint(t) ==
    /\ pc[t] = "paint"
    /\ pc[Main] = "idle"
    /\ Rests(t)
    /\ UNCHANGED <<address, rule, applied, os, lost, stopped, holder, removed, pending, stale>>

\* tray.Remove ends the event loop; Quit is over.
Remove(t) ==
    /\ Running
    /\ pc[t] = "remove"
    /\ removed' = TRUE
    /\ Rests(t)
    /\ UNCHANGED <<address, rule, applied, os, lost, stopped, holder, pending, stale>>

Proceed(t) ==
    \/ LockStopped(t) \/ LockSelect(t) \/ LockRestore(t) \/ LockStop(t)
    \/ Apply(t) \/ Paint(t) \/ Remove(t)

\* The process has ended.
Exited == ~Running /\ UNCHANGED vars

Next ==
    \/ \E r \in Rules \cup {None} : Select(r)
    \/ \E rs \in SUBSET Rules : Reload(rs)
    \/ Publish
    \/ \E t \in Threads : Quit(t) \/ Proceed(t)
    \/ LeaveLoop
    \/ \E r \in Rules, a \in Addresses : Rebind(r, a)
    \/ Exited

\* Threads run, and sync.Mutex lets no one wait for ever (a waiter that has
\* waited for 1 ms is served first), hence strong fairness of the lock.  The
\* event loop serves every thread that paints and notices that it is ended.
Fairness ==
    /\ WF_vars(Publish)
    /\ WF_vars(LeaveLoop)
    /\ \A t \in Threads : SF_vars(Proceed(t))

Spec == Init /\ [][Next]_vars /\ Fairness

-----------------------------------------------------------------------------

Settings == Addresses \cup {Off}

\* Every variable holds a value of its type.
TypeOK ==
    /\ address \in [Rules -> Settings]
    /\ rule \in Rules \cup {None}
    /\ applied \in Settings
    /\ os \in Settings
    /\ lost \in BOOLEAN
    /\ stopped \in BOOLEAN
    /\ holder \in Threads \cup {None}
    /\ removed \in BOOLEAN
    /\ pc \in [Threads -> {"idle", "wait", "want", "apply", "paint", "remove", "exited"}]
    /\ task \in [Threads -> Tasks]
    /\ pending \in [Threads -> Settings \cup {Keep}]
    /\ stale \subseteq Rules

\* Once the app has been stopped the system has no proxy, for good: neither a
\* selection that was queued nor the end of a reload under way turns it on.
\* Only a call that fails leaves one, and stop does not try again.
StoppedMeansOff == stopped /\ holder = None => os = Off \/ lost

\* Whenever nobody is changing it, the setting of the system is the one the
\* app remembers, which is what lets it skip a change and undo it at the end:
\* no order of selections, reloads and stops parts the two, only a call of
\* the system that failed and that none has followed.
SystemFollowsApp == holder = None => os = applied \/ lost

\* So the setting of the system is the app's to make and to undo.
SystemIsTheApps == StoppedMeansOff /\ SystemFollowsApp

\* The remembered address belongs to a selected rule, and only then is set.
AddressHasRule == (applied # Off) <=> (rule # None)

\* After a reload has restored the selection, a selected rule is one that is
\* still published as a local proxy: its removal deselects it.
SelectionIsPublished ==
    rule # None /\ pc[Worker] \in {"idle", "apply", "paint"} => address[rule] # Off

\* Quit gets through: whichever thread it is called on, the process ends,
\* although the UI thread waits for proxyMu and others wait for the UI thread.
QuitEndsProcess ==
    (\E t \in Threads : pc[t] # "idle" /\ task[t].kind = "stop") ~> pc[Main] = "exited"

\* The worker never hangs: it is free for the next action, or the app is over.
WorkerFinishes == pc[Worker] # "idle" ~> (pc[Worker] = "idle" \/ removed)

\* So no thread of the app waits for another for ever.
NobodyHangs == QuitEndsProcess /\ WorkerFinishes
=============================================================================
