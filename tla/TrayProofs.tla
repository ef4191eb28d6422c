----------------------------- MODULE TrayProofs -----------------------------
(***************************************************************************)
(* Proofs about the system proxy (Tray), for any number of rules and       *)
(* addresses.  Only the holder of proxyMu has a setting pending; between   *)
(* its decision and its call of the system, the setting it will make is    *)
(* the address the app already remembers; if that call fails, `lost` says  *)
(* so until the next one.                                                  *)
(***************************************************************************)
EXTENDS Tray, TLAPS

\* A thread about to make a setting is the holder of proxyMu.
HolderApplies == \A t \in Threads : pc[t] = "apply" <=> holder = t

\* What the holder is about to make of the system is what the app remembers.
PendingIsRemembered ==
    \A t \in Threads : holder = t =>
        \/ pending[t] = applied
        \/ pending[t] = Keep /\ (os = applied \/ lost)

\* A stopped app remembers no proxy.
StoppedForgets == stopped => applied = Off

TrayInv ==
    /\ TypeOK
    /\ SystemFollowsApp
    /\ AddressHasRule
    /\ HolderApplies
    /\ PendingIsRemembered
    /\ StoppedForgets

-----------------------------------------------------------------------------

\* The initial state, before the first reload.
LEMMA InitTrayInv == Init => TrayInv
  <1> SUFFICES ASSUME Init PROVE TrayInv
    OBVIOUS
  <1> USE TrayAssumption DEF Init
  <1>1. TypeOK
    BY DEF TypeOK, Settings, Tasks, Task, Nothing, Threads
  <1>2. SystemFollowsApp /\ AddressHasRule /\ StoppedForgets
    BY DEF SystemFollowsApp, AddressHasRule, StoppedForgets
  <1>3. HolderApplies /\ PendingIsRemembered
    BY DEF HolderApplies, PendingIsRemembered, Threads
  <1> QED
    BY <1>1, <1>2, <1>3 DEF TrayInv

\* What syncSystemProxySelection decides for any selection.
LEMMA SyncFacts ==
  ASSUME NEW chosen \in Rules \cup {None}, TypeOK, Sync(chosen)
  PROVE  /\ Found(chosen) \in Settings
         /\ rule' \in Rules \cup {None}
         /\ applied' = Found(chosen)
         /\ (applied' # Off) <=> (rule' # None)
  BY TrayAssumption DEF Sync, Found, TypeOK, Settings

\* Each step preserves the types.
LEMMA TypeStep == TrayInv /\ [Next]_vars => TypeOK'
  <1> SUFFICES ASSUME TrayInv, [Next]_vars PROVE TypeOK'
    OBVIOUS
  <1> USE TrayAssumption DEF TypeOK, Settings, Tasks, Task, Nothing, Takes
  <1>t. TypeOK
    BY DEF TrayInv
  <1>w. Worker \in Threads /\ Main \in Threads /\ Rules \subseteq Threads /\ Sigint \in Threads
    BY DEF Threads
  <1>1. ASSUME NEW r \in Rules \cup {None}, Select(r) PROVE TypeOK'
    BY <1>t, <1>w, <1>1 DEF Select
  <1>2. ASSUME NEW rs \in SUBSET Rules, Reload(rs) PROVE TypeOK'
    BY <1>t, <1>w, <1>2 DEF Reload
  <1>3. ASSUME Publish PROVE TypeOK'
    BY <1>t, <1>w, <1>3 DEF Publish
  <1>4. ASSUME NEW t \in Threads, Quit(t) PROVE TypeOK'
    BY <1>t, <1>w, <1>4 DEF Quit
  <1>5. ASSUME NEW t \in Threads, Proceed(t) PROVE TypeOK'
    <2>1. CASE LockStopped(t)
      BY <1>t, <2>1 DEF LockStopped, Acquire, Rests
    <2>2. CASE LockSelect(t)
      <3>1. task[t].rule \in Rules \cup {None}
        BY <1>t
      <3> QED
        BY <1>t, <2>2, <3>1, SyncFacts DEF LockSelect, Acquire
    <2>3. CASE LockRestore(t)
      <3>1. rule \in Rules \cup {None}
        BY <1>t
      <3> QED
        BY <1>t, <2>3, <3>1, SyncFacts DEF LockRestore, Acquire
    <2>4. CASE LockStop(t)
      BY <1>t, <2>4 DEF LockStop, Acquire
    <2>5. CASE Apply(t)
      BY <1>t, <2>5 DEF Apply, SetSystemProxy
    <2>6. CASE Paint(t)
      BY <1>t, <2>6 DEF Paint, Rests
    <2>7. CASE Remove(t)
      BY <1>t, <2>7 DEF Remove, Rests
    <2> QED
      BY <1>5, <2>1, <2>2, <2>3, <2>4, <2>5, <2>6, <2>7 DEF Proceed
  <1>6. ASSUME LeaveLoop PROVE TypeOK'
    BY <1>t, <1>w, <1>6 DEF LeaveLoop
  <1>7. ASSUME NEW r \in Rules, NEW a \in Addresses, Rebind(r, a) PROVE TypeOK'
    BY <1>t, <1>w, <1>7 DEF Rebind
  <1>8. CASE UNCHANGED vars
    BY <1>t, <1>8 DEF vars
  <1> QED
    BY <1>1, <1>2, <1>3, <1>4, <1>5, <1>6, <1>7, <1>8 DEF Next, Exited

\* The part of the invariant about the setting, as one formula.
Setting ==
    /\ SystemFollowsApp
    /\ AddressHasRule
    /\ HolderApplies
    /\ PendingIsRemembered
    /\ StoppedForgets

\* A step that touches neither the lock nor what it guards, and moves one
\* thread from a place other than "apply" to another such place.
LEMMA Elsewhere ==
  ASSUME TrayInv, NEW t \in Threads, NEW place,
         pc[t] # "apply", place # "apply", pc' = [pc EXCEPT ![t] = place],
         UNCHANGED <<rule, applied, os, lost, holder, stopped, pending>>
  PROVE  Setting'
  <1>1. \A u \in Threads : pc'[u] = "apply" <=> pc[u] = "apply"
    BY DEF TrayInv, TypeOK
  <1>2. HolderApplies'
    BY <1>1 DEF TrayInv, HolderApplies
  <1> QED
    BY <1>2 DEF Setting, TrayInv, SystemFollowsApp, AddressHasRule, PendingIsRemembered, StoppedForgets

\* A thread takes proxyMu and decides what to make of the system.
LEMMA Locks ==
  ASSUME TrayInv, NEW t \in Threads, NEW setting,
         holder = None, holder' = t,
         pc' = [pc EXCEPT ![t] = "apply"],
         pending' = [pending EXCEPT ![t] = setting],
         setting = applied' \/ (setting = Keep /\ applied' = applied),
         (applied' # Off) <=> (rule' # None),
         stopped' => applied' = Off,
         UNCHANGED <<os, lost>>
  PROVE  Setting'
  <1>1. t # None
    BY TrayAssumption DEF Threads
  <1>2. \A u \in Threads : pc[u] # "apply"
    BY TrayAssumption DEF TrayInv, HolderApplies, Threads
  <1>3. HolderApplies'
    BY <1>2 DEF HolderApplies, TrayInv, TypeOK
  <1>4. os = applied \/ lost
    BY DEF TrayInv, SystemFollowsApp
  <1>5. pending'[t] = setting
    BY DEF TrayInv, TypeOK
  <1>6. PendingIsRemembered'
    BY <1>4, <1>5 DEF PendingIsRemembered
  <1> QED
    BY <1>1, <1>3, <1>6 DEF Setting, SystemFollowsApp, AddressHasRule, StoppedForgets

\* The holder calls the system and releases the lock.
LEMMA Applies == ASSUME TrayInv, NEW t \in Threads, Apply(t) PROVE Setting'
  <1>1. holder = t /\ t # None
    BY TrayAssumption DEF Apply, TrayInv, HolderApplies, Threads
  <1>2. os' = applied \/ lost'
    BY <1>1, TrayAssumption DEF Apply, SetSystemProxy, TrayInv, PendingIsRemembered, TypeOK,
      Settings
  <1>3. \A u \in Threads : pc'[u] # "apply"
    <2> TAKE u \in Threads
    <2>1. CASE u = t
      BY <2>1 DEF Apply, TrayInv, TypeOK
    <2>2. CASE u # t
      BY <2>2, <1>1 DEF Apply, TrayInv, TypeOK, HolderApplies
    <2> QED
      BY <2>1, <2>2
  <1>4. HolderApplies' /\ PendingIsRemembered'
    BY <1>3, TrayAssumption DEF Apply, HolderApplies, PendingIsRemembered, Threads
  <1> QED
    BY <1>2, <1>4 DEF Apply, Setting, SystemFollowsApp, AddressHasRule, StoppedForgets, TrayInv

\* Each step keeps the setting in step with what the app remembers.
LEMMA SettingStep == TrayInv /\ [Next]_vars => Setting'
  <1> SUFFICES ASSUME TrayInv, [Next]_vars PROVE Setting'
    OBVIOUS
  <1>w. Worker \in Threads /\ Main \in Threads /\ Rules \subseteq Threads
    BY DEF Threads
  <1>t. TypeOK
    BY DEF TrayInv
  <1>1. ASSUME NEW r \in Rules \cup {None}, Select(r) PROVE Setting'
    BY <1>w, <1>1, Elsewhere DEF Select, Takes
  <1>2. ASSUME NEW rs \in SUBSET Rules, Reload(rs) PROVE Setting'
    BY <1>w, <1>2, Elsewhere DEF Reload, Takes
  <1>3. ASSUME Publish PROVE Setting'
    BY <1>w, <1>3, Elsewhere DEF Publish
  <1>4. ASSUME NEW t \in Threads, Quit(t) PROVE Setting'
    BY <1>4, Elsewhere DEF Quit, Takes
  <1>5. ASSUME NEW t \in Threads, Proceed(t) PROVE Setting'
    <2>1. CASE LockStopped(t)
      BY <2>1, Elsewhere DEF LockStopped, Acquire, Rests
    <2>2. CASE LockSelect(t)
      <3> DEFINE chosen == task[t].rule
      <3>1. chosen \in Rules \cup {None}
        BY <1>t DEF TypeOK, Tasks
      <3>2. applied' = Found(chosen) /\ ((applied' # Off) <=> (rule' # None))
        BY <1>t, <2>2, <3>1, SyncFacts DEF LockSelect
      <3> QED
        BY <2>2, <3>2, Locks DEF LockSelect, Acquire
    <2>3. CASE LockRestore(t)
      <3> DEFINE setting == IF Found(rule) # applied \/ (rule # None /\ Found(rule) = Off)
                              THEN Found(rule) ELSE Keep
      <3>1. rule \in Rules \cup {None}
        BY <1>t DEF TypeOK
      <3>2. applied' = Found(rule) /\ ((applied' # Off) <=> (rule' # None))
        BY <1>t, <2>3, <3>1, SyncFacts DEF LockRestore
      <3>3. setting = applied' \/ (setting = Keep /\ applied' = applied)
        BY <3>2
      <3>4. stopped' => applied' = Off
        <4>1. stopped => rule = None
          BY DEF TrayInv, StoppedForgets, AddressHasRule
        <4> QED
          BY <2>3, <3>2, <4>1 DEF LockRestore, Found
      <3>5. /\ holder = None /\ holder' = t /\ UNCHANGED <<os, lost>>
            /\ pc' = [pc EXCEPT ![t] = "apply"]
            /\ pending' = [pending EXCEPT ![t] = setting]
        BY <2>3 DEF LockRestore, Acquire
      <3> HIDE DEF setting
      <3> QED
        BY <3>2, <3>3, <3>4, <3>5, Locks
    <2>4. CASE LockStop(t)
      <3> DEFINE setting == IF applied # Off THEN Off ELSE Keep
      <3>1. setting = applied' \/ (setting = Keep /\ applied' = applied)
        BY <2>4 DEF LockStop
      <3>2. /\ holder = None /\ holder' = t /\ UNCHANGED <<os, lost>>
            /\ pc' = [pc EXCEPT ![t] = "apply"]
            /\ pending' = [pending EXCEPT ![t] = setting]
            /\ applied' = Off /\ rule' = None
        BY <2>4 DEF LockStop, Acquire
      <3> HIDE DEF setting
      <3> QED
        BY <3>1, <3>2, Locks
    <2>5. CASE Apply(t)
      BY <2>5, Applies
    <2>6. CASE Paint(t)
      BY <2>6, Elsewhere DEF Paint, Rests
    <2>7. CASE Remove(t)
      BY <2>7, Elsewhere DEF Remove, Rests
    <2> QED
      BY <1>5, <2>1, <2>2, <2>3, <2>4, <2>5, <2>6, <2>7 DEF Proceed
  <1>6. ASSUME LeaveLoop PROVE Setting'
    BY <1>w, <1>6, Elsewhere DEF LeaveLoop, Takes
  <1>7. ASSUME NEW r \in Rules, NEW a \in Addresses, Rebind(r, a) PROVE Setting'
    BY <1>w, <1>7, Elsewhere DEF Rebind, Takes
  <1>8. CASE UNCHANGED vars
    BY <1>8 DEF vars, TrayInv, Setting, SystemFollowsApp, AddressHasRule, HolderApplies,
                PendingIsRemembered, StoppedForgets
  <1> QED
    BY <1>1, <1>2, <1>3, <1>4, <1>5, <1>6, <1>7, <1>8 DEF Next, Exited

-----------------------------------------------------------------------------

\* The invariant of the system proxy.
THEOREM TrayInvariant == Spec => []TrayInv
  <1>1. TrayInv /\ [Next]_vars => TrayInv'
    BY TypeStep, SettingStep DEF Setting, TrayInv
  <1> QED
    BY InitTrayInv, <1>1, PTL DEF Spec

\* Whenever proxyMu is free the system has the proxy the app remembers, unless
\* the last call that was to change it failed.
THEOREM SystemFollowsAppTheorem == Spec => []SystemFollowsApp
  <1>1. TrayInv => SystemFollowsApp
    BY DEF TrayInv
  <1> QED
    BY <1>1, TrayInvariant, PTL

\* After stop the proxy of the system is off, whatever was queued before, unless
\* the call that was to turn it off failed.
THEOREM StoppedMeansOffTheorem == Spec => []StoppedMeansOff
  <1>1. TrayInv => StoppedMeansOff
    BY DEF TrayInv, StoppedMeansOff, SystemFollowsApp, StoppedForgets
  <1> QED
    BY <1>1, TrayInvariant, PTL

\* The app remembers an address exactly while it has a rule selected.
THEOREM AddressHasRuleTheorem == Spec => []AddressHasRule
  <1>1. TrayInv => AddressHasRule
    BY DEF TrayInv
  <1> QED
    BY <1>1, TrayInvariant, PTL

\* The setting of the system follows the app, and is off once it has stopped,
\* until a call of the system fails.
THEOREM SystemIsTheAppsTheorem == Spec => []SystemIsTheApps
BY StoppedMeansOffTheorem, SystemFollowsAppTheorem, PTL DEF SystemIsTheApps

-----------------------------------------------------------------------------

\* A selected rule is published, unless a reload that has published its rules
\* has yet to restore the selection.
Restoring == pc[Worker] = "want" /\ task[Worker].kind = "restore"
Selection == rule = None \/ address[rule] # Off \/ Restoring

\* Whatever it chooses, a synchronised selection is published.
LEMMA SyncSelects ==
  ASSUME NEW chosen, Sync(chosen), UNCHANGED address
  PROVE  Selection'
  BY DEF Sync, Found, Selection

\* A step that leaves the selection and the addresses alone, and does not take
\* the worker off a restoration.
LEMMA SelectionFrame ==
  ASSUME Selection, UNCHANGED <<rule, address>>, Restoring => Restoring'
  PROVE  Selection'
  BY DEF Selection

\* The worker waits for the rules it replaces in a reload only.
WaitRestores == pc[Worker] = "wait" => task[Worker].kind = "restore"

LEMMA WaitStep == TypeOK /\ WaitRestores /\ [Next]_vars => WaitRestores'
  <1> SUFFICES ASSUME TypeOK, WaitRestores, [Next]_vars PROVE WaitRestores'
    OBVIOUS
  <1>w. Worker \in Threads /\ Worker \notin Rules
    BY TrayAssumption DEF Threads
  <1> USE <1>w DEF WaitRestores, TypeOK
  <1>1. CASE UNCHANGED vars
    BY <1>1 DEF vars
  <1>2. ASSUME NEW r \in Rules \cup {None}, Select(r) PROVE WaitRestores'
    BY <1>2 DEF Select
  <1>3. ASSUME NEW rs \in SUBSET Rules, Reload(rs) PROVE WaitRestores'
    BY <1>3 DEF Reload, Takes, Task
  <1>4. CASE Publish
    BY <1>4 DEF Publish
  <1>5. ASSUME NEW t \in Threads, Quit(t) PROVE WaitRestores'
    BY <1>5 DEF Quit, Takes
  <1>6. CASE LeaveLoop
    BY <1>6, TrayAssumption DEF LeaveLoop, Takes
  <1>7. ASSUME NEW r \in Rules, NEW a \in Addresses, Rebind(r, a) PROVE WaitRestores'
    BY <1>7 DEF Rebind, Takes
  <1>8. ASSUME NEW t \in Threads, Proceed(t) PROVE WaitRestores'
    BY <1>8 DEF Proceed, LockStopped, LockSelect, LockRestore, LockStop, Apply, Paint,
      Remove, Rests
  <1>9. CASE Exited
    BY <1>9 DEF Exited, vars
  <1> QED
    BY <1>1, <1>2, <1>3, <1>4, <1>5, <1>6, <1>7, <1>8, <1>9 DEF Next

LEMMA SelectionStep == TypeOK /\ WaitRestores /\ Selection /\ [Next]_vars => Selection'
  <1> SUFFICES ASSUME TypeOK, WaitRestores, Selection, [Next]_vars PROVE Selection'
    OBVIOUS
  <1>w. Worker \in Threads
    BY DEF Threads
  <1>1. CASE UNCHANGED vars
    BY <1>1 DEF vars, Selection, Restoring
  <1>2. ASSUME NEW r \in Rules \cup {None}, Select(r) PROVE Selection'
    BY <1>2, SelectionFrame DEF Select, Takes, Restoring
  <1>3. ASSUME NEW rs \in SUBSET Rules, Reload(rs) PROVE Selection'
    BY <1>3, SelectionFrame DEF Reload, Takes, Restoring
  <1>4. CASE Publish
    BY <1>4, <1>w DEF Publish, WaitRestores, Restoring, Selection, TypeOK
  <1>5. ASSUME NEW t \in Threads, Quit(t) PROVE Selection'
    BY <1>5, SelectionFrame, <1>w DEF Quit, Takes, Restoring, TypeOK
  <1>6. CASE LeaveLoop
    BY <1>6, SelectionFrame, <1>w DEF LeaveLoop, Takes, Restoring, TypeOK
  <1>7. ASSUME NEW r \in Rules, NEW a \in Addresses, Rebind(r, a) PROVE Selection'
    <2>1. r # Worker
      BY TrayAssumption
    <2>2. Restoring => Restoring'
      BY <1>7, <2>1, <1>w DEF Rebind, Takes, Restoring, TypeOK
    <2>3. rule' = rule /\ address' = [address EXCEPT ![r] = a] /\ a # Off
      BY <1>7, TrayAssumption DEF Rebind
    <2> QED
      BY <2>2, <2>3 DEF Selection, TypeOK
  <1>8. ASSUME NEW t \in Threads, Proceed(t) PROVE Selection'
    <2>1. CASE LockStopped(t)
      BY <2>1, SelectionFrame, <1>w DEF LockStopped, Acquire, Rests, Restoring, TypeOK
    <2>2. CASE LockSelect(t)
      BY <2>2, SyncSelects DEF LockSelect
    <2>3. CASE LockRestore(t)
      BY <2>3, SyncSelects DEF LockRestore
    <2>4. CASE LockStop(t)
      BY <2>4 DEF LockStop, Selection
    <2>5. CASE Apply(t)
      BY <2>5, SelectionFrame, <1>w DEF Apply, Restoring, TypeOK
    <2>6. CASE Paint(t)
      BY <2>6, SelectionFrame, <1>w DEF Paint, Rests, Restoring, TypeOK
    <2>7. CASE Remove(t)
      BY <2>7, SelectionFrame, <1>w DEF Remove, Rests, Restoring, TypeOK
    <2> QED
      BY <1>8, <2>1, <2>2, <2>3, <2>4, <2>5, <2>6, <2>7 DEF Proceed
  <1>9. CASE Exited
    BY <1>9 DEF Exited, vars, Selection, Restoring
  <1> QED
    BY <1>1, <1>2, <1>3, <1>4, <1>5, <1>6, <1>7, <1>8, <1>9 DEF Next

\* After a reload has restored the selection, a selected rule is still
\* published (system_proxy.go:57-66).
THEOREM SelectionIsPublishedTheorem == Spec => []SelectionIsPublished
  <1>1. Init => Selection /\ WaitRestores
    BY DEF Init, Selection, WaitRestores, Threads
  <1>2. TrayInv => TypeOK
    BY DEF TrayInv
  <1>3. Selection => SelectionIsPublished
    BY DEF Selection, Restoring, SelectionIsPublished
  <1> QED
    BY <1>1, <1>2, <1>3, WaitStep, SelectionStep, TrayInvariant, PTL DEF Spec
=============================================================================
