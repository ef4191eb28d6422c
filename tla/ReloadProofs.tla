---------------------------- MODULE ReloadProofs ----------------------------
(***************************************************************************)
(* Proofs about Serve and Reload.  First the calls of Serve, for any       *)
(* number of them, any backoff bounds and any number of failures, and that *)
(* each keeps the promises of Supervision.  Then the reloads, for any      *)
(* rules, addresses, configs, number of reloads and failures: what the app *)
(* serves is what the last valid config asked for, and no rule is served   *)
(* twice or stands in another's way.                                       *)
(***************************************************************************)
EXTENDS Reload, ServeCall, TLAPS

-----------------------------------------------------------------------------
(* The supervision loop.                                                   *)

\* AfterFunc starts its function only when the context is done.
FiringMeansCancelled == \A l \in Loops : watch[l] = "firing" => cancelled[l]

\* The inductive invariant.  WatchBelongsToIteration needs FiringMeansCancelled:
\* stop() leaves a started f alone, and the check that follows must return.
ServeInv ==
    /\ ServeTypeOK
    /\ NoLeak
    /\ WatchBelongsToIteration
    /\ CancelReachesListener
    /\ FiringMeansCancelled

LEMMA LeastInRange ==
    ASSUME NEW x \in Initial .. Maximum
    PROVE  Least(2 * x, Maximum) \in Initial .. Maximum
BY BackoffAssumption DEF Least

LEMMA InitTypeOK == ServeInit => ServeTypeOK
BY BackoffAssumption, FaultsAssumption
DEF ServeInit, ServeTypeOK, Points, Errors, Event, NoEvent

\* What one goroutine does by itself keeps the types.
LEMMA LoopTypeOK ==
    ASSUME ServeTypeOK, NEW l \in Loops,
           Proceed(l) \/ ListenBoth(l) \/ ServeFails(l)
    PROVE  ServeTypeOK'
<1> USE DEF ServeTypeOK, Points, Errors
<1>1. CASE Enter(l)
    BY <1>1 DEF Enter, Goto
<1>2. CASE ListenOK(l)
    BY <1>2, BackoffAssumption DEF ListenOK, Goto
<1>3. CASE ListenFail(l)
    BY <1>3, FaultsAssumption DEF ListenFail, Goto, Fault
<1>4. CASE ListenBoth(l)
    BY <1>4, FaultsAssumption DEF ListenBoth, Goto, Fault
<1>5. CASE Discard(l)
    BY <1>5 DEF Discard, Goto
<1>6. CASE Announce(l)
    BY <1>6 DEF Announce, Goto, Event
<1>7. CASE Watch(l)
    BY <1>7 DEF Watch, Goto
<1>8. CASE Fire(l)
    BY <1>8 DEF Fire
<1>9. CASE ServeClosed(l)
    BY <1>9 DEF ServeClosed, Goto
<1>10. CASE ServeFails(l)
    BY <1>10, FaultsAssumption DEF ServeFails, Goto, Fault
<1>11. CASE Stop(l)
    BY <1>11 DEF Stop, Goto
<1>12. CASE Check(l)
    BY <1>12 DEF Check, Goto
<1>13. CASE Complain(l)
    <2>1. backoff[l] \in Nat
        BY BackoffAssumption
    <2> QED
        BY <1>13, <2>1 DEF Complain, Goto, Event
<1>14. CASE Retry(l)
    <2>1. Least(2 * backoff[l], Maximum) \in Initial .. Maximum
        BY LeastInRange
    <2> QED
        BY <1>14, <2>1 DEF Retry, Goto
<1>15. CASE GiveUp(l)
    BY <1>15 DEF GiveUp, Goto
<1> QED
    BY <1>1, <1>2, <1>3, <1>4, <1>5, <1>6, <1>7, <1>8, <1>9, <1>10, <1>11, <1>12, <1>13, <1>14, <1>15 DEF Proceed

LEMMA StepTypeOK == ServeTypeOK /\ [ServeNext]_serveVars => ServeTypeOK'
<1> SUFFICES ASSUME ServeTypeOK, [ServeNext]_serveVars PROVE ServeTypeOK'
    OBVIOUS
<1>1. CASE UNCHANGED serveVars
    BY <1>1 DEF ServeTypeOK, serveVars, loopVars
<1>2. ASSUME NEW l \in Loops, Start(l) PROVE ServeTypeOK'
    BY <1>2 DEF ServeTypeOK, Points, Start, Goto
<1>3. ASSUME NEW l \in Loops, Cancel(l) PROVE ServeTypeOK'
    BY <1>3 DEF ServeTypeOK, Cancel, CancelAll
<1>4. CASE Terminated
    BY <1>4 DEF ServeTypeOK, Terminated, serveVars, loopVars
<1> QED
    BY <1>1, <1>2, <1>3, <1>4, LoopTypeOK DEF ServeNext

\* Every variable of every call of Serve keeps its type; the waits stay between
\* DefaultListenBackoff and MaxListenBackoff however long an outage lasts.
THEOREM TypeInvariant == ServeSpec => []ServeTypeOK
BY InitTypeOK, StepTypeOK, PTL DEF ServeSpec

-----------------------------------------------------------------------------

LEMMA InitInv == ServeInit => ServeInv
<1> SUFFICES ASSUME ServeInit PROVE ServeInv
    OBVIOUS
<1>1. ServeTypeOK
    BY InitTypeOK
<1>2. NoLeak /\ WatchBelongsToIteration /\ CancelReachesListener /\ FiringMeansCancelled
    BY DEF ServeInit, NoLeak, WatchBelongsToIteration, CancelReachesListener,
           FiringMeansCancelled
<1> QED
    BY <1>1, <1>2 DEF ServeInv

\* What one goroutine does by itself keeps the invariant.
LEMMA LoopInv ==
    ASSUME ServeInv, NEW l \in Loops,
           Proceed(l) \/ ListenBoth(l) \/ ServeFails(l)
    PROVE  ServeInv'
<1> DEFINE Rest == NoLeak /\ WatchBelongsToIteration /\ CancelReachesListener
                   /\ FiringMeansCancelled
<1>t. ServeTypeOK'
    BY LoopTypeOK DEF ServeInv
<1> USE DEF ServeInv, ServeTypeOK, NoLeak, WatchBelongsToIteration, CancelReachesListener,
            FiringMeansCancelled
<1>1. CASE Enter(l)
    <2> Rest'
        BY <1>1 DEF Enter, Goto
    <2> QED
        BY <1>t
<1>2. CASE ListenOK(l)
    <2> Rest'
        BY <1>2 DEF ListenOK, Goto
    <2> QED
        BY <1>t
<1>3. CASE ListenFail(l)
    <2> Rest'
        BY <1>3 DEF ListenFail, Goto
    <2> QED
        BY <1>t
<1>4. CASE ListenBoth(l)
    <2> Rest'
        BY <1>4 DEF ListenBoth, Goto
    <2> QED
        BY <1>t
<1>5. CASE Discard(l)
    <2> Rest'
        BY <1>5 DEF Discard, Goto
    <2> QED
        BY <1>t
<1>6. CASE Announce(l)
    <2> Rest'
        BY <1>6 DEF Announce, Goto
    <2> QED
        BY <1>t
<1>7. CASE Watch(l)
    <2> Rest'
        BY <1>7 DEF Watch, Goto
    <2> QED
        BY <1>t
<1>8. CASE Fire(l)
    <2> Rest'
        BY <1>8 DEF Fire
    <2> QED
        BY <1>t
<1>9. CASE ServeClosed(l)
    <2> Rest'
        BY <1>9 DEF ServeClosed, Goto
    <2> QED
        BY <1>t
<1>10. CASE ServeFails(l)
    <2> Rest'
        BY <1>10 DEF ServeFails, Goto
    <2> QED
        BY <1>t
<1>11. CASE Stop(l)
    <2> Rest'
        BY <1>11 DEF Stop, Goto
    <2> QED
        BY <1>t
<1>12. CASE Check(l)
    <2> Rest'
        BY <1>12 DEF Check, Goto
    <2> QED
        BY <1>t
<1>13. CASE Complain(l)
    <2> Rest'
        BY <1>13 DEF Complain, Goto
    <2> QED
        BY <1>t
<1>14. CASE Retry(l)
    <2> Rest'
        BY <1>14 DEF Retry, Goto
    <2> QED
        BY <1>t
<1>15. CASE GiveUp(l)
    <2> Rest'
        BY <1>15 DEF GiveUp, Goto
    <2> QED
        BY <1>t
<1> QED
    BY <1>1, <1>2, <1>3, <1>4, <1>5, <1>6, <1>7, <1>8, <1>9, <1>10, <1>11, <1>12, <1>13, <1>14, <1>15 DEF Proceed

\* Cancelling any set of contexts keeps the invariant.
LEMMA CancelAllInv ==
    ASSUME ServeInv, NEW ls \in SUBSET Loops, CancelAll(ls),
           UNCHANGED <<pc, sock, attempt, backoff, err, event, faults>>
    PROVE  ServeInv'
<1>1. ServeTypeOK'
    BY DEF ServeInv, ServeTypeOK, CancelAll
<1>2. (NoLeak /\ WatchBelongsToIteration /\ CancelReachesListener /\ FiringMeansCancelled)'
    BY DEF ServeInv, ServeTypeOK, CancelAll, NoLeak, WatchBelongsToIteration,
           CancelReachesListener, FiringMeansCancelled
<1> QED
    BY <1>1, <1>2 DEF ServeInv

LEMMA UnchangedInv == ServeInv /\ UNCHANGED serveVars => ServeInv'
BY DEF ServeInv, ServeTypeOK, NoLeak, WatchBelongsToIteration, CancelReachesListener,
       FiringMeansCancelled, serveVars, loopVars

LEMMA StepInv == ServeInv /\ [ServeNext]_serveVars => ServeInv'
<1> SUFFICES ASSUME ServeInv, [ServeNext]_serveVars PROVE ServeInv'
    OBVIOUS
<1>1. CASE UNCHANGED serveVars
    BY <1>1, UnchangedInv
<1>2. ASSUME NEW l \in Loops, Start(l) PROVE ServeInv'
    <2>1. ServeTypeOK'
        BY <1>2 DEF ServeInv, ServeTypeOK, Points, Start, Goto
    <2>2. (NoLeak /\ WatchBelongsToIteration /\ CancelReachesListener /\ FiringMeansCancelled)'
        BY <1>2 DEF ServeInv, ServeTypeOK, Start, Goto, NoLeak, WatchBelongsToIteration,
                    CancelReachesListener, FiringMeansCancelled
    <2> QED
        BY <2>1, <2>2 DEF ServeInv
<1>3. ASSUME NEW l \in Loops, Cancel(l) PROVE ServeInv'
    BY <1>3, CancelAllInv DEF Cancel
<1>4. CASE Terminated
    BY <1>4, UnchangedInv DEF Terminated
<1> QED
    BY <1>1, <1>2, <1>3, <1>4, LoopInv DEF ServeNext

\* No call of Serve leaks a listener: outside the iteration that opened it, in
\* every wait, and after the return, the listener is closed (serve.go:44-52).
THEOREM NoLeakTheorem == ServeSpec => []NoLeak
<1>1. ServeInv => NoLeak
    BY DEF ServeInv
<1> QED
    BY InitInv, StepInv, <1>1, PTL DEF ServeSpec

\* A listener that is being served is always within reach of a cancellation,
\* whenever it comes relative to AfterFunc (serve.go:43).
THEOREM CancelReachesListenerTheorem == ServeSpec => []CancelReachesListener
<1>1. ServeInv => CancelReachesListener
    BY DEF ServeInv
<1> QED
    BY InitInv, StepInv, <1>1, PTL DEF ServeSpec

\* The AfterFunc of one iteration never meets the listener of another.
THEOREM WatchTheorem == ServeSpec => []WatchBelongsToIteration
<1>1. ServeInv => WatchBelongsToIteration
    BY DEF ServeInv
<1> QED
    BY InitInv, StepInv, <1>1, PTL DEF ServeSpec

\* No listener is left open, and none is closed for another (serve.go:43-52).
THEOREM NoListenerIsLostTheorem == ServeSpec => []NoListenerIsLost
BY NoLeakTheorem, WatchTheorem, CancelReachesListenerTheorem, PTL DEF NoListenerIsLost
-----------------------------------------------------------------------------
(* A call implements Supervision.                                          *)

\* The wait that the next failure of an outage is reported with.
NextWait(e) == IF e.attempt = 0 THEN Initial ELSE Least(2 * e.backoff, Maximum)

\* Where the loop stands, its variables are those of the last event, or ahead of
\* it by the success or the failure that it is about to report.
Counted(l) ==
    /\ pc[l] \in {"idle", "head", "listen", "discard", "watch", "serve", "stop", "check"} =>
         attempt[l] = event[l].attempt /\ backoff[l] = NextWait(event[l])
    /\ pc[l] = "announce" => attempt[l] = 0 /\ backoff[l] = Initial /\ sock[l] = "open"
    /\ pc[l] = "complain" =>
         attempt[l] = event[l].attempt + 1 /\ backoff[l] = NextWait(event[l])
    /\ pc[l] = "wait" =>
         attempt[l] = event[l].attempt /\ attempt[l] # 0 /\ backoff[l] = event[l].backoff

LEMMA InitCounted == ServeInit => Counted(Call)
BY CallAssumption DEF ServeInit, Counted, NextWait, NoEvent

\* The steps of a call keep count.
LEMMA StepCounted ==
    ASSUME ServeInv, Counted(Call), [ServeNext]_serveVars
    PROVE  Counted(Call)'
<1> USE CallAssumption DEF ServeInv, ServeTypeOK, Event
<1>1. CASE UNCHANGED serveVars
    BY <1>1 DEF serveVars, loopVars, Counted, NextWait
<1>2. ASSUME NEW l \in Loops, l # Call,
             Start(l) \/ Cancel(l) \/ Proceed(l) \/ ListenBoth(l) \/ ServeFails(l)
      PROVE  Counted(Call)'
    <2>1. /\ pc'[Call] = pc[Call] /\ sock'[Call] = sock[Call] /\ event'[Call] = event[Call]
          /\ attempt'[Call] = attempt[Call] /\ backoff'[Call] = backoff[Call]
        BY <1>2 DEF Start, Cancel, Proceed, ListenBoth, ServeFails, Enter, ListenOK, ListenFail,
                    Discard, Announce, Watch, Fire, ServeClosed, Stop, Check, Complain, Retry,
                    GiveUp, Goto
    <2> QED
        BY <2>1 DEF Counted, NextWait
<1>3. CASE Start(Call) \/ Cancel(Call) \/ Enter(Call) \/ Discard(Call) \/ Watch(Call)
           \/ ListenFail(Call) \/ ListenBoth(Call) \/ ServeClosed(Call) \/ ServeFails(Call)
           \/ Stop(Call) \/ GiveUp(Call)
    <2>1. UNCHANGED <<attempt, backoff, event>>
        BY <1>3 DEF Start, Cancel, Enter, Discard, Watch, ListenFail, ListenBoth, ServeClosed,
                    ServeFails, Stop, GiveUp
    <2>2. \/ pc'[Call] = pc[Call] /\ sock'[Call] = sock[Call]
          \/ pc'[Call] = "returned"
          \/ /\ pc[Call] \in {"idle", "head", "listen", "discard", "watch", "serve", "stop"}
             /\ pc'[Call] \in {"head", "listen", "discard", "serve", "stop", "check"}
        BY <1>3 DEF Start, Cancel, Enter, Discard, Watch, ListenFail, ListenBoth, ServeClosed,
                    ServeFails, Stop, GiveUp, Goto
    <2> QED
        BY <2>1, <2>2 DEF Counted, NextWait
<1>4. CASE ListenOK(Call)
    BY <1>4 DEF ListenOK, Goto, Counted
<1>5. CASE Announce(Call)
    BY <1>5 DEF Announce, Goto, Counted, NextWait
<1>6. CASE Fire(Call)
    <2>1. pc[Call] # "announce"
        BY <1>6 DEF Fire, WatchBelongsToIteration
    <2> QED
        BY <1>6, <2>1 DEF Fire, Counted, NextWait
<1>7. CASE Check(Call)
    BY <1>7 DEF Check, Goto, Counted, NextWait
<1>8. CASE Complain(Call)
    BY <1>8 DEF Complain, Goto, Counted
<1>9. CASE Retry(Call)
    BY <1>9 DEF Retry, Goto, Counted, NextWait
<1> QED
    BY <1>1, <1>2, <1>3, <1>4, <1>5, <1>6, <1>7, <1>8, <1>9
       DEF ServeNext, Terminated, Proceed

\* A step of the call is one of Supervision, or none that its reader could see.
LEMMA StepKeepsPromise ==
    ASSUME ServeInv, Counted(Call), [ServeNext]_serveVars
    PROVE  [Promise!Next]_(Promise!supervisionVars)
<1> USE CallAssumption DEF ServeInv, ServeTypeOK
<1>1. CASE UNCHANGED serveVars
    BY <1>1 DEF serveVars, loopVars, Promise!supervisionVars
<1>2. ASSUME NEW l \in Loops, l # Call,
             Start(l) \/ Cancel(l) \/ Proceed(l) \/ ListenBoth(l) \/ ServeFails(l)
      PROVE  UNCHANGED Promise!supervisionVars
    <2>1. /\ pc'[Call] = pc[Call] /\ sock'[Call] = sock[Call] /\ event'[Call] = event[Call]
          /\ cancelled'[Call] = cancelled[Call]
        BY <1>2 DEF Start, Cancel, CancelAll, Proceed, ListenBoth, ServeFails, Enter, ListenOK,
                    ListenFail, Discard, Announce, Watch, Fire, ServeClosed, Stop, Check,
                    Complain, Retry, GiveUp, Goto
    <2> QED
        BY <2>1 DEF Promise!supervisionVars
<1>3. CASE Start(Call)
    BY <1>3 DEF Start, Goto, Promise!Begin, Promise!Next
<1>4. CASE Cancel(Call)
    <2>1. cancelled'[Call] = TRUE /\ cancelled[Call] = FALSE /\ pc[Call] # "idle"
          /\ UNCHANGED <<pc, sock, event>>
        BY <1>4 DEF Cancel, CancelAll
    <2> QED
        BY <2>1 DEF Promise!Cancel, Promise!Next
<1>5. CASE Enter(Call) \/ Check(Call) \/ GiveUp(Call)
    <2>1. /\ UNCHANGED <<sock, event, cancelled>> /\ pc[Call] \in {"head", "check", "wait"}
          /\ pc'[Call] \in {"listen", "complain"} \/ (cancelled[Call] /\ pc'[Call] = "returned")
        BY <1>5 DEF Enter, Check, GiveUp, Goto
    <2>2. sock[Call] # "open"
        BY <2>1 DEF NoLeak
    <2>3. CASE pc'[Call] \in {"listen", "complain"}
        BY <2>1, <2>3 DEF Promise!supervisionVars
    <2>4. CASE pc'[Call] = "returned" /\ cancelled[Call]
        BY <2>1, <2>2, <2>4 DEF Promise!End, Promise!Next
    <2> QED
        BY <2>1, <2>3, <2>4
<1>6. CASE ListenOK(Call) \/ ListenBoth(Call)
    <2>1. /\ UNCHANGED <<event, cancelled>> /\ pc[Call] = "listen" /\ sock'[Call] = "open"
          /\ pc'[Call] \in {"announce", "discard"}
        BY <1>6 DEF ListenOK, ListenBoth, Goto
    <2>2. sock[Call] # "open"
        BY <2>1 DEF NoLeak
    <2> QED
        BY <2>1, <2>2 DEF Promise!Acquire, Promise!Next
<1>7. CASE ListenFail(Call) \/ Watch(Call) \/ ServeClosed(Call) \/ ServeFails(Call)
           \/ Retry(Call)
    <2>1. /\ UNCHANGED <<event, cancelled, sock>>
          /\ pc[Call] \in {"listen", "watch", "serve", "wait"}
          /\ pc'[Call] \in {"check", "serve", "stop", "head"}
        BY <1>7 DEF ListenFail, Watch, ServeClosed, ServeFails, Retry, Goto
    <2> QED
        BY <2>1 DEF Promise!supervisionVars
<1>8. CASE Discard(Call) \/ Stop(Call)
    <2>1. /\ UNCHANGED <<event, cancelled>> /\ sock'[Call] = "closed"
          /\ pc[Call] \in {"discard", "stop"} /\ pc'[Call] = "check"
        BY <1>8 DEF Discard, Stop, Goto
    <2> QED
        BY <2>1 DEF Promise!Release, Promise!Next, Promise!supervisionVars
<1>9. CASE Fire(Call)
    <2>1. UNCHANGED <<pc, event, cancelled>> /\ sock'[Call] = "closed"
        BY <1>9 DEF Fire
    <2>2. sock[Call] = "open" => pc[Call] \in {"discard", "announce", "watch", "serve", "stop"}
        BY DEF NoLeak
    <2> QED
        BY <2>1, <2>2 DEF Promise!Release, Promise!Next, Promise!supervisionVars
<1>10. CASE Announce(Call)
    <2>1. /\ UNCHANGED <<sock, cancelled>> /\ pc[Call] = "announce" /\ pc'[Call] = "watch"
          /\ Told(event'[Call]) = [addr |-> TRUE, attempt |-> 0, backoff |-> 0]
        BY <1>10 DEF Announce, Goto, Told
    <2>2. sock[Call] = "open"
        BY <2>1 DEF Counted
    <2> QED
        BY <2>1, <2>2 DEF Promise!AnnounceAddress, Promise!Next
<1>11. CASE Complain(Call)
    <2>1. /\ UNCHANGED <<sock, cancelled>> /\ pc[Call] = "complain" /\ pc'[Call] = "wait"
          /\ Told(event'[Call]) = [addr |-> FALSE, attempt |-> attempt[Call],
                                   backoff |-> backoff[Call]]
        BY <1>11 DEF Complain, Goto, Told
    <2>2. sock[Call] # "open"
        BY <2>1 DEF NoLeak
    <2>3. /\ attempt[Call] = Told(event[Call]).attempt + 1
          /\ backoff[Call] = Promise!Delay
        BY <2>1 DEF Counted, NextWait, Told, Least, Promise!Delay
    <2>4. Promise!ReportFailure
        BY <2>1, <2>2, <2>3 DEF Promise!ReportFailure
    <2> QED
        BY <2>4 DEF Promise!Next
<1> QED
    BY <1>1, <1>2, <1>3, <1>4, <1>5, <1>6, <1>7, <1>8, <1>9, <1>10, <1>11
       DEF ServeNext, Terminated, Proceed

\* Whatever fails and whenever it is cancelled, a call announces an address only
\* while it holds a listener, counts the failures since the last announcement, with
\* the doubled wait, and ends only when cancelled, holding nothing (serve.go:25-70).
THEOREM SupervisionTheorem == ServeSpec => Promise!Safety
<1>1. ASSUME ServeInit PROVE Promise!Init
    <2>1. /\ pc[Call] = "idle" /\ cancelled[Call] = FALSE /\ sock[Call] = "none"
          /\ Told(event[Call]) = [addr |-> FALSE, attempt |-> 0, backoff |-> 0]
        BY <1>1, CallAssumption DEF ServeInit, NoEvent, Told
    <2>2. (sock[Call] = "open") = FALSE
        BY <2>1
    <2> QED
        BY <2>1, <2>2 DEF Promise!Init
<1>2. ServeInv /\ Counted(Call) /\ [ServeNext]_serveVars => Counted(Call)'
    BY StepCounted
<1>3. ServeInv /\ Counted(Call) /\ [ServeNext]_serveVars
        => [Promise!Next]_(Promise!supervisionVars)
    BY StepKeepsPromise
<1> QED
    BY InitInv, StepInv, InitCounted, <1>1, <1>2, <1>3, PTL DEF ServeSpec, Promise!Safety

-----------------------------------------------------------------------------
(* The reloads.                                                            *)

\* The inductive invariant: that of every loop, the types, and who owns the
\* loops, what they are for and what is shown of them.
ReloadInv == ServeInv /\ TypeOK /\ Ownership /\ Applied /\ Published

-----------------------------------------------------------------------------

LEMMA InitReloadInv == ReloadInit => ReloadInv
<1> SUFFICES ASSUME ReloadInit PROVE ReloadInv
    OBVIOUS
<1>1. ServeInv
    BY InitInv DEF ReloadInit
<1>2. TypeOK
    BY <1>1, ReloadAssumption DEF ServeInv, ReloadInit, Unseen, TypeOK, WebState
<1>3. Ownership
    BY DEF ReloadInit, ServeInit, Ownership, Alive
<1>4. Applied
    BY DEF ReloadInit, ServeInit, Applied, Alive
<1>5. Published
    BY DEF ReloadInit, Published
<1> QED
    BY <1>1, <1>2, <1>3, <1>4, <1>5 DEF ReloadInv

\* A loop of a rule neither begins nor comes back to life by itself.
LEMMA LoopFrame ==
    ASSUME ServeTypeOK, NEW l \in Loops,
           Proceed(l) \/ ServeFails(l)
    PROVE  \A k \in Loops : /\ pc'[k] = "idle" <=> pc[k] = "idle"
                            /\ Alive(k)' => Alive(k)
BY DEF ServeTypeOK, Points, Alive, Proceed, Goto, Enter, ListenOK, ListenFail,
    Discard, Announce, Watch, Fire, ServeClosed, ServeFails, Stop, Check, Complain, Retry,
    GiveUp

\* The three parts about the tables need only that frame.
LEMMA TablesFrame ==
    ASSUME ReloadInv,
           \A k \in Loops : /\ pc'[k] = "idle" <=> pc[k] = "idle"
                            /\ Alive(k)' => Alive(k),
           UNCHANGED <<tableVars, workerVars>>
    PROVE  Ownership' /\ Applied' /\ Published'
<1> USE DEF ReloadInv, tableVars, workerVars
<1>1. Ownership'
    BY DEF Ownership, TypeOK
<1>2. Applied'
    BY DEF Applied, Valid
<1>3. Published'
    BY DEF Published
<1> QED
    BY <1>1, <1>2, <1>3

\* The types of what ruleState publishes about its rule.
StateTypes ==
    /\ running \in [Loops -> BOOLEAN]
    /\ failed \in [Loops -> BOOLEAN]
    /\ first \in [Loops -> {"empty", "ok", "failed"}]

LEMMA RuleStep ==
    ASSUME ReloadInv, NEW l \in Loops, RuleProceeds(l) \/ RuleBreaks(l)
    PROVE  ReloadInv'
<1>1. Proceed(l) \/ ServeFails(l)
    BY DEF RuleProceeds, RuleBreaks, Silent, ReportAddress, ReportFailure, Proceed
<1>2. ServeInv'
    BY <1>1, LoopInv DEF ReloadInv
<1>3. TypeOK'
    <2>1. StateTypes
        BY DEF ReloadInv, TypeOK, StateTypes
    <2>2. StateTypes'
        <3>1. UNCHANGED stateVars => StateTypes'
            BY <2>1 DEF StateTypes, stateVars
        <3>2. ReportAddress(l) => StateTypes'
            BY <2>1 DEF StateTypes, ReportAddress, Deliver
        <3>3. ReportFailure(l) => StateTypes'
            <4>1. CASE Suppressed(l)
                BY <3>1, <4>1 DEF ReportFailure
            <4>2. CASE ~Suppressed(l)
                BY <2>1, <4>2 DEF ReportFailure, StateTypes, Deliver
            <4> QED
                BY <4>1, <4>2
        <3> QED
            BY <3>1, <3>2, <3>3 DEF RuleProceeds, RuleBreaks, Silent
    <2>3. UNCHANGED <<tableVars, userVars, workerVars, root, web, leaving, stopper>>
        BY DEF RuleProceeds, RuleBreaks
    <2>4. ServeTypeOK'
        BY <1>2 DEF ServeInv
    <2> QED
        BY <2>2, <2>3, <2>4 DEF ReloadInv, TypeOK, StateTypes, tableVars, userVars,
            workerVars
<1>4. Ownership' /\ Applied' /\ Published'
    <2>1. \A k \in Loops : /\ pc'[k] = "idle" <=> pc[k] = "idle"
                           /\ Alive(k)' => Alive(k)
        BY <1>1, LoopFrame DEF ReloadInv, TypeOK
    <2> QED
        BY <2>1, TablesFrame DEF RuleProceeds, RuleBreaks
<1> QED
    BY <1>2, <1>3, <1>4 DEF ReloadInv

\* A failure of the environment changes nothing in the loops but the bound.
LEMMA FaultInv ==
    ASSUME ServeInv, UNCHANGED <<loopVars, cancelled>>, Fault \/ UNCHANGED faults
    PROVE  ServeInv'
BY FaultsAssumption DEF ServeInv, ServeTypeOK, NoLeak, WatchBelongsToIteration,
    CancelReachesListener, FiringMeansCancelled, loopVars, Fault

LEMMA WebBreaksStep ==
    ASSUME ReloadInv, WebBreaks
    PROVE  ReloadInv'
<1>1. ServeInv'
    BY FaultInv DEF ReloadInv, WebBreaks
<1>2. TypeOK'
    <2>1. web \in WebState /\ leaving \subseteq Nat
        BY DEF ReloadInv, TypeOK
    <2>2. web' \in WebState /\ leaving' \subseteq Nat
        BY <2>1 DEF WebBreaks, WebState
    <2> QED
        BY <1>1, <2>2, ReloadAssumption DEF ReloadInv, ServeInv, TypeOK, WebBreaks,
            serveVars, loopVars, stateVars, tableVars, userVars, workerVars
<1>3. Ownership' /\ Applied' /\ Published'
    BY TablesFrame DEF WebBreaks, serveVars, loopVars, Alive
<1> QED
    BY <1>1, <1>2, <1>3 DEF ReloadInv

LEMMA WebLeavesStep ==
    ASSUME ReloadInv, NEW s \in leaving, WebLeaves(s)
    PROVE  ReloadInv'
<1>1. ServeInv'
    BY UnchangedInv DEF ReloadInv, WebLeaves
<1>2. TypeOK'
    BY <1>1, ReloadAssumption DEF ReloadInv, ServeInv, TypeOK, Ownership, Applied,
        WebLeaves, WebState, Configs, Definitions, serveVars, loopVars, stateVars,
        tableVars, userVars, workerVars
<1>3. Ownership' /\ Applied' /\ Published'
    BY TablesFrame DEF WebLeaves, serveVars, loopVars, Alive
<1> QED
    BY <1>1, <1>2, <1>3 DEF ReloadInv

LEMMA SaveStep ==
    ASSUME ReloadInv, NEW c \in Stored, Save(c)
    PROVE  ReloadInv'
<1>1. ServeInv'
    BY UnchangedInv DEF ReloadInv, Save
<1>2. TypeOK'
    BY <1>1, ReloadAssumption DEF ReloadInv, ServeInv, TypeOK, Ownership, Applied,
        Save, WebState, Configs, Definitions, serveVars, loopVars, stateVars, tableVars,
        userVars, workerVars
<1>3. Ownership' /\ Applied' /\ Published'
    BY TablesFrame DEF Save, serveVars, loopVars, Alive
<1> QED
    BY <1>1, <1>2, <1>3 DEF ReloadInv

LEMMA RequestStep ==
    ASSUME ReloadInv, NEW c \in Callers, Request(c)
    PROVE  ReloadInv'
<1>1. ServeInv'
    BY UnchangedInv DEF ReloadInv, Request
<1>2. TypeOK'
    BY <1>1, ReloadAssumption DEF ReloadInv, ServeInv, TypeOK, Ownership, Applied,
        Request, WebState, Configs, Definitions, serveVars, loopVars, stateVars,
        tableVars, userVars, workerVars
<1>3. Ownership' /\ Applied' /\ Published'
    BY TablesFrame DEF Request, serveVars, loopVars, Alive
<1> QED
    BY <1>1, <1>2, <1>3 DEF ReloadInv

LEMMA TakeStep ==
    ASSUME ReloadInv, NEW c \in Callers, Take(c)
    PROVE  ReloadInv'
<1>1. ServeInv'
    BY UnchangedInv DEF ReloadInv, Take
<1>2. TypeOK'
    BY <1>1, ReloadAssumption DEF ReloadInv, ServeInv, TypeOK, Ownership, Applied,
        Take, WebState, Configs, Definitions, serveVars, loopVars, stateVars, tableVars,
        userVars, workerVars
<1>3. Ownership'
    BY ReloadAssumption DEF ReloadInv, Ownership, TypeOK, Take, Alive, serveVars,
        loopVars, tableVars, workerVars
<1>4. Applied'
    BY ReloadAssumption DEF ReloadInv, Applied, Ownership, TypeOK, Take, Alive,
        serveVars, loopVars, tableVars, workerVars
<1>5. Published'
    BY ReloadAssumption DEF ReloadInv, Published, Ownership, Applied, TypeOK, Take,
        Alive, serveVars, loopVars, tableVars, workerVars
<1> QED
    BY <1>1, <1>2, <1>3, <1>4, <1>5 DEF ReloadInv

LEMMA LoadInvalidStep ==
    ASSUME ReloadInv, LoadInvalid
    PROVE  ReloadInv'
<1>1. ServeInv'
    BY UnchangedInv DEF ReloadInv, LoadInvalid
<1>2. TypeOK'
    BY <1>1, ReloadAssumption DEF ReloadInv, ServeInv, TypeOK, Ownership, Applied,
        LoadInvalid, WebState, Configs, Definitions, serveVars, loopVars, stateVars,
        tableVars, userVars, workerVars
<1>3. Ownership'
    BY ReloadAssumption DEF ReloadInv, Ownership, TypeOK, LoadInvalid, Alive,
        serveVars, loopVars, tableVars, workerVars
<1>4. Applied'
    BY ReloadAssumption DEF ReloadInv, Applied, Ownership, TypeOK, LoadInvalid, Alive,
        serveVars, loopVars, tableVars, workerVars
<1>5. Published'
    BY ReloadAssumption DEF ReloadInv, Published, Ownership, Applied, TypeOK,
        LoadInvalid, Alive, serveVars, loopVars, tableVars, workerVars
<1> QED
    BY <1>1, <1>2, <1>3, <1>4, <1>5 DEF ReloadInv

LEMMA LoadValidStep ==
    ASSUME ReloadInv, LoadValid
    PROVE  ReloadInv'
<1>1. ServeInv'
    BY UnchangedInv DEF ReloadInv, LoadValid
<1>2. TypeOK'
    <2>1. web \in WebState /\ leaving \subseteq Nat /\ stored.web \in Ports
        BY ReloadAssumption DEF ReloadInv, TypeOK, Configs
    <2>2. web' \in WebState /\ leaving' \subseteq Nat
        BY <2>1 DEF LoadValid, WebState
    <2> QED
        BY <1>1, <2>2, ReloadAssumption DEF ReloadInv, ServeInv, TypeOK, LoadValid,
            serveVars, loopVars, stateVars, tableVars, userVars, workerVars
<1>3. Ownership'
    BY ReloadAssumption DEF ReloadInv, Ownership, TypeOK, LoadValid, Alive, serveVars,
        loopVars, tableVars, workerVars
<1>4. Applied'
    BY ReloadAssumption DEF ReloadInv, Applied, Ownership, TypeOK, LoadValid, Alive,
        serveVars, loopVars, tableVars, workerVars
<1>5. Published'
    BY ReloadAssumption DEF ReloadInv, Published, Ownership, Applied, TypeOK,
        LoadValid, Alive, serveVars, loopVars, tableVars, workerVars
<1> QED
    BY <1>1, <1>2, <1>3, <1>4, <1>5 DEF ReloadInv

LEMMA WebListensStep ==
    ASSUME ReloadInv, WebListens
    PROVE  ReloadInv'
<1>1. ServeInv'
    BY UnchangedInv DEF ReloadInv, WebListens
<1>2. TypeOK'
    <2>1. web \in WebState
        BY DEF ReloadInv, TypeOK
    <2>2. web.made + 1 \in Nat
        BY <2>1 DEF WebState
    <2>3. web' \in WebState
        BY <2>1, <2>2 DEF WebListens, WebState
    <2> QED
        BY <1>1, <2>3, ReloadAssumption DEF ReloadInv, ServeInv, TypeOK, WebListens,
            serveVars, loopVars, stateVars, tableVars, userVars, workerVars
<1>3. Ownership'
    BY ReloadAssumption DEF ReloadInv, Ownership, TypeOK, WebListens, Alive,
        serveVars, loopVars, tableVars, workerVars
<1>4. Applied'
    BY ReloadAssumption DEF ReloadInv, Applied, Ownership, TypeOK, WebListens, Alive,
        serveVars, loopVars, tableVars, workerVars
<1>5. Published'
    BY ReloadAssumption DEF ReloadInv, Published, Ownership, Applied, TypeOK,
        WebListens, Alive, serveVars, loopVars, tableVars, workerVars
<1> QED
    BY <1>1, <1>2, <1>3, <1>4, <1>5 DEF ReloadInv

LEMMA WebListenFailsStep ==
    ASSUME ReloadInv, WebListenFails
    PROVE  ReloadInv'
<1>1. ServeInv'
    BY FaultInv DEF ReloadInv, WebListenFails
<1>2. TypeOK'
    BY <1>1, ReloadAssumption DEF ReloadInv, ServeInv, TypeOK, Ownership, Applied,
        WebListenFails, WebState, Configs, Definitions, serveVars, loopVars, stateVars,
        tableVars, userVars, workerVars
<1>3. Ownership'
    BY ReloadAssumption DEF ReloadInv, Ownership, TypeOK, WebListenFails, Alive,
        serveVars, loopVars, tableVars, workerVars
<1>4. Applied'
    BY ReloadAssumption DEF ReloadInv, Applied, Ownership, TypeOK, WebListenFails,
        Alive, serveVars, loopVars, tableVars, workerVars
<1>5. Published'
    BY ReloadAssumption DEF ReloadInv, Published, Ownership, Applied, TypeOK,
        WebListenFails, Alive, serveVars, loopVars, tableVars, workerVars
<1> QED
    BY <1>1, <1>2, <1>3, <1>4, <1>5 DEF ReloadInv

LEMMA ReadRunningStep ==
    ASSUME ReloadInv, NEW r \in Rules, ReadRunning(r)
    PROVE  ReloadInv'
<1>1. ServeInv'
    BY UnchangedInv DEF ReloadInv, ReadRunning
<1>2. TypeOK'
    <2>1. running[runtimes[r]] \in BOOLEAN
        BY DEF ReloadInv, TypeOK, Ownership, ReadRunning
    <2>2. seen' \in [rule : Rules \cup {None}, running : BOOLEAN]
        BY <2>1 DEF ReadRunning
    <2> QED
        BY <1>1, <2>2 DEF ReloadInv, ServeInv, TypeOK, ReadRunning, serveVars, loopVars,
            stateVars, tableVars, userVars
<1>3. Ownership'
    BY DEF ReloadInv, Ownership, TypeOK, ReadRunning, Alive, serveVars, loopVars, tableVars
<1>4. Applied'
    BY DEF ReloadInv, Applied, Valid, ReadRunning, Alive, serveVars, loopVars, tableVars
<1>5. Published'
    BY DEF ReloadInv, Published, ReadRunning, tableVars
<1> QED
    BY <1>1, <1>2, <1>3, <1>4, <1>5 DEF ReloadInv

LEMMA KeepRuleStep ==
    ASSUME ReloadInv, NEW r \in Rules, KeepRule(r)
    PROVE  ReloadInv'
<1>1. ServeInv'
    BY UnchangedInv DEF ReloadInv, KeepRule
<1>2. TypeOK'
    BY <1>1, ReloadAssumption DEF ReloadInv, ServeInv, TypeOK, Ownership, Applied,
        KeepRule, Unseen, WebState, Configs, Definitions, serveVars, loopVars, stateVars,
        tableVars, userVars, workerVars
<1>3. Ownership'
    BY ReloadAssumption DEF ReloadInv, Ownership, TypeOK, KeepRule, Alive, serveVars,
        loopVars, tableVars, workerVars
<1>4. Applied'
    <2>1. \A k \in Loops : Alive(k)' <=> Alive(k)
        BY DEF KeepRule, serveVars, loopVars, Alive
    <2>2. /\ UNCHANGED <<loaded, def, runtimes>> /\ todo' = todo \ {r}
          /\ wpc = "compare" /\ wpc' = "stale"
        BY DEF KeepRule, tableVars
    <2>3. def[runtimes[r]] = loaded.rule[r]
        BY DEF KeepRule, Survives
    <2> QED
        BY <2>1, <2>2, <2>3 DEF ReloadInv, Applied, Valid
<1>5. Published'
    BY ReloadAssumption DEF ReloadInv, Published, Ownership, Applied, TypeOK,
        KeepRule, Alive, serveVars, loopVars, tableVars, workerVars
<1> QED
    BY <1>1, <1>2, <1>3, <1>4, <1>5 DEF ReloadInv

LEMMA StopRuleStep ==
    ASSUME ReloadInv, NEW r \in Rules, StopRule(r)
    PROVE  ReloadInv'
<1>1. ServeInv'
    BY CancelAllInv DEF ReloadInv, StopRule, Ownership, TypeOK
<1>2. TypeOK'
    BY <1>1, ReloadAssumption DEF ReloadInv, ServeInv, TypeOK, Ownership, Applied,
        StopRule, Unseen, WebState, Configs, Definitions, serveVars, loopVars, stateVars,
        tableVars, userVars, workerVars
<1>3. Ownership'
    BY ReloadAssumption DEF ReloadInv, Ownership, TypeOK, StopRule, Alive, serveVars,
        loopVars, tableVars, workerVars
<1>4. Applied'
    BY ReloadAssumption DEF ReloadInv, Applied, Ownership, TypeOK, StopRule, Alive,
        serveVars, loopVars, tableVars, workerVars
<1>5. Published'
    BY ReloadAssumption DEF ReloadInv, Published, Ownership, Applied, TypeOK,
        StopRule, Alive, serveVars, loopVars, tableVars, workerVars
<1> QED
    BY <1>1, <1>2, <1>3, <1>4, <1>5 DEF ReloadInv

LEMMA SyncRulesStep ==
    ASSUME ReloadInv, SyncRules
    PROVE  ReloadInv'
<1>1. ServeInv'
    BY UnchangedInv DEF ReloadInv, SyncRules
<1>2. TypeOK'
    <2>1. runtimes \in [Rules -> Loops \cup {None}] /\ todo' \subseteq Rules
        BY DEF ReloadInv, TypeOK, SyncRules, Synced, Enabled
    <2>2. published' \in [Rules -> Loops \cup {None, Pending}]
        BY <2>1 DEF SyncRules, Synced
    <2> QED
        BY <1>1, <2>1, <2>2 DEF ReloadInv, ServeInv, TypeOK, SyncRules, Synced, serveVars,
            loopVars, stateVars, tableVars, userVars, workerVars
<1>3. Ownership'
    <2>1. \A k \in Loops : Alive(k)' <=> Alive(k)
        BY DEF SyncRules, serveVars, loopVars, Alive
    <2>2. \A k \in stopping : ~Alive(k)
        BY DEF SyncRules, Alive
    <2>3. UNCHANGED <<pc, owner, def, runtimes, loaded, fresh, awaited>>
        BY DEF SyncRules, serveVars, loopVars
    <2>4. stopping' = {} /\ wpc' = "start"
          /\ todo' = {r \in Enabled(loaded) : runtimes[r] = None}
        BY DEF SyncRules
    <2> QED
        BY <2>1, <2>2, <2>3, <2>4 DEF ReloadInv, Ownership, Enabled
<1>4. Applied'
    BY ReloadAssumption DEF ReloadInv, Applied, Ownership, TypeOK, SyncRules, Synced, Alive,
        serveVars, loopVars, tableVars, workerVars
<1>5. Published'
    <2>1. todo = {} /\ wpc = "stale" /\ wpc' = "start"
          /\ todo' = {r \in Enabled(loaded) : runtimes[r] = None}
          /\ UNCHANGED <<runtimes, owner, def, loaded>>
        BY DEF SyncRules, Synced
    <2>2. \A r \in Rules : published'[r] = IF r \notin Enabled(loaded) THEN None
                                           ELSE IF runtimes[r] # None THEN runtimes[r]
                                           ELSE Pending
        BY DEF SyncRules, Synced
    <2>3. ASSUME NEW r \in Rules, runtimes[r] # None PROVE loaded.rule[r] # None
        <3>1. runtimes[r] \in Loops /\ owner[runtimes[r]] = r
            BY <2>3 DEF ReloadInv, TypeOK, Ownership
        <3>2. def[runtimes[r]] # None
            BY <3>1, ReloadAssumption DEF ReloadInv, Ownership
        <3>3. def[runtimes[r]] = loaded.rule[r]
            BY <2>1, <2>3 DEF ReloadInv, Applied
        <3> QED
            BY <3>2, <3>3
    <2> QED
        BY <2>1, <2>2, <2>3 DEF ReloadInv, Published, Applied, Enabled
<1> QED
    BY <1>1, <1>2, <1>3, <1>4, <1>5 DEF ReloadInv

LEMMA StartRuleStep ==
    ASSUME ReloadInv, NEW r \in Rules, StartRule(r)
    PROVE  ReloadInv'
<1> DEFINE l == NextLoop
<1>0. l \in Loops /\ owner[l] = None /\ pc[l] = "idle" /\ runtimes[r] = None
      /\ loaded \in Configs /\ loaded.rule[r] \in Definitions
      /\ wpc = "start" /\ r \in todo /\ stopping = {}
    <2>1. l \in Unused
        BY DEF StartRule, NextLoop
    <2>2. wpc = "start" /\ r \in todo
        BY DEF StartRule
    <2>3. loaded \in Configs /\ loaded.rule[r] # None
        BY <2>2, ReloadAssumption DEF ReloadInv, TypeOK, Ownership, Applied
    <2> QED
        BY <2>1, <2>2, <2>3 DEF Unused, ReloadInv, Ownership, Configs
<1>1. /\ owner' = [owner EXCEPT ![l] = r]
      /\ def' = [def EXCEPT ![l] = loaded.rule[r]]
      /\ runtimes' = [runtimes EXCEPT ![r] = l]
      /\ published' = [published EXCEPT ![r] = l]
      /\ todo' = todo \ {r}
      /\ fresh' = fresh \cup {l}
      /\ UNCHANGED <<wpc, loaded, stopping, awaited>>
    BY DEF StartRule, workerVars
<1>2. \E at \in {"head", "returned"}, gone \in BOOLEAN :
         /\ pc' = [pc EXCEPT ![l] = at]
         /\ cancelled' = [cancelled EXCEPT ![l] = gone]
         /\ gone \/ at = "head"
    BY DEF StartRule, BornCancelled, Goto
<1>3. UNCHANGED <<sock, watch, attempt, backoff, err, event, faults>>
    BY DEF StartRule
<1>4. ServeInv'
    <2>1. ServeTypeOK'
        BY <1>0, <1>2, <1>3 DEF ReloadInv, ServeInv, ServeTypeOK, Points
    <2>2. (NoLeak /\ WatchBelongsToIteration /\ CancelReachesListener /\ FiringMeansCancelled)'
        BY <1>0, <1>2, <1>3 DEF ReloadInv, ServeInv, ServeTypeOK, NoLeak,
            WatchBelongsToIteration, CancelReachesListener, FiringMeansCancelled
    <2> QED
        BY <2>1, <2>2 DEF ServeInv
<1>5. TypeOK'
    <2>1. /\ owner' \in [Loops -> Rules \cup {None}]
          /\ def' \in [Loops -> Definitions \cup {None}]
          /\ runtimes' \in [Rules -> Loops \cup {None}]
          /\ published' \in [Rules -> Loops \cup {None, Pending}]
          /\ todo' \subseteq Rules
          /\ fresh' \subseteq Loops
        BY <1>0, <1>1 DEF ReloadInv, TypeOK
    <2>2. failed' \in [Loops -> BOOLEAN] /\ first' \in [Loops -> {"empty", "ok", "failed"}]
        BY <1>0 DEF ReloadInv, TypeOK, StartRule, BornCancelled, Deliver
    <2> QED
        BY <1>4, <2>1, <2>2 DEF ReloadInv, ServeInv, TypeOK, StartRule, BornCancelled, userVars
<1>6. \A k \in Loops : k # l => (Alive(k)' <=> Alive(k))
    BY <1>2 DEF Alive, ReloadInv, TypeOK, ServeTypeOK
<1>7. Ownership'
    <2>1. \A k \in Loops : k # l => owner'[k] = owner[k] /\ def'[k] = def[k] /\ pc'[k] = pc[k]
        BY <1>1, <1>2 DEF ReloadInv, TypeOK, ServeTypeOK
    <2>2. owner'[l] = r /\ def'[l] = loaded.rule[r] /\ pc'[l] # "idle"
        BY <1>0, <1>1, <1>2 DEF ReloadInv, TypeOK, ServeTypeOK
    <2>3. \A s \in Rules : runtimes'[s] = IF s = r THEN l ELSE runtimes[s]
        BY <1>1 DEF ReloadInv, TypeOK
    <2>4. loaded.rule[r] # None /\ r # None /\ l # None
        BY <1>0, ReloadAssumption
    <2>5. \A k \in Loops : /\ pc'[k] = "idle" <=> owner'[k] = None
                           /\ owner'[k] # None => def'[k] # None
        BY <2>1, <2>2, <2>4 DEF ReloadInv, Ownership
    <2>6. ASSUME NEW s \in Rules, runtimes'[s] # None PROVE owner'[runtimes'[s]] = s
        <3>1. CASE s = r
            BY <3>1, <2>2, <2>3
        <3>2. CASE s # r
            <4>1. runtimes[s] \in Loops /\ owner[runtimes[s]] = s
                BY <2>6, <3>2, <2>3 DEF ReloadInv, TypeOK, Ownership
            <4>2. runtimes[s] # l
                BY <4>1, <1>0, ReloadAssumption
            <4> QED
                BY <4>1, <4>2, <3>2, <2>1, <2>3
        <3> QED
            BY <3>1, <3>2
    <2>7. ASSUME NEW k \in Loops, Alive(k)' PROVE runtimes'[owner'[k]] = k
        <3>1. CASE k = l
            BY <3>1, <2>2, <2>3
        <3>2. CASE k # l
            <4>1. Alive(k) /\ owner'[k] = owner[k]
                BY <2>7, <3>2, <1>6, <2>1
            <4>2. owner[k] \in Rules /\ runtimes[owner[k]] = k
                BY <4>1, <1>0 DEF ReloadInv, TypeOK, Ownership, Alive
            <4>3. owner[k] # r
                BY <4>2, <1>0, ReloadAssumption
            <4> QED
                BY <4>1, <4>2, <4>3, <2>3
        <3> QED
            BY <3>1, <3>2
    <2>8. \A s \in todo' : runtimes'[s] = None /\ loaded.rule[s] # None
        BY <1>0, <1>1, <2>3 DEF ReloadInv, TypeOK, Ownership
    <2>9. \A k \in fresh' \cup awaited' : owner'[k] # None
        BY <1>0, <1>1, <2>1, <2>2, <2>4 DEF ReloadInv, TypeOK, Ownership
    <2> QED
        BY <1>0, <1>1, <2>5, <2>6, <2>7, <2>8, <2>9 DEF Ownership
<1>8. Applied'
    <2>1. \A s \in Rules : runtimes[s] # None => runtimes[s] # l
        BY <1>0, ReloadAssumption DEF ReloadInv, Ownership, TypeOK
    <2>2. \A k \in Loops : def'[k] = IF k = l THEN loaded.rule[r] ELSE def[k]
        BY <1>1 DEF ReloadInv, TypeOK
    <2>3. \A s \in Rules : runtimes'[s] = IF s = r THEN l ELSE runtimes[s]
        BY <1>1 DEF ReloadInv, TypeOK
    <2>4. ASSUME NEW k \in Loops, k # l, Alive(k), def[k].port = loaded.rule[r].port,
                 def[k].port # Elsewhere
          PROVE  FALSE
        <3>1. owner[k] \in Rules /\ runtimes[owner[k]] = k
            BY <1>0, <2>4 DEF ReloadInv, TypeOK, Ownership, Alive
        <3>2. owner[k] # r /\ def[k] = loaded.rule[owner[k]] /\ def[k] # None
            BY <1>0, <3>1, <2>4, ReloadAssumption DEF ReloadInv, Applied, Ownership, Alive
        <3>3. Valid(loaded) /\ loaded.rule[r] # None
            BY <1>0, ReloadAssumption DEF ReloadInv, Applied
        <3> QED
            BY <2>4, <3>1, <3>2, <3>3 DEF Valid
    <2>5. Valid(loaded)'
        BY <1>0, <1>1, ReloadAssumption DEF ReloadInv, Applied, Valid
    <2>6. \A s \in Rules : runtimes'[s] # None => def'[runtimes'[s]] = loaded.rule[s]
        BY <1>0, <2>1, <2>2, <2>3 DEF ReloadInv, Applied, TypeOK
    <2>7. \A k, m \in Loops :
             /\ Alive(k)' /\ Alive(m)'
             /\ def'[k].port = def'[m].port /\ def'[m].port # Elsewhere
             => k = m
        BY <1>6, <2>2, <2>4 DEF ReloadInv, Applied
    <2> QED
        BY <1>0, <1>1, <2>5, <2>6, <2>7, ReloadAssumption DEF ReloadInv, Applied
<1>9. Published'
    <2>1. \A s \in Rules : /\ runtimes'[s] = IF s = r THEN l ELSE runtimes[s]
                           /\ published'[s] = IF s = r THEN l ELSE published[s]
        BY <1>1 DEF ReloadInv, TypeOK
    <2>2. loaded.rule[r] # None /\ l # None /\ loaded # None
        BY <1>0, ReloadAssumption
    <2> QED
        BY <1>0, <1>1, <2>1, <2>2 DEF ReloadInv, Published
<1> QED
    BY <1>4, <1>5, <1>7, <1>8, <1>9 DEF ReloadInv

LEMMA StartsDoneStep ==
    ASSUME ReloadInv, StartsDone
    PROVE  ReloadInv'
<1>1. ServeInv'
    BY UnchangedInv DEF ReloadInv, StartsDone
<1>2. TypeOK'
    BY <1>1, ReloadAssumption DEF ReloadInv, ServeInv, TypeOK, Ownership, Applied,
        StartsDone, WebState, Configs, Definitions, serveVars, loopVars, stateVars,
        tableVars, userVars, workerVars
<1>3. Ownership'
    BY ReloadAssumption DEF ReloadInv, Ownership, TypeOK, StartsDone, Alive,
        serveVars, loopVars, tableVars, workerVars
<1>4. Applied'
    BY ReloadAssumption DEF ReloadInv, Applied, Ownership, TypeOK, StartsDone, Alive,
        serveVars, loopVars, tableVars, workerVars
<1>5. Published'
    BY ReloadAssumption DEF ReloadInv, Published, Ownership, Applied, TypeOK,
        StartsDone, Alive, serveVars, loopVars, tableVars, workerVars
<1> QED
    BY <1>1, <1>2, <1>3, <1>4, <1>5 DEF ReloadInv

LEMMA CollectStep ==
    ASSUME ReloadInv, NEW l \in Loops, Collect(l)
    PROVE  ReloadInv'
<1>1. ServeInv'
    BY UnchangedInv DEF ReloadInv, Collect
<1>2. TypeOK'
    BY <1>1, ReloadAssumption DEF ReloadInv, ServeInv, TypeOK, Ownership, Applied,
        Collect, WebState, Configs, Definitions, serveVars, loopVars, stateVars,
        tableVars, userVars, workerVars
<1>3. Ownership'
    BY ReloadAssumption DEF ReloadInv, Ownership, TypeOK, Collect, Alive, serveVars,
        loopVars, tableVars, workerVars
<1>4. Applied'
    BY ReloadAssumption DEF ReloadInv, Applied, Ownership, TypeOK, Collect, Alive,
        serveVars, loopVars, tableVars, workerVars
<1>5. Published'
    BY ReloadAssumption DEF ReloadInv, Published, Ownership, Applied, TypeOK, Collect,
        Alive, serveVars, loopVars, tableVars, workerVars
<1> QED
    BY <1>1, <1>2, <1>3, <1>4, <1>5 DEF ReloadInv

LEMMA ExpireStep ==
    ASSUME ReloadInv, Expire
    PROVE  ReloadInv'
<1>1. ServeInv'
    BY UnchangedInv DEF ReloadInv, Expire
<1>2. TypeOK'
    BY <1>1, ReloadAssumption DEF ReloadInv, ServeInv, TypeOK, Ownership, Applied,
        Expire, WebState, Configs, Definitions, serveVars, loopVars, stateVars, tableVars,
        userVars, workerVars
<1>3. Ownership'
    BY ReloadAssumption DEF ReloadInv, Ownership, TypeOK, Expire, Alive, serveVars,
        loopVars, tableVars, workerVars
<1>4. Applied'
    BY ReloadAssumption DEF ReloadInv, Applied, Ownership, TypeOK, Expire, Alive,
        serveVars, loopVars, tableVars, workerVars
<1>5. Published'
    BY ReloadAssumption DEF ReloadInv, Published, Ownership, Applied, TypeOK, Expire,
        Alive, serveVars, loopVars, tableVars, workerVars
<1> QED
    BY <1>1, <1>2, <1>3, <1>4, <1>5 DEF ReloadInv

LEMMA ForgoStep ==
    ASSUME ReloadInv, NEW l \in Loops, Forgo(l)
    PROVE  ReloadInv'
<1>1. ServeInv'
    BY UnchangedInv DEF ReloadInv, Forgo
<1>2. TypeOK'
    BY <1>1, ReloadAssumption DEF ReloadInv, ServeInv, TypeOK, Ownership, Applied,
        Forgo, WebState, Configs, Definitions, serveVars, loopVars, stateVars, tableVars,
        userVars, workerVars
<1>3. Ownership'
    BY ReloadAssumption DEF ReloadInv, Ownership, TypeOK, Forgo, Alive, serveVars,
        loopVars, tableVars, workerVars
<1>4. Applied'
    BY ReloadAssumption DEF ReloadInv, Applied, Ownership, TypeOK, Forgo, Alive,
        serveVars, loopVars, tableVars, workerVars
<1>5. Published'
    BY ReloadAssumption DEF ReloadInv, Published, Ownership, Applied, TypeOK, Forgo,
        Alive, serveVars, loopVars, tableVars, workerVars
<1> QED
    BY <1>1, <1>2, <1>3, <1>4, <1>5 DEF ReloadInv

LEMMA FinishStep ==
    ASSUME ReloadInv, Finish
    PROVE  ReloadInv'
<1>1. ServeInv'
    BY UnchangedInv DEF ReloadInv, Finish
<1>2. TypeOK'
    BY <1>1, ReloadAssumption DEF ReloadInv, ServeInv, TypeOK, Ownership, Applied,
        Finish, WebState, Configs, Definitions, serveVars, loopVars, stateVars, tableVars,
        userVars, workerVars
<1>3. Ownership'
    BY ReloadAssumption DEF ReloadInv, Ownership, TypeOK, Finish, Alive, serveVars,
        loopVars, tableVars, workerVars
<1>4. Applied'
    BY ReloadAssumption DEF ReloadInv, Applied, Ownership, TypeOK, Finish, Alive,
        serveVars, loopVars, tableVars, workerVars
<1>5. Published'
    BY ReloadAssumption DEF ReloadInv, Published, Ownership, Applied, TypeOK, Finish,
        Alive, serveVars, loopVars, tableVars, workerVars
<1> QED
    BY <1>1, <1>2, <1>3, <1>4, <1>5 DEF ReloadInv

LEMMA StopReadsStep ==
    ASSUME ReloadInv, NEW s \in Stoppers, StopReads(s)
    PROVE  ReloadInv'
<1>1. ServeInv'
    BY UnchangedInv DEF ReloadInv, StopReads
<1>2. TypeOK'
    BY <1>1, ReloadAssumption DEF ReloadInv, ServeInv, TypeOK, Ownership, Applied,
        StopReads, WebState, Configs, Definitions, serveVars, loopVars, stateVars,
        tableVars, userVars, workerVars
<1>3. Ownership' /\ Applied' /\ Published'
    BY TablesFrame DEF StopReads, serveVars, loopVars, Alive
<1> QED
    BY <1>1, <1>2, <1>3 DEF ReloadInv

LEMMA StopActsStep ==
    ASSUME ReloadInv, NEW s \in Stoppers, StopActs(s)
    PROVE  ReloadInv'
<1>1. ServeInv'
    <2>1. CASE stopper[s].root
        BY <2>1, CancelAllInv DEF ReloadInv, StopActs
    <2>2. CASE ~stopper[s].root
        BY <2>2, UnchangedInv DEF ReloadInv, StopActs, serveVars, loopVars
    <2> QED
        BY <2>1, <2>2
<1>2. TypeOK'
    <2>1. web' \in WebState
        BY ReloadAssumption DEF ReloadInv, TypeOK, Ownership, Applied, StopActs, WebState
    <2> QED
        BY <1>1, <2>1, ReloadAssumption DEF ReloadInv, ServeInv, TypeOK, StopActs,
            serveVars, loopVars, stateVars, tableVars, userVars, workerVars
<1>3. Ownership' /\ Applied' /\ Published'
    BY TablesFrame DEF StopActs, serveVars, loopVars, Alive
<1> QED
    BY <1>1, <1>2, <1>3 DEF ReloadInv

LEMMA StepReloadInv == ReloadInv /\ [Next]_vars => ReloadInv'
<1> SUFFICES ASSUME ReloadInv, [Next]_vars PROVE ReloadInv'
    OBVIOUS
<1>1. CASE UNCHANGED vars
    <2>1. ServeInv'
        BY <1>1, UnchangedInv DEF ReloadInv, vars
    <2>2. TypeOK'
        BY <1>1, <2>1 DEF ReloadInv, ServeInv, TypeOK, vars, stateVars, tableVars,
            userVars, workerVars
    <2>3. Ownership' /\ Applied' /\ Published'
        BY <1>1, TablesFrame DEF vars, serveVars, loopVars, Alive
    <2> QED
        BY <2>1, <2>2, <2>3 DEF ReloadInv
<1>2. CASE WorkerProceeds
    BY <1>2, LoadInvalidStep, LoadValidStep, WebListensStep, WebListenFailsStep,
        ReadRunningStep, KeepRuleStep, StopRuleStep, SyncRulesStep, StartRuleStep, StartsDoneStep,
        CollectStep, ExpireStep, ForgoStep, FinishStep DEF WorkerProceeds
<1> QED
    BY <1>1, <1>2, RuleStep, WebBreaksStep, WebLeavesStep, SaveStep, RequestStep,
        TakeStep, StopReadsStep, StopActsStep DEF Next

THEOREM ReloadInvariant == Spec => []ReloadInv
BY InitReloadInv, StepReloadInv, PTL DEF Spec

\* Every variable keeps its type.
THEOREM ReloadTypeInvariant == Spec => []TypeOK
<1>1. ReloadInv => TypeOK
    BY DEF ReloadInv
<1> QED
    BY ReloadInvariant, <1>1, PTL

\* What the worker keeps agrees with the loops all the time (reload.go:99-195).
THEOREM BookkeepingTheorem == Spec => []Bookkeeping
<1>1. ReloadInv => Bookkeeping
    BY DEF ReloadInv, Bookkeeping
<1> QED
    BY ReloadInvariant, <1>1, PTL

\* No rule is ever served by two goroutines (reload.go:132-134).
THEOREM OneLoopPerRuleTheorem == Spec => []OneLoopPerRule
<1>1. ReloadInv => OneLoopPerRule
    <2> SUFFICES ASSUME ReloadInv, NEW k \in Loops, NEW l \in Loops,
                        owner[k] # None, owner[k] = owner[l], Alive(k), Alive(l)
                 PROVE  k = l
        BY DEF OneLoopPerRule
    <2>1. k \in stopping \/ runtimes[owner[k]] = k
        BY DEF ReloadInv, Ownership
    <2>2. l \in stopping \/ runtimes[owner[l]] = l
        BY DEF ReloadInv, Ownership
    <2> QED
        BY <2>1, <2>2, ReloadAssumption DEF ReloadInv, Ownership
<1> QED
    BY ReloadInvariant, <1>1, PTL

\* No rule finds its address held by another rule (reload.go:57,132-134).
THEOREM NoRuleConflictTheorem == Spec => []NoRuleConflict
<1>1. ReloadInv => NoRuleConflict
    BY DEF ReloadInv, ServeInv, NoLeak, Applied, NoRuleConflict, Alive
<1> QED
    BY ReloadInvariant, <1>1, PTL

\* Between reloads the app runs the last valid config (reload.go:32-35).
THEOREM SettledTheorem == Spec => []SettledMatchesConfig
<1>1. ReloadInv => SettledMatchesConfig
    <2> SUFFICES ASSUME ReloadInv, wpc = "idle", loaded # None
                 PROVE  SettledMatchesConfig
        BY DEF SettledMatchesConfig
    <2>1. \A r \in Rules : IF r \in Enabled(loaded)
                THEN /\ runtimes[r] # None
                     /\ owner[runtimes[r]] = r
                     /\ def[runtimes[r]] = loaded.rule[r]
                     /\ published[r] = runtimes[r]
                ELSE runtimes[r] = None /\ published[r] = None
        BY DEF ReloadInv, Ownership, Applied, Published, Enabled
    <2>2. ASSUME NEW l \in Loops, Alive(l) PROVE \E r \in Rules : runtimes[r] = l
        <3>1. stopping = {} /\ owner[l] \in Rules
            BY <2>2 DEF ReloadInv, TypeOK, Ownership, Alive
        <3> QED
            BY <2>2, <3>1 DEF ReloadInv, Ownership
    <2> QED
        BY <2>1, <2>2 DEF SettledMatchesConfig
<1> QED
    BY ReloadInvariant, <1>1, PTL

\* No reload makes two listeners compete, for a rule or for an address
\* (reload.go:57, 132-134).
THEOREM RulesAreApartTheorem == Spec => []RulesAreApart
BY OneLoopPerRuleTheorem, NoRuleConflictTheorem, PTL DEF RulesAreApart

-----------------------------------------------------------------------------
(* The status of a rule and that of the web UI.                            *)

\* RunningIsTrue, and a loop that nobody has started is not shown.
Shown(l) ==
    /\ pc[l] = "idle" => ~running[l]
    /\ pc[l] \in {"watch", "serve"} => running[l]
    /\ running[l] /\ ~cancelled[l] => pc[l] \in {"watch", "serve", "stop", "check", "complain"}

ShownInv == \A l \in Loops : Shown(l)

\* A context that is done stays done.
LEMMA ShownFrame ==
    ASSUME ShownInv, UNCHANGED <<pc, running>>,
           \A l \in Loops : cancelled[l] => cancelled'[l]
    PROVE  ShownInv'
BY DEF ShownInv, Shown

LEMMA ShownLoop ==
    ASSUME TypeOK, ShownInv, NEW l \in Loops, RuleProceeds(l) \/ RuleBreaks(l)
    PROVE  ShownInv'
<1> USE DEF TypeOK, ServeTypeOK
<1>1. ASSUME NEW k \in Loops, k # l PROVE Shown(k)'
    <2>1. UNCHANGED <<pc[k], running[k], cancelled[k]>>
        BY <1>1 DEF RuleProceeds, RuleBreaks, Silent, ReportAddress, ReportFailure,
            stateVars, Goto, Enter, ListenOK, ListenFail, Announce, Watch, Fire,
            ServeClosed, ServeFails, Stop, Check, Complain, Retry, GiveUp
    <2> QED
        BY <2>1 DEF ShownInv, Shown
<1>2. Shown(l)'
    <2>1. Shown(l)
        BY DEF ShownInv
    <2>2. CASE Silent(l) \/ RuleBreaks(l)
        <3>1. UNCHANGED <<running, cancelled>>
            BY <2>2 DEF Silent, RuleBreaks, stateVars, Enter, ListenOK, ListenFail, Watch,
                Fire, ServeClosed, ServeFails, Stop, Check, Retry, GiveUp
        <3>2. \/ pc'[l] = pc[l]
              \/ pc[l] = "watch" /\ pc'[l] = "serve"
              \/ pc[l] = "serve" /\ pc'[l] = "stop"
              \/ pc[l] = "stop" /\ pc'[l] = "check"
              \/ pc[l] = "check" /\ pc'[l] = "complain"
              \/ pc[l] = "check" /\ pc'[l] = "returned" /\ cancelled[l]
              \/ /\ pc[l] \in {"head", "listen", "wait"}
                 /\ pc'[l] \in {"head", "listen", "announce", "check", "returned"}
            BY <2>2 DEF Silent, RuleBreaks, Goto, Enter, ListenOK, ListenFail, Watch,
                Fire, ServeClosed, ServeFails, Stop, Check, Retry, GiveUp
        <3> QED
            BY <2>1, <3>1, <3>2 DEF Shown
    <2>3. CASE ReportAddress(l)
        BY <2>3 DEF ReportAddress, Announce, Goto, Shown
    <2>4. CASE ReportFailure(l)
        BY <2>1, <2>4 DEF ReportFailure, Complain, Goto, Suppressed, stateVars, Shown
    <2> QED
        BY <2>2, <2>3, <2>4 DEF RuleProceeds
<1> QED
    BY <1>1, <1>2 DEF ShownInv

LEMMA ShownStart ==
    ASSUME ReloadInv, ShownInv, NEW r \in Rules, StartRule(r)
    PROVE  ShownInv'
<1> DEFINE l == NextLoop
<1>1. l \in Loops /\ pc[l] = "idle"
    <2>1. l \in Unused
        BY DEF StartRule, NextLoop
    <2> QED
        BY <2>1 DEF Unused, ReloadInv, Ownership
<1>2. \E at \in {"head", "returned"}, gone \in BOOLEAN :
         /\ pc' = [pc EXCEPT ![l] = at]
         /\ cancelled' = [cancelled EXCEPT ![l] = gone]
    BY DEF StartRule, BornCancelled, Goto
<1>3. running' = running
    BY DEF StartRule
<1> QED
    BY <1>1, <1>2, <1>3 DEF ShownInv, Shown, ReloadInv, TypeOK, ServeTypeOK

LEMMA ShownStep == ReloadInv /\ ShownInv /\ [Next]_vars => ShownInv'
<1> SUFFICES ASSUME ReloadInv, ShownInv, [Next]_vars PROVE ShownInv'
    OBVIOUS
<1>1. ASSUME NEW l \in Loops, RuleProceeds(l) \/ RuleBreaks(l) PROVE ShownInv'
    BY <1>1, ShownLoop DEF ReloadInv
<1>2. ASSUME NEW r \in Rules, StartRule(r) PROVE ShownInv'
    BY <1>2, ShownStart
<1>3. CASE UNCHANGED <<pc, running, cancelled>>
    BY <1>3, ShownFrame
<1>4. ASSUME NEW r \in Rules, StopRule(r) PROVE ShownInv'
    BY <1>4, ShownFrame DEF StopRule, CancelAll, stateVars
<1>5. ASSUME NEW s \in Stoppers, StopActs(s) PROVE ShownInv'
    BY <1>5, ShownFrame DEF StopActs, CancelAll, stateVars
<1>6. CASE WorkerProceeds
    BY <1>2, <1>3, <1>4, <1>6 DEF WorkerProceeds, LoadInvalid, LoadValid, WebListens,
        WebListenFails, ReadRunning, KeepRule, SyncRules, StartsDone, Collect, Expire, Forgo,
        Finish, serveVars, loopVars, stateVars
<1> QED
    BY <1>1, <1>3, <1>5, <1>6 DEF Next, vars, WebBreaks, WebLeaves, Save, Request, Take,
        StopReads, serveVars, loopVars, stateVars

\* What is shown as running has, or just had, its listener (reload.go:197-232).
THEOREM RunningIsTrueTheorem == Spec => []RunningIsTrue
<1>1. ReloadInit => ShownInv
    BY DEF ReloadInit, ServeInit, ShownInv, Shown
<1>2. ShownInv => RunningIsTrue
    BY DEF ShownInv, Shown, RunningIsTrue
<1> QED
    BY <1>1, <1>2, ShownStep, ReloadInvariant, PTL DEF Spec

\* The open web server is the current one, and no goroutine of a server that
\* has failed has that server's number.
WebInv ==
    /\ WebStatusIsTrue
    /\ wpc = "weblisten" => ~web.open
    /\ web.server <= web.made
    /\ \A s \in leaving : s <= web.made
    /\ web.open => web.server \notin leaving

LEMMA WebStep == TypeOK /\ WebInv /\ [Next]_vars => WebInv'
<1> SUFFICES ASSUME TypeOK, WebInv, [Next]_vars PROVE WebInv'
    OBVIOUS
<1>t. /\ web \in WebState
      /\ web.server \in Nat /\ web.made \in Nat /\ leaving \subseteq Nat
    BY DEF TypeOK, WebState
<1> USE DEF WebInv, WebStatusIsTrue
<1>1. CASE UNCHANGED <<web, leaving>> /\ (wpc' = "weblisten" => wpc = "weblisten")
    BY <1>1
<1>2. CASE WebBreaks
    BY <1>2, <1>t DEF WebBreaks, WebState, workerVars
<1>3. ASSUME NEW s \in leaving, WebLeaves(s) PROVE WebInv'
    BY <1>3, <1>t DEF WebLeaves, WebState, workerVars
<1>4. CASE LoadValid
    BY <1>4, <1>t DEF LoadValid, WebState
<1>5. CASE WebListens
    BY <1>5, <1>t DEF WebListens, WebState
<1>6. CASE WebListenFails
    BY <1>6, <1>t DEF WebListenFails, WebState
<1>7. ASSUME NEW s \in Stoppers, StopActs(s) PROVE WebInv'
    BY <1>7, <1>t DEF StopActs, WebState, workerVars
<1>8. CASE WorkerProceeds
    BY <1>1, <1>4, <1>5, <1>6, <1>8 DEF WorkerProceeds, LoadInvalid, ReadRunning, KeepRule,
        StopRule, SyncRules, StartRule, StartsDone, Collect, Expire, Forgo, Finish
<1> QED
    BY <1>1, <1>2, <1>3, <1>7, <1>8 DEF Next, vars, RuleProceeds, RuleBreaks, Save, Request,
        Take, StopReads, workerVars

\* A web server that is listening is shown as such (webui.go:49-65).
THEOREM WebStatusIsTrueTheorem == Spec => []WebStatusIsTrue
<1>1. ReloadInit => WebInv
    BY DEF ReloadInit, WebInv, WebStatusIsTrue
<1>2. ReloadInv => TypeOK
    BY DEF ReloadInv
<1>3. WebInv => WebStatusIsTrue
    BY DEF WebInv
<1> QED
    BY <1>1, <1>2, <1>3, WebStep, ReloadInvariant, PTL DEF Spec

-----------------------------------------------------------------------------
(* What a reload may do in a step.                                         *)

\* As long as the app has not been stopped, the context of a runtime is done
\* only if its rule could not be built.
KeptInv ==
    root # "cancelled" =>
        \A r \in Rules : runtimes[r] # None /\ cancelled[runtimes[r]] =>
            pc[runtimes[r]] = "returned" /\ ~running[runtimes[r]]

LEMMA KeptLoop ==
    ASSUME TypeOK, KeptInv, NEW l \in Loops, RuleProceeds(l) \/ RuleBreaks(l)
    PROVE  KeptInv'
<1> USE DEF TypeOK, ServeTypeOK
<1>1. UNCHANGED <<root, runtimes, cancelled>>
    BY DEF RuleProceeds, RuleBreaks, tableVars, Silent, ReportAddress, ReportFailure, Enter,
        ListenOK, ListenFail, Announce, Watch, Fire, ServeClosed, ServeFails, Stop, Check,
        Complain, Retry, GiveUp
<1>2. ASSUME NEW k \in Loops, pc[k] = "returned", ~running[k]
      PROVE  pc'[k] = "returned" /\ ~running'[k]
    <2>1. CASE Silent(l) \/ RuleBreaks(l)
        BY <1>2, <2>1 DEF Silent, RuleBreaks, stateVars, Goto, Enter, ListenOK, ListenFail,
            Watch, Fire, ServeClosed, ServeFails, Stop, Check, Retry, GiveUp
    <2>2. CASE ReportAddress(l)
        BY <1>2, <2>2 DEF ReportAddress, Announce, Goto
    <2>3. CASE ReportFailure(l)
        BY <1>2, <2>3 DEF ReportFailure, Complain, Goto, stateVars
    <2> QED
        BY <2>1, <2>2, <2>3 DEF RuleProceeds
<1> QED
    BY <1>1, <1>2 DEF KeptInv

LEMMA KeptStart ==
    ASSUME ReloadInv, ShownInv, KeptInv, NEW r \in Rules, StartRule(r)
    PROVE  KeptInv'
<1> DEFINE l == NextLoop
<1>1. l \in Loops /\ owner[l] = None /\ pc[l] = "idle" /\ ~running[l]
    <2>1. l \in Unused
        BY DEF StartRule, NextLoop
    <2> QED
        BY <2>1 DEF Unused, ReloadInv, Ownership, ShownInv, Shown
<1>2. runtimes' = [runtimes EXCEPT ![r] = l] /\ UNCHANGED <<root, running>>
    BY DEF StartRule
<1>3. ASSUME root # "cancelled", cancelled'[l] PROVE pc'[l] = "returned"
    <2>1. CASE loaded.rule[r].rev \in Unbuildable
        BY <1>1, <2>1 DEF StartRule, Goto, ReloadInv, TypeOK, ServeTypeOK
    <2>2. CASE loaded.rule[r].rev \notin Unbuildable
        BY <1>1, <1>3, <2>2 DEF StartRule, BornCancelled, ReloadInv, TypeOK, ServeTypeOK
    <2> QED
        BY <2>1, <2>2
<1>4. \A k \in Loops : k # l => UNCHANGED <<pc[k], cancelled[k]>>
    BY DEF StartRule, Goto, ReloadInv, TypeOK, ServeTypeOK
<1>5. ASSUME NEW s \in Rules, s # r, runtimes[s] # None
      PROVE  runtimes'[s] = runtimes[s] /\ runtimes[s] \in Loops \ {l}
    BY <1>1, <1>2, <1>5, ReloadAssumption DEF ReloadInv, TypeOK, Ownership
<1> QED
    BY <1>1, <1>2, <1>3, <1>4, <1>5 DEF KeptInv, ReloadInv, TypeOK

\* Rules share no runtime: stopping one cancels none of another's.
LEMMA KeptStop ==
    ASSUME ReloadInv, KeptInv, NEW r \in Rules, StopRule(r)
    PROVE  /\ KeptInv'
           /\ \A s \in Rules : s # r /\ runtimes[s] # None =>
                 UNCHANGED <<runtimes[s], cancelled[runtimes[s]]>>
<1>1. r \in todo /\ wpc = "compare" /\ runtimes[r] # None
    BY DEF StopRule, ReloadInv, Ownership
<1>2. /\ runtimes' = [runtimes EXCEPT ![r] = None]
      /\ cancelled' = [k \in Loops |-> cancelled[k] \/ k \in {runtimes[r]}]
      /\ UNCHANGED <<root, pc, running>>
    BY DEF StopRule, CancelAll, stateVars
<1>3. ASSUME NEW s \in Rules, s # r, runtimes[s] # None
      PROVE  runtimes[s] \in Loops /\ runtimes[s] # runtimes[r]
    BY <1>1, <1>3 DEF ReloadInv, TypeOK, Ownership
<1>4. \A s \in Rules : runtimes'[s] = IF s = r THEN None ELSE runtimes[s]
    BY <1>2 DEF ReloadInv, TypeOK
<1>5. \A k \in Loops : k # runtimes[r] => cancelled'[k] = cancelled[k]
    BY <1>2 DEF ReloadInv, TypeOK, ServeTypeOK
<1>6. \A s \in Rules : s # r /\ runtimes[s] # None =>
          UNCHANGED <<runtimes[s], cancelled[runtimes[s]]>>
    BY <1>3, <1>4, <1>5
<1> QED
    BY <1>2, <1>4, <1>6 DEF KeptInv

LEMMA KeptStep == ReloadInv /\ ShownInv /\ KeptInv /\ [Next]_vars => KeptInv'
<1> SUFFICES ASSUME ReloadInv, ShownInv, KeptInv, [Next]_vars PROVE KeptInv'
    OBVIOUS
<1>1. ASSUME NEW l \in Loops, RuleProceeds(l) \/ RuleBreaks(l) PROVE KeptInv'
    BY <1>1, KeptLoop DEF ReloadInv
<1>2. CASE /\ UNCHANGED <<pc, running, cancelled, runtimes>>
           /\ root' = root \/ (root = "unset" /\ root' = "live")
    BY <1>2 DEF KeptInv
<1>3. ASSUME NEW s \in Stoppers, StopActs(s) PROVE KeptInv'
    <2>1. CASE stopper[s].root
        BY <1>3, <2>1 DEF StopActs, KeptInv
    <2>2. CASE ~stopper[s].root
        BY <1>2, <1>3, <2>2 DEF StopActs, stateVars, tableVars
    <2> QED
        BY <2>1, <2>2
<1>4. CASE WorkerProceeds
    BY <1>2, <1>4, KeptStart, KeptStop DEF WorkerProceeds, LoadInvalid, LoadValid,
        WebListens, WebListenFails, ReadRunning, KeepRule, SyncRules, StartsDone, Collect,
        Expire, Forgo, Finish, serveVars, loopVars, stateVars, tableVars
<1> QED
    BY <1>1, <1>2, <1>3, <1>4 DEF Next, vars, WebBreaks, WebLeaves, Save, Request, Take,
        StopReads, serveVars, loopVars, stateVars, tableVars

\* Whether a step stops rule r, or sees it down.
LEMMA RuntimeStays ==
    ASSUME ReloadInv, ShownInv, KeptInv, [Next]_vars, NEW r \in Rules, NEW l,
           l = runtimes[r], wpc \in {"weblisten", "stale", "compare"}, l # None,
           loaded.rule[r] = def[l], pc[l] \in {"watch", "serve"}, root' # "cancelled"
    PROVE  /\ seen' # seen /\ seen'.rule = r => seen'.running
           /\ \/ runtimes'[r] = l /\ ~cancelled'[l]
              \/ seen = [rule |-> r, running |-> FALSE]
<1> DEFINE Reads == seen' # seen /\ seen'.rule = r => seen'.running
           Stays == runtimes'[r] = l /\ ~cancelled'[l]
           WasDown == seen = [rule |-> r, running |-> FALSE]
<1>1. /\ l \in Loops /\ running[l] /\ None \notin Rules
      /\ seen \in [rule : Rules \cup {None}, running : BOOLEAN]
    BY ReloadAssumption DEF ReloadInv, TypeOK, ShownInv, Shown
<1>2. ASSUME NEW k \in Loops, RuleProceeds(k) \/ RuleBreaks(k)
      PROVE  UNCHANGED <<root, runtimes, cancelled, seen>>
    BY <1>2 DEF RuleProceeds, RuleBreaks, tableVars, workerVars, Silent, ReportAddress,
        ReportFailure, Enter, ListenOK, ListenFail, Announce, Watch, Fire, ServeClosed,
        ServeFails, Stop, Check, Complain, Retry, GiveUp
<1>3. ASSUME UNCHANGED <<root, runtimes, cancelled>> PROVE Stays
    BY <1>1, <1>3 DEF KeptInv
<1>4. ASSUME NEW s \in Rules, ReadRunning(s) PROVE Reads /\ Stays
    BY <1>1, <1>3, <1>4 DEF ReadRunning, serveVars, loopVars, tableVars
<1>5. ASSUME NEW s \in Rules, KeepRule(s) PROVE Reads /\ Stays
    BY <1>1, <1>3, <1>5 DEF KeepRule, Unseen, serveVars, loopVars, tableVars
<1>6. ASSUME NEW s \in Rules, StopRule(s) PROVE Reads /\ (Stays \/ WasDown)
    <2>1. Reads
        BY <1>1, <1>6 DEF StopRule, Unseen
    <2>2. CASE s # r
        <3>1. root # "cancelled"
            BY <1>6 DEF StopRule
        <3> QED
            BY <1>1, <1>6, <2>1, <2>2, <3>1, KeptStop DEF KeptInv
    <2>3. CASE s = r
        <3>1. seen.rule = r /\ ~seen.running
            BY <1>6, <2>3 DEF StopRule, Survives
        <3> QED
            BY <1>1, <2>1, <3>1
    <2> QED
        BY <2>1, <2>2, <2>3
<1>7. ASSUME NEW s \in Stoppers, StopActs(s)
      PROVE  UNCHANGED <<root, runtimes, cancelled, seen>>
    BY <1>7 DEF StopActs, tableVars, workerVars
<1>8. CASE UNCHANGED <<root, runtimes, cancelled, seen>>
    BY <1>3, <1>8
<1>9. CASE WorkerProceeds
    BY <1>4, <1>5, <1>6, <1>8, <1>9 DEF WorkerProceeds, LoadInvalid, LoadValid, WebListens,
        WebListenFails, SyncRules, StartRule, StartsDone, Collect, Expire, Forgo, Finish,
        serveVars, loopVars, tableVars
<1> QED
    BY <1>2, <1>7, <1>8, <1>9 DEF Next, vars, WebBreaks, WebLeaves, Save, Request, Take,
        StopReads, serveVars, loopVars, tableVars, workerVars

\* A reload leaves alone a rule that it does not change and that serves, but
\* for one that has come up since the worker looked (reload.go:119-135).
THEOREM UnchangedRulesTheorem == Spec => UnchangedRulesKeepServing
<1>1. ReloadInit => ShownInv /\ KeptInv
    BY DEF ReloadInit, ServeInit, ShownInv, Shown, KeptInv
<1>2. ReloadInv /\ ShownInv /\ KeptInv /\ [Next]_vars =>
         [ \A r \in Rules :
             LET l == runtimes[r] IN
             /\ wpc \in {"weblisten", "stale", "compare"} /\ l # None
             /\ loaded.rule[r] = def[l] /\ pc[l] \in {"watch", "serve"}
             /\ root' # "cancelled"
             => /\ seen' # seen /\ seen'.rule = r => seen'.running
                /\ \/ runtimes'[r] = l /\ ~cancelled'[l]
                   \/ seen = [rule |-> r, running |-> FALSE] ]_vars
    BY RuntimeStays
<1> QED
    BY <1>1, <1>2, ShownStep, KeptStep, ReloadInvariant, PTL
        DEF Spec, UnchangedRulesKeepServing

\* Until its time is up, a reload has counted every rule it started whose
\* result it no longer waits for.
CountedInv ==
    wpc = "collect" =>
        \A l \in fresh : l \in awaited \/ first[l] = "ok" \/ owner[l] \in failures

\* Only the first result of a loop is delivered.
LEMMA FirstStays ==
    ASSUME TypeOK, NEW l \in Loops, RuleProceeds(l) \/ RuleBreaks(l), NEW k \in Loops,
           first[k] = "ok"
    PROVE  first'[k] = "ok"
<1>1. CASE UNCHANGED stateVars
    BY <1>1 DEF stateVars
<1>2. CASE ~UNCHANGED stateVars
    BY <1>2 DEF TypeOK, RuleProceeds, RuleBreaks, Silent, ReportAddress, ReportFailure, Deliver
<1> QED
    BY <1>1, <1>2

LEMMA CountedStep == TypeOK /\ CountedInv /\ [Next]_vars => CountedInv'
<1> SUFFICES ASSUME TypeOK, CountedInv, [Next]_vars PROVE CountedInv'
    OBVIOUS
<1> USE DEF CountedInv
<1>1. ASSUME NEW l \in Loops, RuleProceeds(l) \/ RuleBreaks(l) PROVE CountedInv'
    <2>1. UNCHANGED <<wpc, fresh, awaited, owner, failures>>
        BY <1>1 DEF RuleProceeds, RuleBreaks, workerVars, tableVars
    <2> QED
        BY <1>1, <2>1, FirstStays DEF TypeOK
<1>2. CASE UNCHANGED <<wpc, fresh, awaited, first, owner, failures>>
    BY <1>2
<1>3. CASE wpc' # "collect"
    BY <1>3
<1>4. ASSUME NEW r \in Rules, StartRule(r) PROVE wpc' # "collect"
    BY <1>4 DEF StartRule
<1>5. CASE StartsDone
    BY <1>5 DEF StartsDone
<1>6. ASSUME NEW l \in Loops, Collect(l) PROVE CountedInv'
    <2>1. first[l] \in {"ok", "failed"}
        BY <1>6 DEF Collect, TypeOK
    <2> QED
        BY <1>6, <2>1 DEF Collect, stateVars, tableVars
<1>7. ASSUME NEW l \in Loops, Forgo(l) PROVE wpc' # "collect"
    BY <1>7 DEF Forgo
<1>8. ASSUME NEW r \in Rules, ReadRunning(r) \/ KeepRule(r) \/ StopRule(r)
      PROVE  wpc' # "collect"
    BY <1>8 DEF ReadRunning, KeepRule, StopRule
<1>9. CASE WorkerProceeds
    BY <1>3, <1>4, <1>5, <1>6, <1>7, <1>8, <1>9 DEF WorkerProceeds, LoadInvalid, LoadValid,
        WebListens, WebListenFails, SyncRules, Expire, Finish
<1>10. ASSUME NEW c \in Callers, Take(c) PROVE wpc' # "collect"
    BY <1>10 DEF Take
<1> QED
    BY <1>1, <1>2, <1>3, <1>9, <1>10 DEF Next, vars, WebBreaks, WebLeaves, Save, Request,
        StopReads, StopActs, stateVars, tableVars, workerVars

\* The answer of a reload whose config is valid is given by its last step only.
LEMMA AnsweredByFinish ==
    ASSUME TypeOK, [Next]_vars, NEW c \in Callers,
           caller[c] # "answered", caller'[c] = "answered", wpc # "load"
    PROVE  Finish /\ answer'[c] = failures'
<1>1. Finish
    <2>1. caller' # caller
        OBVIOUS
    <2>2. ASSUME NEW k \in Loops, RuleProceeds(k) \/ RuleBreaks(k) PROVE caller' = caller
        BY <2>2 DEF RuleProceeds, RuleBreaks, userVars
    <2>3. ASSUME NEW k \in Callers, Request(k) PROVE FALSE
        BY <2>3 DEF Request, TypeOK
    <2>4. WorkerProceeds
        BY <2>1, <2>2, <2>3 DEF Next, vars, WebBreaks, WebLeaves, Save, Take, StopReads,
            StopActs, userVars
    <2> QED
        BY <2>1, <2>4 DEF WorkerProceeds, LoadInvalid, LoadValid, WebListens, WebListenFails,
            ReadRunning, KeepRule, StopRule, StartRule, SyncRules, StartsDone, Collect, Expire,
            Forgo, userVars
<1>2. c = job
    BY <1>1 DEF Finish, TypeOK
<1> QED
    BY <1>1, <1>2 DEF Finish, TypeOK

LEMMA AnswerIsEarned ==
    ASSUME TypeOK, CountedInv, [Next]_vars, NEW c \in Callers,
           caller[c] # "answered", caller'[c] = "answered"
    PROVE  /\ answer'[c] = {} /\ wpc = "collect"
                 => ~web.err /\ \A l \in fresh : first[l] = "ok"
           /\ wpc # "load" => failures \subseteq answer'[c]
<1>1. ASSUME answer'[c] = {}, wpc = "collect"
      PROVE  ~web.err /\ \A l \in fresh : first[l] = "ok"
    <2>1. Finish /\ failures' = {}
        BY <1>1, AnsweredByFinish
    <2>2. failures = {} /\ ~web.err
        BY <2>1 DEF Finish
    <2> QED
        BY <1>1, <2>1, <2>2 DEF Finish, CountedInv
<1>2. ASSUME wpc # "load" PROVE failures \subseteq answer'[c]
    <2>1. Finish /\ answer'[c] = failures'
        BY <1>2, AnsweredByFinish
    <2> QED
        BY <2>1 DEF Finish
<1> QED
    BY <1>1, <1>2

\* The worker leaves no delivered failure behind when it gives up a rule.
LEMMA FailureIsTaken ==
    ASSUME [Next]_vars, NEW l \in awaited, wpc \in {"collect", "drain"}, first[l] = "failed"
    PROVE  l \in awaited' \/ owner[l] \in failures'
<1>1. CASE awaited' = awaited
    BY <1>1
<1>2. ASSUME NEW k \in Loops, RuleProceeds(k) \/ RuleBreaks(k) PROVE awaited' = awaited
    BY <1>2 DEF RuleProceeds, RuleBreaks, workerVars
<1>3. ASSUME NEW k \in Loops, Collect(k) \/ Forgo(k)
      PROVE  l \in awaited' \/ owner[l] \in failures'
    BY <1>3 DEF Collect, Forgo
<1>4. CASE WorkerProceeds
    BY <1>1, <1>3, <1>4 DEF WorkerProceeds, LoadInvalid, LoadValid, WebListens, WebListenFails,
        ReadRunning, KeepRule, StopRule, StartRule, SyncRules, StartsDone, Expire, Finish
<1> QED
    BY <1>1, <1>2, <1>4 DEF Next, vars, WebBreaks, WebLeaves, Save, Request, Take, StopReads,
        StopActs, workerVars

\* A success in time means that every rule it started listens, and no failure
\* that was delivered is missing from an answer (reload.go:60-82, 306-341).
THEOREM SuccessTheorem == Spec => SuccessMeansListened
<1>1. ReloadInit => CountedInv
    BY DEF ReloadInit, CountedInv
<1>2. ReloadInv => TypeOK
    BY DEF ReloadInv
<1>3. TypeOK /\ CountedInv /\ [Next]_vars =>
         [ /\ \A c \in Callers :
                 caller[c] # "answered" /\ caller'[c] = "answered" =>
                    /\ answer'[c] = {} /\ wpc = "collect"
                          => ~web.err /\ \A l \in fresh : first[l] = "ok"
                    /\ wpc # "load" => failures \subseteq answer'[c]
           /\ \A l \in awaited :
                 wpc \in {"collect", "drain"} /\ first[l] = "failed"
                    => l \in awaited' \/ owner[l] \in failures' ]_vars
    BY AnswerIsEarned, FailureIsTaken
<1> QED
    BY <1>1, <1>2, <1>3, CountedStep, ReloadInvariant, PTL DEF Spec, SuccessMeansListened

-----------------------------------------------------------------------------
(* The web UI of a config that is applied.                                 *)

\* No valid config has the web UI where a valid one, itself or another, has a
\* rule: the stored configs never have a rule and the web UI trade addresses.
NoTrade ==
    \A c, d \in Stored : Valid(c) /\ Valid(d) => \A r \in Enabled(d) : d.rule[r].port # c.web

\* A loop has the definition that some valid config has for a rule.
IsOfConfig(l) == \E c \in Stored : Valid(c) /\ \E r \in Enabled(c) : def[l] = c.rule[r]

\* A config has been applied, nothing has failed by itself, and no one has quit.
AtPeace == loaded # None /\ faults = Faults /\ \A s \in Stoppers : stopper[s].at = "ready"

\* Once a config is applied, the web UI is served at its address, unless the
\* worker is just moving it.
WebAppliedInv ==
    /\ \A l \in Loops : pc[l] # "idle" => IsOfConfig(l)
    /\ loaded = None => ~web.listener
    /\ loaded # None => web.want = loaded.web
    /\ AtPeace /\ wpc # "weblisten" => web.open /\ web.listener

\* A rule does not stand in the way of the web UI.
LEMMA WebIsFree ==
    ASSUME NoTrade, ReloadInv, WebAppliedInv, loaded # None
    PROVE  ~HeldForWeb(web.want)
<1> SUFFICES ASSUME NEW l \in Loops, sock[l] = "open", def[l].port = web.want
             PROVE  FALSE
    BY DEF HeldForWeb
<1>1. pc[l] # "idle"
    BY DEF ReloadInv, ServeInv, NoLeak
<1>2. PICK c \in Stored : Valid(c) /\ \E r \in Enabled(c) : def[l] = c.rule[r]
    BY <1>1 DEF WebAppliedInv, IsOfConfig
<1>3. loaded \in Stored /\ Valid(loaded) /\ web.want = loaded.web
    BY DEF ReloadInv, TypeOK, Applied, WebAppliedInv
<1> QED
    BY <1>2, <1>3 DEF NoTrade

LEMMA WebAppliedStep ==
    ASSUME NoTrade, ReloadInv, WebInv, WebAppliedInv, [Next]_vars
    PROVE  WebAppliedInv'
<1>t. /\ web \in WebState /\ faults \in 0..Faults /\ pc \in [Loops -> Points]
      /\ def \in [Loops -> Definitions \cup {None}] /\ loaded \in Stored \cup {None}
      /\ stopper \in [Stoppers -> [at : {"ready", "read", "done"}, root : BOOLEAN, server : Nat]]
      /\ \A s \in leaving : web.open => web.server # s
      /\ None \notin Stored
    BY ReloadAssumption DEF ReloadInv, TypeOK, ServeTypeOK, WebInv
<1> DEFINE Loads == \A l \in Loops : pc'[l] # "idle" => IsOfConfig(l)'
           Quiet == faults' # Faults
<1>1. ASSUME UNCHANGED def, \A k \in Loops : pc'[k] = "idle" <=> pc[k] = "idle"
      PROVE  Loads
    BY <1>1 DEF WebAppliedInv, IsOfConfig
<1>2. ASSUME UNCHANGED <<web, loaded, stopper, wpc>>, faults' \in {faults, faults - 1}, Loads
      PROVE  WebAppliedInv'
    BY <1>2, <1>t, FaultsAssumption DEF WebAppliedInv, AtPeace
<1>3. ASSUME NEW l \in Loops, RuleProceeds(l) \/ RuleBreaks(l)
      PROVE  WebAppliedInv'
  <2>1. \A k \in Loops : pc'[k] = "idle" <=> pc[k] = "idle"
      BY <1>3, LoopFrame DEF RuleProceeds, RuleBreaks, Silent, ReportAddress, ReportFailure,
         Proceed, ReloadInv, ServeInv
  <2>2. faults' \in {faults, faults - 1}
      BY <1>3 DEF RuleProceeds, RuleBreaks, Silent, ReportAddress, ReportFailure, Enter, ListenOK,
         ListenFail, Announce, Watch, Fire, ServeClosed, ServeFails, Stop, Check, Complain, Retry,
         GiveUp, Fault
  <2> QED
      BY <1>1, <1>2, <1>3, <2>1, <2>2 DEF RuleProceeds, RuleBreaks, tableVars, workerVars
<1>4. CASE WebBreaks
    BY <1>1, <1>4, <1>t, FaultsAssumption
       DEF WebBreaks, Fault, WebAppliedInv, AtPeace, WebState, tableVars, workerVars, loopVars
<1>5. ASSUME NEW s \in leaving, WebLeaves(s) PROVE WebAppliedInv'
    BY <1>1, <1>5, <1>t
       DEF WebLeaves, WebAppliedInv, AtPeace, WebState, tableVars, workerVars, serveVars, loopVars
<1>6. ASSUME NEW s \in Stoppers, StopReads(s) \/ StopActs(s) PROVE WebAppliedInv'
  <2>1. stopper'[s].at # "ready" /\ UNCHANGED <<loaded, wpc, def, pc>>
      BY <1>6, <1>t DEF StopReads, StopActs, serveVars, loopVars, tableVars, workerVars
  <2>2. web'.listener = web.listener /\ web'.want = web.want
      BY <1>6, <1>t DEF StopReads, StopActs, WebState
  <2> QED
      BY <1>1, <2>1, <2>2 DEF WebAppliedInv, AtPeace
<1>7. CASE LoadValid
  <2>1. Loads /\ loaded' = stored /\ stored \in Stored
      BY <1>1, <1>7 DEF LoadValid, serveVars, loopVars, tableVars, ReloadInv, TypeOK
  <2>2. CASE web.listener /\ web.want = stored.web
      BY <1>7, <1>t, <2>1, <2>2 DEF LoadValid, WebAppliedInv, AtPeace, serveVars
  <2>3. CASE ~(web.listener /\ web.want = stored.web)
      BY <1>7, <1>t, <2>1, <2>3 DEF LoadValid, WebAppliedInv, AtPeace, WebState, serveVars
  <2> QED
      BY <2>2, <2>3
<1>8. CASE WebListens
    BY <1>1, <1>8, <1>t
       DEF WebListens, WebAppliedInv, AtPeace, WebState, serveVars, loopVars, tableVars,
           ReloadInv, Applied
<1>9. CASE WebListenFails
  <2>1. loaded # None
      BY <1>9 DEF WebListenFails, ReloadInv, Applied
  <2>2. faults' = faults - 1
      BY <1>9, <2>1, WebIsFree DEF WebListenFails, Fault
  <2> QED
      BY <1>1, <1>9, <1>t, <2>1, <2>2, FaultsAssumption
         DEF WebListenFails, WebAppliedInv, AtPeace, WebState, loopVars, tableVars
<1>10. ASSUME NEW r \in Rules, StartRule(r) PROVE WebAppliedInv'
  <2>1. loaded \in Stored /\ Valid(loaded) /\ r \in Enabled(loaded)
      BY <1>10, <1>t DEF StartRule, ReloadInv, Applied, Ownership, Enabled
  <2>2. PICK l \in Loops : /\ def' = [def EXCEPT ![l] = loaded.rule[r]]
                           /\ \A k \in Loops \ {l} : pc'[k] = pc[k]
    <3>1. NextLoop \in Loops
        BY <1>10 DEF StartRule, NextLoop, Unused
    <3>2. /\ def' = [def EXCEPT ![NextLoop] = loaded.rule[r]]
          /\ \A k \in Loops \ {NextLoop} : pc'[k] = pc[k]
        BY <1>10, <1>t DEF StartRule, Goto
    <3> QED
        BY <3>1, <3>2
  <2>3. Loads
      BY <1>t, <2>1, <2>2 DEF WebAppliedInv, IsOfConfig
  <2> QED
      BY <1>2, <1>10, <2>3 DEF StartRule
<1>11. ASSUME NEW r \in Rules, ReadRunning(r) \/ KeepRule(r) \/ StopRule(r)
       PROVE  WebAppliedInv'
  <2>1. /\ UNCHANGED <<web, loaded, stopper, faults, pc, def>>
        /\ wpc # "weblisten" /\ wpc' # "weblisten"
      BY <1>11 DEF ReadRunning, KeepRule, StopRule, serveVars, loopVars, tableVars
  <2> QED
      BY <1>1, <1>t, <2>1 DEF WebAppliedInv, AtPeace
<1>12. CASE WorkerProceeds
  <2>1. ASSUME UNCHANGED <<web, loaded, stopper, serveVars, def>>,
               wpc # "weblisten", wpc' # "weblisten"
        PROVE  WebAppliedInv'
      BY <1>1, <2>1, <1>t DEF WebAppliedInv, AtPeace, serveVars, loopVars
  <2> QED
      BY <1>7, <1>8, <1>9, <1>10, <1>11, <1>12, <2>1
         DEF WorkerProceeds, LoadInvalid, SyncRules, StartsDone, Collect, Expire, Forgo, Finish,
             tableVars
<1>13. CASE /\ UNCHANGED <<web, loaded, stopper, serveVars, def>>
            /\ wpc # "weblisten" /\ wpc' # "weblisten"
    BY <1>1, <1>13, <1>t DEF WebAppliedInv, AtPeace, serveVars, loopVars
<1>14. CASE UNCHANGED <<web, loaded, stopper, serveVars, def, wpc>>
    BY <1>1, <1>14, <1>t DEF WebAppliedInv, AtPeace, serveVars, loopVars
<1>15. ASSUME NEW c \in Callers, Take(c) PROVE WebAppliedInv'
    BY <1>13, <1>15 DEF Take, tableVars
<1> QED
    BY <1>3, <1>4, <1>5, <1>6, <1>12, <1>14, <1>15
       DEF Next, vars, Save, Request, workerVars, tableVars

\* A finished reload has the web UI at the address of its config, unless something
\* else took the address or the app quits (reload.go:60-82, webui.go:23-65),
\* as long as no config gives the web UI an address of a rule; reload moves the web UI
\* before it stops the rules.
THEOREM ReloadAppliesTheorem == NoTrade => (Spec => []ReloadAppliesWebUI)
<1> SUFFICES ASSUME NoTrade PROVE Spec => []ReloadAppliesWebUI
    OBVIOUS
<1>1. ReloadInit => WebInv /\ WebAppliedInv
    BY DEF ReloadInit, WebInv, WebStatusIsTrue, ServeInit, WebAppliedInv, AtPeace
<1>2. WebAppliedInv => ReloadAppliesWebUI
    BY DEF WebAppliedInv, AtPeace, ReloadAppliesWebUI
<1>3. ReloadInv /\ WebInv /\ [Next]_vars => WebInv'
    BY WebStep DEF ReloadInv
<1>4. ReloadInv /\ WebInv /\ WebAppliedInv /\ [Next]_vars => WebAppliedInv'
    BY WebAppliedStep
<1> QED
    BY <1>1, <1>2, <1>3, <1>4, ReloadInvariant, PTL DEF Spec
=============================================================================
