------------------------------- MODULE Poller -------------------------------
(***************************************************************************)
(* createPoller (polling.svelte.ts): loads that begin when a timer fires,  *)
(* when the page comes back and when somebody asks for a refresh, beside   *)
(* the writes of the page (busy.svelte.ts), a page that is hidden and      *)
(* views that come and go.                                                 *)
(*                                                                         *)
(* What the server would answer is a version.  Any number of other clients *)
(* may change it.  Callbacks of a promise run in any order after it is     *)
(* settled.  Delays are left out, and with them the count of failures.     *)
(***************************************************************************)
EXTENDS Integers

CONSTANTS Users, Refreshes,
          MaxLoads, MaxVersion, MaxGeneration  \* bounds of the model

ASSUME PollerAssumption ==
    MaxLoads \in Nat /\ MaxVersion \in Nat /\ MaxGeneration \in Nat

VARIABLES subscribed,  \* the users that hold a subscription
          visible,
          timer,       \* a tick is scheduled
          generation,
          flight,      \* the load that is `controller` and `inFlight`, or 0
          requested,
          answered,
          data,        \* the version shown
          phase,       \* where each load stands
          begun,       \* the generation in which it began
          seen,        \* the version the server answered it with, -1 if it failed
          refresh,     \* where each refresh stands
          since,       \* the generation in which it was called
          joined,      \* the load it waits for
          asked,       \* the version of the server when it was called
          version,     \* of the server
          busy,        \* a write of the page is under way
          wrote,       \* the version it made, 0 if none is known
          mark         \* `requested` when it began

page == <<subscribed, visible>>
shown == <<answered, data>>
loads == <<requested, phase, begun, seen>>
refreshes == <<refresh, since, joined, asked>>
writes == <<version, busy, wrote, mark>>
vars == <<page, timer, generation, flight, shown, loads, refreshes, writes>>

Loads == 1..MaxLoads

Init ==
    /\ subscribed = {} /\ visible \in BOOLEAN
    /\ timer = FALSE
    /\ generation = 0
    /\ flight = 0
    /\ requested = 0 /\ answered = 0
    /\ data = 0
    /\ phase = [n \in Loads |-> "none"]
    /\ begun = [n \in Loads |-> 0]
    /\ seen = [n \in Loads |-> -1]
    /\ refresh = [r \in Refreshes |-> "idle"]
    /\ since = [r \in Refreshes |-> 0]
    /\ joined = [r \in Refreshes |-> 0]
    /\ asked = [r \in Refreshes |-> 0]
    /\ version = 0 /\ busy = FALSE /\ wrote = 0 /\ mark = 0

-----------------------------------------------------------------------------
(* The functions of the poller, as what they do to its variables.          *)

\* Somebody looks at the page.
Looked == subscribed # {} /\ visible

Invalidate ==
    /\ generation < MaxGeneration
    /\ generation' = generation + 1
    /\ flight' = 0

FetchOnce ==
    /\ requested < MaxLoads
    /\ requested' = requested + 1
    /\ flight' = requested'
    /\ phase' = [phase EXCEPT ![requested'] = "sent"]
    /\ begun' = [begun EXCEPT ![requested'] = generation]
    /\ UNCHANGED seen

\* Mutant: a tick that finds the page busy does not come again.
TickGivesUp ==
    IF Looked' /\ ~busy /\ flight = 0
    THEN timer' = FALSE /\ FetchOnce
    ELSE timer' = FALSE /\ UNCHANGED <<flight, loads>>
\* tick, once `subscribed` and `visible` have their new values.
Tick ==
    IF Looked' /\ ~busy /\ flight = 0
    THEN timer' = FALSE /\ FetchOnce
    ELSE timer' = Looked' /\ UNCHANGED <<flight, loads>>

-----------------------------------------------------------------------------
(* The timer, views and the visibility of the page.                        *)

Fire ==
    /\ timer
    /\ UNCHANGED <<page, generation, shown, refreshes, writes>>
    /\ Tick

Subscribe(u) ==
    /\ u \notin subscribed
    /\ subscribed' = subscribed \cup {u}
    /\ UNCHANGED <<visible, generation, shown, refreshes, writes>>
    /\ IF subscribed = {} THEN Tick ELSE UNCHANGED <<timer, flight, loads>>

Unsubscribe(u) ==
    /\ u \in subscribed
    /\ subscribed' = subscribed \ {u}
    /\ IF subscribed = {u}
       THEN timer' = FALSE /\ Invalidate
       ELSE UNCHANGED <<timer, generation, flight>>
    /\ UNCHANGED <<visible, shown, loads, refreshes, writes>>

\* onVisibility, which listens only while there is a subscriber.
Hide ==
    /\ visible
    /\ visible' = FALSE
    /\ IF subscribed # {}
       THEN timer' = FALSE /\ Invalidate
       ELSE UNCHANGED <<timer, generation, flight>>
    /\ UNCHANGED <<subscribed, shown, loads, refreshes, writes>>

Show ==
    /\ ~visible
    /\ visible' = TRUE
    /\ UNCHANGED <<subscribed, generation, shown, refreshes, writes>>
    /\ IF subscribed # {} /\ flight = 0 THEN Tick ELSE UNCHANGED <<timer, flight, loads>>

-----------------------------------------------------------------------------
(* A load.  It may be answered although it was aborted.                    *)

\* The server answers.
Respond(n) ==
    /\ phase[n] = "sent"
    /\ phase' = [phase EXCEPT ![n] = "served"]
    /\ seen' = [seen EXCEPT ![n] = version]
    /\ UNCHANGED <<page, timer, generation, flight, shown, requested, begun, refreshes, writes>>

Current(n) == begun[n] = generation /\ flight = n

\* Mutant: nothing asks whether the answer is still current.
SucceedAlways(n) ==
    /\ phase[n] = "served"
    /\ phase' = [phase EXCEPT ![n] = "then"]
    /\ data' = seen[n] /\ answered' = n
    /\ UNCHANGED <<page, timer, generation, flight, requested, begun, seen, refreshes, writes>>
Succeed(n) ==
    /\ phase[n] = "served"
    /\ phase' = [phase EXCEPT ![n] = "then"]
    /\ IF Current(n)
       THEN data' = seen[n] /\ answered' = n /\ UNCHANGED seen
       ELSE seen' = [seen EXCEPT ![n] = -1] /\ UNCHANGED shown
    /\ UNCHANGED <<page, timer, generation, flight, requested, begun, refreshes, writes>>

Fail(n) ==
    /\ phase[n] \in {"sent", "served"}
    /\ phase' = [phase EXCEPT ![n] = "then"]
    /\ seen' = [seen EXCEPT ![n] = -1]
    /\ UNCHANGED <<page, timer, generation, flight, shown, requested, begun, refreshes, writes>>

\* The finally of fetchOnce.
Settle(n) ==
    /\ phase[n] = "then"
    /\ phase' = [phase EXCEPT ![n] = "settled"]
    /\ flight' = IF flight = n THEN 0 ELSE flight
    /\ UNCHANGED <<page, timer, generation, shown, requested, begun, seen, refreshes, writes>>

\* The finally(schedule) of tick and refresh.
Reschedule(n) ==
    /\ phase[n] = "settled"
    /\ phase' = [phase EXCEPT ![n] = "done"]
    /\ timer' = Looked
    /\ UNCHANGED <<page, generation, flight, shown, requested, begun, seen, refreshes, writes>>

-----------------------------------------------------------------------------
(* refresh.                                                                *)

Go(r, to, n) ==
    /\ refresh' = [refresh EXCEPT ![r] = to]
    /\ joined' = [joined EXCEPT ![r] = n]

\* From the check of `wanted` on, for a refresh called in generation g.
Proceed(r, g) ==
    LET wanted == g = generation /\ Looked /\ ~busy
    IN  \/ ~wanted /\ Go(r, "null", 0) /\ UNCHANGED <<flight, loads>>
        \/ wanted /\ flight # 0 /\ Go(r, "waiting", flight) /\ UNCHANGED <<flight, loads>>
        \/ wanted /\ flight = 0 /\ FetchOnce /\ Go(r, "loading", requested')

Refresh(r) ==
    /\ refresh[r] = "idle"
    /\ since' = [since EXCEPT ![r] = generation]
    /\ asked' = [asked EXCEPT ![r] = version]
    /\ Proceed(r, generation)
    /\ UNCHANGED <<page, timer, generation, shown, writes>>

Resume(r) ==
    /\ refresh[r] = "waiting"
    /\ phase[joined[r]] \in {"settled", "done"}
    /\ Proceed(r, since[r])
    /\ UNCHANGED <<page, timer, generation, shown, since, asked, writes>>

Return(r) ==
    /\ refresh[r] = "loading"
    /\ phase[joined[r]] = "done"
    /\ refresh' = [refresh EXCEPT ![r] = IF seen[joined[r]] = -1 THEN "null" ELSE "value"]
    /\ UNCHANGED <<page, timer, generation, flight, shown, loads, since, joined, asked, writes>>

-----------------------------------------------------------------------------
(* Writes of the page, in busy.run, and changes made elsewhere.            *)

BeginWrite ==
    /\ ~busy
    /\ busy' = TRUE
    /\ wrote' = 0
    /\ mark' = requested
    /\ UNCHANGED <<page, timer, generation, flight, shown, loads, refreshes, version>>

\* The server applies it.
Apply ==
    /\ busy /\ wrote = 0
    /\ version < MaxVersion
    /\ version' = version + 1
    /\ wrote' = version'
    /\ UNCHANGED <<page, timer, generation, flight, shown, loads, refreshes, busy, mark>>

\* It is answered or refused, or has timed out.  One that is applied after it
\* timed out is a change made elsewhere.
EndWrite ==
    /\ busy
    /\ busy' = FALSE
    /\ UNCHANGED <<page, timer, generation, flight, shown, loads, refreshes, version, wrote, mark>>

Change ==
    /\ version < MaxVersion
    /\ version' = version + 1
    /\ UNCHANGED <<page, timer, generation, flight, shown, loads, refreshes, busy, wrote, mark>>

-----------------------------------------------------------------------------
Next ==
    \/ Fire \/ Hide \/ Show
    \/ \E u \in Users : Subscribe(u) \/ Unsubscribe(u)
    \/ \E n \in Loads : Respond(n) \/ Succeed(n) \/ Fail(n) \/ Settle(n) \/ Reschedule(n)
    \/ \E r \in Refreshes : Refresh(r) \/ Resume(r) \/ Return(r)
    \/ BeginWrite \/ Apply \/ EndWrite \/ Change

Spec == Init /\ [][Next]_vars

-----------------------------------------------------------------------------
(* Properties.                                                             *)

FlagsOK == visible \in BOOLEAN /\ timer \in BOOLEAN /\ busy \in BOOLEAN

PollerTypeOK ==
    /\ FlagsOK
    /\ subscribed \subseteq Users
    /\ generation \in 0..MaxGeneration
    /\ requested \in 0..MaxLoads /\ answered \in 0..MaxLoads
    /\ flight \in 0..requested
    /\ data \in 0..MaxVersion
    /\ phase \in [Loads -> {"none", "sent", "served", "then", "settled", "done"}]
    /\ begun \in [Loads -> 0..MaxGeneration]
    /\ seen \in [Loads -> -1..MaxVersion]
    /\ refresh \in [Refreshes -> {"idle", "waiting", "loading", "value", "null"}]
    /\ since \in [Refreshes -> 0..MaxGeneration]
    /\ joined \in [Refreshes -> 0..MaxLoads]
    /\ asked \in [Refreshes -> 0..MaxVersion]
    /\ version \in 0..MaxVersion
    /\ wrote \in 0..MaxVersion /\ mark \in 0..MaxLoads

\* While a view is subscribed and the page is visible, polling goes on: a tick
\* is scheduled, or a load that was not aborted is yet to schedule it.  No
\* order of hiding, showing, subscribing, writing and late answers ends it
\* (polling.svelte.ts:66-69, 107-125).
Outstanding(n) == phase[n] \in {"sent", "served", "then", "settled"} /\ begun[n] = generation
KeepsPolling ==
    Looked => timer \/ \E n \in Loads : Outstanding(n)

\* What a page shows never goes back to an earlier version of the server, and
\* an answer numbered after the mark of the last write shows what that write
\* made: so the mark tells answers about the old listener from those about the
\* new one (polling.svelte.ts:20-22, moved.svelte.ts:84-88).
AnswersInOrder ==
    [][ shown' # shown => /\ data' >= data
                          /\ answered' > mark => data' >= wrote ]_vars

\* A refresh that returns a value returns one the server gave after the refresh
\* was called, although an older load was under way then: so a page that
\* refreshes after its write sees the write (polling.svelte.ts:166-177).
RefreshIsFresh ==
    \A r \in Refreshes : refresh[r] = "value" => seen[joined[r]] >= asked[r]

\* Answers are of use: none is older than what is shown or than the write they
\* are taken to follow, and that of a refresh is not older than the refresh.
AnswersAreFresh == AnswersInOrder /\ []RefreshIsFresh
=============================================================================
