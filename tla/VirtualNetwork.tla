--------------------------- MODULE VirtualNetwork ---------------------------
(***************************************************************************)
(* The in-process channels that connect the rules of one App               *)
(* (app/tray/virtual.go): a table of listeners by channel name, dials that *)
(* meet an Accept on an unbuffered Go channel, and Close, which can be     *)
(* called by two goroutines at once.                                       *)
(*                                                                         *)
(* A channel has one user at a time, the Serve loop of the rule that       *)
(* listens on it: Validate refuses two rules on one channel and reload     *)
(* ends the old loop before it starts a new one (Reload!OneLoopPerRule,    *)
(* Reload!NoRuleConflict).  Its listener is closed by that loop and, when  *)
(* the context is done, by the goroutine of AfterFunc.                     *)
(***************************************************************************)
EXTENDS Integers

CONSTANTS Names,      \* channel names
          Listeners,  \* the virtualListeners that may be made
          Dials,      \* calls of Dial
          None        \* no listener, no channel

ASSUME VirtualAssumption == None \notin Names \cup Listeners

VARIABLES table,      \* network.listeners
          name,       \* the channel of a listener, None if it is not made yet
          done,       \* its done channel is closed
          once,       \* its sync.Once: "free", "running" or "over"
          watch,      \* the AfterFunc goroutine has been started for it
          at,         \* where the Serve loop that uses a channel stands
          current,    \* the listener of that loop
          dial,       \* where a dial stands
          target,     \* the listener it found in the table
          ctxDone     \* its context is done

listenerVars == <<table, name, done, once, watch>>
loopVars == <<at, current>>
dialVars == <<dial, target, ctxDone>>
vars == <<listenerVars, loopVars, dialVars>>

Init ==
    /\ table = [n \in Names |-> None]
    /\ name = [l \in Listeners |-> None]
    /\ done = [l \in Listeners |-> FALSE]
    /\ once = [l \in Listeners |-> "free"]
    /\ watch = [l \in Listeners |-> FALSE]
    /\ at = [n \in Names |-> "idle"]
    /\ current = [n \in Names |-> None]
    /\ dial = [d \in Dials |-> "ready"]
    /\ target = [d \in Dials |-> None]
    /\ ctxDone = [d \in Dials |-> FALSE]

-----------------------------------------------------------------------------

\* Listen, under network.mu.  The error "already listening" changes nothing:
\* Serve waits and listens again.  Bound: as long as listeners are left.
Listen(n, l) ==
    /\ at[n] = "idle"
    /\ name[l] = None
    /\ table[n] = None
    /\ table' = [table EXCEPT ![n] = l]
    /\ name' = [name EXCEPT ![l] = n]
    /\ current' = [current EXCEPT ![n] = l]
    /\ at' = [at EXCEPT ![n] = "accept"]
    /\ UNCHANGED <<done, once, watch, dialVars>>

\* The context of the rule is done: AfterFunc will close its listener.
Cancel(n) ==
    /\ at[n] = "accept"
    /\ ~watch[current[n]]
    /\ watch' = [watch EXCEPT ![current[n]] = TRUE]
    /\ UNCHANGED <<table, name, done, once, loopVars, dialVars>>

\* Mutant: done is not closed.
CloseForgetsDone(l) ==
    /\ once[l] = "free"
    /\ once' = [once EXCEPT ![l] = "running"]
    /\ done' = done

\* The first caller of Close runs the function of once: it closes done ...
CloseBegins(l) ==
    /\ once[l] = "free"
    /\ once' = [once EXCEPT ![l] = "running"]
    /\ done' = [done EXCEPT ![l] = TRUE]

\* ... and then, under network.mu, removes its own entry.
CloseEnds(l) ==
    /\ once[l] = "running"
    /\ once' = [once EXCEPT ![l] = "over"]
    /\ table' = [n \in Names |->
                   IF n = name[l] /\ table[n] = l THEN None ELSE table[n]]
    /\ UNCHANGED <<name, done, watch, loopVars, dialVars>>

WatchCloses(l) ==
    /\ watch[l]
    /\ CloseBegins(l)
    /\ UNCHANGED <<table, name, watch, loopVars, dialVars>>

\* Accept returns net.ErrClosed and with it the serve function.
AcceptFails(n) ==
    /\ at[n] = "accept"
    /\ done[current[n]]
    /\ at' = [at EXCEPT ![n] = "close"]
    /\ UNCHANGED <<listenerVars, current, dialVars>>

\* The serve function gives up without the listener having been closed.
ServeFails(n) ==
    /\ at[n] = "accept"
    /\ at' = [at EXCEPT ![n] = "close"]
    /\ UNCHANGED <<listenerVars, current, dialVars>>

LoopCloses(n) ==
    /\ at[n] = "close"
    /\ CloseBegins(current[n])
    /\ UNCHANGED <<table, name, watch, loopVars, dialVars>>

\* Mutant: a second caller of Close returns at once, as with an atomic flag.
LoopClosedEarly(n) ==
    /\ at[n] = "close"
    /\ once[current[n]] # "free"
    /\ at' = [at EXCEPT ![n] = "idle"]
    /\ UNCHANGED <<listenerVars, current, dialVars>>

\* Close returns: once.Do returns to every caller only when the function has.
LoopClosed(n) ==
    /\ at[n] = "close"
    /\ once[current[n]] = "over"
    /\ at' = [at EXCEPT ![n] = "idle"]
    /\ UNCHANGED <<listenerVars, current, dialVars>>

\* Dial looks the channel up, unless its context is done already.
Dial(d, n) ==
    /\ dial[d] = "ready"
    /\ target' = [target EXCEPT ![d] = IF ctxDone[d] THEN None ELSE table[n]]
    /\ dial' = [dial EXCEPT ![d] = IF ctxDone[d] THEN "cancelled"
                                   ELSE IF table[n] = None THEN "refused"
                                   ELSE "offer"]
    /\ UNCHANGED <<listenerVars, loopVars, ctxDone>>

\* The select of Dial meets the select of Accept; both may also see done or a
\* done context and take this branch all the same.
Meet(d, n) ==
    /\ dial[d] = "offer"
    /\ at[n] = "accept"
    /\ target[d] = current[n]
    /\ dial' = [dial EXCEPT ![d] = "connected"]
    /\ UNCHANGED <<listenerVars, loopVars, target, ctxDone>>

DialRefused(d) ==
    /\ dial[d] = "offer"
    /\ done[target[d]]
    /\ dial' = [dial EXCEPT ![d] = "refused"]
    /\ UNCHANGED <<listenerVars, loopVars, target, ctxDone>>

DialCancelled(d) ==
    /\ dial[d] = "offer"
    /\ ctxDone[d]
    /\ dial' = [dial EXCEPT ![d] = "cancelled"]
    /\ UNCHANGED <<listenerVars, loopVars, target, ctxDone>>

CtxDone(d) ==
    /\ ~ctxDone[d]
    /\ ctxDone' = [ctxDone EXCEPT ![d] = TRUE]
    /\ UNCHANGED <<listenerVars, loopVars, dial, target>>

\* The steps of a loop and of the goroutines that close its listener.
LoopProceeds(n) == AcceptFails(n) \/ LoopCloses(n) \/ LoopClosed(n)
ListenerProceeds(l) == WatchCloses(l) \/ CloseEnds(l)
DialProceeds(d) == (\E n \in Names : Meet(d, n)) \/ DialRefused(d) \/ DialCancelled(d)

Next ==
    \/ \E n \in Names :
          \/ \E l \in Listeners : Listen(n, l)
          \/ LoopProceeds(n) \/ Cancel(n) \/ ServeFails(n)
    \/ \E l \in Listeners : ListenerProceeds(l)
    \/ \E d \in Dials : DialProceeds(d) \/ CtxDone(d) \/ \E n \in Names : Dial(d, n)

\* Goroutines that can run do; nobody has to listen, dial, cancel or fail.
Fairness ==
    /\ \A n \in Names : WF_vars(LoopProceeds(n))
    /\ \A l \in Listeners : WF_vars(ListenerProceeds(l))
    /\ \A d \in Dials : WF_vars(DialProceeds(d))

Spec == Init /\ [][Next]_vars /\ Fairness

-----------------------------------------------------------------------------

\* Every variable holds a value of its type.
TypeOK ==
    /\ table \in [Names -> Listeners \cup {None}]
    /\ name \in [Listeners -> Names \cup {None}]
    /\ done \in [Listeners -> BOOLEAN]
    /\ once \in [Listeners -> {"free", "running", "over"}]
    /\ watch \in [Listeners -> BOOLEAN]
    /\ at \in [Names -> {"idle", "accept", "close"}]
    /\ current \in [Names -> Listeners \cup {None}]
    /\ dial \in [Dials -> {"ready", "offer", "connected", "refused", "cancelled"}]
    /\ target \in [Dials -> Listeners \cup {None}]
    /\ ctxDone \in [Dials -> BOOLEAN]

\* A rule that is restarted on its channel never finds it taken: when a loop is
\* through with a listener the name is free, whichever goroutine closed it.
NameFreeBetweenListens == \A n \in Names : at[n] = "idle" => table[n] = None

\* A listener that is being served and not closed is the one dials find: an old
\* listener that is closed late never takes the name from its successor.
ServedIsFound ==
    \A n \in Names :
        at[n] = "accept" /\ ~done[current[n]] => table[n] = current[n]

\* A dial that has found a listener can always still be answered: the listener
\* is served, or its done channel is closed or about to be.
OfferIsHeard ==
    \A d \in Dials :
        dial[d] = "offer" =>
            LET l == target[d]
            IN  done[l] \/ (current[name[l]] = l /\ at[name[l]] \in {"accept", "close"})

\* So a channel is one loop's, and its listener is everybody's.
ChannelsAreServed == NameFreeBetweenListens /\ ServedIsFound /\ OfferIsHeard

\* No dial waits for ever, whatever happens to the listener it found.
DialSettles == \A d \in Dials : dial[d] = "offer" ~> dial[d] # "offer"

\* A cancelled rule gives up its channel, and so lets reload go on.
CancelledLoopEnds ==
    \A n \in Names : at[n] = "accept" /\ watch[current[n]] ~> at[n] = "idle"

\* So nobody waits for a channel for ever.
VirtualEnds == DialSettles /\ CancelledLoopEnds
=============================================================================
