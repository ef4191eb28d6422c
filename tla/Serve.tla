------------------------------- MODULE Serve -------------------------------
(***************************************************************************)
(* The supervision loop of jumpway.Serve (serve.go): listen, announce the  *)
(* address, serve until the listener fails, report the failure, wait and   *)
(* listen again, until the context is cancelled.                           *)
(*                                                                         *)
(* Every l \in Loops is one call of Serve: its goroutine (pc, attempt,     *)
(* backoff and err are its local variables), its context and the goroutine *)
(* that context.AfterFunc starts to close the listener of the current      *)
(* iteration.  The listener is only open or closed: what it listens on is  *)
(* added by Reload.  Errors are told apart where a reporter tells them     *)
(* apart: "closed" satisfies IsClosedConnError, the others do not.         *)
(***************************************************************************)
EXTENDS Integers

CONSTANTS Loops,      \* the calls of Serve
          Initial,    \* DefaultListenBackoff, in units of the model
          Maximum,    \* MaxListenBackoff
          Faults      \* bound: failures the environment may cause in a behaviour

ASSUME BackoffAssumption ==
    /\ Initial \in Nat \ {0}
    /\ Maximum \in Nat
    /\ Initial <= Maximum

ASSUME FaultsAssumption == Faults \in Nat

VARIABLES pc,         \* where the goroutine of each call stands
          cancelled,  \* ctx.Err() # nil
          sock,       \* the listener of the current iteration
          watch,      \* the AfterFunc registration of the current iteration
          attempt, backoff, err,
          event,      \* the last Event passed to report
          faults      \* failures the environment may still cause

loopVars == <<pc, sock, watch, attempt, backoff, err, event>>
serveVars == <<loopVars, cancelled, faults>>

Points == {"idle", "head", "listen", "discard", "announce", "watch", "serve",
           "stop", "check", "complain", "wait", "returned"}
Errors == {"nil", "closed", "other"}
Event == [addr : BOOLEAN, err : Errors, attempt : Nat, backoff : Nat]
NoEvent == [addr |-> FALSE, err |-> "nil", attempt |-> 0, backoff |-> 0]

Least(a, b) == IF a <= b THEN a ELSE b

\* The goroutine of l moves from one point of the loop to another.
Goto(l, from, to) == pc[l] = from /\ pc' = [pc EXCEPT ![l] = to]

\* The environment uses up one of the failures it is allowed.
Fault == faults > 0 /\ faults' = faults - 1

ServeInit ==
    /\ pc = [l \in Loops |-> "idle"]
    /\ cancelled = [l \in Loops |-> FALSE]
    /\ sock = [l \in Loops |-> "none"]
    /\ watch = [l \in Loops |-> "off"]
    /\ attempt = [l \in Loops |-> 0]
    /\ backoff = [l \in Loops |-> Initial]
    /\ err = [l \in Loops |-> "nil"]
    /\ event = [l \in Loops |-> NoEvent]
    /\ faults = Faults

-----------------------------------------------------------------------------

\* The call of Serve: backoff and attempt have their initial values.
Start(l) ==
    /\ Goto(l, "idle", "head")
    /\ UNCHANGED <<cancelled, sock, watch, attempt, backoff, err, event, faults>>

\* for ctx.Err() == nil
Enter(l) ==
    /\ Goto(l, "head", IF cancelled[l] THEN "returned" ELSE "listen")
    /\ UNCHANGED <<cancelled, sock, watch, attempt, backoff, err, event, faults>>

\* Mutant: a successful listen does not reset the wait.
ListenKeepsBackoff(l) ==
    /\ Goto(l, "listen", "announce")
    /\ sock' = [sock EXCEPT ![l] = "open"]
    /\ attempt' = [attempt EXCEPT ![l] = 0]
    /\ UNCHANGED <<cancelled, watch, backoff, err, event, faults>>

\* listen returns a listener: an outage, if there was one, is over.
ListenOK(l) ==
    /\ Goto(l, "listen", "announce")
    /\ sock' = [sock EXCEPT ![l] = "open"]
    /\ attempt' = [attempt EXCEPT ![l] = 0]
    /\ backoff' = [backoff EXCEPT ![l] = Initial]
    /\ UNCHANGED <<cancelled, watch, err, event, faults>>

\* listen fails, because of the environment or because its context is done;
\* an error with no listener includes the "listen returned no listener" case.
ListenFail(l) ==
    /\ Goto(l, "listen", "check")
    /\ err' = [err EXCEPT ![l] = "other"]
    /\ IF cancelled[l] THEN UNCHANGED faults ELSE Fault
    /\ UNCHANGED <<cancelled, sock, watch, attempt, backoff, event>>

\* listen returns an error and a listener too, which Discard closes.
ListenBoth(l) ==
    /\ Goto(l, "listen", "discard")
    /\ Fault
    /\ sock' = [sock EXCEPT ![l] = "open"]
    /\ err' = [err EXCEPT ![l] = "other"]
    /\ UNCHANGED <<cancelled, watch, attempt, backoff, event>>

\* Mutant: the listener that came with an error is forgotten.
DiscardForgets(l) ==
    /\ Goto(l, "discard", "check")
    /\ UNCHANGED <<cancelled, sock, watch, attempt, backoff, err, event, faults>>

Discard(l) ==
    /\ Goto(l, "discard", "check")
    /\ sock' = [sock EXCEPT ![l] = "closed"]
    /\ UNCHANGED <<cancelled, watch, attempt, backoff, err, event, faults>>

\* report(Event{Addr}): also when the context was cancelled during listen.
Announce(l) ==
    /\ Goto(l, "announce", "watch")
    /\ event' = [event EXCEPT ![l] = [addr |-> TRUE, err |-> "nil",
                                      attempt |-> 0, backoff |-> 0]]
    /\ UNCHANGED <<cancelled, sock, watch, attempt, backoff, err, faults>>

\* Mutant: f is registered, but not started on a context that is done.
WatchTooLate(l) ==
    /\ Goto(l, "watch", "serve")
    /\ watch' = [watch EXCEPT ![l] = "armed"]
    /\ UNCHANGED <<cancelled, sock, attempt, backoff, err, event, faults>>

\* context.AfterFunc: on a context that is already done f starts at once.
Watch(l) ==
    /\ Goto(l, "watch", "serve")
    /\ watch' = [watch EXCEPT ![l] = IF cancelled[l] THEN "firing" ELSE "armed"]
    /\ UNCHANGED <<cancelled, sock, attempt, backoff, err, event, faults>>

\* The goroutine of AfterFunc closes the listener; closing twice is harmless.
Fire(l) ==
    /\ watch[l] = "firing"
    /\ watch' = [watch EXCEPT ![l] = "off"]
    /\ sock' = [sock EXCEPT ![l] = "closed"]
    /\ UNCHANGED <<pc, cancelled, attempt, backoff, err, event, faults>>

\* Accept fails on the closed listener and serve returns its error.
ServeClosed(l) ==
    /\ sock[l] = "closed"
    /\ Goto(l, "serve", "stop")
    /\ err' = [err EXCEPT ![l] = "closed"]
    /\ UNCHANGED <<cancelled, sock, watch, attempt, backoff, event, faults>>

\* serve returns by itself: Accept failed, no protocol server could be built,
\* or it returned nil, which becomes the error "listener closed".
ServeFails(l) ==
    /\ Goto(l, "serve", "stop")
    /\ Fault
    /\ err' = [err EXCEPT ![l] = "other"]
    /\ UNCHANGED <<cancelled, sock, watch, attempt, backoff, event>>

\* stop() and listener.Close(): stop has no effect on an f already started.
Stop(l) ==
    /\ Goto(l, "stop", "check")
    /\ watch' = [watch EXCEPT ![l] = IF @ = "armed" THEN "off" ELSE @]
    /\ sock' = [sock EXCEPT ![l] = "closed"]
    /\ UNCHANGED <<cancelled, attempt, backoff, err, event, faults>>

\* if ctx.Err() != nil { return }; attempt++
Check(l) ==
    /\ Goto(l, "check", IF cancelled[l] THEN "returned" ELSE "complain")
    /\ attempt' = [attempt EXCEPT ![l] = IF cancelled[l] THEN @ ELSE @ + 1]
    /\ UNCHANGED <<cancelled, sock, watch, backoff, err, event, faults>>

\* report(Event{Err, Attempt, Backoff}): the context may be done by now.
Complain(l) ==
    /\ Goto(l, "complain", "wait")
    /\ event' = [event EXCEPT ![l] = [addr |-> FALSE, err |-> err[l],
                                      attempt |-> attempt[l], backoff |-> backoff[l]]]
    /\ UNCHANGED <<cancelled, sock, watch, attempt, backoff, err, faults>>

\* The timer fires (select may choose it although the context is done too).
Retry(l) ==
    /\ Goto(l, "wait", "head")
    /\ backoff' = [backoff EXCEPT ![l] = Least(2 * @, Maximum)]
    /\ UNCHANGED <<cancelled, sock, watch, attempt, err, event, faults>>

\* The context is done during the wait.
GiveUp(l) ==
    /\ cancelled[l]
    /\ Goto(l, "wait", "returned")
    /\ UNCHANGED <<cancelled, sock, watch, attempt, backoff, err, event, faults>>

\* What cancelling a set of contexts does at once: an armed AfterFunc starts.
CancelAll(ls) ==
    /\ cancelled' = [l \in Loops |-> cancelled[l] \/ l \in ls]
    /\ watch' = [l \in Loops |->
                   IF l \in ls /\ watch[l] = "armed" THEN "firing" ELSE watch[l]]

Cancel(l) ==
    /\ pc[l] # "idle"
    /\ ~cancelled[l]
    /\ CancelAll({l})
    /\ UNCHANGED <<pc, sock, attempt, backoff, err, event, faults>>

\* The steps the goroutines of l take by themselves.
Proceed(l) ==
    \/ Enter(l) \/ ListenOK(l) \/ ListenFail(l) \/ Discard(l) \/ Announce(l)
    \/ Watch(l) \/ Fire(l) \/ ServeClosed(l) \/ Stop(l) \/ Check(l)
    \/ Complain(l) \/ Retry(l) \/ GiveUp(l)

Done == \A l \in Loops : pc[l] = "returned" /\ watch[l] = "off"

\* Every call has returned and its goroutines are gone.
Terminated == Done /\ UNCHANGED serveVars

ServeNext ==
    \/ \E l \in Loops : Start(l) \/ Cancel(l) \/ Proceed(l)
                        \/ ListenBoth(l) \/ ServeFails(l)
    \/ Terminated

\* The goroutines run; nothing obliges anyone to call Serve or to cancel it.
Fairness == \A l \in Loops : WF_serveVars(Proceed(l))

ServeSpec == ServeInit /\ [][ServeNext]_serveVars /\ Fairness

-----------------------------------------------------------------------------

\* Every variable holds a value of its type.
ServeTypeOK ==
    /\ pc \in [Loops -> Points]
    /\ cancelled \in [Loops -> BOOLEAN]
    /\ sock \in [Loops -> {"none", "open", "closed"}]
    /\ watch \in [Loops -> {"off", "armed", "firing"}]
    /\ attempt \in [Loops -> Nat]
    /\ backoff \in [Loops -> Initial .. Maximum]
    /\ err \in [Loops -> Errors]
    /\ event \in [Loops -> Event]
    /\ faults \in 0 .. Faults

\* A call that is not between listen and the close that ends its iteration
\* holds no open listener: no return, no retry and no wait leaks one (serve.go:47,51).
NoLeak ==
    \A l \in Loops :
        sock[l] = "open" => pc[l] \in {"discard", "announce", "watch", "serve", "stop"}

\* An AfterFunc goroutine never outlives the iteration that registered it into
\* a later one: it would close nothing of its own, or miss the new listener.
WatchBelongsToIteration ==
    \A l \in Loops :
        watch[l] # "off" =>
            \/ pc[l] \in {"serve", "stop"}
            \/ cancelled[l] /\ pc[l] \in {"check", "returned"}

\* A served listener has someone who will close it when the context is done:
\* while serve runs on an open listener, f is armed or already on its way.
CancelReachesListener ==
    \A l \in Loops :
        pc[l] = "serve" /\ sock[l] = "open" =>
            watch[l] = IF cancelled[l] THEN "firing" ELSE "armed"

\* So no listener is lost: each is closed by its iteration, or by the one
\* cancellation that is meant for it.
NoListenerIsLost == NoLeak /\ WatchBelongsToIteration /\ CancelReachesListener

\* A cancelled call returns: the loop, listen, serve and the wait all notice.
CancelledReturns ==
    \A l \in Loops : cancelled[l] ~> pc[l] = "returned"

\* Every outage ends: a call that is not cancelled listens again once the
\* environment stops failing, however many attempts came before.
Recovers ==
    \A l \in Loops : pc[l] # "idle" ~> (cancelled[l] \/ sock[l] = "open")

\* So no call of Serve is stuck.
NoCallIsStuck == CancelledReturns /\ Recovers
=============================================================================
