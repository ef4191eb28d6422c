------------------------------ MODULE Registry ------------------------------
(***************************************************************************)
(* The traffic registry (metrics/registry.go): which connections and which *)
(* targets of a rule it lists, and how many connections each counter calls *)
(* active (counter.go, conn.go), while rules are synchronised, statistics  *)
(* are reset and connections are closed by their owners and by the web UI. *)
(*                                                                         *)
(* A rule of the registry is an object; a name gets a new one when it      *)
(* comes back after it was removed.  The counter of a rule is named by the *)
(* rule itself, those of its targets are Counters.  Bytes, rates and dial  *)
(* times are left out, and so are the counters of hops, which are opened   *)
(* and closed as those of rules are.                                       *)
(***************************************************************************)
EXTENDS Integers, FiniteSets

CONSTANTS Names,       \* names of rules
          Objects,     \* Rule objects
          Counters,    \* counters of targets
          Targets,     \* an address and the exit it was dialed through
          Conns,       \* connections
          Requests,    \* calls of Disconnect
          MaxTargets,  \* how many targets a rule may list
          MaxResets,   \* bound of the model
          None

ASSUME RegistryAssumption ==
    /\ IsFiniteSet(Conns) /\ IsFiniteSet(Targets)
    /\ MaxTargets \in Nat \ {0} /\ MaxResets \in Nat
    /\ Objects \cap Counters = {}
    /\ None \notin Names \cup Objects \cup Counters \cup Targets \cup Conns \cup Requests
    /\ None # "reset"

VARIABLES mu,          \* who holds Registry.mu over several steps: None, "reset", or a request
          rules,       \* the object of each name, or None
          name,        \* the name an object was made for, or None
          table,       \* the counter of each target an object lists, or None
          used,        \* the counters that were made
          live,        \* the connections the registry lists
          active,      \* what each counter says is open
          generation,  \* how often it was reset
          todo,        \* counters the running reset has yet to come to
          resets,      \* how many there have been
          pc,          \* where a connection stands
          rule,        \* the object it belongs to
          target,      \* the target it dials, None for an accepted one
          counter,     \* the counter it counts on
          opened,      \* the generation in which it was opened
          hook,        \* its Close removes it from the registry
          request      \* "idle", "done", or the connection it is closing

tables == <<rules, name, table, used, live>>
counting == <<active, generation, todo, resets>>
conns == <<pc, rule, target, counter, opened, hook>>
vars == <<mu, tables, counting, conns, request>>

All == Objects \cup Counters

Init ==
    /\ mu = None
    /\ rules = [n \in Names |-> None]
    /\ name = [o \in Objects |-> None]
    /\ table = [o \in Objects |-> [t \in Targets |-> None]]
    /\ used = {}
    /\ live = {}
    /\ active = [k \in All |-> 0]
    /\ generation = [k \in All |-> 0]
    /\ todo = {}
    /\ resets = 0
    /\ pc = [c \in Conns |-> "new"]
    /\ rule = [c \in Conns |-> None]
    /\ target = [c \in Conns |-> None]
    /\ counter = [c \in Conns |-> None]
    /\ opened = [c \in Conns |-> 0]
    /\ hook = [c \in Conns |-> FALSE]
    /\ request = [d \in Requests |-> "idle"]

Made(o) == name[o] # None
Current(o) == Made(o) /\ rules[name[o]] = o

-----------------------------------------------------------------------------
(* Sync: names that stay keep their object.                                *)

Remake(enabled) ==
    \E made \in [enabled -> Objects] :
       /\ \A n \in enabled :
             IF rules[n] # None THEN made[n] = rules[n]
                                ELSE ~Made(made[n]) /\ \A m \in enabled \ {n} : made[m] # made[n]
       /\ rules' = [n \in Names |-> IF n \in enabled THEN made[n] ELSE None]
       /\ name' = [o \in Objects |->
                     IF \E n \in enabled : made[n] = o
                     THEN CHOOSE n \in enabled : made[n] = o
                     ELSE name[o]]

Sync(enabled) ==
    /\ mu = None
    /\ Remake(enabled)
    /\ live' = {c \in live : rules'[name[rule[c]]] = rule[c]}
    /\ UNCHANGED <<mu, table, used, counting, conns, request>>

-----------------------------------------------------------------------------
(* Connections.                                                            *)

\* counter.open, by newConn.
Open(c, k) ==
    /\ active' = [active EXCEPT ![k] = @ + 1]
    /\ opened' = [opened EXCEPT ![c] = generation[k]]
    /\ counter' = [counter EXCEPT ![c] = k]
    /\ pc' = [pc EXCEPT ![c] = "open"]

\* The listener of a rule, which may be of an object that was removed.
Accept(c, o) ==
    /\ pc[c] = "new"
    /\ Made(o)
    /\ rule' = [rule EXCEPT ![c] = o]
    /\ Open(c, o)
    /\ UNCHANGED <<mu, tables, generation, todo, resets, target, hook, request>>

\* ruleDialer.DialContext before it takes the lock.
Dial(c, o, t) ==
    /\ pc[c] = "new"
    /\ Made(o)
    /\ pc' = [pc EXCEPT ![c] = "dialing"]
    /\ rule' = [rule EXCEPT ![c] = o]
    /\ target' = [target EXCEPT ![c] = t]
    /\ UNCHANGED <<mu, tables, counting, counter, opened, hook, request>>

Listed(o) == {t \in Targets : table[o][t] # None}
Idle(o) == {t \in Listed(o) : active[table[o][t]] = 0}

\* An idle target, if there is one; among several the code takes the one that
\* was active the longest ago.
Evictable(o) == IF Idle(o) # {} THEN Idle(o) ELSE Listed(o)

\* Rule.target: the counter of t is k, in the table `listed`.
Lookup(o, t, k, listed) ==
    \/ k = table[o][t] /\ k # None /\ listed = table[o]
    \/ /\ table[o][t] = None
       /\ k \in Counters \ used
       /\ \/ /\ Cardinality(Listed(o)) < MaxTargets
             /\ listed = [table[o] EXCEPT ![t] = k]
          \/ /\ Cardinality(Listed(o)) = MaxTargets
             /\ \E e \in Evictable(o) : listed = [table[o] EXCEPT ![e] = None, ![t] = k]

DialFails(c) ==
    /\ pc[c] = "dialing"
    /\ mu = None
    /\ \E k \in Counters, listed \in [Targets -> Counters \cup {None}] :
          /\ Lookup(rule[c], target[c], k, listed)
          /\ table' = [table EXCEPT ![rule[c]] = listed]
          /\ used' = used \cup {k}
    /\ pc' = [pc EXCEPT ![c] = "failed"]
    /\ UNCHANGED <<mu, rules, name, live, counting, rule, target, counter, opened, hook, request>>

\* A connection of an object that is no longer current is not listed.
DialSucceeds(c) ==
    /\ pc[c] = "dialing"
    /\ mu = None
    /\ \E k \in Counters, listed \in [Targets -> Counters \cup {None}] :
          /\ Lookup(rule[c], target[c], k, listed)
          /\ table' = [table EXCEPT ![rule[c]] = listed]
          /\ used' = used \cup {k}
          /\ Open(c, k)
    /\ hook' = [hook EXCEPT ![c] = Current(rule[c])]
    /\ live' = IF Current(rule[c]) THEN live \cup {c} ELSE live
    /\ UNCHANGED <<mu, rules, name, generation, todo, resets, rule, target, request>>

-----------------------------------------------------------------------------
(* conn.Close: once.Do, so that a second caller waits for the first.       *)

CloseBegins(c) ==
    /\ pc[c] = "open"
    /\ pc' = [pc EXCEPT ![c] = "closing"]
    /\ UNCHANGED <<mu, tables, counting, rule, target, counter, opened, hook, request>>

\* Mutant: the generation is not compared.
CloseCountsAlways(c) ==
    /\ pc[c] = "closing"
    /\ active' = [active EXCEPT ![counter[c]] = @ - 1]
    /\ pc' = [pc EXCEPT ![c] = IF hook[c] THEN "counted" ELSE "closed"]
    /\ UNCHANGED <<mu, tables, generation, todo, resets, rule, target, counter, opened, hook, request>>
\* counter.close.
CloseCounts(c) ==
    /\ pc[c] = "closing"
    /\ active' = IF generation[counter[c]] = opened[c]
                 THEN [active EXCEPT ![counter[c]] = @ - 1]
                 ELSE active
    /\ pc' = [pc EXCEPT ![c] = IF hook[c] THEN "counted" ELSE "closed"]
    /\ UNCHANGED <<mu, tables, generation, todo, resets, rule, target, counter, opened, hook, request>>

\* onClose.
Unlist(c) ==
    /\ pc[c] = "counted"
    /\ mu = None
    /\ live' = live \ {c}
    /\ pc' = [pc EXCEPT ![c] = "closed"]
    /\ UNCHANGED <<mu, rules, name, table, used, counting, rule, target, counter, opened, hook, request>>

-----------------------------------------------------------------------------
(* Disconnect.                                                             *)

\* Mutant: the lock is released when Disconnect returns.
FindLocked(d) ==
    /\ request[d] = "idle"
    /\ mu = None
    /\ \E c \in Conns :
          IF c \in live
          THEN request' = [request EXCEPT ![d] = c] /\ mu' = d
          ELSE request' = [request EXCEPT ![d] = "done"] /\ UNCHANGED mu
    /\ UNCHANGED <<tables, counting, conns>>
Find(d) ==
    /\ request[d] = "idle"
    /\ mu = None
    /\ \E c \in Conns :
          request' = [request EXCEPT ![d] = IF c \in live THEN c ELSE "done"]
    /\ UNCHANGED <<mu, tables, counting, conns>>

Disconnect(d) == request[d] \in Conns /\ CloseBegins(request[d])

Disconnected(d) ==
    /\ request[d] \in Conns
    /\ pc[request[d]] = "closed"
    /\ request' = [request EXCEPT ![d] = "done"]
    /\ mu' = IF mu = d THEN None ELSE mu
    /\ UNCHANGED <<tables, counting, conns>>

-----------------------------------------------------------------------------
(* Reset, which holds the lock while it resets one counter after another.  *)

ResetBegins ==
    /\ mu = None
    /\ resets < MaxResets
    /\ mu' = "reset"
    /\ resets' = resets + 1
    /\ todo' = UNION {{o} \cup {table[o][t] : t \in Listed(o)} : o \in {p \in Objects : Current(p)}}
    /\ UNCHANGED <<tables, active, generation, conns, request>>

\* counter.reset.
ResetCounter(k) ==
    /\ k \in todo
    /\ todo' = todo \ {k}
    /\ generation' = [generation EXCEPT ![k] = @ + 1]
    /\ active' = [active EXCEPT ![k] = 0]
    /\ UNCHANGED <<mu, tables, resets, conns, request>>

\* Mutant: targets that the counter calls idle are dropped.
InUseByCounter(o, t) == table[o][t] # None /\ active[table[o][t]] > 0
InUse(o, t) == \E c \in live : rule[c] = o /\ target[c] = t

\* Targets without a listed connection are dropped.
ResetEnds ==
    /\ mu = "reset"
    /\ todo = {}
    /\ mu' = None
    /\ table' = [o \in Objects |->
                   IF Current(o)
                   THEN [t \in Targets |-> IF InUse(o, t) THEN table[o][t] ELSE None]
                   ELSE table[o]]
    /\ UNCHANGED <<rules, name, used, live, counting, conns, request>>

-----------------------------------------------------------------------------
Next ==
    \/ \E enabled \in SUBSET Names : Sync(enabled)
    \/ \E c \in Conns, o \in Objects : Accept(c, o) \/ \E t \in Targets : Dial(c, o, t)
    \/ \E c \in Conns : \/ DialFails(c) \/ DialSucceeds(c)
                        \/ CloseBegins(c) \/ CloseCounts(c) \/ Unlist(c)
    \/ \E d \in Requests : Find(d) \/ Disconnect(d) \/ Disconnected(d)
    \/ ResetBegins \/ ResetEnds
    \/ \E k \in All : ResetCounter(k)

\* A goroutine that can run does run, and sync.RWMutex lets nobody starve.
\* Nothing has to be dialed, reset or disconnected.
Fairness ==
    /\ \A c \in Conns : WF_vars(CloseCounts(c)) /\ SF_vars(Unlist(c))
    /\ \A d \in Requests : WF_vars(Disconnect(d)) /\ WF_vars(Disconnected(d))
    /\ \A k \in All : WF_vars(ResetCounter(k))
    /\ WF_vars(ResetEnds)

Spec == Init /\ [][Next]_vars /\ Fairness

-----------------------------------------------------------------------------
(* Properties.                                                             *)

RegistryTypeOK ==
    /\ mu \in {None, "reset"} \cup Requests
    /\ rules \in [Names -> Objects \cup {None}]
    /\ name \in [Objects -> Names \cup {None}]
    /\ table \in [Objects -> [Targets -> Counters \cup {None}]]
    /\ used \subseteq Counters
    /\ live \subseteq Conns
    /\ active \in [All -> Int]
    /\ generation \in [All -> Nat]
    /\ todo \subseteq All
    /\ resets \in 0..MaxResets
    /\ pc \in [Conns -> {"new", "dialing", "failed", "open", "closing", "counted", "closed"}]
    /\ rule \in [Conns -> Objects \cup {None}]
    /\ target \in [Conns -> Targets \cup {None}]
    /\ counter \in [Conns -> All \cup {None}]
    /\ opened \in [Conns -> Nat]
    /\ hook \in [Conns -> BOOLEAN]
    /\ request \in [Requests -> Conns \cup {"idle", "done"}]

\* A counter's number of active connections is how many have been opened on
\* it since it was last reset and are not closed, whichever way resets, opens
\* and closes interleave: it never goes below zero (counter.go:37-53, 112-124).
OpenOn(k) == {c \in Conns : /\ pc[c] \in {"open", "closing"}
                            /\ counter[c] = k
                            /\ opened[c] = generation[k]}
ActiveIsOpen == \A k \in All : active[k] = Cardinality(OpenOn(k))

\* The connections listed are those of the rules listed that were dialed and
\* are not closed: none is missing, and none is of an object that was
\* replaced, even when its dial ended after that (registry.go:128-132,
\* dialer.go:87-89, 122-126).
LiveIsOpen ==
    live = {c \in Conns : /\ pc[c] \in {"open", "closing", "counted"}
                          /\ target[c] # None
                          /\ Current(rule[c])}

\* So what the statistics say is open is what is open.
OpenIsOpen == ActiveIsOpen /\ LiveIsOpen

\* A target leaves the list of its rule in two ways only: it is idle, or all
\* are active, when a new one needs its place; or a reset finds no connection
\* to it.  So a reset keeps the targets that are in use, although their
\* counters then say that they are idle (registry.go:201-216, 228-239).
BusyTargetsStay ==
    [][ \A o \in Objects, t \in Targets :
          table[o][t] # None /\ table'[o][t] = None =>
            IF mu = "reset"
            THEN \A c \in Conns : pc[c] = "open" /\ rule[c] = o => target[c] # t
            ELSE \/ active[table[o][t]] = 0
                 \/ \A s \in Listed(o) : active[table[o][s]] > 0 ]_vars

\* Whoever closes a connection returns, a call of Disconnect too, although
\* closing it needs the lock under which it was found (registry.go:165-173,
\* dialer.go:122-126).
ClosesEnd ==
    /\ \A c \in Conns : pc[c] = "closing" ~> pc[c] = "closed"
    /\ \A d \in Requests : request[d] \in Conns ~> request[d] = "done"
=============================================================================
