------------------------------- MODULE MCWaits -------------------------------
(***************************************************************************)
(* Three components whose goroutines wait for one another, checked in one  *)
(* run: the virtual channels (EXTENDed), the traffic registry and the      *)
(* configs service.  The parts do not interact: `part` says which one a    *)
(* behaviour is about, and the others are at their start in it.            *)
(***************************************************************************)
EXTENDS VirtualNetwork, Integers, Sequences

CONSTANTS n1, n2,                                  \* names
          Objects, Counters, Targets, Conns, Disconnects, MaxTargets, MaxResets,
          a1, a2, a3, w1, list,                    \* addresses, and a no-proxy list
          Blank, Off, Broken, Nothing, Absent, Empty, Torn,
          Requests, Menu, MaxEdits, MaxCrashes

VARIABLES part,
          mu, rules, nameOf, targets, used, live, active, generation, todo, resets,
          conn, rule, targetOf, counter, opened, hook, request, file, version,
          phase, asked, pc, conf, temp, written, outcome, raced, lock, worker,
          invalid, applied, edits, crashes

R(called, listen) == [name |-> called, listen |-> listen]
Default == [rules |-> <<R(n1, a1)>>, web |-> w1, noProxy |-> list]

\* A call of each way through the service.
Operations ==
    {[kind |-> "update", name |-> n1, rule |-> R(n2, a3)],
     [kind |-> "replace",
      conf |-> [rules |-> <<R(n1, a3), R(n2, a1)>>, web |-> Off, noProxy |-> Nothing]]}

Registry == INSTANCE Registry WITH
    Names <- {n1}, Requests <- Disconnects,
    name <- nameOf, table <- targets, target <- targetOf, pc <- conn
ConfigStore == INSTANCE ConfigStore WITH
    Addresses <- {a1, a2, a3, w1}, Lists <- {list}, Edits <- {Torn}

registryVars == <<mu, rules, nameOf, targets, used, live, active, generation, todo,
                  resets, conn, rule, targetOf, counter, opened, hook, request>>
storeVars == <<file, version, phase, asked, pc, conf, temp, written, outcome, raced,
               lock, worker, invalid, applied, edits, crashes>>
allVars == <<part, vars, registryVars, storeVars>>

-----------------------------------------------------------------------------
WaitsInit ==
    /\ part \in {"virtual", "registry", "store"}
    /\ Init /\ Registry!Init /\ ConfigStore!StoreInit
    /\ part # "store" => file = Absent

WaitsNext ==
    \/ part = "virtual" /\ Next /\ UNCHANGED <<part, registryVars, storeVars>>
    \/ part = "registry" /\ Registry!Next /\ UNCHANGED <<part, vars, storeVars>>
    \/ part = "store" /\ ConfigStore!Next /\ UNCHANGED <<part, vars, registryVars>>

\* The fairness of each module.  A behaviour is of one part for good: fairness
\* of a disjunction over the parts is fairness of the disjunct of that part.
VirtualFairness ==
    /\ \A n \in Names : WF_vars(part = "virtual" /\ LoopProceeds(n))
    /\ \A l \in Listeners : WF_vars(part = "virtual" /\ ListenerProceeds(l))
    /\ \A d \in Dials : WF_vars(part = "virtual" /\ DialProceeds(d))

RegistryFairness ==
    /\ \A c \in Conns : WF_registryVars(part = "registry" /\ Registry!CloseCounts(c))
    /\ \A d \in Disconnects :
          /\ WF_registryVars(part = "registry" /\ Registry!Disconnect(d))
          /\ WF_registryVars(part = "registry" /\ Registry!Disconnected(d))
    /\ \A k \in Registry!All : WF_registryVars(part = "registry" /\ Registry!ResetCounter(k))
    /\ WF_registryVars(part = "registry" /\ Registry!ResetEnds)

StoreFairness ==
    /\ \A r \in Requests : WF_storeVars(part = "store" /\ ConfigStore!Handle(r))
    /\ \A w \in Requests \cup {Menu} : WF_storeVars(part = "store" /\ ConfigStore!ReloadEnds(w))
    /\ WF_storeVars(part = "store" /\ ConfigStore!InitStat)
    /\ WF_storeVars(part = "store" /\ ConfigStore!InitWrite)

\* Connections and requests are as many: each pair shares its strong fairness.
Pairs == CHOOSE p \in [Conns -> Requests] : \A c, d \in Conns : p[c] = p[d] => c = d
Locks(c) ==
    \/ part = "registry" /\ Registry!Unlist(c) /\ UNCHANGED storeVars
    \/ part = "store" /\ ConfigStore!ReloadLoads(Pairs[c]) /\ UNCHANGED registryVars
StrongFairness == \A c \in Conns : SF_<<registryVars, storeVars>>(Locks(c))

WaitsSpec == WaitsInit /\ [][WaitsNext]_allVars
          /\ VirtualFairness /\ RegistryFairness /\ StoreFairness /\ StrongFairness

-----------------------------------------------------------------------------
(* Properties of the parts but the virtual channels.                       *)

\* Registry: whoever closes a connection returns, a call of Disconnect too,
\* although closing takes the lock under which the connection was found.
ClosesEnd == Registry!ClosesEnd

\* ConfigStore: every request is answered, or lost with the process.
EveryRequestEnds == ConfigStore!EveryRequestEnds
=============================================================================
