--------------------------- MODULE RegistryProofs ---------------------------
(***************************************************************************)
(* Proofs of the safety properties of Registry, for any number of rules,   *)
(* targets, connections and resets.                                        *)
(***************************************************************************)
EXTENDS Registry, FiniteSetTheorems, TLAPS

\* What a connection knows of its counter and its rule.
Opening ==
    \A c \in Conns :
       /\ pc[c] # "new" => rule[c] \in Objects /\ Made(rule[c])
       /\ pc[c] \in {"open", "closing", "counted", "closed"} =>
             counter[c] \in All /\ opened[c] <= generation[counter[c]]
       /\ pc[c] = "dialing" => target[c] \in Targets
       /\ pc[c] = "new" => target[c] = None
       /\ pc[c] \in {"new", "dialing"} => ~hook[c]
       /\ pc[c] = "counted" => hook[c]
       /\ hook[c] => target[c] # None

\* An object is current for the name it was made for, or for none.
Naming == \A n \in Names : rules[n] # None => name[rules[n]] = n

\* A connection that will not be removed is one that is not listed.
Hooked ==
    \A c \in Conns :
       pc[c] \in {"open", "closing"} /\ target[c] # None /\ ~hook[c] => ~Current(rule[c])

RegistryInv ==
    RegistryTypeOK /\ Opening /\ Naming /\ Hooked /\ ActiveIsOpen /\ LiveIsOpen

-----------------------------------------------------------------------------
LEMMA InitInv == Init => RegistryInv
<1> SUFFICES ASSUME Init PROVE RegistryInv
  OBVIOUS
<1>1. RegistryTypeOK
  BY RegistryAssumption DEF Init, RegistryTypeOK, All
<1>2. Opening /\ Naming /\ Hooked
  BY DEF Init, Opening, Naming, Hooked
<1>3. ActiveIsOpen
  <2> SUFFICES ASSUME NEW k \in All PROVE active[k] = Cardinality(OpenOn(k))
    BY DEF ActiveIsOpen
  <2>1. OpenOn(k) = {}
    BY DEF Init, OpenOn
  <2> QED
    BY <2>1, FS_EmptySet DEF Init
<1>4. LiveIsOpen
  BY DEF Init, LiveIsOpen
<1> QED
  BY <1>1, <1>2, <1>3, <1>4 DEF RegistryInv

-----------------------------------------------------------------------------
(* How the number of open connections of a counter changes.                *)

LEMMA OpenFinite ==
    ASSUME NEW k PROVE IsFiniteSet(OpenOn(k)) /\ Cardinality(OpenOn(k)) \in Nat
<1>1. OpenOn(k) \subseteq Conns
  BY DEF OpenOn
<1> QED
  BY <1>1, RegistryAssumption, FS_Subset, FS_CardinalityType

\* Opening a connection.
LEMMA OpenStep ==
    ASSUME RegistryInv, NEW c \in Conns, NEW k \in All, Open(c, k),
           pc[c] \in {"new", "dialing"}, UNCHANGED generation
    PROVE  ActiveIsOpen'
<1> SUFFICES ASSUME NEW h \in All PROVE active'[h] = Cardinality(OpenOn(h)')
  BY DEF ActiveIsOpen
<1>1. active[h] = Cardinality(OpenOn(h))
  BY DEF RegistryInv, ActiveIsOpen
<1>2. active \in [All -> Int]
  BY DEF RegistryInv, RegistryTypeOK
<1>3. active' = [active EXCEPT ![k] = @ + 1]
  BY DEF Open
<1>4. CASE h = k
  <2>1. OpenOn(h)' = OpenOn(h) \cup {c}
    BY <1>4 DEF Open, OpenOn, RegistryInv, RegistryTypeOK
  <2>2. c \notin OpenOn(h)
    BY DEF OpenOn
  <2>3. Cardinality(OpenOn(h)') = Cardinality(OpenOn(h)) + 1
    <3>1. IsFiniteSet(OpenOn(h))
      BY OpenFinite
    <3> QED
      BY <2>1, <2>2, <3>1, FS_AddElement
  <2>4. active'[h] = active[h] + 1
    BY <1>2, <1>3, <1>4
  <2> QED
    BY <1>1, <2>3, <2>4
<1>5. CASE h # k
  <2>1. OpenOn(h)' = OpenOn(h)
    BY <1>5 DEF Open, OpenOn, RegistryInv, RegistryTypeOK
  <2>2. active'[h] = active[h]
    BY <1>2, <1>3, <1>5
  <2> QED
    BY <1>1, <2>1, <2>2
<1> QED
  BY <1>4, <1>5

\* Steps that neither open nor close, nor reset.
LEMMA QuietStep ==
    ASSUME RegistryInv, UNCHANGED <<active, generation, counter, opened>>,
           \A c \in Conns : pc[c] \in {"open", "closing"} <=> pc'[c] \in {"open", "closing"}
    PROVE  ActiveIsOpen'
<1> SUFFICES ASSUME NEW k \in All PROVE active'[k] = Cardinality(OpenOn(k)')
  BY DEF ActiveIsOpen
<1>1. OpenOn(k)' = OpenOn(k)
  BY DEF OpenOn
<1> QED
  BY <1>1 DEF RegistryInv, ActiveIsOpen

-----------------------------------------------------------------------------
(* Steps.                                                                  *)

LEMMA SyncStep ==
    ASSUME RegistryInv, NEW enabled \in SUBSET Names, Sync(enabled)
    PROVE  RegistryInv'
<1> USE RegistryAssumption DEF RegistryInv, RegistryTypeOK
<1>0. PICK made \in [enabled -> Objects] :
          /\ \A n \in enabled :
                IF rules[n] # None THEN made[n] = rules[n]
                                   ELSE ~Made(made[n]) /\ \A m \in enabled \ {n} : made[m] # made[n]
          /\ rules' = [n \in Names |-> IF n \in enabled THEN made[n] ELSE None]
          /\ name' = [o \in Objects |->
                        IF \E n \in enabled : made[n] = o
                        THEN CHOOSE n \in enabled : made[n] = o
                        ELSE name[o]]
  BY DEF Sync, Remake
<1>1. \A m, n \in enabled : made[m] = made[n] => m = n
  <2> SUFFICES ASSUME NEW m \in enabled, NEW n \in enabled, made[m] = made[n], m # n
               PROVE  FALSE
    OBVIOUS
  <2>1. rules[n] # None /\ rules[m] # None
    BY <1>0
  <2> QED
    BY <1>0, <2>1 DEF Naming
<1>2. \A n \in enabled : name'[made[n]] = n
  BY <1>0, <1>1
<1>3. \A o \in Objects : Made(o) => name'[o] = name[o]
  <2> SUFFICES ASSUME NEW o \in Objects, Made(o), NEW n \in enabled, made[n] = o
               PROVE  name'[o] = name[o]
    BY <1>0
  <2>1. rules[n] = o
    BY <1>0
  <2> QED
    BY <1>2, <2>1 DEF Naming, Made
<1>4. RegistryTypeOK'
  BY <1>0 DEF Sync, tables, counting, conns
<1>5. Naming'
  BY <1>0, <1>2 DEF Naming
<1>6. Opening'
  BY <1>3 DEF Sync, Opening, Made, conns, counting
<1>7. \A o \in Objects : Made(o) /\ Current(o)' => Current(o)
  <2> SUFFICES ASSUME NEW o \in Objects, Made(o), Current(o)' PROVE Current(o)
    OBVIOUS
  <2>1. rules'[name[o]] = o /\ name[o] \in Names
    BY <1>3 DEF Current, Made
  <2>2. name[o] \in enabled /\ made[name[o]] = o
    BY <1>0, <2>1
  <2> QED
    BY <1>0, <2>2 DEF Current
<1>8. Hooked'
  BY <1>7 DEF Hooked, Opening, Sync, conns
<1>9. ActiveIsOpen'
  BY QuietStep DEF Sync, conns, counting
<1>10. LiveIsOpen'
  <2>1. \A c \in Conns : pc[c] # "new" => (Current(rule[c])' <=> rules'[name[rule[c]]] = rule[c])
    BY <1>3 DEF Opening, Current, Made, Sync, conns
  <2>2. live' = {c \in live : rules'[name[rule[c]]] = rule[c]}
    BY DEF Sync
  <2>3. \A c \in Conns : pc[c] # "new" /\ Current(rule[c])' => Current(rule[c])
    BY <1>7 DEF Opening, Sync, conns
  <2> QED
    BY <2>1, <2>2, <2>3 DEF LiveIsOpen, Sync, conns
<1> QED
  BY <1>4, <1>5, <1>6, <1>8, <1>9, <1>10

LEMMA AcceptStep ==
    ASSUME RegistryInv, NEW c \in Conns, NEW o \in Objects, Accept(c, o)
    PROVE  RegistryInv'
<1> USE RegistryAssumption DEF RegistryInv, RegistryTypeOK, Accept, tables
<1>1. RegistryTypeOK'
  BY DEF Open, All
<1>2. Opening'
  BY DEF Opening, Open, All, Made
<1>3. Naming'
  BY DEF Naming
<1>4. Hooked'
  BY DEF Hooked, Opening, Open, Current, Made
<1>5. ActiveIsOpen'
  BY OpenStep DEF All
<1>6. LiveIsOpen'
  BY DEF LiveIsOpen, Opening, Open, Current, Made
<1> QED
  BY <1>1, <1>2, <1>3, <1>4, <1>5, <1>6

LEMMA DialStep ==
    ASSUME RegistryInv, NEW c \in Conns, NEW o \in Objects, NEW t \in Targets, Dial(c, o, t)
    PROVE  RegistryInv'
<1> USE RegistryAssumption DEF RegistryInv, RegistryTypeOK, Dial, tables, counting
<1>1. RegistryTypeOK'
  OBVIOUS
<1>2. Opening'
  BY DEF Opening, Made
<1>3. Naming' /\ Hooked'
  BY DEF Naming, Hooked, Current, Made
<1>4. ActiveIsOpen'
  BY QuietStep
<1>5. LiveIsOpen'
  BY DEF LiveIsOpen, Current, Made
<1> QED
  BY <1>1, <1>2, <1>3, <1>4, <1>5

LEMMA DialFailsStep ==
    ASSUME RegistryInv, NEW c \in Conns, DialFails(c)
    PROVE  RegistryInv'
<1>0. PICK k \in Counters, listed \in [Targets -> Counters \cup {None}] :
         table' = [table EXCEPT ![rule[c]] = listed] /\ used' = used \cup {k}
  BY DEF DialFails
<1> USE RegistryAssumption DEF RegistryInv, RegistryTypeOK, DialFails, counting
<1>1. RegistryTypeOK'
  <2>1. table' \in [Objects -> [Targets -> Counters \cup {None}]]
    BY <1>0
  <2>2. used' \subseteq Counters
    BY <1>0
  <2> QED
    BY <2>1, <2>2
<1>2. Opening'
  BY DEF Opening, Made
<1>3. Naming' /\ Hooked'
  BY DEF Naming, Hooked, Current, Made
<1>4. ActiveIsOpen'
  BY QuietStep
<1>5. LiveIsOpen'
  BY DEF LiveIsOpen, Current, Made
<1> QED
  BY <1>1, <1>2, <1>3, <1>4, <1>5

LEMMA DialSucceedsStep ==
    ASSUME RegistryInv, NEW c \in Conns, DialSucceeds(c)
    PROVE  RegistryInv'
<1>0. PICK k \in Counters, listed \in [Targets -> Counters \cup {None}] :
         Open(c, k) /\ table' = [table EXCEPT ![rule[c]] = listed] /\ used' = used \cup {k}
  BY DEF DialSucceeds
<1> USE RegistryAssumption DEF RegistryInv, RegistryTypeOK, DialSucceeds
<1>1. RegistryTypeOK'
  <2>1. table' \in [Objects -> [Targets -> Counters \cup {None}]]
    BY <1>0
  <2>2. live' \subseteq Conns /\ used' \subseteq Counters
    BY <1>0
  <2>3. hook' \in [Conns -> BOOLEAN]
    BY DEF Current, Made
  <2> QED
    BY <1>0, <2>1, <2>2, <2>3 DEF Open, All
<1>2. rule[c] \in Objects /\ Made(rule[c]) /\ target[c] \in Targets /\ ~hook[c]
  BY DEF Opening
<1>3. \A o : Current(o)' <=> Current(o)
  BY DEF Current, Made
<1>4. Opening'
  BY <1>0, <1>2 DEF Opening, Open, All, Made
<1>5. Naming'
  BY DEF Naming
<1>6. Hooked'
  BY <1>0, <1>2, <1>3 DEF Hooked, Opening, Open
<1>7. ActiveIsOpen'
  BY <1>0, OpenStep DEF All
<1>8. LiveIsOpen'
  BY <1>0, <1>2, <1>3 DEF LiveIsOpen, Opening, Open
<1> QED
  BY <1>1, <1>4, <1>5, <1>6, <1>7, <1>8

LEMMA CloseBeginsStep ==
    ASSUME RegistryInv, NEW c \in Conns, CloseBegins(c)
    PROVE  RegistryInv'
<1> USE RegistryAssumption DEF RegistryInv, RegistryTypeOK, CloseBegins, tables, counting
<1>1. RegistryTypeOK'
  OBVIOUS
<1>2. Opening'
  BY DEF Opening, Made
<1>3. Naming' /\ Hooked'
  BY DEF Naming, Hooked, Current, Made
<1>4. ActiveIsOpen'
  BY QuietStep
<1>5. LiveIsOpen'
  BY DEF LiveIsOpen, Current, Made
<1> QED
  BY <1>1, <1>2, <1>3, <1>4, <1>5

LEMMA CloseCountsStep ==
    ASSUME RegistryInv, NEW c \in Conns, CloseCounts(c)
    PROVE  RegistryInv'
<1> USE RegistryAssumption DEF RegistryInv, RegistryTypeOK, CloseCounts, tables
<1>0. counter[c] \in All
  BY DEF Opening
<1>1. RegistryTypeOK'
  BY <1>0
<1>2. Opening'
  BY DEF Opening, Made
<1>3. Naming' /\ Hooked'
  BY DEF Naming, Hooked, Current, Made
<1>4. ActiveIsOpen'
  <2> SUFFICES ASSUME NEW k \in All PROVE active'[k] = Cardinality(OpenOn(k)')
    BY DEF ActiveIsOpen
  <2>1. active[k] = Cardinality(OpenOn(k))
    BY DEF ActiveIsOpen
  <2>2. CASE k = counter[c] /\ generation[k] = opened[c]
    <3>1. OpenOn(k)' = OpenOn(k) \ {c}
      BY <2>2 DEF OpenOn
    <3>2. c \in OpenOn(k)
      BY <2>2 DEF OpenOn
    <3>3. Cardinality(OpenOn(k)') = Cardinality(OpenOn(k)) - 1
      BY <3>1, <3>2, OpenFinite, FS_RemoveElement
    <3> QED
      BY <2>1, <2>2, <3>3
  <2>3. CASE ~(k = counter[c] /\ generation[k] = opened[c])
    <3>1. OpenOn(k)' = OpenOn(k)
      BY <2>3 DEF OpenOn
    <3> QED
      BY <2>1, <2>3, <3>1
  <2> QED
    BY <2>2, <2>3
<1>5. LiveIsOpen'
  <2>1. \A o : Current(o)' <=> Current(o)
    BY DEF Current, Made
  <2> QED
    BY <2>1 DEF LiveIsOpen, Hooked
<1> QED
  BY <1>1, <1>2, <1>3, <1>4, <1>5

LEMMA UnlistStep ==
    ASSUME RegistryInv, NEW c \in Conns, Unlist(c)
    PROVE  RegistryInv'
<1> USE RegistryAssumption DEF RegistryInv, RegistryTypeOK, Unlist, counting
<1>1. RegistryTypeOK'
  OBVIOUS
<1>2. Opening'
  BY DEF Opening, Made
<1>3. Naming' /\ Hooked'
  BY DEF Naming, Hooked, Current, Made
<1>4. ActiveIsOpen'
  BY QuietStep
<1>5. LiveIsOpen'
  BY DEF LiveIsOpen, Current, Made
<1> QED
  BY <1>1, <1>2, <1>3, <1>4, <1>5

\* Find and Disconnected change only requests and the lock.
LEMMA RequestStep ==
    ASSUME RegistryInv, NEW d \in Requests, Find(d) \/ Disconnected(d)
    PROVE  RegistryInv'
<1> USE RegistryAssumption DEF RegistryInv, RegistryTypeOK
<1>1. UNCHANGED <<tables, counting, conns>>
  BY DEF Find, Disconnected
<1>2. RegistryTypeOK'
  BY <1>1 DEF Find, Disconnected, tables, counting, conns
<1>3. Opening' /\ Naming' /\ Hooked' /\ LiveIsOpen'
  BY <1>1 DEF Opening, Naming, Hooked, LiveIsOpen, Current, Made, tables, counting, conns
<1>4. ActiveIsOpen'
  BY <1>1, QuietStep DEF counting, conns
<1> QED
  BY <1>2, <1>3, <1>4

LEMMA ResetBeginsStep ==
    ASSUME RegistryInv, ResetBegins
    PROVE  RegistryInv'
<1> USE RegistryAssumption DEF RegistryInv, RegistryTypeOK, ResetBegins, tables, conns
<1>1. todo' \subseteq All
  BY DEF All, Listed
<1>2. RegistryTypeOK'
  BY <1>1
<1>3. Opening' /\ Naming' /\ Hooked' /\ LiveIsOpen'
  BY DEF Opening, Naming, Hooked, LiveIsOpen, Current, Made
<1>4. ActiveIsOpen'
  BY QuietStep
<1> QED
  BY <1>2, <1>3, <1>4

LEMMA ResetCounterStep ==
    ASSUME RegistryInv, NEW k \in All, ResetCounter(k)
    PROVE  RegistryInv'
<1> USE RegistryAssumption DEF RegistryInv, RegistryTypeOK, ResetCounter, tables, conns
<1>1. RegistryTypeOK'
  OBVIOUS
<1>2. Opening'
  BY DEF Opening, Made
<1>3. Naming' /\ Hooked' /\ LiveIsOpen'
  BY DEF Naming, Hooked, LiveIsOpen, Current, Made
<1>4. ActiveIsOpen'
  <2> SUFFICES ASSUME NEW h \in All PROVE active'[h] = Cardinality(OpenOn(h)')
    BY DEF ActiveIsOpen
  <2>1. CASE h = k
    <3>1. OpenOn(h)' = {}
      BY <2>1 DEF OpenOn, Opening
    <3> QED
      BY <2>1, <3>1, FS_EmptySet
  <2>2. CASE h # k
    <3>1. OpenOn(h)' = OpenOn(h)
      BY <2>2 DEF OpenOn
    <3> QED
      BY <2>2, <3>1 DEF ActiveIsOpen
  <2> QED
    BY <2>1, <2>2
<1> QED
  BY <1>1, <1>2, <1>3, <1>4

LEMMA ResetEndsStep ==
    ASSUME RegistryInv, ResetEnds
    PROVE  RegistryInv'
<1> USE RegistryAssumption DEF RegistryInv, RegistryTypeOK, ResetEnds, counting, conns
<1>1. RegistryTypeOK'
  OBVIOUS
<1>2. Opening' /\ Naming' /\ Hooked' /\ LiveIsOpen'
  BY DEF Opening, Naming, Hooked, LiveIsOpen, Current, Made
<1>3. ActiveIsOpen'
  BY QuietStep
<1> QED
  BY <1>1, <1>2, <1>3

LEMMA StepInv == RegistryInv /\ [Next]_vars => RegistryInv'
<1> SUFFICES ASSUME RegistryInv, [Next]_vars PROVE RegistryInv'
  OBVIOUS
<1>1. ASSUME NEW enabled \in SUBSET Names, Sync(enabled) PROVE RegistryInv'
  BY <1>1, SyncStep
<1>2. ASSUME NEW c \in Conns, NEW o \in Objects, Accept(c, o) PROVE RegistryInv'
  BY <1>2, AcceptStep
<1>3. ASSUME NEW c \in Conns, NEW o \in Objects, NEW t \in Targets, Dial(c, o, t)
      PROVE  RegistryInv'
  BY <1>3, DialStep
<1>4. ASSUME NEW c \in Conns, \/ DialFails(c) \/ DialSucceeds(c)
                              \/ CloseBegins(c) \/ CloseCounts(c) \/ Unlist(c)
      PROVE  RegistryInv'
  BY <1>4, DialFailsStep, DialSucceedsStep, CloseBeginsStep, CloseCountsStep, UnlistStep
<1>5. ASSUME NEW d \in Requests, Find(d) \/ Disconnected(d) PROVE RegistryInv'
  BY <1>5, RequestStep
<1>6. ASSUME NEW d \in Requests, Disconnect(d) PROVE RegistryInv'
  BY <1>6, CloseBeginsStep DEF Disconnect
<1>7. ASSUME ResetBegins \/ ResetEnds PROVE RegistryInv'
  BY <1>7, ResetBeginsStep, ResetEndsStep
<1>8. ASSUME NEW k \in All, ResetCounter(k) PROVE RegistryInv'
  BY <1>8, ResetCounterStep
<1>9. CASE UNCHANGED vars
  <2>1. UNCHANGED <<mu, tables, counting, conns, request>>
    BY <1>9 DEF vars
  <2>2. RegistryTypeOK' /\ Opening' /\ Naming' /\ Hooked' /\ LiveIsOpen'
    BY <2>1 DEF RegistryInv, RegistryTypeOK, Opening, Naming, Hooked, LiveIsOpen, Current, Made,
                tables, counting, conns
  <2>3. ActiveIsOpen'
    BY <2>1, QuietStep DEF counting, conns
  <2> QED
    BY <2>2, <2>3 DEF RegistryInv
<1> QED
  BY <1>1, <1>2, <1>3, <1>4, <1>5, <1>6, <1>7, <1>8, <1>9 DEF Next

THEOREM RegistryInvariant == Spec => []RegistryInv
BY InitInv, StepInv, PTL DEF Spec

-----------------------------------------------------------------------------
\* Every counter's number of active connections is right in every state:
\* counter.open, close and reset (counter.go:37-53, 112-124).
THEOREM ActiveIsOpenTheorem == Spec => []ActiveIsOpen
<1>1. RegistryInv => ActiveIsOpen
  BY DEF RegistryInv
<1> QED
  BY RegistryInvariant, <1>1, PTL

\* The list of connections is right in every state: Sync, the dialer of a
\* rule and onClose (registry.go:128-132, dialer.go:87-126).
THEOREM LiveIsOpenTheorem == Spec => []LiveIsOpen
<1>1. RegistryInv => LiveIsOpen
  BY DEF RegistryInv
<1> QED
  BY RegistryInvariant, <1>1, PTL

\* What Rule.target evicts and Reset drops (registry.go:201-216, 228-239).
THEOREM BusyTargetsStayTheorem == Spec => BusyTargetsStay
<1>1. ASSUME RegistryInv, [Next]_vars, NEW o \in Objects, NEW t \in Targets,
             table[o][t] # None, table'[o][t] = None
      PROVE  IF mu = "reset"
             THEN \A c \in Conns : pc[c] = "open" /\ rule[c] = o => target[c] # t
             ELSE \/ active[table[o][t]] = 0
                  \/ \A s \in Listed(o) : active[table[o][s]] > 0
  <2> USE <1>1, RegistryAssumption DEF RegistryInv, RegistryTypeOK
  <2>1. CASE ResetEnds
    <3>1. ~\E c \in live : rule[c] = o /\ target[c] = t
      BY <2>1 DEF ResetEnds, InUse
    <3>2. Current(o)
      BY <2>1 DEF ResetEnds
    <3> QED
      BY <2>1, <3>1, <3>2 DEF ResetEnds, LiveIsOpen
  <2>2. ASSUME NEW c \in Conns, DialFails(c) \/ DialSucceeds(c), active[table[o][t]] # 0,
               NEW s \in Listed(o)
        PROVE  active[table[o][s]] > 0
    <3>1. PICK k \in Counters, listed \in [Targets -> Counters \cup {None}] :
             /\ Lookup(rule[c], target[c], k, listed)
             /\ table' = [table EXCEPT ![rule[c]] = listed]
      BY <2>2 DEF DialFails, DialSucceeds
    <3>2. rule[c] = o /\ listed[t] = None
      BY <3>1
    <3>3. t \in Evictable(o)
      BY <3>1, <3>2 DEF Lookup
    <3>4. Idle(o) = {}
      BY <2>2, <3>3 DEF Evictable, Idle
    <3>5. s \in Targets /\ table[o][s] \in All
      BY DEF Listed, All
    <3>6. active[table[o][s]] # 0
      BY <3>4 DEF Idle
    <3>7. active[table[o][s]] \in Nat
      BY <3>5, OpenFinite DEF ActiveIsOpen
    <3> QED
      BY <3>6, <3>7
  <2>3. (\E c \in Conns : DialFails(c) \/ DialSucceeds(c)) => mu # "reset"
    BY DEF DialFails, DialSucceeds
  <2>4. ResetEnds => mu = "reset"
    BY DEF ResetEnds
  <2>5. ResetEnds \/ \E c \in Conns : DialFails(c) \/ DialSucceeds(c)
    BY DEF Next, vars, tables, Sync, Accept, Dial, CloseBegins, CloseCounts, Unlist, Find,
           Disconnect, Disconnected, ResetBegins, ResetCounter
  <2> QED
    BY <2>1, <2>2, <2>3, <2>4, <2>5
<1>2. RegistryInv /\ [Next]_vars =>
        [ \A o \in Objects, t \in Targets :
            table[o][t] # None /\ table'[o][t] = None =>
              IF mu = "reset"
              THEN \A c \in Conns : pc[c] = "open" /\ rule[c] = o => target[c] # t
              ELSE \/ active[table[o][t]] = 0
                   \/ \A s \in Listed(o) : active[table[o][s]] > 0 ]_vars
  BY <1>1
<1> QED
  BY RegistryInvariant, <1>2, PTL DEF Spec, BusyTargetsStay

\* Counters and lists agree with the connections that are open.
THEOREM OpenIsOpenTheorem == Spec => []OpenIsOpen
BY ActiveIsOpenTheorem, LiveIsOpenTheorem, PTL DEF OpenIsOpen
=============================================================================
