--------------------------- MODULE WebShellProofs ---------------------------
(***************************************************************************)
(* Proofs about what every page of the web UI stands on, part by part:     *)
(* each has an invariant that its actions keep, from which its properties  *)
(* follow, for any pages, histories, addresses, subjects, tips and bounds. *)
(* The last section puts the parts together and states what holds of a     *)
(* behaviour of WebShell.                                                  *)
(***************************************************************************)
EXTENDS WebShell, SequenceTheorems, FiniteSetTheorems, TLAPS

-----------------------------------------------------------------------------
(* The poller.                                                             *)

\* A load that is in flight is of the current generation and not settled, and
\* there is one only while the page is looked at.
InFlight ==
    flight # 0 =>
        /\ phase[flight] \in {"sent", "served", "then"}
        /\ begun[flight] = generation
        /\ Looked

\* The loads numbered up to `requested` were started.
Numbered == \A n \in Loads : phase[n] = "none" <=> n > requested

\* Nobody has seen more than there is.
Known ==
    /\ data <= version /\ wrote <= version
    /\ \A r \in Refreshes : asked[r] <= version
Seen == \A n \in Loads : seen[n] <= version

\* No load begins during a write.
NoneBegins == mark <= requested /\ (busy => mark = requested)

\* An answer that is still wanted is as new as what is shown, and as the last
\* write if its load was numbered after the mark.
Newer ==
    flight # 0 /\ phase[flight] = "served" =>
        /\ seen[flight] >= data
        /\ flight > mark => seen[flight] >= wrote

\* A refresh that does not wait for an older load has one that the server has
\* answered, if at all, after the refresh was called.
Own(r) ==
    /\ refresh[r] = "waiting" => joined[r] \in 1..requested
    /\ refresh[r] \in {"loading", "value"} =>
          /\ joined[r] \in 1..requested
          /\ \/ phase[joined[r]] = "sent" /\ refresh[r] = "loading"
             \/ seen[joined[r]] = -1 /\ refresh[r] = "loading"
             \/ seen[joined[r]] >= asked[r]
          /\ refresh[r] = "value" => phase[joined[r]] = "done"
Owned == \A r \in Refreshes : Own(r)

PollerInv ==
    /\ PollerTypeOK /\ InFlight /\ Numbered /\ Known /\ Seen /\ NoneBegins
    /\ Newer /\ Owned /\ KeepsPolling

LEMMA InitInv == Init => PollerInv
<1> SUFFICES ASSUME Init PROVE PollerInv
  OBVIOUS
<1>1. PollerTypeOK
  <2>1. FlagsOK
    BY Zenon DEF Init, FlagsOK
  <2> QED
    BY <2>1, PollerAssumption DEF Init, PollerTypeOK, Loads
<1>2. InFlight /\ Numbered /\ Known /\ Seen /\ NoneBegins /\ Newer /\ Owned /\ KeepsPolling
  BY DEF Init, InFlight, Numbered, Known, Seen, NoneBegins, Newer, Owned, Own, KeepsPolling,
         Looked, Loads
<1> QED
  BY <1>1, <1>2 DEF PollerInv

(* Beginning a load, by a tick or by a refresh.                            *)

LEMMA FetchStep ==
    ASSUME PollerInv, flight = 0, ~busy, FetchOnce, Looked',
           UNCHANGED <<generation, shown, writes>>
    PROVE  /\ flight' = requested + 1 /\ flight' \in Loads
           /\ requested' \in 0..MaxLoads
           /\ phase' \in [Loads -> {"none", "sent", "served", "then", "settled", "done"}]
           /\ begun' \in [Loads -> 0..MaxGeneration]
           /\ Outstanding(flight)'
           /\ \A n \in 1..requested : phase'[n] = phase[n]
           /\ (InFlight /\ Numbered /\ NoneBegins /\ Newer)'
<1> USE PollerAssumption DEF PollerInv, PollerTypeOK, FetchOnce, Loads
<1>1. /\ flight' = requested + 1 /\ flight' \in Loads
      /\ requested' \in 0..MaxLoads
      /\ phase' \in [Loads -> {"none", "sent", "served", "then", "settled", "done"}]
      /\ begun' \in [Loads -> 0..MaxGeneration]
  OBVIOUS
<1>2. phase'[flight'] = "sent" /\ begun'[flight'] = generation'
  BY <1>1
<1>3. \A n \in 1..requested : phase'[n] = phase[n]
  BY <1>1
<1>4. InFlight'
  BY <1>2 DEF InFlight
<1>5. Numbered'
  BY <1>1, <1>2 DEF Numbered
<1>6. NoneBegins'
  BY DEF NoneBegins, writes
<1>7. Newer'
  BY <1>2 DEF Newer
<1> QED
  BY <1>1, <1>2, <1>3, <1>4, <1>5, <1>6, <1>7 DEF Outstanding

\* A step after which the refreshes stand where they stood, with their loads.
LEMMA OwnedStays ==
    ASSUME PollerInv, UNCHANGED <<refreshes, seen>>, requested' >= requested, requested' \in Nat,
           \A n \in 1..requested : phase'[n] = phase[n]
    PROVE  Owned'
BY DEF PollerInv, PollerTypeOK, Owned, Own, refreshes

LEMMA TickStep ==
    ASSUME PollerInv, Tick, UNCHANGED <<generation, shown, refreshes, writes>>,
           subscribed' \subseteq Users, visible' \in BOOLEAN,
           flight # 0 => Looked'
    PROVE  PollerInv'
<1> USE DEF PollerInv
<1>1. CASE Looked' /\ ~busy /\ flight = 0
  <2>1. FetchOnce /\ timer' = FALSE
    BY <1>1 DEF Tick
  <2>2. PollerTypeOK'
    <3>1. FlagsOK'
      BY <2>1, Zenon DEF FlagsOK, PollerTypeOK, writes
    <3> QED
      BY <1>1, <2>1, <3>1, FetchStep DEF PollerTypeOK, FetchOnce, shown, refreshes, writes
  <2>3. (InFlight /\ Numbered /\ NoneBegins /\ Newer)'
    BY <1>1, <2>1, FetchStep
  <2>4. Known' /\ Seen'
    BY <2>1 DEF Known, Seen, FetchOnce, shown, refreshes, writes
  <2>5. Owned'
    BY <1>1, <2>1, FetchStep, OwnedStays DEF FetchOnce, PollerTypeOK
  <2>6. KeepsPolling'
    BY <1>1, <2>1, FetchStep DEF KeepsPolling
  <2> QED
    BY <2>2, <2>3, <2>4, <2>5, <2>6
<1>2. CASE ~(Looked' /\ ~busy /\ flight = 0)
  <2>1. timer' = Looked' /\ UNCHANGED <<flight, loads>>
    BY <1>2 DEF Tick
  <2>2. PollerTypeOK'
    <3>1. FlagsOK'
      BY <2>1, Zenon DEF FlagsOK, PollerTypeOK, writes, Looked
    <3> QED
      BY <2>1, <3>1 DEF PollerTypeOK, loads, shown, refreshes, writes
  <2>3. (InFlight /\ Numbered /\ Known /\ Seen /\ NoneBegins /\ Newer)'
    BY <2>1 DEF InFlight, Numbered, Known, Seen, NoneBegins, Newer, loads, shown,
       refreshes, writes
  <2>4. Owned'
    BY <2>1, OwnedStays DEF loads, PollerTypeOK
  <2>5. KeepsPolling'
    BY <2>1 DEF KeepsPolling
  <2> QED
    BY <2>2, <2>3, <2>4, <2>5
<1> QED
  BY <1>1, <1>2

(* The timer, views and the visibility of the page.                        *)

LEMMA FireStep == ASSUME PollerInv, Fire PROVE PollerInv'
<1>1. subscribed' \subseteq Users /\ visible' \in BOOLEAN /\ (flight # 0 => Looked')
  BY DEF PollerInv, PollerTypeOK, FlagsOK, InFlight, Fire, page, Looked
<1> QED
  BY <1>1, TickStep DEF Fire

\* A view or a page that comes without a tick.
LEMMA ComesStep ==
    ASSUME PollerInv, UNCHANGED <<timer, flight, loads, generation, shown, refreshes, writes>>,
           subscribed' \subseteq Users, visible' \in BOOLEAN,
           flight # 0 => Looked', Looked' => Looked
    PROVE  PollerInv'
<1> USE DEF PollerInv
<1>1. PollerTypeOK'
  <2>1. FlagsOK'
    BY Zenon DEF FlagsOK, PollerTypeOK, writes
  <2> QED
    BY <2>1 DEF PollerTypeOK, loads, shown, refreshes, writes
<1>2. (InFlight /\ Numbered /\ Known /\ Seen /\ NoneBegins /\ Newer)'
  BY DEF InFlight, Numbered, Known, Seen, NoneBegins, Newer, loads, shown, refreshes, writes
<1>3. Owned'
  BY OwnedStays DEF loads, PollerTypeOK
<1>4. KeepsPolling'
  BY DEF KeepsPolling, Outstanding, loads
<1> QED
  BY <1>1, <1>2, <1>3, <1>4

\* A view or a page that goes.
LEMMA GoesStep ==
    ASSUME PollerInv, Invalidate, timer' = FALSE, ~Looked',
           UNCHANGED <<shown, loads, refreshes, writes>>,
           subscribed' \subseteq Users, visible' \in BOOLEAN
    PROVE  PollerInv'
<1> USE DEF PollerInv, Invalidate
<1>1. PollerTypeOK'
  <2>1. FlagsOK'
    BY Zenon DEF FlagsOK, PollerTypeOK, writes
  <2> QED
    BY <2>1, PollerAssumption DEF PollerTypeOK, loads, shown, refreshes, writes
<1>2. (InFlight /\ Numbered /\ Known /\ Seen /\ NoneBegins /\ Newer)'
  BY DEF InFlight, Numbered, Known, Seen, NoneBegins, Newer, loads, shown, refreshes, writes
<1>3. Owned'
  BY OwnedStays DEF loads, PollerTypeOK
<1>4. KeepsPolling'
  BY DEF KeepsPolling
<1> QED
  BY <1>1, <1>2, <1>3, <1>4

LEMMA SubscribeStep == ASSUME PollerInv, NEW u \in Users, Subscribe(u) PROVE PollerInv'
<1>1. subscribed' \subseteq Users /\ visible' \in BOOLEAN /\ (flight # 0 => Looked')
  BY DEF PollerInv, PollerTypeOK, FlagsOK, InFlight, Subscribe, Looked
<1>2. CASE subscribed = {}
  BY <1>1, <1>2, TickStep DEF Subscribe
<1>3. CASE subscribed # {}
  BY <1>1, <1>3, ComesStep DEF Subscribe, Looked
<1> QED
  BY <1>2, <1>3

LEMMA UnsubscribeStep == ASSUME PollerInv, NEW u \in Users, Unsubscribe(u) PROVE PollerInv'
<1>1. subscribed' \subseteq Users /\ visible' \in BOOLEAN
  BY DEF PollerInv, PollerTypeOK, FlagsOK, Unsubscribe
<1>2. CASE subscribed = {u}
  BY <1>1, <1>2, GoesStep DEF Unsubscribe, Looked
<1>3. CASE subscribed # {u}
  <2>1. subscribed' # {} /\ subscribed # {}
    BY <1>3 DEF Unsubscribe
  <2>2. flight # 0 => Looked'
    BY <2>1 DEF Unsubscribe, Looked, PollerInv, InFlight
  <2> QED
    BY <1>1, <1>3, <2>1, <2>2, ComesStep DEF Unsubscribe, Looked
<1> QED
  BY <1>2, <1>3

LEMMA HideStep == ASSUME PollerInv, Hide PROVE PollerInv'
<1>1. subscribed' \subseteq Users /\ visible' \in BOOLEAN /\ ~Looked'
  BY DEF PollerInv, PollerTypeOK, FlagsOK, Hide, Looked
<1>2. CASE subscribed # {}
  BY <1>1, <1>2, GoesStep DEF Hide
<1>3. CASE subscribed = {}
  <2>1. flight = 0
    BY <1>3 DEF PollerInv, InFlight, Looked
  <2> QED
    BY <1>1, <1>3, <2>1, ComesStep DEF Hide
<1> QED
  BY <1>2, <1>3

LEMMA ShowStep == ASSUME PollerInv, Show PROVE PollerInv'
<1>1. subscribed' \subseteq Users /\ visible' \in BOOLEAN
  BY DEF PollerInv, PollerTypeOK, FlagsOK, Show
<1>2. flight = 0
  BY DEF PollerInv, InFlight, Looked, Show
<1>3. CASE subscribed # {}
  BY <1>1, <1>2, <1>3, TickStep DEF Show
<1>4. CASE subscribed = {}
  BY <1>1, <1>2, <1>4, ComesStep DEF Show, Looked
<1> QED
  BY <1>3, <1>4

(* A load.                                                                 *)

\* A callback of a load that leaves its view and its refreshes alone.
LEMMA LoadTypes ==
    ASSUME PollerInv, NEW n \in Loads, NEW p \in {"served", "then", "settled", "done"},
           phase' = [phase EXCEPT ![n] = p], phase[n] # "none",
           UNCHANGED <<page, generation, requested, begun, refreshes, writes>>
    PROVE  /\ phase' \in [Loads -> {"none", "sent", "served", "then", "settled", "done"}]
           /\ (Numbered /\ NoneBegins)'
           /\ requested' \in 0..MaxLoads
BY DEF PollerInv, PollerTypeOK, Numbered, NoneBegins, writes, Loads

LEMMA RespondStep == ASSUME PollerInv, NEW n \in Loads, Respond(n) PROVE PollerInv'
<1> USE DEF PollerInv, Respond
<1>1. phase[n] = "sent" /\ phase' = [phase EXCEPT ![n] = "served"]
      /\ seen' = [seen EXCEPT ![n] = version] /\ version \in 0..MaxVersion
  BY DEF PollerTypeOK
<1>2. PollerTypeOK'
  <2>1. FlagsOK'
    BY Zenon DEF FlagsOK, PollerTypeOK, page, writes
  <2>2. seen' \in [Loads -> -1..MaxVersion]
    BY <1>1 DEF PollerTypeOK
  <2> QED
    BY <1>1, <2>1, <2>2, LoadTypes DEF PollerTypeOK, page, shown, refreshes, writes
<1>3. InFlight' /\ Known' /\ Seen' /\ Newer'
  BY <1>1 DEF PollerTypeOK, InFlight, Known, Seen, Newer, page, shown, refreshes, writes,
     Looked, Loads
<1>4. (Numbered /\ NoneBegins)'
  BY <1>1, LoadTypes
<1>5. Owned'
  <2> SUFFICES ASSUME NEW r \in Refreshes PROVE Own(r)'
    BY DEF Owned
  <2>1. Own(r) /\ asked[r] <= version /\ asked[r] \in 0..MaxVersion
    BY DEF Owned, Known, PollerTypeOK
  <2> QED
    BY <1>1, <2>1 DEF Own, PollerTypeOK, refreshes, Loads
<1>6. KeepsPolling'
  BY <1>1 DEF KeepsPolling, Outstanding, PollerTypeOK, page, Looked
<1> QED
  BY <1>2, <1>3, <1>4, <1>5, <1>6

\* The load was answered, and `seen` keeps the answer or forgets it.
LEMMA AnswerStep ==
    ASSUME PollerInv, NEW n \in Loads, phase[n] \in {"sent", "served"},
           phase' = [phase EXCEPT ![n] = "then"],
           \/ phase[n] = "served" /\ UNCHANGED seen
           \/ seen' = [seen EXCEPT ![n] = -1],
           UNCHANGED <<page, timer, generation, flight, requested, begun, refreshes,
                       writes>>,
           answered' \in 0..MaxLoads, data' \in 0..MaxVersion, data' <= version,
           shown' = shown \/ flight = n
    PROVE  PollerInv'
<1> USE DEF PollerInv
<1>1. PollerTypeOK'
  <2>1. FlagsOK'
    BY Zenon DEF FlagsOK, PollerTypeOK, page, writes
  <2>2. seen' \in [Loads -> -1..MaxVersion]
    BY PollerAssumption DEF PollerTypeOK
  <2> QED
    BY <2>1, <2>2, LoadTypes DEF PollerTypeOK, page, refreshes, writes
<1>2. InFlight'
  BY DEF PollerTypeOK, InFlight, page, Looked, Loads
<1>3. Known' /\ Seen'
  BY DEF Known, Seen, PollerTypeOK, refreshes, writes
<1>4. \A m \in Loads : m # n => phase'[m] = phase[m] /\ seen'[m] = seen[m]
  <2> TAKE m \in Loads
  <2>1. m # n => phase'[m] = phase[m]
    BY DEF PollerTypeOK
  <2>2. m # n => seen'[m] = seen[m]
    BY DEF PollerTypeOK
  <2> QED
    BY <2>1, <2>2
<1>5. Newer'
  <2>1. CASE flight = n
    BY <2>1 DEF PollerTypeOK, Newer
  <2>2. CASE flight # n
    <3>1. flight # 0 => flight \in Loads
      BY PollerAssumption DEF PollerTypeOK, Loads
    <3>2. UNCHANGED <<flight, data, wrote, mark>>
      BY <2>2 DEF shown, writes
    <3> QED
      BY <1>4, <2>2, <3>1, <3>2 DEF Newer
  <2> QED
    BY <2>1, <2>2
<1>6. (Numbered /\ NoneBegins)'
  BY LoadTypes
<1>7. Owned'
  <2> SUFFICES ASSUME NEW r \in Refreshes PROVE Own(r)'
    BY DEF Owned
  <2>1. Own(r) /\ UNCHANGED <<refresh[r], joined[r], asked[r], requested>>
    BY DEF Owned, refreshes
  <2>2. CASE joined[r] = n
    <3>1. phase'[n] = "then" /\ seen'[n] \in {seen[n], -1} /\ refresh[r] # "value"
      BY <2>1, <2>2 DEF Own, PollerTypeOK
    <3>2. phase[n] = "sent" => seen'[n] = -1
      BY DEF PollerTypeOK
    <3> QED
      BY <2>1, <2>2, <3>1, <3>2 DEF Own
  <2>3. CASE joined[r] # n
    <3>1. refresh[r] \in {"waiting", "loading", "value"} => joined[r] \in Loads
      BY <2>1 DEF Own, PollerTypeOK, Loads
    <3> QED
      BY <1>4, <2>1, <2>3, <3>1 DEF Own
  <2> QED
    BY <2>2, <2>3
<1>8. KeepsPolling'
  BY DEF KeepsPolling, Outstanding, PollerTypeOK, page, Looked
<1> QED
  BY <1>1, <1>2, <1>3, <1>5, <1>6, <1>7, <1>8

\* An answer that is current has a version.
LEMMA CurrentIsSeen ==
    ASSUME PollerInv, NEW n \in Loads, phase[n] = "served", Current(n)
    PROVE  flight = n /\ seen[n] \in 0..MaxVersion /\ seen[n] >= data /\ (n > mark => seen[n] >= wrote)
BY DEF PollerInv, PollerTypeOK, Newer, Current, Loads

LEMMA SucceedStep == ASSUME PollerInv, NEW n \in Loads, Succeed(n) PROVE PollerInv'
<1>1. CASE Current(n)
  <2>1. flight = n /\ seen[n] \in 0..MaxVersion
    BY <1>1, CurrentIsSeen DEF Succeed
  <2>2. seen[n] <= version
    BY DEF PollerInv, Seen
  <2>3. data' \in 0..MaxVersion /\ data' <= version /\ answered' \in 0..MaxLoads
    BY <1>1, <2>1, <2>2 DEF Succeed, Loads
  <2> QED
    BY <1>1, <2>1, <2>3, AnswerStep DEF Succeed
<1>2. CASE ~Current(n)
  <2>1. data \in 0..MaxVersion /\ data <= version /\ answered \in 0..MaxLoads
    BY DEF PollerInv, PollerTypeOK, Known
  <2> QED
    BY <1>2, <2>1, AnswerStep DEF Succeed, shown
<1> QED
  BY <1>1, <1>2

LEMMA FailStep == ASSUME PollerInv, NEW n \in Loads, Fail(n) PROVE PollerInv'
<1>1. data \in 0..MaxVersion /\ data <= version /\ answered \in 0..MaxLoads
  BY DEF PollerInv, PollerTypeOK, Known
<1> QED
  BY <1>1, AnswerStep DEF Fail, shown

\* The last two callbacks.
LEMMA SettleStep == ASSUME PollerInv, NEW n \in Loads, Settle(n) PROVE PollerInv'
<1> USE DEF PollerInv, Settle
<1>1. PollerTypeOK'
  <2>1. FlagsOK'
    BY Zenon DEF FlagsOK, PollerTypeOK, page, writes
  <2> QED
    BY <2>1, LoadTypes DEF PollerTypeOK, page, shown, refreshes, writes
<1>2. InFlight' /\ Newer'
  BY DEF PollerTypeOK, InFlight, Newer, page, shown, writes, Looked, Loads
<1>3. Known' /\ Seen'
  BY DEF Known, Seen, shown, refreshes, writes
<1>4. (Numbered /\ NoneBegins)'
  BY LoadTypes
<1>5. Owned'
  BY DEF Owned, Own, PollerTypeOK, refreshes, Loads
<1>6. KeepsPolling'
  BY DEF KeepsPolling, Outstanding, PollerTypeOK, page, Looked
<1> QED
  BY <1>1, <1>2, <1>3, <1>4, <1>5, <1>6

LEMMA RescheduleStep == ASSUME PollerInv, NEW n \in Loads, Reschedule(n) PROVE PollerInv'
<1> USE DEF PollerInv, Reschedule
<1>1. PollerTypeOK'
  <2>1. FlagsOK'
    BY Zenon DEF FlagsOK, PollerTypeOK, page, writes, Looked
  <2> QED
    BY <2>1, LoadTypes DEF PollerTypeOK, page, shown, refreshes, writes
<1>2. InFlight' /\ Newer'
  BY DEF PollerTypeOK, InFlight, Newer, page, shown, writes, Looked, Loads
<1>3. Known' /\ Seen'
  BY DEF Known, Seen, shown, refreshes, writes
<1>4. (Numbered /\ NoneBegins)'
  BY LoadTypes
<1>5. Owned'
  BY DEF Owned, Own, PollerTypeOK, refreshes, Loads
<1>6. KeepsPolling'
  BY DEF KeepsPolling, page, Looked
<1> QED
  BY <1>1, <1>2, <1>3, <1>4, <1>5, <1>6

(* refresh.                                                                *)

LEMMA ProceedStep ==
    ASSUME PollerInv, NEW r \in Refreshes, NEW g, Proceed(r, g),
           UNCHANGED <<page, timer, generation, shown, writes>>,
           since' \in [Refreshes -> 0..MaxGeneration],
           asked' \in [Refreshes -> 0..MaxVersion], asked'[r] <= version,
           \A q \in Refreshes \ {r} : asked'[q] = asked[q]
    PROVE  PollerInv'
<1> DEFINE wanted == g = generation /\ Looked /\ ~busy
<1> USE DEF PollerInv
<1>1. FlagsOK'
  BY Zenon DEF FlagsOK, PollerTypeOK, page, writes
<1>2. ASSUME NEW n \in Nat, UNCHANGED <<flight, loads>>, n \in 0..requested,
             \/ Go(r, "null", n)
             \/ Go(r, "waiting", n) /\ n # 0
      PROVE  PollerInv'
  <2> USE <1>2
  <2>1. PollerTypeOK'
    <3>1. /\ refresh' \in [Refreshes -> {"idle", "waiting", "loading", "value", "null"}]
          /\ joined' \in [Refreshes -> 0..MaxLoads]
      <4>1. n \in 0..MaxLoads
        BY PollerAssumption DEF PollerTypeOK
      <4> QED
        BY <4>1 DEF PollerTypeOK, Go
    <3> QED
      BY <1>1, <3>1 DEF PollerTypeOK, page, loads, shown, writes
  <2>2. (InFlight /\ Numbered /\ Seen /\ NoneBegins /\ Newer)'
    BY DEF InFlight, Numbered, Seen, NoneBegins, Newer, Looked, page, loads, shown, writes
  <2>3. Known'
    BY DEF Known, shown, writes
  <2>4. Owned'
    <3> SUFFICES ASSUME NEW q \in Refreshes PROVE Own(q)'
      BY DEF Owned
    <3>1. Own(q)
      BY DEF Owned
    <3>2. CASE q = r
      BY <3>2 DEF Own, Go, PollerTypeOK, loads
    <3>3. CASE q # r
      BY <3>1, <3>3 DEF Own, Go, PollerTypeOK, loads
    <3> QED
      BY <3>2, <3>3
  <2>5. KeepsPolling'
    BY DEF KeepsPolling, Outstanding, Looked, page, loads
  <2> QED
    BY <2>1, <2>2, <2>3, <2>4, <2>5
<1>3. CASE ~wanted /\ Go(r, "null", 0) /\ UNCHANGED <<flight, loads>>
  BY <1>2, <1>3 DEF PollerTypeOK
<1>4. CASE wanted /\ flight # 0 /\ Go(r, "waiting", flight) /\ UNCHANGED <<flight, loads>>
  <2>1. flight \in Nat /\ flight \in 0..requested
    BY DEF PollerTypeOK
  <2> QED
    BY <1>2, <1>4, <2>1
<1>5. CASE wanted /\ flight = 0 /\ FetchOnce /\ Go(r, "loading", requested')
  <2>1. Looked'
    BY <1>5, Zenon DEF Looked, page
  <2>2. /\ flight' = requested + 1 /\ flight' \in Loads /\ requested' = requested + 1
        /\ requested' \in 0..MaxLoads
        /\ phase' \in [Loads -> {"none", "sent", "served", "then", "settled", "done"}]
        /\ begun' \in [Loads -> 0..MaxGeneration]
        /\ Outstanding(flight)'
        /\ \A n \in 1..requested : phase'[n] = phase[n]
        /\ (InFlight /\ Numbered /\ NoneBegins /\ Newer)'
    BY <1>5, <2>1, FetchStep DEF FetchOnce
  <2>3. phase'[flight'] = "sent" /\ UNCHANGED seen
    BY <1>5, <2>2 DEF FetchOnce, PollerTypeOK
  <2>4. PollerTypeOK'
    BY <1>1, <1>5, <2>2, <2>3 DEF PollerTypeOK, Go, page, shown, writes
  <2>5. Known' /\ Seen'
    BY <2>3 DEF Known, Seen, shown, writes
  <2>6. Owned'
    <3> SUFFICES ASSUME NEW q \in Refreshes PROVE Own(q)'
      BY DEF Owned
    <3>1. Own(q)
      BY DEF Owned
    <3>2. CASE q = r
      BY <1>5, <2>2, <2>3, <3>2 DEF Own, Go, PollerTypeOK
    <3>3. CASE q # r
      BY <1>5, <2>2, <2>3, <3>1, <3>3 DEF Own, Go, PollerTypeOK
    <3> QED
      BY <3>2, <3>3
  <2>7. KeepsPolling'
    BY <2>2 DEF KeepsPolling
  <2> QED
    BY <2>2, <2>4, <2>5, <2>6, <2>7
<1> QED
  BY <1>3, <1>4, <1>5 DEF Proceed

LEMMA RefreshStep == ASSUME PollerInv, NEW r \in Refreshes, Refresh(r) PROVE PollerInv'
<1>1. /\ since' \in [Refreshes -> 0..MaxGeneration]
      /\ asked' \in [Refreshes -> 0..MaxVersion] /\ asked'[r] <= version
      /\ \A q \in Refreshes \ {r} : asked'[q] = asked[q]
  BY DEF PollerInv, PollerTypeOK, Refresh
<1> QED
  BY <1>1, ProceedStep DEF Refresh

LEMMA ResumeStep == ASSUME PollerInv, NEW r \in Refreshes, Resume(r) PROVE PollerInv'
<1>1. /\ since' \in [Refreshes -> 0..MaxGeneration]
      /\ asked' \in [Refreshes -> 0..MaxVersion] /\ asked'[r] <= version
      /\ \A q \in Refreshes \ {r} : asked'[q] = asked[q]
  BY DEF PollerInv, PollerTypeOK, Known, Resume
<1> QED
  BY <1>1, ProceedStep DEF Resume

LEMMA ReturnStep == ASSUME PollerInv, NEW r \in Refreshes, Return(r) PROVE PollerInv'
<1> USE DEF PollerInv, Return
<1>1. PollerTypeOK'
  <2>1. FlagsOK'
    BY Zenon DEF FlagsOK, PollerTypeOK, page, writes
  <2> QED
    BY <2>1 DEF PollerTypeOK, page, loads, shown, writes
<1>2. (InFlight /\ Numbered /\ Known /\ Seen /\ NoneBegins /\ Newer)'
  BY DEF InFlight, Numbered, Known, Seen, NoneBegins, Newer, Looked, page, loads, shown,
     writes
<1>3. Owned'
  <2> SUFFICES ASSUME NEW q \in Refreshes PROVE Own(q)'
    BY DEF Owned
  <2>1. Own(q)
    BY DEF Owned
  <2>2. CASE q = r
    BY <2>1, <2>2 DEF Own, PollerTypeOK, loads
  <2>3. CASE q # r
    BY <2>1, <2>3 DEF Own, PollerTypeOK, loads
  <2> QED
    BY <2>2, <2>3
<1>4. KeepsPolling'
  BY DEF KeepsPolling, Outstanding, Looked, page, loads
<1> QED
  BY <1>1, <1>2, <1>3, <1>4

(* Writes of the page, and changes made elsewhere.                         *)

LEMMA WriteStep ==
    ASSUME PollerInv, BeginWrite \/ Apply \/ EndWrite \/ Change
    PROVE  PollerInv'
<1> USE DEF PollerInv
<1>1. UNCHANGED <<page, timer, generation, flight, shown, loads, refreshes>>
  BY DEF BeginWrite, Apply, EndWrite, Change
<1>2. PollerTypeOK'
  <2>1. FlagsOK'
    BY <1>1, Zenon DEF FlagsOK, PollerTypeOK, page, BeginWrite, Apply, EndWrite, Change
  <2>2. version' \in 0..MaxVersion /\ wrote' \in 0..MaxVersion /\ mark' \in 0..MaxLoads
    BY PollerAssumption DEF PollerTypeOK, BeginWrite, Apply, EndWrite, Change
  <2> QED
    BY <1>1, <2>1, <2>2 DEF PollerTypeOK, page, loads, shown, refreshes
<1>3. (InFlight /\ Numbered)'
  BY <1>1 DEF InFlight, Numbered, Looked, page, loads
<1>4. version' \in Nat /\ version' >= version
  BY DEF PollerTypeOK, BeginWrite, Apply, EndWrite, Change
<1>5. Known' /\ Seen'
  <2>1. wrote' <= version'
    BY DEF PollerTypeOK, Known, BeginWrite, Apply, EndWrite, Change
  <2> QED
    BY <1>1, <1>4, <2>1 DEF PollerTypeOK, Known, Seen, loads, shown, refreshes
<1>6. NoneBegins'
  BY <1>1 DEF PollerTypeOK, NoneBegins, loads, BeginWrite, Apply, EndWrite, Change
<1>7. Newer'
  <2>1. flight > mark' => flight > mark /\ wrote' = wrote
    BY <1>1 DEF PollerTypeOK, NoneBegins, BeginWrite, Apply, EndWrite, Change
  <2> QED
    BY <1>1, <2>1 DEF Newer, loads, shown
<1>8. Owned'
  BY <1>1, OwnedStays DEF PollerTypeOK, loads
<1>9. KeepsPolling'
  BY <1>1 DEF KeepsPolling, Outstanding, Looked, page, loads
<1> QED
  BY <1>2, <1>3, <1>5, <1>6, <1>7, <1>8, <1>9

LEMMA NextInv == PollerInv /\ [Next]_vars => PollerInv'
<1> SUFFICES ASSUME PollerInv, [Next]_vars PROVE PollerInv'
  OBVIOUS
<1>1. ASSUME Next PROVE PollerInv'
  BY <1>1, FireStep, HideStep, ShowStep, SubscribeStep, UnsubscribeStep, RespondStep,
     SucceedStep, FailStep, SettleStep, RescheduleStep, RefreshStep, ResumeStep,
     ReturnStep, WriteStep DEF Next
<1>2. CASE UNCHANGED vars
  BY <1>2 DEF vars, page, shown, loads, refreshes, writes, PollerInv, PollerTypeOK, FlagsOK,
     InFlight, Numbered, Known, Seen, NoneBegins, Newer, Owned, Own, KeepsPolling,
     Outstanding, Looked
<1> QED
  BY <1>1, <1>2

-----------------------------------------------------------------------------
(* The router.                                                             *)

\* The invariant of the router: every entry has its stamp, and an undo is aimed.
RouterInv ==
    /\ Router!RouterAssumption /\ Router!RouterTypeOK
    /\ \A i \in DOMAIN entries : entries[i].stamp \in Int
    /\ Router!UndoIsAimed

LEMMA RouterStart ==
    ASSUME Router!RouterAssumption, Router!Init
    PROVE  RouterInv
<1> USE DEF Router!Init, Router!RouterAssumption
<1>1. entries = <<[hash |-> Home, stamp |-> 0]>> /\ [hash |-> Home,
stamp |-> 0] \in Router!Entries
    BY DEF Router!Entries
<1>2. entries \in Seq(Router!Entries) /\ DOMAIN entries = {1} /\ entries[1] = [hash |-> Home, stamp |-> 0]
    BY <1>1
<1>3. call \in [Calls -> [at : {"idle", "asking", "stale"}, to : Pages, replace : BOOLEAN]]
    BY DEF Router!Idle
<1>5. Router!RouterTypeOK
    <2>1. pending \in Seq(Int)
        BY EmptySeq
    <2>2. call \in [Calls -> [at : {"idle", "asking", "stale"}, to : Pages,
    replace : BOOLEAN]]
        BY <1>3
    <2>3. prompting \in BOOLEAN /\ dirty \in BOOLEAN /\ writing \in BOOLEAN /\ consent \in BOOLEAN
        BY Zenon
    <2>4. /\ pos \in DOMAIN entries /\ route \in Pages /\ acceptedIdx \in Int
          /\ expectedIdx \in Int \cup {None} /\ moves \in Nat /\ asks \in Nat
        BY <1>2
    <2> QED
        BY <1>2, <2>1, <2>2, <2>3, <2>4, Zenon DEF Router!RouterTypeOK
<1>6. Router!UndoIsAimed
    BY <1>2 DEF Router!UndoIsAimed, Router!StampsCount
<1> QED
    BY <1>2, <1>5, <1>6 DEF RouterInv

\* A list of entries in which the stamps count, once the entry at p has its own.
Counted(list, p) ==
    /\ list \in Seq(Router!Entries) /\ p \in DOMAIN list
    /\ \A i \in DOMAIN list \ {p} : list[i].stamp \in Int
    /\ \A i, j \in DOMAIN list : Router!Sync(list, i) - Router!Sync(list, j) = i - j

LEMMA StampAt ==
    ASSUME RouterInv, NEW list, NEW p, Counted(list, p),
           NEW e \in Router!Entries, e.stamp = Router!Sync(list, p),
           entries' = [list EXCEPT ![p] = e]
    PROVE  /\ entries' \in Seq(Router!Entries) /\ DOMAIN entries' = DOMAIN list
           /\ \A i \in DOMAIN list : entries'[i] = IF i = p THEN e ELSE list[i]
           /\ \A i \in DOMAIN list : entries'[i].stamp \in Int
           /\ Router!StampsCount'
<1>1. /\ list \in Seq(Router!Entries) /\ p \in 1..Len(list) /\ DOMAIN list = 1..Len(list)
    BY DEF Counted
<1>2. entries' \in Seq(Router!Entries) /\ Len(entries') = Len(list)
    BY <1>1, ExceptSeq
<1>3. DOMAIN entries' = DOMAIN list
    BY <1>1, <1>2
<1>4. \A i \in DOMAIN list : entries'[i] = IF i = p THEN e ELSE list[i]
    BY <1>1
<1>5. None \notin Int /\ acceptedIdx \in Int
    BY DEF RouterInv, Router!RouterAssumption, Router!RouterTypeOK
<1>6. \A i \in DOMAIN list : entries'[i].stamp = Router!Sync(list, i)
    <2> SUFFICES ASSUME NEW i \in DOMAIN list
                 PROVE  entries'[i].stamp = Router!Sync(list, i)
        OBVIOUS
    <2>1. CASE i = p
        BY <2>1, <1>4
    <2>2. CASE i # p
        BY <2>2, <1>4, <1>5 DEF Counted, Router!Sync
    <2> QED
        BY <2>1, <2>2
<1>7. \A i \in DOMAIN list : entries'[i].stamp \in Int
    <2> SUFFICES ASSUME NEW i \in DOMAIN list
                 PROVE  entries'[i].stamp \in Int
        OBVIOUS
    <2>1. list[i] \in Router!Entries
        BY <1>1, ElementOfSeq
    <2> QED
        BY <2>1, <1>5, <1>6 DEF Router!Sync, Router!Entries
<1>8. Router!StampsCount'
    BY <1>3, <1>6 DEF Counted, Router!StampsCount
<1> QED
    BY <1>2, <1>3, <1>4, <1>7, <1>8

\* What a step of the browser leaves behind.
Popped(list) ==
    /\ entries' \in Seq(Router!Entries) /\ pos' \in DOMAIN entries' /\ pending' \in Seq(Int)
    /\ route' \in Pages /\ acceptedIdx' \in Int /\ expectedIdx' \in Int \cup {None}
    /\ dirty' \in BOOLEAN /\ consent' \in BOOLEAN
    /\ \A i \in DOMAIN entries' : entries'[i].stamp \in Int
    /\ Router!UndoIsAimed'
    /\ Router!AgreedToLeave
    /\ list = entries =>
         \A i \in DOMAIN entries : Router!RouteFor(entries'[i].hash) = Router!RouteFor(entries[i].hash)

\* The page of the entry at p is shown: the one there, or the one shown before,
\* when that is the page of the entry.
LEMMA PopstateAccepts ==
    ASSUME RouterInv, NEW list, NEW p, Counted(list, p), NEW queue \in Seq(Int),
           NEW target \in Pages, Router!RouteFor(list[p].hash) = target,
           target # route /\ dirty => consent', consent' \in BOOLEAN,
           Router!Show(target), acceptedIdx' = Router!Sync(list, p), expectedIdx' = None,
           pending' = queue,
           pos' = p, Router!Canonicalise(list, p, Router!Sync(list, p), target)
    PROVE  Popped(list)
<1> DEFINE e == [hash |-> target, stamp |-> Router!Sync(list, p)]
<1>1. list[p] \in Router!Entries /\ acceptedIdx \in Int /\ None \notin Int
    <2>1. p \in 1..Len(list) /\ list \in Seq(Router!Entries)
        BY DEF Counted
    <2> QED
        BY <2>1, ElementOfSeq DEF RouterInv, Router!RouterTypeOK, Router!RouterAssumption
<1>2. Router!Sync(list, p) \in Int
    BY <1>1 DEF Router!Sync, Router!Entries
<1>3. e \in Router!Entries /\ e.stamp = Router!Sync(list, p) /\ e.hash = target
    BY <1>2 DEF Router!Entries
<1>4. entries' = [list EXCEPT ![p] = e]
    BY DEF Router!Canonicalise
<1> HIDE DEF e
<1>5. /\ entries' \in Seq(Router!Entries) /\ DOMAIN entries' = DOMAIN list
      /\ \A i \in DOMAIN list : entries'[i] = IF i = p THEN e ELSE list[i]
      /\ \A i \in DOMAIN list : entries'[i].stamp \in Int
      /\ Router!StampsCount'
    BY <1>3, <1>4, StampAt
<1>6. p \in DOMAIN list
    BY DEF Counted
<1>7. entries'[p].stamp = acceptedIdx' /\ entries'[p].hash = route'
    BY <1>3, <1>5, <1>6 DEF Router!Show
<1>8. Router!UndoIsAimed'
    BY <1>5, <1>6, <1>7 DEF Router!UndoIsAimed
<1>9. Router!AgreedToLeave
    BY DEF Router!AgreedToLeave, Router!Show
<1>10. list = entries =>
         \A i \in DOMAIN entries : Router!RouteFor(entries'[i].hash) = Router!RouteFor(entries[i].hash)
    BY <1>3, <1>5 DEF Router!RouteFor
<1>11. dirty' \in BOOLEAN /\ route' \in Pages
    BY DEF Router!Show
<1> QED
    BY <1>2, <1>5, <1>6, <1>8, <1>9, <1>10, <1>11 DEF Popped

LEMMA PopstateStep ==
    ASSUME RouterInv, NEW list, NEW p, Counted(list, p), NEW queue \in Seq(Int),
           \E i \in DOMAIN list : list[i].stamp = acceptedIdx /\ list[i].hash = route,
           Router!Popstate(list, p, queue)
    PROVE  Popped(list)
<1> DEFINE idx == Router!Sync(list, p)
           to == Router!RouteFor(list[p].hash)
           stays == expectedIdx = idx \/ to = route
           mayAsk == ~writing /\ ~prompting /\ dirty
           Accept(q) ==
            /\ Router!Show(q)
            /\ acceptedIdx' = idx /\ expectedIdx' = None /\ pending' = queue
            /\ Router!Canonicalise(list, p, idx, q)
<1>1. PICK yes \in BOOLEAN :
        /\ consent' = (~stays /\ mayAsk /\ yes)
        /\ IF stays THEN Accept(route)
           ELSE IF Router!Refused(yes)
                THEN Router!Restore(list, p, idx, queue) /\ UNCHANGED <<route,
                                                                        acceptedIdx, dirty>>
                ELSE Accept(to)
    BY Zenon DEF Router!Popstate
<1>2. pos' = p
    BY DEF Router!Popstate
<1>3. /\ Home \in Pages /\ Garbage \cap Pages = {} /\ acceptedIdx \in Int /\ None \notin Int
      /\ route \in Pages /\ dirty \in BOOLEAN /\ expectedIdx \in Int \cup {None}
    BY DEF RouterInv, Router!RouterTypeOK, Router!RouterAssumption
<1>4. p \in DOMAIN list /\ list \in Seq(Router!Entries) /\ list[p] \in Router!Entries
    BY DEF Counted
<1>5. to \in Pages
    BY <1>3 DEF Router!RouteFor
<1>6. idx \in Int
    BY <1>3, <1>4 DEF Router!Sync, Router!Entries
<1>7. idx = acceptedIdx => list[p].hash = route
    <2> SUFFICES ASSUME idx = acceptedIdx PROVE list[p].hash = route
        OBVIOUS
    <2>1. PICK i \in DOMAIN list : list[i].stamp = acceptedIdx /\ list[i].hash = route
        OBVIOUS
    <2>2. Router!Sync(list, i) = acceptedIdx
        BY <2>1, <1>3 DEF Router!Sync
    <2>3. Router!Sync(list, i) - Router!Sync(list, p) = i - p
        BY <1>4 DEF Counted
    <2>4. i \in Int /\ p \in Int
        BY <1>4
    <2>5. i = p
        BY <2>2, <2>3, <2>4, <1>3
    <2> QED
        BY <2>1, <2>5
<1>8. expectedIdx = idx => idx = acceptedIdx
    BY <1>3, <1>6 DEF RouterInv, Router!UndoIsAimed
<1>9. consent' \in BOOLEAN
    BY <1>1
<1>10. CASE stays
    <2>1. to = route
        BY <1>10, <1>7, <1>8, <1>3 DEF Router!RouteFor
    <2>2. Accept(route)
        BY <1>1, <1>10
    <2> QED
        BY <2>1, <2>2, <1>2, <1>3, <1>9, PopstateAccepts
<1>11. CASE ~stays /\ ~Router!Refused(yes)
    <2>1. Accept(to)
        BY <1>1, <1>11
    <2>2. dirty => consent'
        BY <1>1, <1>11 DEF Router!Refused
    <2> QED
        BY <2>1, <2>2, <1>2, <1>5, <1>9, PopstateAccepts
<1>12. CASE ~stays /\ Router!Refused(yes)
    <2>1. Router!Restore(list, p, idx, queue) /\ UNCHANGED <<route, acceptedIdx, dirty>>
        BY <1>1, <1>12
    <2>2. CASE idx = acceptedIdx
        <3>1. to = route
            BY <2>2, <1>7, <1>3 DEF Router!RouteFor
        <3> QED
            BY <3>1, <1>12
    <2>3. CASE idx # acceptedIdx
        <3> DEFINE e == [list[p] EXCEPT !.stamp = idx]
        <3>1. e \in Router!Entries /\ e.stamp = Router!Sync(list,
        p) /\ e.hash = list[p].hash
            BY <1>4, <1>6 DEF Router!Entries
        <3>2. /\ entries' = [list EXCEPT ![p] = e] /\ expectedIdx' = acceptedIdx
              /\ pending' = Append(queue, acceptedIdx - idx)
            BY <2>1, <2>3 DEF Router!Restore
        <3> HIDE DEF e
        <3>3. /\ entries' \in Seq(Router!Entries) /\ DOMAIN entries' = DOMAIN list
              /\ \A i \in DOMAIN list : entries'[i] = IF i = p THEN e ELSE list[i]
              /\ \A i \in DOMAIN list : entries'[i].stamp \in Int
              /\ Router!StampsCount'
            BY <3>1, <3>2, StampAt
        <3>4. acceptedIdx - idx \in Int
            BY <1>3, <1>6
        <3> HIDE DEF idx, to
        <3>5. /\ pending' \in Seq(Int) /\ pending' # <<>>
              /\ pending'[Len(pending')] = acceptedIdx - idx
            BY <3>2, <3>4, AppendProperties
        <3>6. entries'[p].stamp = idx
            BY <3>1, <3>3, <1>4 DEF idx
        <3>7. \E i \in DOMAIN entries' :
                entries'[i].stamp = acceptedIdx' /\ entries'[i].hash = route'
            <4>1. PICK i \in DOMAIN list : list[i].stamp = acceptedIdx /\ list[i].hash = route
                OBVIOUS
            <4>2. i # p
                <5>1. Router!Sync(list, i) = acceptedIdx
                    BY <4>1, <1>3 DEF Router!Sync
                <5> QED
                    BY <5>1, <2>3 DEF idx
            <4> QED
                BY <4>1, <4>2, <3>3, <2>1
        <3>8. Router!UndoIsAimed'
            <4>1. entries'[pos'].stamp + pending'[Len(pending')] = acceptedIdx'
                BY <1>2, <1>3, <1>6, <2>1, <3>5, <3>6
            <4>2. expectedIdx' # None /\ expectedIdx' = acceptedIdx'
                BY <3>2, <2>1, <1>3
            <4> QED
                BY <3>3, <3>5, <3>7, <4>1, <4>2 DEF Router!UndoIsAimed
        <3>9. Router!AgreedToLeave
            BY <2>1 DEF Router!AgreedToLeave
        <3>10. list = entries =>
                 \A i \in DOMAIN entries : Router!RouteFor(entries'[i].hash) = Router!RouteFor(entries[i].hash)
            BY <3>1, <3>3
        <3> QED
            BY <3>2, <3>3, <3>5, <3>8, <3>9, <3>10, <2>1, <1>2, <1>3, <1>4, <1>9 DEF Popped
    <2> QED
        BY <2>2, <2>3
<1> QED
    BY <1>10, <1>11, <1>12

LEMMA EntriesCount ==
    ASSUME RouterInv, NEW p \in DOMAIN entries
    PROVE  /\ Counted(entries, p) /\ Router!Sync(entries, p) = entries[p].stamp
           /\ \A i \in DOMAIN entries : Router!Sync(entries, i) = entries[i].stamp
BY DEF RouterInv, Router!RouterTypeOK, Router!RouterAssumption, Router!UndoIsAimed,
   Router!StampsCount, Counted, Router!Sync

\* The types of what the browser does not touch.
Around ==
    /\ prompting \in BOOLEAN
    /\ call \in [Calls -> [at : {"idle", "asking", "stale"}, to : Pages, replace : BOOLEAN]]
    /\ writing \in BOOLEAN /\ moves \in Nat /\ asks \in Nat

LEMMA RouterPopped ==
    ASSUME RouterInv, NEW list, Popped(list), Around'
    PROVE  RouterInv'
<1>1. Router!RouterAssumption
    BY DEF RouterInv
<1>2. Router!RouterTypeOK'
    BY Zenon DEF Popped, Around, Router!RouterTypeOK
<1> QED
    BY <1>1, <1>2 DEF Popped, RouterInv, Router!RouterAssumption

LEMMA TraverseStep ==
    ASSUME RouterInv, NEW delta \in Int, Router!Traverse(delta)
    PROVE  Popped(entries) /\ RouterInv'
<1>1. Popped(entries)
    <2>1. pos + delta \in DOMAIN entries /\ Router!Popstate(entries, pos + delta, pending)
        BY DEF Router!Traverse
    <2>2. Counted(entries, pos + delta)
        BY <2>1, EntriesCount
    <2>3. \E i \in DOMAIN entries : entries[i].stamp = acceptedIdx /\ entries[i].hash = route
        BY DEF RouterInv, Router!UndoIsAimed
    <2>4. pending \in Seq(Int)
        BY DEF RouterInv, Router!RouterTypeOK
    <2> QED
        BY <2>1, <2>2, <2>3, <2>4, PopstateStep
<1>2. Around'
    BY DEF Router!Traverse, Router!Popstate, Around, RouterInv, Router!RouterTypeOK
<1> QED
    BY <1>1, <1>2, RouterPopped

\* A history.go() that leads out of the history is none that undoes a move.
LEMMA LandOutside ==
    ASSUME RouterInv, pending # <<>>, pos + Head(pending) \notin DOMAIN entries,
           pending' = Tail(pending), consent' = FALSE,
           UNCHANGED <<entries, pos, Router!router, prompting, call, dirty, writing,
                       moves, asks>>
    PROVE  Popped(entries) /\ Around'
<1>1. /\ pending \in Seq(Int) /\ entries \in Seq(Router!Entries) /\ pos \in DOMAIN entries
      /\ route \in Pages /\ acceptedIdx \in Int /\ expectedIdx \in Int \cup {None}
      /\ dirty \in BOOLEAN /\ Router!StampsCount
    BY DEF RouterInv, Router!RouterTypeOK, Router!UndoIsAimed
<1>2. /\ Tail(pending) \in Seq(Int) /\ Len(Tail(pending)) = Len(pending) - 1
      /\ Head(pending) = pending[1] /\ Len(pending) \in Nat \ {0}
      /\ \A i \in 1..Len(Tail(pending)) : Tail(pending)[i] = pending[i + 1]
    BY <1>1, HeadTailProperties, EmptySeq
<1>3. UNCHANGED <<entries, pos, route, acceptedIdx, expectedIdx, dirty>>
    BY DEF Router!router
<1>4. expectedIdx # None => Len(pending) # 1
    <2> SUFFICES ASSUME expectedIdx # None, Len(pending) = 1 PROVE FALSE
        OBVIOUS
    <2>1. entries[pos].stamp + Head(pending) = acceptedIdx /\ entries[pos].stamp \in Int
        BY <1>1, <1>2 DEF RouterInv, Router!UndoIsAimed
    <2>2. PICK i \in DOMAIN entries : entries[i].stamp = acceptedIdx
        BY DEF RouterInv, Router!UndoIsAimed
    <2>3. entries[i].stamp - entries[pos].stamp = i - pos
        BY <1>1 DEF Router!StampsCount
    <2>4. i \in Int /\ pos \in Int /\ Head(pending) \in Int
        BY <1>1, <1>2, HeadTailProperties
    <2>5. i = pos + Head(pending)
        BY <2>1, <2>2, <2>3, <2>4, <1>1
    <2> QED
        BY <2>5
<1>5. expectedIdx # None =>
        /\ Tail(pending) # <<>>
        /\ Tail(pending)[Len(Tail(pending))] = pending[Len(pending)]
    <2> SUFFICES ASSUME expectedIdx # None
                 PROVE  /\ Tail(pending) # <<>>
                        /\ Tail(pending)[Len(Tail(pending))] = pending[Len(pending)]
        OBVIOUS
    <2> DEFINE rest == Tail(pending)
    <2>1. Len(rest) \in 1..Len(rest) /\ Len(rest) + 1 = Len(pending)
        BY <1>2, <1>4
    <2>2. rest[Len(rest)] = pending[Len(rest) + 1]
        BY <1>2, <2>1
    <2>3. rest \in Seq(Int)
        BY <1>2
    <2> HIDE DEF rest
    <2>4. rest # <<>>
        BY <2>1, <2>3
    <2>5. rest[Len(rest)] = pending[Len(pending)]
        BY <2>1, <2>2
    <2> QED
        BY <2>4, <2>5 DEF rest
<1>6. Router!UndoIsAimed'
    BY <1>1, <1>3, <1>5 DEF RouterInv, Router!UndoIsAimed, Router!StampsCount
<1>7. Router!AgreedToLeave
    BY <1>3 DEF Router!AgreedToLeave
<1>8. Around'
    BY DEF Around, RouterInv, Router!RouterTypeOK
<1>9. \A i \in DOMAIN entries' : entries'[i].stamp \in Int
    BY <1>3 DEF RouterInv
<1> QED
    BY <1>1, <1>2, <1>3, <1>6, <1>7, <1>8, <1>9 DEF Popped

LEMMA LandStep ==
    ASSUME RouterInv, Router!Land
    PROVE  Popped(entries) /\ RouterInv'
<1>1. CASE pos + Head(pending) \in DOMAIN entries
    <2>1. Router!Popstate(entries, pos + Head(pending), Tail(pending)) /\ UNCHANGED moves
        BY <1>1 DEF Router!Land
    <2>2. Counted(entries, pos + Head(pending))
        BY <1>1, EntriesCount
    <2>3. \E i \in DOMAIN entries : entries[i].stamp = acceptedIdx /\ entries[i].hash = route
        BY DEF RouterInv, Router!UndoIsAimed
    <2>4. Tail(pending) \in Seq(Int)
        BY HeadTailProperties DEF Router!Land, RouterInv, Router!RouterTypeOK
    <2>5. Popped(entries)
        BY <2>1, <2>2, <2>3, <2>4, PopstateStep
    <2>6. Around'
        BY <2>1 DEF Router!Popstate, Around, RouterInv, Router!RouterTypeOK
    <2> QED
        BY <2>5, <2>6, RouterPopped
<1>2. CASE pos + Head(pending) \notin DOMAIN entries
    <2>1. Popped(entries) /\ Around'
        BY <1>2, LandOutside DEF Router!Land
    <2> QED
        BY <2>1, RouterPopped
<1> QED
    BY <1>1, <1>2

\* A list that ends with a new entry after the one the browser is on.
LEMMA CutAndAppended ==
    ASSUME RouterInv, NEW e \in Router!Entries, NEW list, list = Append(SubSeq(entries, 1, pos), e)
    PROVE  /\ list \in Seq(Router!Entries) /\ Len(list) = pos + 1 /\ pos + 1 \in DOMAIN list
           /\ DOMAIN list = 1..(pos + 1) /\ pos \in 1..Len(entries)
           /\ list[pos + 1] = e
           /\ \A i \in 1..pos : list[i] = entries[i] /\ i \in DOMAIN entries
<1>1. entries \in Seq(Router!Entries) /\ pos \in 1..Len(entries) /\ Len(entries) \in Nat
    BY DEF RouterInv, Router!RouterTypeOK
<1> DEFINE cut == SubSeq(entries, 1, pos)
<1>2. \A i \in 1..pos : entries[i] \in Router!Entries
    BY <1>1, ElementOfSeq
<1>3. /\ cut \in Seq(Router!Entries) /\ Len(cut) = pos
      /\ \A i \in 1..pos : cut[i] = entries[i]
    BY <1>1, <1>2, SubSeqProperties
<1> HIDE DEF cut
<1>4. /\ list \in Seq(Router!Entries) /\ Len(list) = Len(cut) + 1
      /\ \A i \in 1..Len(cut) : list[i] = cut[i]
      /\ list[Len(cut) + 1] = e
    BY <1>3, AppendProperties DEF cut
<1> QED
    BY <1>1, <1>3, <1>4

LEMMA TypeStep ==
    ASSUME RouterInv, NEW hash \in Pages \cup Garbage, Router!Type(hash)
    PROVE  Router!AgreedToLeave /\ RouterInv'
<1> DEFINE e == [hash |-> hash, stamp |-> None]
           list == Append(SubSeq(entries, 1, pos), e)
<1>1. e \in Router!Entries /\ e.stamp = None
    BY DEF Router!Entries
<1>2. /\ pending = <<>> /\ Router!Popstate(list, pos + 1, pending)
    BY DEF Router!Type
<1> HIDE DEF list, e
<1>3. /\ list \in Seq(Router!Entries) /\ Len(list) = pos + 1 /\ pos + 1 \in DOMAIN list
      /\ DOMAIN list = 1..(pos + 1) /\ pos \in 1..Len(entries)
      /\ list[pos + 1] = e
      /\ \A i \in 1..pos : list[i] = entries[i] /\ i \in DOMAIN entries
    BY <1>1, CutAndAppended DEF list
<1>4. /\ expectedIdx = None /\ entries[pos].stamp = acceptedIdx /\ acceptedIdx \in Int
      /\ entries \in Seq(Router!Entries) /\ pos \in Int /\ None \notin Int
      /\ \A i, j \in 1..pos : entries[i].stamp - entries[j].stamp = i - j
      /\ \A i \in 1..pos : entries[i].stamp \in Int
    BY <1>2, <1>3 DEF RouterInv, Router!RouterTypeOK, Router!RouterAssumption,
       Router!UndoIsAimed, Router!StampsCount
<1>5. entries[pos].hash = route
    <2>1. PICK i \in DOMAIN entries : entries[i].stamp = acceptedIdx /\ entries[i].hash = route
        BY DEF RouterInv, Router!UndoIsAimed
    <2>2. i \in Int /\ pos \in DOMAIN entries
        BY <1>3, <1>4
    <2>3. entries[i].stamp - entries[pos].stamp = i - pos
        BY <2>2 DEF RouterInv, Router!UndoIsAimed, Router!StampsCount
    <2>4. i = pos
        BY <2>1, <2>2, <2>3, <1>4
    <2> QED
        BY <2>1, <2>4
<1>6. \A i \in 1..pos : Router!Sync(list, i) = entries[i].stamp
    BY <1>3, <1>4 DEF Router!Sync
<1>7. Router!Sync(list, pos + 1) = entries[pos].stamp + 1
    BY <1>1, <1>3, <1>4 DEF Router!Sync
<1>8. Counted(list, pos + 1)
    <2>1. \A i \in DOMAIN list \ {pos + 1} : list[i].stamp \in Int
        <3> SUFFICES ASSUME NEW i \in DOMAIN list \ {pos + 1}
                     PROVE  list[i].stamp \in Int
            OBVIOUS
        <3>1. i \in 1..pos
            BY <1>3, <1>4
        <3> QED
            BY <3>1, <1>3, <1>4
    <2>2. ASSUME NEW i \in DOMAIN list, NEW j \in DOMAIN list
          PROVE  Router!Sync(list, i) - Router!Sync(list, j) = i - j
        <3>1. i \in 1..(pos + 1) /\ j \in 1..(pos + 1)
            BY <1>3
        <3>2. CASE i \in 1..pos /\ j \in 1..pos
            BY <3>2, <1>6, <1>4
        <3>3. CASE i = pos + 1 /\ j \in 1..pos
            <4>1. pos \in 1..pos /\ j \in Int
                BY <3>3, <1>3, <1>4
            <4>2. entries[pos].stamp - entries[j].stamp = pos - j /\ entries[j].stamp \in Int
                BY <3>3, <4>1, <1>4
            <4>3. Router!Sync(list, j) = entries[j].stamp /\ Router!Sync(list,
            i) = acceptedIdx + 1
                BY <3>3, <1>4, <1>6, <1>7
            <4>4. acceptedIdx - entries[j].stamp = pos - j
                BY <4>1, <4>2, <1>4
            <4>5. acceptedIdx \in Int /\ pos \in Int /\ i = pos + 1
                BY <3>3, <1>4
            <4> QED
                BY <4>1, <4>2, <4>3, <4>4, <4>5
        <3>4. CASE i \in 1..pos /\ j = pos + 1
            <4>1. pos \in 1..pos /\ i \in Int
                BY <3>4, <1>3, <1>4
            <4>2. entries[i].stamp - entries[pos].stamp = i - pos /\ entries[i].stamp \in Int
                BY <3>4, <4>1, <1>4
            <4>3. Router!Sync(list, i) = entries[i].stamp /\ Router!Sync(list,
            j) = acceptedIdx + 1
                BY <3>4, <1>4, <1>6, <1>7
            <4>4. entries[i].stamp - acceptedIdx = i - pos
                BY <4>1, <4>2, <1>4
            <4>5. acceptedIdx \in Int /\ pos \in Int /\ j = pos + 1
                BY <3>4, <1>4
            <4> QED
                BY <4>1, <4>2, <4>3, <4>4, <4>5
        <3>5. CASE i = pos + 1 /\ j = pos + 1
            BY <3>5, <1>4, <1>7
        <3> QED
            BY <3>1, <3>2, <3>3, <3>4, <3>5, <1>3
    <2> QED
        BY <1>3, <2>1, <2>2 DEF Counted
<1>9. \E i \in DOMAIN list : list[i].stamp = acceptedIdx /\ list[i].hash = route
    <2>1. pos \in DOMAIN list /\ list[pos] = entries[pos]
        BY <1>3, <1>4
    <2> QED
        BY <2>1, <1>4, <1>5
<1>10. pending \in Seq(Int)
    BY DEF RouterInv, Router!RouterTypeOK
<1>11. Popped(list)
    BY <1>2, <1>8, <1>9, <1>10, PopstateStep
<1>12. Around'
    BY <1>2 DEF Router!Type, Router!Popstate, Around, RouterInv, Router!RouterTypeOK
<1> QED
    BY <1>11, <1>12, RouterPopped DEF Popped

\* The page starts, on the entry the browser is on.
LEMMA StartStep ==
    ASSUME RouterInv, Router!Start,
           pending' \in Seq(Int), Around'
    PROVE  Router!AgreedToLeave /\ RouterInv'
<1> DEFINE hash == Router!RouteFor(entries[pos].hash)
           idx == Router!Sync(entries, pos)
           e == [hash |-> hash, stamp |-> idx]
<1>1. /\ pos \in DOMAIN entries /\ entries \in Seq(Router!Entries)
      /\ \A i \in DOMAIN entries : entries[i].stamp \in Int
      /\ Home \in Pages /\ Garbage \cap Pages = {} /\ None \notin Int
    BY DEF RouterInv, Router!RouterTypeOK, Router!RouterAssumption
<1>2. hash \in Pages
    BY <1>1 DEF Router!RouteFor
<1>3. Counted(entries, pos) /\ idx = entries[pos].stamp /\ idx \in Int
    BY <1>1, EntriesCount
<1>4. e \in Router!Entries /\ e.stamp = idx /\ e.hash = hash
    BY <1>2, <1>3 DEF Router!Entries
<1>5. entries' = [entries EXCEPT ![pos] = e] /\ UNCHANGED pos
    BY DEF Router!Start, Router!Canonicalise
<1>6. route' = hash /\ acceptedIdx' = idx /\ expectedIdx' = None /\ dirty' = FALSE /\ consent' = TRUE
    BY DEF Router!Start
<1> HIDE DEF e, hash, idx
<1>7. /\ entries' \in Seq(Router!Entries) /\ DOMAIN entries' = DOMAIN entries
      /\ \A i \in DOMAIN entries : entries'[i] = IF i = pos THEN e ELSE entries[i]
      /\ \A i \in DOMAIN entries : entries'[i].stamp \in Int
      /\ Router!StampsCount'
    BY <1>3, <1>4, <1>5, StampAt DEF idx
<1>8. Router!UndoIsAimed'
    BY <1>1, <1>4, <1>5, <1>6, <1>7 DEF Router!UndoIsAimed
<1>9. Router!RouterTypeOK'
    <2>1. /\ entries' \in Seq(Router!Entries) /\ pos' \in DOMAIN entries' /\ pending' \in Seq(Int)
          /\ route' \in Pages /\ acceptedIdx' \in Int /\ expectedIdx' \in Int \cup {None}
        BY <1>1, <1>2, <1>3, <1>5, <1>6, <1>7
    <2>2. dirty' \in BOOLEAN /\ consent' \in BOOLEAN
        BY <1>6
    <2> QED
        BY <2>1, <2>2, Zenon DEF Around, Router!RouterTypeOK
<1> QED
    BY <1>6, <1>7, <1>8, <1>9 DEF RouterInv, Router!RouterAssumption, Router!AgreedToLeave

LEMMA LoadStep ==
    ASSUME RouterInv, Router!Load \/ Router!Remount
    PROVE  Router!AgreedToLeave /\ RouterInv'
<1>1. prompting' \in BOOLEAN /\ writing' \in BOOLEAN /\ moves' \in Nat /\ asks' \in Nat
    <2>1. prompting' \in BOOLEAN /\ writing' \in BOOLEAN
        BY Zenon DEF Router!Load, Router!Remount, Router!Start, RouterInv,
           Router!RouterTypeOK
    <2>2. moves' = moves /\ asks' = asks + 1
        BY DEF Router!Load, Router!Remount, Router!Start
    <2> QED
        BY <2>1, <2>2 DEF RouterInv, Router!RouterTypeOK
<1>2. call' \in [Calls -> [at : {"idle", "asking", "stale"}, to : Pages, replace : BOOLEAN]]
    <2>1. CASE Router!Load
        BY <2>1 DEF Router!Load, Router!Idle, RouterInv, Router!RouterAssumption
    <2>2. CASE Router!Remount
        <3> SUFFICES ASSUME NEW c \in Calls
                     PROVE  (IF call[c].at = "asking" THEN [call[c] EXCEPT !.at = "stale"]
                             ELSE call[c])
                              \in [at : {"idle", "asking", "stale"}, to : Pages, replace : BOOLEAN]
            BY <2>2 DEF Router!Remount
        <3> QED
            BY DEF RouterInv, Router!RouterTypeOK
    <2> QED
        BY <2>1, <2>2
<1>3. pending' \in Seq(Int)
    <2>1. CASE Router!Load
        BY <2>1, EmptySeq DEF Router!Load
    <2>2. CASE Router!Remount
        BY <2>2 DEF Router!Remount, RouterInv, Router!RouterTypeOK
    <2> QED
        BY <2>1, <2>2
<1>4. Router!Start
    BY DEF Router!Load, Router!Remount
<1> QED
    BY <1>1, <1>2, <1>3, <1>4, StartStep DEF Around

\* The page shown stays where it is, with its entry or without.
LEMMA RouterStays ==
    ASSUME RouterInv, UNCHANGED <<Router!history, Router!router>>, Around', dirty' \in BOOLEAN, consent' \in BOOLEAN
    PROVE  Router!AgreedToLeave /\ RouterInv'
<1>1. UNCHANGED <<entries, pos, pending, route, acceptedIdx, expectedIdx>>
    BY DEF Router!history, Router!router
<1>2. Router!UndoIsAimed'
    BY <1>1 DEF RouterInv, Router!UndoIsAimed, Router!StampsCount
<1>3. Router!RouterTypeOK'
    <2>1. /\ entries' \in Seq(Router!Entries) /\ pos' \in DOMAIN entries' /\ pending' \in Seq(Int)
          /\ route' \in Pages /\ acceptedIdx' \in Int /\ expectedIdx' \in Int \cup {None}
        BY <1>1 DEF RouterInv, Router!RouterTypeOK
    <2> QED
        BY <2>1, Zenon DEF Around, Router!RouterTypeOK
<1> QED
    BY <1>1, <1>2, <1>3 DEF RouterInv, Router!RouterAssumption, Router!AgreedToLeave

LEMMA EditStep ==
    ASSUME RouterInv, Router!Edit
    PROVE  Router!AgreedToLeave /\ RouterInv'
<1>1. UNCHANGED <<Router!history, Router!router>> /\ UNCHANGED <<prompting, call, moves,
asks>>
    BY DEF Router!Edit
<1>2. writing' \in BOOLEAN /\ dirty' \in BOOLEAN /\ consent' \in BOOLEAN
    BY DEF Router!Edit, RouterInv, Router!RouterTypeOK
<1>3. Around'
    BY <1>1, <1>2 DEF Around, RouterInv, Router!RouterTypeOK
<1> QED
    BY <1>1, <1>2, <1>3, RouterStays

\* The browser is on the entry of the page shown when no move is being undone.
LEMMA OnAccepted ==
    ASSUME RouterInv, expectedIdx = None
    PROVE  /\ pos \in DOMAIN entries /\ entries[pos].stamp = acceptedIdx /\ acceptedIdx \in Int
           /\ Router!Sync(entries, pos) = acceptedIdx /\ entries[pos].hash = route
<1>1. /\ pos \in DOMAIN entries /\ entries[pos].stamp = acceptedIdx /\ acceptedIdx \in Int
      /\ entries \in Seq(Router!Entries)
    BY DEF RouterInv, Router!RouterTypeOK, Router!UndoIsAimed
<1>2. PICK i \in DOMAIN entries : entries[i].stamp = acceptedIdx /\ entries[i].hash = route
    BY DEF RouterInv, Router!UndoIsAimed
<1>3. entries[i].stamp - entries[pos].stamp = i - pos
    BY <1>1 DEF RouterInv, Router!UndoIsAimed, Router!StampsCount
<1>4. i \in Int /\ pos \in Int
    BY <1>1
<1>5. i = pos
    BY <1>1, <1>2, <1>3, <1>4
<1> QED
    BY <1>1, <1>2, <1>5, EntriesCount

LEMMA NavigateHereStep ==
    ASSUME RouterInv, Router!NavigateHere
    PROVE  Router!AgreedToLeave /\ RouterInv'
<1>1. /\ pos \in DOMAIN entries /\ entries[pos].stamp = acceptedIdx
      /\ Router!Sync(entries, pos) = acceptedIdx /\ entries[pos].hash = route
    BY OnAccepted DEF Router!NavigateHere
<1>2. entries[pos] \in Router!Entries /\ entries \in Seq(Router!Entries) /\ pos \in 1..Len(entries)
    BY <1>1, ElementOfSeq DEF RouterInv, Router!RouterTypeOK
<1>3. [hash |-> route, stamp |-> acceptedIdx] = entries[pos]
    BY <1>1, <1>2 DEF Router!Entries
<1>4. entries' = [entries EXCEPT ![pos] = entries[pos]]
    BY <1>1, <1>3 DEF Router!NavigateHere, Router!Canonicalise
<1>5. entries' = entries
    BY <1>2, <1>4
<1>6. UNCHANGED <<Router!history, Router!router>> /\ UNCHANGED <<prompting, call, dirty,
writing, moves, asks>>
    BY <1>5 DEF Router!NavigateHere, Router!history
<1>7. Around' /\ dirty' \in BOOLEAN /\ consent' \in BOOLEAN
    BY <1>6 DEF Router!NavigateHere, Around, RouterInv, Router!RouterTypeOK
<1> QED
    BY <1>6, <1>7, RouterStays

\* navigate goes: by rewriting the entry, or by pushing one.
LEMMA GoStep ==
    ASSUME RouterInv, expectedIdx = None, NEW hash \in Pages, NEW replace \in BOOLEAN,
           Router!Go(hash, replace), Around', consent' \in BOOLEAN
    PROVE  RouterInv'
<1>1. /\ pos \in DOMAIN entries /\ entries[pos].stamp = acceptedIdx /\ acceptedIdx \in Int
      /\ Router!Sync(entries, pos) = acceptedIdx /\ entries[pos].hash = route
    BY OnAccepted
<1>2. /\ route' = hash /\ UNCHANGED <<pending, expectedIdx>>
      /\ dirty' \in BOOLEAN
    BY DEF Router!Go, Router!Show
<1>3. pending' \in Seq(Int) /\ None \notin Int
    BY <1>2 DEF RouterInv, Router!RouterTypeOK, Router!RouterAssumption
<1>4. CASE replace
    <2> DEFINE e == [hash |-> hash, stamp |-> acceptedIdx]
    <2>1. entries' = [entries EXCEPT ![pos] = e] /\ acceptedIdx' = acceptedIdx /\ UNCHANGED pos
        BY <1>1, <1>4 DEF Router!Go, Router!Canonicalise
    <2>2. e \in Router!Entries /\ e.stamp = Router!Sync(entries,
    pos) /\ e.hash = hash /\ e.stamp = acceptedIdx
        BY <1>1 DEF Router!Entries
    <2> HIDE DEF e
    <2>3. /\ entries' \in Seq(Router!Entries) /\ DOMAIN entries' = DOMAIN entries
          /\ \A i \in DOMAIN entries : entries'[i] = IF i = pos THEN e ELSE entries[i]
          /\ \A i \in DOMAIN entries : entries'[i].stamp \in Int
          /\ Router!StampsCount'
        BY <1>1, <2>1, <2>2, StampAt, EntriesCount
    <2>4. Router!UndoIsAimed'
        BY <1>1, <1>2, <2>1, <2>2, <2>3 DEF Router!UndoIsAimed
    <2>5. Router!RouterTypeOK'
        <3>1. /\ entries' \in Seq(Router!Entries) /\ pos' \in DOMAIN entries' /\ pending' \in Seq(Int)
              /\ route' \in Pages /\ acceptedIdx' \in Int /\ expectedIdx' \in Int \cup {None}
            BY <1>1, <1>2, <1>3, <2>1, <2>3
        <3> QED
            BY <3>1, <1>2, Zenon DEF Around, Router!RouterTypeOK
    <2> QED
        BY <2>3, <2>4, <2>5 DEF RouterInv, Router!RouterAssumption
<1>5. CASE ~replace
    <2> DEFINE e == [hash |-> hash, stamp |-> acceptedIdx + 1]
    <2>1. /\ entries' = Append(SubSeq(entries, 1, pos), e) /\ acceptedIdx' = acceptedIdx + 1
          /\ pos' = pos + 1
        BY <1>1, <1>5 DEF Router!Go, Router!Push
    <2>2. e \in Router!Entries /\ e.stamp = acceptedIdx + 1 /\ e.hash = hash
        BY <1>1 DEF Router!Entries
    <2> HIDE DEF e
    <2> DEFINE list == Append(SubSeq(entries, 1, pos), e)
    <2> HIDE DEF list
    <2>10. /\ list \in Seq(Router!Entries) /\ Len(list) = pos + 1 /\ pos + 1 \in DOMAIN list
           /\ DOMAIN list = 1..(pos + 1) /\ pos \in 1..Len(entries)
           /\ list[pos + 1] = e
           /\ \A i \in 1..pos : list[i] = entries[i] /\ i \in DOMAIN entries
        BY <2>2, CutAndAppended DEF list
    <2>3. /\ entries' \in Seq(Router!Entries) /\ Len(entries') = pos + 1 /\ pos + 1 \in DOMAIN entries'
          /\ DOMAIN entries' = 1..(pos + 1) /\ pos \in 1..Len(entries)
          /\ entries'[pos + 1] = e
          /\ \A i \in 1..pos : entries'[i] = entries[i] /\ i \in DOMAIN entries
        BY <2>1, <2>10 DEF list
    <2>4. pos \in Int /\ pos >= 1
        BY <2>3
    <2>5. \A i \in 1..(pos + 1) : /\ entries'[i].stamp \in Int
                                  /\ entries'[i].stamp - acceptedIdx = i - pos
        <3> SUFFICES ASSUME NEW i \in 1..(pos + 1)
                     PROVE  /\ entries'[i].stamp \in Int
                            /\ entries'[i].stamp - acceptedIdx = i - pos
            OBVIOUS
        <3>1. CASE i = pos + 1
            BY <3>1, <2>2, <2>3, <2>4, <1>1
        <3>2. CASE i # pos + 1
            <4>1. i \in 1..pos
                BY <3>2, <2>4
            <4>2. i \in DOMAIN entries /\ entries'[i].stamp = entries[i].stamp
                BY <4>1, <2>3
            <4>3. entries[i].stamp - entries[pos].stamp = i - pos /\ entries[i].stamp \in Int
                BY <4>2, <1>1 DEF RouterInv, Router!UndoIsAimed, Router!StampsCount
            <4> QED
                BY <4>2, <4>3, <1>1
        <3> QED
            BY <3>1, <3>2
    <2>6. Router!StampsCount'
        <3> SUFFICES ASSUME NEW i \in 1..(pos + 1), NEW j \in 1..(pos + 1)
                     PROVE  entries'[i].stamp - entries'[j].stamp = i - j
            BY <2>3 DEF Router!StampsCount
        <3>1. /\ entries'[i].stamp \in Int /\ entries'[i].stamp - acceptedIdx = i - pos
              /\ entries'[j].stamp \in Int /\ entries'[j].stamp - acceptedIdx = j - pos
            BY <2>5
        <3> QED
            BY <3>1, <2>4, <1>1
    <2>7. Router!UndoIsAimed'
        BY <1>2, <2>1, <2>2, <2>3, <2>6 DEF Router!UndoIsAimed
    <2>8. Router!RouterTypeOK'
        <3>1. /\ entries' \in Seq(Router!Entries) /\ pos' \in DOMAIN entries' /\ pending' \in Seq(Int)
              /\ route' \in Pages /\ acceptedIdx' \in Int /\ expectedIdx' \in Int \cup {None}
            BY <1>1, <1>2, <1>3, <2>1, <2>3
        <3> QED
            BY <3>1, <1>2, Zenon DEF Around, Router!RouterTypeOK
    <2>9. \A i \in DOMAIN entries' : entries'[i].stamp \in Int
        BY <2>3, <2>5
    <2> QED
        BY <2>7, <2>8, <2>9 DEF RouterInv, Router!RouterAssumption
<1> QED
    BY <1>4, <1>5

LEMMA NavigateStep ==
    ASSUME RouterInv, NEW to \in Pages, NEW replace \in BOOLEAN, Router!Navigate(to, replace)
    PROVE  Router!AgreedToLeave /\ RouterInv'
<1>1. expectedIdx = None /\ Router!Go(to, replace) /\ ~dirty
    BY DEF Router!Navigate, Router!Free
<1>2. Around' /\ consent' \in BOOLEAN
    BY DEF Router!Navigate, Around, RouterInv, Router!RouterTypeOK
<1> QED
    BY <1>1, <1>2, GoStep DEF Router!AgreedToLeave

LEMMA AskStep ==
    ASSUME RouterInv, NEW c \in Calls, NEW to \in Pages, NEW replace \in BOOLEAN,
           Router!Ask(c, to, replace)
    PROVE  Router!AgreedToLeave /\ RouterInv'
<1>1. UNCHANGED <<Router!history, Router!router>> /\ UNCHANGED <<dirty, writing, moves>>
    BY DEF Router!Ask
<1>2. /\ call' = [call EXCEPT ![c] = [at |-> "asking", to |-> to, replace |-> replace]]
      /\ prompting' = TRUE /\ consent' = FALSE /\ asks' = asks + 1
    BY DEF Router!Ask
<1>3. Around' /\ dirty' \in BOOLEAN /\ consent' \in BOOLEAN
    <2>1. prompting' \in BOOLEAN /\ writing' \in BOOLEAN /\ dirty' \in BOOLEAN /\ consent' \in BOOLEAN
        BY <1>1, <1>2 DEF RouterInv, Router!RouterTypeOK
    <2>2. moves' \in Nat /\ asks' \in Nat
        BY <1>1, <1>2 DEF RouterInv, Router!RouterTypeOK
    <2>3. call' \in [Calls -> [at : {"idle", "asking", "stale"}, to : Pages,
    replace : BOOLEAN]]
        BY <1>2 DEF RouterInv, Router!RouterTypeOK
    <2> QED
        BY <2>1, <2>2, <2>3 DEF Around
<1> QED
    BY <1>1, <1>3, RouterStays

LEMMA NavigateAnswerStep ==
    ASSUME RouterInv, NEW c \in Calls, NEW yes \in BOOLEAN, Router!Answer(c, yes)
    PROVE  Router!AgreedToLeave /\ RouterInv'
<1>1. /\ call' = [call EXCEPT ![c] = Router!Idle] /\ consent' = yes
      /\ prompting' = (prompting /\ call[c].at = "stale") /\ UNCHANGED <<writing, moves, asks>>
    BY DEF Router!Answer
<1>2. Around'
    <2>1. prompting' \in BOOLEAN
        BY <1>1
    <2>2. call' \in [Calls -> [at : {"idle", "asking", "stale"}, to : Pages,
    replace : BOOLEAN]]
        BY <1>1 DEF RouterInv, Router!RouterTypeOK, Router!RouterAssumption, Router!Idle
    <2> QED
        BY <1>1, <2>1, <2>2 DEF Around, RouterInv, Router!RouterTypeOK
<1>3. CASE yes /\ Router!MayGo(c)
    <2>1. Router!Go(call[c].to, call[c].replace) /\ expectedIdx = None
        BY <1>3 DEF Router!Answer, Router!MayGo
    <2>2. call[c].to \in Pages /\ call[c].replace \in BOOLEAN
        BY DEF RouterInv, Router!RouterTypeOK
    <2>3. RouterInv'
        BY <1>1, <1>2, <2>1, <2>2, GoStep
    <2> QED
        BY <2>3, <1>1, <1>3 DEF Router!AgreedToLeave
<1>4. CASE ~(yes /\ Router!MayGo(c))
    <2>1. UNCHANGED <<Router!history, Router!router, dirty>>
        BY <1>4 DEF Router!Answer
    <2>2. dirty' \in BOOLEAN /\ consent' \in BOOLEAN
        BY <1>1, <2>1 DEF RouterInv, Router!RouterTypeOK
    <2> QED
        BY <1>2, <2>1, <2>2, RouterStays
<1> QED
    BY <1>3, <1>4

\* The router: every step keeps the invariant, leaves unsaved edits only when the
\* user agreed, and, when the browser moves, rewrites no entry.
LEMMA RouterStep ==
    ASSUME RouterInv, Router!Next
    PROVE  RouterInv' /\ Router!AgreedToLeave /\ Router!EntryKept
<1>1. Router!Land => Popped(entries) /\ RouterInv'
    BY LandStep
<1>2. \A delta \in -MaxEntries..MaxEntries : Router!Traverse(delta) => Popped(entries) /\ RouterInv'
    <2> SUFFICES ASSUME NEW delta \in -MaxEntries..MaxEntries, Router!Traverse(delta)
                 PROVE  Popped(entries) /\ RouterInv'
        OBVIOUS
    <2>1. delta \in Int
        BY DEF RouterInv, Router!RouterAssumption
    <2> QED
        BY <2>1, TraverseStep
<1>3. Router!EntryKept
    BY <1>1, <1>2 DEF Router!EntryKept, Popped
<1>4. RouterInv' /\ Router!AgreedToLeave
    BY <1>1, <1>2, TypeStep, LoadStep, EditStep, NavigateHereStep, NavigateStep, AskStep,
       NavigateAnswerStep DEF Router!Next, Popped
<1> QED
    BY <1>3, <1>4

-----------------------------------------------------------------------------
(* The notice of a moved web UI.                                           *)

WriteRecords ==
    [at : {"new", "sent", "refresh", "await", "done"}, asks : Moved!Addresses, names : BOOLEAN,
     reply : {"none", "rejected", "saved", "ok"}, got : -1..MaxStatusLoads,
     orderly : BOOLEAN, late : BOOLEAN]
LoadRecords ==
    [at : {"new", "sent", "served", "arrived", "failed"}, value : Moved!Addresses \cup {None}]

ServerInv ==
    /\ been \subseteq Moved!Addresses /\ web \in been \cup {None} /\ draining \in BOOLEAN

WritesInv ==
    /\ write \in [Moved!Writes -> WriteRecords]
    /\ \A w \in Moved!Writes : write[w].at = "new" =>
         write[w].reply = "none" /\ write[w].got = 0 /\ ~write[w].late /\ write[w].orderly
    /\ \A w \in Moved!Writes : write[w].got = -1 => write[w].at = "done"

Got(n) == load[n].at \in {"served", "arrived"}

\* No load begins while a write is on its way, and what is shown is an answer.
LoadsInv ==
    /\ load \in [Moved!Loads -> LoadRecords]
    /\ sent \in 0..MaxStatusLoads /\ heard \in 0..sent /\ before \in 0..sent
    /\ due \in BOOLEAN
    /\ \A n \in Moved!Loads : load[n].at = "new" <=> n > sent
    /\ \A n \in Moved!Loads : Got(n) => load[n].value \in been \cup {None}
    /\ status \in been \cup {None}
    /\ heard # 0 => load[heard].at = "arrived" /\ status = load[heard].value
    /\ Moved!Busy => before = sent

PageInv ==
    /\ notice \in [kind : {"none", "moved", "maybe", "unknown", "unconfirmed"},
                   link : Elsewhere \cup {None}]
    /\ candidate \in Moved!Addresses \cup {None} /\ reloaded \in BOOLEAN

Orderly == \A w \in Moved!Writes : write[w].orderly

Unknown(w) == write[w].at = "done" /\ write[w].got = -1
Finished(w) == write[w].at = "done" /\ write[w].got # -1

\* The write that began last.
Latest(u) ==
    /\ u \in Moved!Writes /\ write[u].at # "new"
    /\ \A w \in Moved!Writes : w > u => write[w].at = "new"

\* Where the last write has brought the listener, and what the page knows of it.
Stands(u) ==
    /\ write[u].reply \in {"none", "rejected"} => web = Here
    /\ write[u].reply = "ok" => web = write[u].asks
    /\ write[u].reply = "saved" => web = None
    /\ write[u].reply = "none" => write[u].at = "sent" \/ Unknown(u)
    /\ write[u].late => Unknown(u)
    /\ write[u].at = "sent" => notice = Moved!NoNotice /\ write[u].got = 0
    /\ write[u].at \in {"refresh", "await"} =>
         /\ notice = Moved!NoNotice /\ write[u].reply \in {"ok", "saved"}
         /\ candidate = Moved!Named(u) /\ (reloaded <=> write[u].reply = "ok")
         /\ write[u].got \in 0..sent
         /\ write[u].got # 0 => write[u].at = "await" /\ write[u].got > before
    /\ Finished(u) =>
         \/ write[u].reply = "rejected" /\ notice = Moved!NoNotice
         \/ /\ write[u].reply \in {"ok", "saved"} /\ candidate = Moved!Named(u)
            /\ notice = Moved!NoNotice => web = Here
    /\ Unknown(u) => IF write[u].names THEN candidate = write[u].asks ELSE notice = Moved!NoNotice
    /\ \A n \in Moved!Loads : (n > before /\ Got(n)) =>
         (load[n].value = web \/ (write[u].late /\ load[n].value = Here))

\* Of orderly writes all but the last are over.
OrderlyInv ==
    /\ \A v, w \in Moved!Writes : v < w /\ write[w].at # "new" => Finished(v)
    /\ \/ web = Here /\ notice = Moved!NoNotice /\ \A w \in Moved!Writes : write[w].at = "new"
       \/ \E u \in Moved!Writes : Latest(u)
    /\ \A u \in Moved!Writes : Latest(u) => Stands(u)
    /\ Moved!MovedIsProven

MovedInv ==
    /\ Moved!MovedAssumption /\ ServerInv /\ WritesInv /\ LoadsInv /\ PageInv
    /\ Orderly => OrderlyInv

LEMMA MovedStart ==
    ASSUME Moved!MovedAssumption, Moved!Init
    PROVE  MovedInv
<1> USE DEF Moved!Init, Moved!MovedAssumption, Moved!Addresses
<1>1. ServerInv /\ PageInv
    BY DEF ServerInv, PageInv, Moved!NoNotice
<1>2. WritesInv
    BY DEF WritesInv, WriteRecords, Moved!NewWrite
<1>3. LoadsInv
    <2>1. load \in [Moved!Loads -> LoadRecords] /\ \A n \in Moved!Loads : load[n].at = "new"
        BY DEF LoadRecords
    <2>2. \A n \in Moved!Loads : n > 0
        BY DEF Moved!Loads
    <2>3. ~Moved!Busy /\ \A n \in Moved!Loads : ~Got(n)
        BY <2>1 DEF Moved!Busy, Moved!NewWrite, Got
    <2>4. sent = 0 /\ heard = 0 /\ before = 0 /\ due = FALSE /\ status = None
        OBVIOUS
    <2>5. sent \in 0..MaxStatusLoads /\ heard \in 0..sent /\ before \in 0..sent
        BY <2>4
    <2> QED
        BY <2>1, <2>2, <2>3, <2>4, <2>5 DEF LoadsInv
<1>4. OrderlyInv
    BY DEF OrderlyInv, Moved!NewWrite, Latest, Moved!MovedIsProven, Moved!NoNotice
<1> QED
    BY <1>1, <1>2, <1>3, <1>4 DEF MovedInv

LEMMA MovedTyped ==
    ASSUME MovedInv
    PROVE  Moved!MovedTypeOK
BY DEF MovedInv, ServerInv, LoadsInv, PageInv, Moved!MovedTypeOK, Moved!Addresses,
   Moved!MovedAssumption

(* Steps of the loads.                                                     *)

LEMMA LoadsMove ==
    ASSUME MovedInv, UNCHANGED <<web, been, write, notice, candidate, reloaded, before>>,
           ServerInv', LoadsInv', sent' >= sent,
           \A n \in Moved!Loads : Got(n)' => \/ load'[n].value = web
                                       \/ (Got(n) /\ load'[n].value = load[n].value)
    PROVE  MovedInv'
<1>1. WritesInv' /\ PageInv' /\ Moved!MovedAssumption
    BY DEF MovedInv, WritesInv, PageInv
<1>2. sent \in Nat /\ sent' \in Nat
    BY DEF MovedInv, LoadsInv, Moved!MovedAssumption
<1>3. ASSUME NEW u \in Moved!Writes, Stands(u)
      PROVE  Stands(u)'
    <2>1. \A n \in Moved!Loads : (n > before /\ Got(n)') =>
            (load'[n].value = web \/ (write[u].late /\ load'[n].value = Here))
        BY <1>3 DEF Stands
    <2>2. write[u].got \in 0..sent => write[u].got \in 0..sent'
        BY <1>2
    <2> QED
        BY <1>3, <2>1, <2>2 DEF Stands, Unknown, Finished, Moved!Named, Moved!NoNotice, Got
<1>4. Orderly' => OrderlyInv'
    BY <1>3 DEF MovedInv, Orderly, OrderlyInv, Latest, Finished, Moved!MovedIsProven,
       Moved!NoNotice
<1> QED
    BY <1>1, <1>4 DEF MovedInv

LEMMA FetchMoves ==
    ASSUME MovedInv, Moved!FetchOnce, ~Moved!Busy', UNCHANGED <<been, before>>
    PROVE  /\ LoadsInv' /\ sent' = sent + 1 /\ sent' \in Moved!Loads
           /\ \A n \in Moved!Loads : Got(n)' => Got(n) /\ load'[n].value = load[n].value
<1> USE DEF MovedInv, LoadsInv, Moved!MovedAssumption, Moved!FetchOnce
<1>1. sent' = sent + 1 /\ sent' \in Moved!Loads /\ sent \in 0..MaxStatusLoads /\ sent' \in 0..MaxStatusLoads
    BY DEF Moved!Loads
<1>2. load' = [load EXCEPT ![sent'].at = "sent"] /\ UNCHANGED <<heard, status, due>>
    OBVIOUS
<1>3. /\ load' \in [Moved!Loads -> LoadRecords]
      /\ \A n \in Moved!Loads : load'[n].value = load[n].value
      /\ \A n \in Moved!Loads \ {sent'} : load'[n] = load[n]
      /\ load'[sent'].at = "sent"
    BY <1>1, <1>2 DEF LoadRecords
<1>4. \A n \in Moved!Loads : Got(n)' => Got(n) /\ load'[n].value = load[n].value
    BY <1>3 DEF Got
<1>5. \A n \in Moved!Loads : load'[n].at = "new" <=> n > sent'
    <2> SUFFICES ASSUME NEW n \in Moved!Loads PROVE load'[n].at = "new" <=> n > sent'
        OBVIOUS
    <2>1. CASE n = sent'
        BY <1>1, <1>3, <2>1
    <2>2. CASE n # sent'
        BY <1>1, <1>3, <2>2 DEF Moved!Loads
    <2> QED
        BY <2>1, <2>2
<1>6. heard' \in 0..sent' /\ before' \in 0..sent'
    BY <1>1, <1>2
<1>7. heard # 0 => load'[heard].at = "arrived" /\ status = load'[heard].value
    BY <1>1, <1>3 DEF Moved!Loads
<1>8. LoadsInv'
    BY <1>1, <1>2, <1>3, <1>4, <1>5, <1>6, <1>7
<1> QED
    BY <1>1, <1>4, <1>8

LEMMA PollMoves ==
    ASSUME MovedInv, Moved!Poll
    PROVE  MovedInv'
<1>1. /\ ~Moved!Busy /\ Moved!FetchOnce
      /\ UNCHANGED <<web, draining, been, write, notice, candidate, reloaded, before>>
    BY DEF Moved!Poll, Moved!server, Moved!page
<1>2. ~Moved!Busy'
    BY <1>1 DEF Moved!Busy
<1>3. /\ LoadsInv' /\ sent' = sent + 1
      /\ \A n \in Moved!Loads : Got(n)' => Got(n) /\ load'[n].value = load[n].value
    BY <1>1, <1>2, FetchMoves
<1>4. ServerInv'
    BY <1>1 DEF MovedInv, ServerInv
<1>5. sent' >= sent
    BY <1>3 DEF MovedInv, LoadsInv, Moved!MovedAssumption
<1> QED
    BY <1>1, <1>3, <1>4, <1>5, LoadsMove

LEMMA AnswersMove ==
    ASSUME MovedInv, NEW n \in Moved!Loads, Moved!Serve(n) \/ Moved!Arrive(n) \/ Moved!Fail(n)
    PROVE  MovedInv'
<1>1. /\ UNCHANGED <<web, draining, been, write, notice, candidate, reloaded, before>>
      /\ sent' = sent
    BY DEF Moved!Serve, Moved!Arrive, Moved!Fail, Moved!server, Moved!page
<1>2. /\ load \in [Moved!Loads -> LoadRecords] /\ sent \in 0..MaxStatusLoads
      /\ \A m \in Moved!Loads : load[m].at = "new" <=> m > sent
      /\ \A m \in Moved!Loads : Got(m) => load[m].value \in been \cup {None}
      /\ web \in been \cup {None} /\ been \subseteq Moved!Addresses /\ MaxStatusLoads \in Nat
      /\ n \in 1..MaxStatusLoads
    BY DEF MovedInv, LoadsInv, ServerInv, Moved!MovedAssumption, Moved!Loads
<1>3. /\ load' \in [Moved!Loads -> LoadRecords]
      /\ \A m \in Moved!Loads \ {n} : load'[m] = load[m]
      /\ load[n].at # "new" /\ load[n].at # "arrived" /\ load'[n].at # "new"
      /\ (Got(n)' => (load'[n].value = web \/ (Got(n) /\ load'[n].value = load[n].value)))
    <2>1. CASE Moved!Serve(n)
        BY <1>1, <1>2, <2>1 DEF Moved!Serve, LoadRecords, Got
    <2>2. CASE Moved!Arrive(n) \/ Moved!Fail(n)
        BY <1>2, <2>2 DEF Moved!Arrive, Moved!Fail, LoadRecords, Got
    <2> QED
        BY <2>1, <2>2
<1>4. \A m \in Moved!Loads : Got(m)' => \/ load'[m].value = web
                                  \/ (Got(m) /\ load'[m].value = load[m].value)
    <2> SUFFICES ASSUME NEW m \in Moved!Loads, Got(m)'
                 PROVE  load'[m].value = web \/ (Got(m) /\ load'[m].value = load[m].value)
        OBVIOUS
    <2>1. CASE m = n
        BY <1>3, <2>1
    <2>2. CASE m # n
        <3>1. load'[m] = load[m]
            BY <1>3, <2>2
        <3> QED
            BY <3>1 DEF Got
    <2> QED
        BY <2>1, <2>2
<1>5. \A m \in Moved!Loads : load'[m].at = "new" <=> m > sent'
    BY <1>1, <1>2, <1>3
<1>6. \A m \in Moved!Loads : Got(m)' => load'[m].value \in been' \cup {None}
    BY <1>1, <1>2, <1>4
<1>7. /\ heard' \in 0..sent' /\ due' \in BOOLEAN /\ status' \in been' \cup {None}
      /\ heard' # 0 => load'[heard'].at = "arrived" /\ status' = load'[heard'].value
    <2>1. CASE Moved!Arrive(n)
        <3>1. heard' = n /\ status' = load[n].value /\ due' = TRUE /\ load[n].at = "served"
              /\ load'[n].at = "arrived" /\ load'[n].value = load[n].value
            BY <1>2, <2>1 DEF Moved!Arrive, LoadRecords
        <3>2. n \in 0..sent' /\ load[n].value \in been \cup {None}
            BY <1>1, <1>2, <3>1 DEF Got
        <3> QED
            BY <1>1, <3>1, <3>2
    <2>2. CASE Moved!Serve(n) \/ Moved!Fail(n)
        <3>1. UNCHANGED <<heard, status, due>>
            BY <2>2 DEF Moved!Serve, Moved!Fail
        <3>2. heard # 0 => heard \in Moved!Loads /\ heard # n
            BY <1>3 DEF MovedInv, LoadsInv, Moved!Loads, Moved!MovedAssumption
        <3> QED
            BY <1>1, <1>3, <3>1, <3>2 DEF MovedInv, LoadsInv
    <2> QED
        BY <2>1, <2>2
<1>8. Moved!Busy' => before' = sent'
    BY <1>1 DEF Moved!Busy, MovedInv, LoadsInv
<1>9. LoadsInv'
    BY <1>1, <1>2, <1>3, <1>5, <1>6, <1>7, <1>8 DEF MovedInv, LoadsInv
<1>10. ServerInv' /\ sent' >= sent
    BY <1>1, <1>2 DEF MovedInv, ServerInv
<1> QED
    BY <1>1, <1>4, <1>9, <1>10, LoadsMove

LEMMA DrainedMoves ==
    ASSUME MovedInv, Moved!Drained
    PROVE  MovedInv'
<1>1. /\ UNCHANGED <<web, been, write, sent, heard, status, due, load, notice, candidate,
                     reloaded, before>>
      /\ draining' = FALSE
    BY DEF Moved!Drained, Moved!poller, Moved!page
<1>2. ServerInv' /\ LoadsInv'
    BY <1>1 DEF MovedInv, ServerInv, LoadsInv, Moved!Busy, Got
<1>3. sent' >= sent
    BY <1>1 DEF MovedInv, LoadsInv, Moved!MovedAssumption
<1> QED
    BY <1>1, <1>2, <1>3, LoadsMove DEF Got

(* Steps of the writes.                                                    *)

\* What a step of a write that is not over has to show: where the last write
\* stands after it.
LEMMA MovedWrite ==
    ASSUME MovedInv, NEW w \in Moved!Writes,
           WritesInv', \A v \in Moved!Writes \ {w} : write'[v] = write[v],
           write[w].at # "new", write'[w].at # "new", write'[w].orderly = write[w].orderly,
           ~Finished(w), ServerInv', LoadsInv', PageInv',
           Orderly /\ OrderlyInv /\ Stands(w) => Stands(w)' /\ Moved!MovedIsProven'
    PROVE  MovedInv'
<1> SUFFICES ASSUME Orderly' PROVE OrderlyInv'
    BY DEF MovedInv
<1>1. Moved!Writes \subseteq Int
    BY DEF Moved!Writes
<1>2. Orderly /\ OrderlyInv
    <2>1. \A v \in Moved!Writes : write'[v].orderly = write[v].orderly
        OBVIOUS
    <2> QED
        BY <2>1 DEF Orderly, MovedInv
<1>3. Latest(w)
    <2>1. PICK u \in Moved!Writes : Latest(u)
        BY <1>2 DEF OrderlyInv
    <2>2. ~(u < w) /\ ~(w < u)
        BY <1>2, <2>1 DEF Latest, OrderlyInv
    <2> QED
        BY <1>1, <2>1, <2>2
<1>4. Stands(w)' /\ Moved!MovedIsProven'
    BY <1>2, <1>3 DEF OrderlyInv
<1>5. \A v \in Moved!Writes : write[v].at = "new" <=> write'[v].at = "new"
    OBVIOUS
<1>6. Latest(w)' /\ \A u \in Moved!Writes : Latest(u)' => u = w
    <2>1. Latest(w)'
        BY <1>3, <1>5 DEF Latest
    <2>2. \A u \in Moved!Writes : Latest(u)' => ~(u < w) /\ ~(w < u)
        BY <1>3, <1>5 DEF Latest
    <2> QED
        BY <1>1, <2>1, <2>2
<1>7. ASSUME NEW v \in Moved!Writes, NEW x \in Moved!Writes, v < x, write'[x].at # "new"
      PROVE  Finished(v)'
    <2>1. Finished(v)
        BY <1>2, <1>5, <1>7 DEF OrderlyInv
    <2>2. v # w
        BY <2>1
    <2> QED
        BY <2>1, <2>2 DEF Finished
<1> QED
    BY <1>4, <1>6, <1>7 DEF OrderlyInv

\* The records of the writes after a step of one of them.
LEMMA Written ==
    ASSUME MovedInv, NEW w \in Moved!Writes, NEW r \in WriteRecords, r.at # "new",
           r.got = -1 => r.at = "done",
           write' = [write EXCEPT ![w] = r]
    PROVE  /\ WritesInv' /\ write'[w] = r
           /\ \A v \in Moved!Writes \ {w} : write'[v] = write[v]
<1>1. /\ write' \in [Moved!Writes -> WriteRecords] /\ write'[w] = r
      /\ \A v \in Moved!Writes \ {w} : write'[v] = write[v]
    BY DEF MovedInv, WritesInv
<1>2. \A v \in Moved!Writes : write'[v].at = "new" =>
        /\ write'[v].reply = "none" /\ write'[v].got = 0
        /\ ~write'[v].late /\ write'[v].orderly
    BY <1>1 DEF MovedInv, WritesInv
<1>3. \A v \in Moved!Writes : write'[v].got = -1 => write'[v].at = "done"
    BY <1>1 DEF MovedInv, WritesInv
<1> QED
    BY <1>1, <1>2, <1>3 DEF WritesInv

LEMMA SendMoves ==
    ASSUME MovedInv, NEW w \in Moved!Writes, NEW a \in Moved!Addresses, NEW n \in BOOLEAN, Moved!Send(w, a, n)
    PROVE  MovedInv'
<1>1. /\ UNCHANGED <<web, draining, been, sent, heard, status, due, load, notice, candidate,
                     reloaded>>
      /\ before' = sent /\ write[w].at = "new" /\ ~Moved!Busy
      /\ \A v \in Moved!Writes : v < w => write[v].at # "new"
    BY DEF Moved!Send, Moved!BeginWrite, Moved!server, Moved!poller
<1>2. write \in [Moved!Writes -> WriteRecords] /\ Moved!MovedAssumption /\ ServerInv' /\ PageInv'
    BY <1>1 DEF MovedInv, WritesInv, ServerInv, PageInv
<1>3. PICK o \in BOOLEAN : /\ o <=> (notice = Moved!NoNotice /\ \A v \in Moved!Writes : Moved!Settled(v))
                           /\ write' = [write EXCEPT ![w].at = "sent", ![w].asks = a,
                                                     ![w].names = n, ![w].orderly = o]
    BY DEF Moved!Send
<1> DEFINE r == [write[w] EXCEPT !.at = "sent", !.asks = a, !.names = n, !.orderly = o]
<1>4. /\ r \in WriteRecords /\ r.at = "sent" /\ r.asks = a /\ r.orderly = o
      /\ r.reply = "none" /\ r.got = 0 /\ r.late = FALSE
      /\ write' = [write EXCEPT ![w] = r]
    <2>1. write[w] \in WriteRecords
        BY <1>2
    <2>2. write[w].reply = "none" /\ write[w].got = 0 /\ write[w].late = FALSE
        BY <1>1, <2>1 DEF MovedInv, WritesInv, WriteRecords
    <2> QED
        BY <1>2, <1>3, <2>1, <2>2 DEF WriteRecords
<1> HIDE DEF r
<1>5. WritesInv' /\ write'[w] = r /\ \A v \in Moved!Writes \ {w} : write'[v] = write[v]
    <2>1. r.got # -1
        BY <1>4
    <2> QED
        BY <1>4, <2>1, Written
<1>6. LoadsInv'
    BY <1>1, <1>2 DEF MovedInv, LoadsInv, Got, Moved!MovedAssumption
<1>7. ASSUME Orderly' PROVE OrderlyInv'
    <2>1. notice = Moved!NoNotice /\ \A v \in Moved!Writes : Moved!Settled(v)
        BY <1>3, <1>4, <1>5, <1>7 DEF Orderly
    <2>2. Orderly
        <3> SUFFICES ASSUME NEW v \in Moved!Writes PROVE write[v].orderly
            BY DEF Orderly
        <3>1. CASE v # w
            BY <1>5, <1>7, <3>1 DEF Orderly
        <3>2. CASE v = w
            BY <1>1, <3>2 DEF MovedInv, WritesInv
        <3> QED
            BY <3>1, <3>2
    <2>3. OrderlyInv
        BY <2>2 DEF MovedInv
    <2>4. \A v \in Moved!Writes : v > w => write[v].at = "new"
        BY <1>1, <2>3 DEF OrderlyInv, Moved!Writes, Finished
    <2>5. \A v \in Moved!Writes : v < w => Finished(v)
        BY <1>1, <2>1 DEF Moved!Settled, Finished
    <2>6. web = Here
        <3>1. CASE \E u \in Moved!Writes : Latest(u)
            <4>1. PICK u \in Moved!Writes : Latest(u)
                BY <3>1
            <4>2. u < w
                BY <1>1, <2>4, <4>1 DEF Latest, Moved!Writes
            <4>3. Stands(u) /\ Finished(u)
                BY <2>3, <2>5, <4>1, <4>2 DEF OrderlyInv
            <4> QED
                BY <2>1, <4>3 DEF Stands
        <3> QED
            BY <2>3, <3>1 DEF OrderlyInv
    <2>7. Stands(w)'
        <3>1. \A m \in Moved!Loads : m > before' => ~Got(m)'
            BY <1>1, <1>6 DEF LoadsInv, Got
        <3> QED
            BY <1>1, <1>4, <1>5, <2>1, <2>6, <3>1 DEF Stands, Finished, Unknown,
               Moved!NoNotice
    <2>8. \A u \in Moved!Writes : write'[u].at # "new" <=> u <= w
        BY <1>1, <1>4, <1>5, <2>4 DEF Moved!Writes
    <2>9. Latest(w)' /\ \A u \in Moved!Writes : Latest(u)' => u = w
        BY <2>8 DEF Latest, Moved!Writes
    <2>10. ASSUME NEW v \in Moved!Writes, NEW x \in Moved!Writes, v < x, write'[x].at # "new"
           PROVE  Finished(v)'
        <3>1. v < w
            BY <2>8, <2>10 DEF Moved!Writes
        <3>2. Finished(v) /\ v # w
            BY <2>5, <3>1 DEF Moved!Writes
        <3> QED
            BY <1>5, <3>2 DEF Finished
    <2>11. Moved!MovedIsProven'
        BY <1>1, <2>1 DEF Moved!MovedIsProven, Moved!NoNotice
    <2> QED
        BY <2>7, <2>9, <2>10, <2>11 DEF OrderlyInv
<1> QED
    BY <1>2, <1>5, <1>6, <1>7 DEF MovedInv

LEMMA ApplyMoves ==
    ASSUME MovedInv, NEW w \in Moved!Writes, Moved!Apply(w)
    PROVE  MovedInv'
<1>1. /\ UNCHANGED <<sent, heard, status, due, load, notice, candidate, reloaded, before>>
      /\ been' = been \cup ({web'} \ {None}) /\ draining' \in BOOLEAN
      /\ write[w].reply = "none"
      /\ write[w].at = "sent" \/ Unknown(w)
    BY DEF Moved!Apply, Moved!poller, Moved!page, Unknown
<1>2. PICK answer \in {"rejected", "saved", "ok"} :
        /\ write' = [write EXCEPT ![w].reply = answer, ![w].late = write[w].at = "done"]
        /\ web' = CASE answer = "rejected" -> web
                    [] answer = "saved" -> None
                    [] answer = "ok" -> write[w].asks
    BY DEF Moved!Apply
<1>3. write[w] \in WriteRecords /\ write \in [Moved!Writes -> WriteRecords] /\ ServerInv
    BY DEF MovedInv, WritesInv
<1> DEFINE r == [write[w] EXCEPT !.reply = answer, !.late = write[w].at = "done"]
<1>4. /\ r \in WriteRecords /\ r.reply = answer /\ (r.late <=> write[w].at = "done")
      /\ r.at = write[w].at /\ r.asks = write[w].asks /\ r.names = write[w].names
      /\ r.got = write[w].got /\ r.orderly = write[w].orderly
      /\ write' = [write EXCEPT ![w] = r]
    BY <1>2, <1>3 DEF WriteRecords
<1> HIDE DEF r
<1>5. r.at # "new" /\ (r.got = -1 => r.at = "done")
    BY <1>1, <1>4 DEF Unknown, MovedInv, WritesInv
<1>6. WritesInv' /\ write'[w] = r /\ \A v \in Moved!Writes \ {w} : write'[v] = write[v]
    BY <1>4, <1>5, Written
<1>7. web' \in Moved!Addresses \cup {None} /\ (answer = "rejected" => web' = web)
      /\ (answer = "saved" => web' = None) /\ (answer = "ok" => web' = write[w].asks)
    BY <1>2, <1>3 DEF ServerInv, WriteRecords
<1>8. ServerInv' /\ been \subseteq been'
    BY <1>1, <1>3, <1>7 DEF ServerInv
<1>9. ~Moved!Busy => ~Moved!Busy'
    BY <1>4, <1>6 DEF Moved!Busy
<1>10. PageInv' /\ LoadsInv'
    BY <1>1, <1>8, <1>9 DEF MovedInv, PageInv, LoadsInv, Got
<1>11. ASSUME Stands(w), Moved!MovedIsProven
       PROVE  Stands(w)' /\ Moved!MovedIsProven'
    <2>1. web = Here
        BY <1>1, <1>11 DEF Stands
    <2>2. \A n \in Moved!Loads : (n > before' /\ Got(n)') =>
            (load'[n].value = web' \/ (write'[w].late /\ load'[n].value = Here))
        <3>1. \A n \in Moved!Loads : (n > before /\ Got(n)) => load[n].value = Here
            BY <1>11, <2>1 DEF Stands
        <3>2. write[w].at = "sent" => \A n \in Moved!Loads : ~(n > before /\ Got(n))
            BY DEF MovedInv, LoadsInv, Moved!Busy, Got
        <3> QED
            BY <1>1, <1>4, <1>6, <3>1, <3>2 DEF Got, Unknown
    <2>3. Stands(w)'
        BY <1>1, <1>4, <1>6, <1>7, <1>11, <2>1, <2>2
           DEF Stands, Unknown, Finished, Moved!NoNotice
    <2> QED
        BY <1>1, <1>8, <1>11, <2>3 DEF Moved!MovedIsProven
<1>12. ~Finished(w) /\ write[w].at # "new"
    BY <1>1, <1>11 DEF Finished, Unknown, Stands
<1> QED
    BY <1>4, <1>5, <1>6, <1>8, <1>10, <1>11, <1>12, MovedWrite DEF OrderlyInv

LEMMA AnsweredMoves ==
    ASSUME MovedInv, NEW w \in Moved!Writes, Moved!Answered(w)
    PROVE  MovedInv'
<1>1. /\ UNCHANGED <<web, draining, been, sent, heard, status, due, load, notice, before>>
      /\ write[w].at = "sent" /\ write[w].reply \in {"ok", "saved"}
      /\ write' = [write EXCEPT ![w].at = "refresh"]
      /\ candidate' = Moved!Named(w) /\ (reloaded' <=> write[w].reply = "ok")
      /\ reloaded' \in BOOLEAN
    BY DEF Moved!Answered, Moved!server, Moved!poller
<1>2. write[w] \in WriteRecords /\ write \in [Moved!Writes -> WriteRecords]
    BY DEF MovedInv, WritesInv
<1> DEFINE r == [write[w] EXCEPT !.at = "refresh"]
<1>3. /\ r \in WriteRecords /\ r.at = "refresh" /\ r.reply = write[w].reply
      /\ r.late = write[w].late /\ r.asks = write[w].asks /\ r.names = write[w].names
      /\ r.got = write[w].got /\ r.orderly = write[w].orderly
      /\ write' = [write EXCEPT ![w] = r]
    BY <1>1, <1>2 DEF WriteRecords
<1> HIDE DEF r
<1>4. WritesInv' /\ write'[w] = r /\ \A v \in Moved!Writes \ {w} : write'[v] = write[v]
    <2>1. r.got # -1
        BY <1>1, <1>3 DEF MovedInv, WritesInv
    <2> QED
        BY <1>3, <2>1, Written
<1>5. candidate' \in Moved!Addresses \cup {None}
    BY <1>1, <1>2 DEF Moved!Named, WriteRecords
<1>6. ~Moved!Busy => ~Moved!Busy'
    BY <1>1 DEF Moved!Busy
<1>7. ServerInv' /\ PageInv' /\ LoadsInv'
    BY <1>1, <1>5, <1>6 DEF MovedInv, ServerInv, PageInv, LoadsInv, Got
<1>8. ASSUME Stands(w), Moved!MovedIsProven
      PROVE  Stands(w)' /\ Moved!MovedIsProven'
    <2>1. Moved!Named(w)' = Moved!Named(w)
        BY <1>3, <1>4 DEF Moved!Named
    <2>2. 0 \in 0..sent
        BY DEF MovedInv, LoadsInv, Moved!MovedAssumption
    <2>3. \A n \in Moved!Loads : (n > before' /\ Got(n)') =>
            (load'[n].value = web' \/ (write'[w].late /\ load'[n].value = Here))
        BY <1>1, <1>3, <1>4, <1>8 DEF Stands, Got
    <2>4. ~write[w].late /\ write[w].got = 0 /\ notice = Moved!NoNotice
        BY <1>1, <1>8 DEF Stands, Unknown
    <2>5. Stands(w)'
        BY <1>1, <1>3, <1>4, <1>8, <2>1, <2>2, <2>3, <2>4
           DEF Stands, Unknown, Finished, Moved!NoNotice
    <2> QED
        BY <1>1, <1>8, <2>5 DEF Moved!MovedIsProven
<1>9. ~Finished(w) /\ write[w].at # "new" /\ r.at # "new"
    BY <1>1, <1>3 DEF Finished
<1> QED
    BY <1>3, <1>4, <1>7, <1>8, <1>9, MovedWrite DEF OrderlyInv

LEMMA RejectedMoves ==
    ASSUME MovedInv, NEW w \in Moved!Writes, Moved!Rejected(w)
    PROVE  MovedInv'
<1>1. /\ UNCHANGED <<web, draining, been, sent, heard, status, due, load, notice, candidate,
                     reloaded, before>>
      /\ write[w].at = "sent" /\ write[w].reply = "rejected"
      /\ write' = [write EXCEPT ![w].at = "done"]
    BY DEF Moved!Rejected, Moved!server, Moved!poller, Moved!page
<1>2. write[w] \in WriteRecords /\ write \in [Moved!Writes -> WriteRecords]
    BY DEF MovedInv, WritesInv
<1> DEFINE r == [write[w] EXCEPT !.at = "done"]
<1>3. /\ r \in WriteRecords /\ r.at = "done" /\ r.reply = write[w].reply
      /\ r.late = write[w].late /\ r.got = write[w].got /\ r.orderly = write[w].orderly
      /\ write' = [write EXCEPT ![w] = r]
    BY <1>1, <1>2 DEF WriteRecords
<1> HIDE DEF r
<1>4. WritesInv' /\ write'[w] = r /\ \A v \in Moved!Writes \ {w} : write'[v] = write[v]
    BY <1>3, Written
<1>5. ~Moved!Busy => ~Moved!Busy'
    BY <1>1 DEF Moved!Busy
<1>6. ServerInv' /\ PageInv' /\ LoadsInv'
    BY <1>1, <1>5 DEF MovedInv, ServerInv, PageInv, LoadsInv, Got
<1>7. ASSUME Stands(w), Moved!MovedIsProven
      PROVE  Stands(w)' /\ Moved!MovedIsProven'
    <2>1. \A n \in Moved!Loads : (n > before' /\ Got(n)') =>
            (load'[n].value = web' \/ (write'[w].late /\ load'[n].value = Here))
        BY <1>1, <1>3, <1>4, <1>7 DEF Stands, Got
    <2>2. ~write[w].late /\ write[w].got = 0 /\ notice = Moved!NoNotice /\ web = Here
        BY <1>1, <1>7 DEF Stands, Unknown
    <2>3. Stands(w)'
        BY <1>1, <1>3, <1>4, <2>1, <2>2 DEF Stands, Unknown, Finished, Moved!NoNotice
    <2> QED
        BY <1>1, <1>7, <2>3 DEF Moved!MovedIsProven
<1>8. ~Finished(w) /\ write[w].at # "new" /\ r.at # "new"
    BY <1>1, <1>3 DEF Finished
<1> QED
    BY <1>3, <1>4, <1>6, <1>7, <1>8, MovedWrite DEF OrderlyInv

LEMMA UncertainMoves ==
    ASSUME MovedInv, NEW w \in Moved!Writes, Moved!Uncertain(w)
    PROVE  MovedInv'
<1>1. /\ UNCHANGED <<web, draining, been, sent, heard, status, due, load, reloaded, before>>
      /\ write[w].at = "sent"
      /\ write' = [write EXCEPT ![w].at = "done", ![w].got = -1]
      /\ write[w].names =>
           /\ candidate' = write[w].asks
           /\ notice' = IF Moved!LinkFor(write[w].asks) = None THEN Moved!NoNotice
                        ELSE [kind |-> "maybe", link |-> write[w].asks]
      /\ ~write[w].names => UNCHANGED <<candidate, notice>>
    BY DEF Moved!Uncertain, Moved!server, Moved!poller
<1>2. /\ write[w] \in WriteRecords /\ write \in [Moved!Writes -> WriteRecords]
      /\ Moved!MovedAssumption /\ PageInv
    BY DEF MovedInv, WritesInv
<1> DEFINE r == [write[w] EXCEPT !.at = "done", !.got = -1]
<1>3. /\ r \in WriteRecords /\ r.at = "done" /\ r.reply = write[w].reply
      /\ r.late = write[w].late /\ r.got = -1 /\ r.orderly = write[w].orderly
      /\ r.names = write[w].names /\ r.asks = write[w].asks
      /\ write' = [write EXCEPT ![w] = r]
    <2>1. -1 \in -1..MaxStatusLoads
        BY <1>2 DEF Moved!MovedAssumption
    <2>2. write' = [write EXCEPT ![w] = r]
        BY <1>1, <1>2
    <2>3. r \in WriteRecords
        BY <1>2, <2>1 DEF WriteRecords
    <2> QED
        BY <1>2, <2>2, <2>3 DEF WriteRecords
<1> HIDE DEF r
<1>4. WritesInv' /\ write'[w] = r /\ \A v \in Moved!Writes \ {w} : write'[v] = write[v]
    BY <1>3, Written
<1>5. ~Moved!Busy => ~Moved!Busy'
    BY <1>1 DEF Moved!Busy
<1>6. /\ candidate' \in Moved!Addresses \cup {None}
      /\ notice' \in [kind : {"none", "moved", "maybe", "unknown", "unconfirmed"},
                      link : Elsewhere \cup {None}]
    <2>1. CASE write[w].names /\ Moved!LinkFor(write[w].asks) # None
        <3>1. write[w].asks \in Elsewhere
            BY <1>2, <2>1 DEF Moved!LinkFor, WriteRecords, Moved!Addresses
        <3> QED
            BY <1>1, <2>1, <3>1 DEF Moved!Addresses
    <2>2. CASE write[w].names /\ Moved!LinkFor(write[w].asks) = None
        BY <1>1, <1>2, <2>2 DEF Moved!NoNotice, WriteRecords
    <2>3. CASE ~write[w].names
        BY <1>1, <1>2, <2>3 DEF PageInv
    <2> QED
        BY <2>1, <2>2, <2>3
<1>7. ServerInv' /\ PageInv' /\ LoadsInv'
    BY <1>1, <1>5, <1>6 DEF MovedInv, ServerInv, PageInv, LoadsInv, Got
<1>8. ASSUME Stands(w), Moved!MovedIsProven
      PROVE  Stands(w)' /\ Moved!MovedIsProven'
    <2>1. \A n \in Moved!Loads : (n > before' /\ Got(n)') =>
            (load'[n].value = web' \/ (write'[w].late /\ load'[n].value = Here))
        BY <1>1, <1>3, <1>4, <1>8 DEF Stands, Got
    <2>2. Unknown(w)' /\ ~Finished(w)'
        BY <1>3, <1>4 DEF Unknown, Finished
    <2>3. notice = Moved!NoNotice
        BY <1>1, <1>8 DEF Stands
    <2>4. IF r.names THEN candidate' = r.asks ELSE notice' = Moved!NoNotice
        BY <1>1, <1>3, <2>3
    <2>5. Stands(w)'
        BY <1>1, <1>3, <1>4, <1>8, <2>1, <2>2, <2>4 DEF Stands, Moved!NoNotice
    <2>6. notice'.kind # "moved"
        BY <1>1, <1>2, <2>3 DEF Moved!NoNotice
    <2> QED
        BY <2>5, <2>6 DEF Moved!MovedIsProven
<1>9. ~Finished(w) /\ write[w].at # "new" /\ r.at # "new"
    BY <1>1, <1>3 DEF Finished
<1> QED
    BY <1>3, <1>4, <1>7, <1>8, <1>9, MovedWrite DEF OrderlyInv

LEMMA RefreshMoves ==
    ASSUME MovedInv, NEW w \in Moved!Writes, Moved!Refresh(w)
    PROVE  MovedInv'
<1>1. /\ UNCHANGED <<web, draining, been, notice, candidate, reloaded, before>>
      /\ write[w].at = "refresh"
      /\ write' = [write EXCEPT ![w].at = "await",
                                ![w].got = IF sent' = sent THEN 0 ELSE sent']
      /\ \/ ~Moved!Busy /\ Moved!FetchOnce
         \/ /\ load' = [n \in Moved!Loads |-> IF load[n].at \in {"sent", "served"}
                                        THEN [load[n] EXCEPT !.at = "failed"] ELSE load[n]]
            /\ UNCHANGED <<sent, heard, status, due>>
    BY DEF Moved!Refresh, Moved!server, Moved!page
<1>2. /\ write[w] \in WriteRecords /\ write \in [Moved!Writes -> WriteRecords]
      /\ Moved!MovedAssumption /\ LoadsInv
    BY DEF MovedInv, WritesInv
<1>3. ~Moved!Busy => ~Moved!Busy'
    <2>1. PICK x : write' = [write EXCEPT ![w].at = "await", ![w].got = x]
        BY <1>1
    <2>2. write' = [write EXCEPT ![w] = [write[w] EXCEPT !.at = "await", !.got = x]]
        BY <1>2, <2>1
    <2>3. write'[w].at = "await" /\ \A v \in Moved!Writes \ {w} : write'[v] = write[v]
        BY <1>2, <2>2 DEF WriteRecords
    <2> QED
        BY <2>3 DEF Moved!Busy
<1>4. /\ LoadsInv' /\ sent' \in {sent, sent + 1}
      /\ \A n \in Moved!Loads : Got(n)' => (Got(n) /\ load'[n].value = load[n].value)
    <2>1. CASE ~Moved!Busy /\ Moved!FetchOnce
        BY <1>1, <1>3, <2>1, FetchMoves
    <2>2. CASE ~(~Moved!Busy /\ Moved!FetchOnce)
        <3>1. /\ load' = [n \in Moved!Loads |-> IF load[n].at \in {"sent", "served"}
                                          THEN [load[n] EXCEPT !.at = "failed"] ELSE load[n]]
              /\ UNCHANGED <<sent, heard, status, due>>
            BY <1>1, <2>2
        <3>2. \A n \in Moved!Loads :
                /\ load[n] \in LoadRecords /\ load'[n] \in LoadRecords
                /\ load'[n].value = load[n].value
                /\ load'[n].at = "new" <=> load[n].at = "new"
                /\ load'[n].at = "arrived" <=> load[n].at = "arrived"
                /\ Got(n)' => Got(n)
            <4> SUFFICES ASSUME NEW n \in Moved!Loads
                         PROVE  /\ load[n] \in LoadRecords /\ load'[n] \in LoadRecords
                                /\ load'[n].value = load[n].value
                                /\ load'[n].at = "new" <=> load[n].at = "new"
                                /\ load'[n].at = "arrived" <=> load[n].at = "arrived"
                                /\ Got(n)' => Got(n)
                OBVIOUS
            <4>1. load[n] \in LoadRecords
                BY <1>2 DEF LoadsInv
            <4>2. CASE load[n].at \in {"sent", "served"}
                <5>1. load'[n] = [load[n] EXCEPT !.at = "failed"]
                    BY <3>1, <4>2
                <5> QED
                    BY <4>1, <4>2, <5>1 DEF LoadRecords, Got
            <4>3. CASE load[n].at \notin {"sent", "served"}
                <5>1. load'[n] = load[n]
                    BY <3>1, <4>3
                <5> QED
                    BY <4>1, <5>1 DEF Got
            <4> QED
                BY <4>2, <4>3
        <3>3. load' \in [Moved!Loads -> LoadRecords]
            BY <3>1, <3>2
        <3>4. heard # 0 => heard \in Moved!Loads
            BY <1>2 DEF LoadsInv, Moved!Loads, Moved!MovedAssumption
        <3>5. LoadsInv'
            <4>1. sent' \in 0..MaxStatusLoads /\ heard' \in 0..sent' /\ before' \in 0..sent'
                BY <1>1, <1>2, <3>1 DEF LoadsInv
            <4>2. Moved!Busy' => before' = sent'
                BY <1>1, <1>2, <1>3, <3>1 DEF LoadsInv
            <4>3. heard' # 0 => load'[heard'].at = "arrived" /\ status' = load'[heard'].value
                BY <1>2, <3>1, <3>2, <3>4 DEF LoadsInv
            <4>4. \A n \in Moved!Loads : load'[n].at = "new" <=> n > sent'
                BY <1>2, <3>1, <3>2 DEF LoadsInv
            <4>5. \A n \in Moved!Loads : Got(n)' => load'[n].value \in been' \cup {None}
                BY <1>1, <1>2, <3>2 DEF LoadsInv
            <4>6. due' \in BOOLEAN /\ status' \in been' \cup {None}
                BY <1>1, <1>2, <3>1 DEF LoadsInv
            <4> QED
                BY <3>3, <4>1, <4>2, <4>3, <4>4, <4>5, <4>6 DEF LoadsInv
        <3> QED
            BY <3>1, <3>2, <3>5
    <2> QED
        BY <2>1, <2>2
<1>5. PICK g \in 0..sent' : /\ g = (IF sent' = sent THEN 0 ELSE sent')
                            /\ g # 0 => g > before'
    <2>1. sent \in Nat /\ sent' \in Nat /\ before \in 0..sent /\ before' = before
        BY <1>1, <1>2, <1>4 DEF LoadsInv, Moved!MovedAssumption
    <2> QED
        BY <1>4, <2>1
<1>6. g \in -1..MaxStatusLoads
    BY <1>2, <1>4 DEF LoadsInv, Moved!MovedAssumption
<1> DEFINE r == [write[w] EXCEPT !.at = "await", !.got = g]
<1>7. /\ r \in WriteRecords /\ r.at = "await" /\ r.reply = write[w].reply
      /\ r.late = write[w].late /\ r.got = g /\ r.orderly = write[w].orderly
      /\ r.names = write[w].names /\ r.asks = write[w].asks
      /\ write' = [write EXCEPT ![w] = r]
    <2>1. write' = [write EXCEPT ![w] = r]
        BY <1>1, <1>2, <1>5
    <2>2. r \in WriteRecords
        BY <1>2, <1>6 DEF WriteRecords
    <2> QED
        BY <1>2, <2>1, <2>2 DEF WriteRecords
<1> HIDE DEF r
<1>8. WritesInv' /\ write'[w] = r /\ \A v \in Moved!Writes \ {w} : write'[v] = write[v]
    <2>1. r.got # -1
        BY <1>2, <1>4, <1>5, <1>7 DEF LoadsInv, Moved!MovedAssumption
    <2> QED
        BY <1>7, <2>1, Written
<1>9. ServerInv' /\ PageInv'
    BY <1>1 DEF MovedInv, ServerInv, PageInv
<1>10. ASSUME Stands(w), Moved!MovedIsProven
       PROVE  Stands(w)' /\ Moved!MovedIsProven'
    <2>1. \A n \in Moved!Loads : (n > before' /\ Got(n)') =>
            (load'[n].value = web' \/ (write'[w].late /\ load'[n].value = Here))
        BY <1>1, <1>4, <1>7, <1>8, <1>10 DEF Stands
    <2>2. ~Unknown(w)' /\ ~Finished(w)' /\ Moved!Named(w)' = Moved!Named(w)
        BY <1>7, <1>8 DEF Unknown, Finished, Moved!Named
    <2>3. ~write[w].late /\ notice = Moved!NoNotice
        BY <1>1, <1>10 DEF Stands, Unknown
    <2>4. /\ candidate = Moved!Named(w) /\ (reloaded <=> write[w].reply = "ok")
          /\ write[w].reply \in {"ok", "saved"}
        BY <1>1, <1>10 DEF Stands
    <2>5. Stands(w)'
        BY <1>1, <1>5, <1>7, <1>8, <1>10, <2>1, <2>2, <2>3, <2>4 DEF Stands, Moved!NoNotice
    <2> QED
        BY <1>1, <1>10, <2>5 DEF Moved!MovedIsProven
<1>11. ~Finished(w) /\ write[w].at # "new" /\ r.at # "new"
    BY <1>1, <1>7 DEF Finished
<1> QED
    BY <1>4, <1>7, <1>8, <1>9, <1>10, <1>11, MovedWrite DEF OrderlyInv

(* What the Moved!page makes of an address.                                      *)

Notices == [kind : {"none", "moved", "maybe", "unknown", "unconfirmed"},
            link : Elsewhere \cup {None}]

LEMMA ClaimOf ==
    ASSUME Moved!MovedAssumption, NEW a \in Moved!Addresses
    PROVE  /\ Moved!Claim(a) \in Notices
           /\ Moved!Claim(a) = Moved!NoNotice <=> a = Here
           /\ Moved!Claim(a).kind = "moved" => Moved!Claim(a).link = a
BY DEF Moved!Claim, Notices, Moved!NoNotice, Moved!MovedAssumption, Moved!Addresses

LEMMA FromStatusTyped ==
    ASSUME Moved!MovedAssumption, candidate \in Moved!Addresses \cup {None},
           NEW a \in Moved!Addresses \cup {None}, NEW l \in Elsewhere \cup {None}
    PROVE  Moved!FromStatus(a, l) \in Notices
<1>1. CASE a = None
    <2>1. Moved!LinkFor(candidate) \in Elsewhere \cup {None}
        BY DEF Moved!LinkFor, Moved!Addresses
    <2> QED
        BY <1>1, <2>1 DEF Moved!FromStatus, Notices
<1>2. CASE a # None
    BY <1>2, ClaimOf DEF Moved!FromStatus
<1> QED
    BY <1>1, <1>2

LEMMA FromWriteTyped ==
    ASSUME Moved!MovedAssumption, candidate \in Moved!Addresses \cup {None}
    PROVE  Moved!FromWrite \in Notices
<1>1. Moved!LinkFor(candidate) \in Elsewhere \cup {None}
    BY DEF Moved!LinkFor, Moved!Addresses
<1> QED
    BY <1>1, ClaimOf DEF Moved!FromWrite, Notices

\* The notice that an answer gives which tells where the listener is: there is
\* one unless the listener is here, and it links to no other address.
LEMMA FromStatusTold ==
    ASSUME Moved!MovedAssumption, NEW a \in Moved!Addresses \cup {None}, NEW l,
           a \in Moved!Addresses => candidate \in {a, None}
    PROVE  /\ Moved!FromStatus(a, l) = Moved!NoNotice <=> a = Here
           /\ Moved!FromStatus(a, l).kind = "moved" => Moved!FromStatus(a, l).link = a /\ a # None
<1>1. None \notin Moved!Addresses
    BY DEF Moved!MovedAssumption, Moved!Addresses
<1>2. CASE a = None
    BY <1>2, <1>1 DEF Moved!FromStatus, Moved!NoNotice, Moved!Addresses
<1>3. CASE a # None
    <2>1. Moved!FromStatus(a, l) = Moved!Claim(a)
        BY <1>3 DEF Moved!FromStatus
    <2> QED
        BY <1>3, <2>1, ClaimOf
<1> QED
    BY <1>2, <1>3

LEMMA ResumeMoves ==
    ASSUME MovedInv, NEW w \in Moved!Writes, Moved!Resume(w)
    PROVE  MovedInv'
<1>1. /\ UNCHANGED <<web, draining, been, sent, heard, status, due, load, candidate,
                     reloaded, before>>
      /\ write[w].at = "await"
      /\ write' = [write EXCEPT ![w].at = "done"]
      /\ notice' = IF write[w].got # 0 /\ load[write[w].got].at = "arrived"
                   THEN Moved!FromStatus(load[write[w].got].value,
                   None) ELSE Moved!FromWrite
    BY DEF Moved!Resume, Moved!server, Moved!poller
<1>2. /\ write[w] \in WriteRecords /\ write \in [Moved!Writes -> WriteRecords]
      /\ Moved!MovedAssumption /\ LoadsInv /\ PageInv
    BY DEF MovedInv, WritesInv
<1> DEFINE r == [write[w] EXCEPT !.at = "done"]
<1>3. /\ r \in WriteRecords /\ r.at = "done" /\ r.reply = write[w].reply
      /\ r.late = write[w].late /\ r.got = write[w].got /\ r.orderly = write[w].orderly
      /\ r.names = write[w].names /\ r.asks = write[w].asks
      /\ write' = [write EXCEPT ![w] = r]
    BY <1>1, <1>2 DEF WriteRecords
<1> HIDE DEF r
<1>4. WritesInv' /\ write'[w] = r /\ \A v \in Moved!Writes \ {w} : write'[v] = write[v]
    BY <1>3, Written
<1>5. ~Moved!Busy => ~Moved!Busy'
    BY <1>1 DEF Moved!Busy
<1>6. \A n \in Moved!Loads : load[n].value \in Moved!Addresses \cup {None}
    BY <1>2 DEF LoadsInv, LoadRecords
<1>7. notice' \in Notices
    <2>1. write[w].got # 0 => write[w].got \in Moved!Loads
        BY <1>1, <1>2 DEF WriteRecords, Moved!Loads, MovedInv, WritesInv,
           Moved!MovedAssumption
    <2> QED
        BY <1>1, <1>2, <1>6, <2>1, FromStatusTyped, FromWriteTyped DEF PageInv
<1>8. ServerInv' /\ PageInv' /\ LoadsInv'
    BY <1>1, <1>5, <1>7 DEF MovedInv, ServerInv, PageInv, LoadsInv, Got, Notices
<1>9. ASSUME Stands(w), Moved!MovedIsProven
      PROVE  Stands(w)' /\ Moved!MovedIsProven'
    <2>1. \A n \in Moved!Loads : (n > before' /\ Got(n)') =>
            (load'[n].value = web' \/ (write'[w].late /\ load'[n].value = Here))
        BY <1>1, <1>3, <1>4, <1>9 DEF Stands, Got
    <2>2. /\ ~write[w].late /\ write[w].reply \in {"ok", "saved"} /\ candidate = Moved!Named(w)
          /\ (reloaded <=> write[w].reply = "ok")
          /\ write[w].got \in 0..sent /\ (write[w].got # 0 => write[w].got > before)
        BY <1>1, <1>9 DEF Stands, Unknown
    <2>3. /\ write[w].reply = "ok" => web = write[w].asks
          /\ write[w].reply = "saved" => web = None
        BY <1>9 DEF Stands
    <2>4. web \in Moved!Addresses \cup {None} /\ (web \in Moved!Addresses => candidate \in {web, None})
        BY <1>2, <2>2, <2>3 DEF MovedInv, ServerInv, Moved!Named, Moved!MovedAssumption,
           Moved!Addresses
    <2>5. /\ notice' = Moved!NoNotice => web = Here
          /\ notice'.kind = "moved" => notice'.link = web /\ web # None
        <3>1. CASE write[w].got # 0 /\ load[write[w].got].at = "arrived"
            <4>1. write[w].got \in Moved!Loads /\ write[w].got > before
                BY <1>2, <2>2, <3>1 DEF Moved!Loads, LoadsInv, Moved!MovedAssumption
            <4>2. load[write[w].got].value = web
                BY <1>9, <2>2, <3>1, <4>1 DEF Stands, Got
            <4> QED
                BY <1>1, <1>2, <2>4, <3>1, <4>2, FromStatusTold
        <3>2. CASE ~(write[w].got # 0 /\ load[write[w].got].at = "arrived")
            <4>1. notice' = Moved!FromWrite
                BY <1>1, <3>2
            <4>2. CASE ~reloaded \/ candidate = None
                BY <4>1, <4>2 DEF Moved!FromWrite, Moved!NoNotice
            <4>3. CASE reloaded /\ candidate # None
                <5>1. web = candidate /\ notice' = Moved!Claim(web) /\ web \in Moved!Addresses
                    BY <1>2, <2>2, <2>3, <4>1, <4>3 DEF Moved!FromWrite, Moved!Named,
                       PageInv
                <5> QED
                    BY <1>2, <5>1, ClaimOf DEF Moved!MovedAssumption, Moved!Addresses
            <4> QED
                BY <4>2, <4>3
        <3> QED
            BY <3>1, <3>2
    <2>6. ~Unknown(w)' /\ Moved!Named(w)' = Moved!Named(w)
        <3>1. write[w].got # -1
            BY <1>2, <2>2 DEF LoadsInv, Moved!MovedAssumption
        <3> QED
            BY <1>3, <1>4, <3>1 DEF Unknown, Moved!Named
    <2>7. Stands(w)'
        BY <1>1, <1>3, <1>4, <1>9, <2>1, <2>2, <2>3, <2>5, <2>6 DEF Stands, Finished,
           Moved!NoNotice
    <2>8. web # None => web \in been
        BY DEF MovedInv, ServerInv
    <2> QED
        BY <1>1, <2>5, <2>7, <2>8 DEF Moved!MovedIsProven
<1>10. ~Finished(w) /\ write[w].at # "new" /\ r.at # "new"
    BY <1>1, <1>3 DEF Finished
<1> QED
    BY <1>3, <1>4, <1>8, <1>9, <1>10, MovedWrite DEF OrderlyInv

(* The effect of App.                                                      *)

\* What the poller shows after the last write: where the listener is, or where it
\* was before the write was applied late.
LEMMA StatusTold ==
    ASSUME MovedInv, NEW u \in Moved!Writes, Stands(u), heard > before
    PROVE  status = web \/ (write[u].late /\ status = Here)
<1>1. heard # 0 /\ heard \in Moved!Loads
    BY DEF MovedInv, LoadsInv, Moved!Loads, Moved!MovedAssumption
<1>2. load[heard].at = "arrived" /\ status = load[heard].value
    BY <1>1 DEF MovedInv, LoadsInv
<1> QED
    BY <1>1, <1>2 DEF Stands, Got

\* A notice of an answer to a request that came after the last write.
LEMMA ReconcileTold ==
    ASSUME MovedInv, NEW u \in Moved!Writes, Stands(u), notice # Moved!NoNotice, heard > before, NEW l,
           Finished(u) \/ Unknown(u)
    PROVE  /\ Moved!FromStatus(status, l) = Moved!NoNotice => (status = Here /\ (web = Here \/ write[u].late))
           /\ Moved!FromStatus(status, l).kind = "moved" =>
                Moved!FromStatus(status, l).link = web /\ web # None
<1>1. status = web \/ (write[u].late /\ status = Here)
    BY StatusTold
<1>2. Moved!MovedAssumption /\ status \in Moved!Addresses \cup {None}
    BY DEF MovedInv, LoadsInv, ServerInv
<1>3. CASE status # Here /\ (status \in Moved!Addresses => candidate \in {status, None})
    <2>1. status = web
        BY <1>1, <1>3
    <2> QED
        BY <1>2, <1>3, <2>1, FromStatusTold
<1>4. CASE status = Here
    <2>1. Moved!FromStatus(status, l) = Moved!NoNotice
        BY <1>2, <1>4, ClaimOf DEF Moved!FromStatus, Moved!MovedAssumption, Moved!Addresses
    <2> QED
        BY <1>1, <1>4, <2>1 DEF Moved!NoNotice
<1>5. CASE status # Here /\ status \in Moved!Addresses
    <2>1. status = web /\ write[u].reply = "ok" /\ web = write[u].asks
        <3>1. write[u] \in WriteRecords
            BY DEF MovedInv, WritesInv
        <3> QED
            BY <1>1, <1>2, <1>5, <3>1 DEF Stands, WriteRecords, Moved!MovedAssumption,
               Moved!Addresses
    <2>2. candidate \in {web, None}
        BY <2>1 DEF Stands, Moved!Named
    <2> QED
        BY <1>3, <1>5, <2>1, <2>2
<1> QED
    BY <1>3, <1>4, <1>5

LEMMA ReconcileMoves ==
    ASSUME MovedInv, Moved!Reconcile
    PROVE  MovedInv'
<1>1. /\ UNCHANGED <<web, draining, been, write, sent, heard, status, load, candidate,
                     reloaded, before>>
      /\ due' = FALSE
      /\ \/ notice' = notice
         \/ /\ notice' = Moved!FromStatus(status, notice.link)
            /\ notice # Moved!NoNotice /\ ~(heard <= before)
    BY DEF Moved!Reconcile, Moved!Stale, Moved!server
<1>2. /\ Moved!MovedAssumption /\ PageInv /\ LoadsInv /\ ServerInv' /\ WritesInv'
    BY <1>1 DEF MovedInv, ServerInv, WritesInv
<1>3. ~Moved!Busy => ~Moved!Busy'
    BY <1>1 DEF Moved!Busy
<1>4. LoadsInv'
    BY <1>1, <1>2, <1>3 DEF LoadsInv, Got
<1>5. notice' \in Notices
    <2>1. notice.link \in Elsewhere \cup {None} /\ notice \in Notices
        BY <1>2 DEF PageInv, Notices
    <2>2. status \in Moved!Addresses \cup {None}
        BY <1>2 DEF LoadsInv, MovedInv, ServerInv
    <2> QED
        BY <1>1, <1>2, <2>1, <2>2, FromStatusTyped DEF PageInv
<1>6. PageInv'
    BY <1>1, <1>2, <1>5 DEF PageInv, Notices
<1>7. ASSUME Orderly' PROVE OrderlyInv'
    <2>1. OrderlyInv
        BY <1>1, <1>7 DEF MovedInv, Orderly
    <2>2. CASE notice' = notice
        <3>1. ASSUME NEW u \in Moved!Writes, Stands(u)
              PROVE  Stands(u)'
            BY <1>1, <2>2, <3>1 DEF Stands, Finished, Unknown, Moved!Named,
               Moved!NoNotice, Got
        <3> QED
            BY <1>1, <2>1, <2>2, <3>1 DEF OrderlyInv, Latest, Finished,
               Moved!MovedIsProven, Moved!NoNotice
    <2>3. CASE notice' # notice
        <3>1. notice' = Moved!FromStatus(status,
        notice.link) /\ notice # Moved!NoNotice /\ heard > before
            BY <1>1, <1>2, <2>3 DEF LoadsInv, Moved!MovedAssumption
        <3>2. PICK u \in Moved!Writes : Latest(u) /\ Stands(u)
            BY <2>1, <3>1 DEF OrderlyInv
        <3>3. Finished(u) \/ Unknown(u)
            <4>1. write[u].at \in {"new", "sent", "refresh", "await", "done"}
                BY DEF MovedInv, WritesInv, WriteRecords
            <4> QED
                BY <3>1, <3>2, <4>1 DEF Latest, Stands, Finished, Unknown
        <3>4. /\ notice' = Moved!NoNotice => (status = Here /\ (web = Here \/ write[u].late))
              /\ notice'.kind = "moved" => notice'.link = web /\ web # None
            BY <3>1, <3>2, <3>3, ReconcileTold
        <3>5. \A v \in Moved!Writes : Latest(v)' <=> Latest(v)
            BY <1>1 DEF Latest
        <3>6. \A v \in Moved!Writes : Latest(v) => v = u
            BY <3>2 DEF Latest, Moved!Writes
        <3>7. Stands(u)'
            <4>1. Finished(u) => ~write[u].late
                BY <3>2 DEF Stands, Finished, Unknown
            <4>2. Unknown(u) => write[u].names
                BY <3>1, <3>2 DEF Stands
            <4>3. Finished(u) => (write[u].reply \in {"ok",
            "saved"} /\ candidate = Moved!Named(u))
                BY <3>1, <3>2 DEF Stands
            <4>4. ~(write[u].at = "sent") /\ ~(write[u].at \in {"refresh", "await"})
                BY <3>3 DEF Finished, Unknown
            <4> QED
                BY <1>1, <3>2, <3>4, <4>1, <4>2, <4>3, <4>4
                   DEF Stands, Finished, Unknown, Moved!Named, Moved!NoNotice, Got
        <3>8. Moved!MovedIsProven'
            BY <1>1, <3>4 DEF Moved!MovedIsProven, MovedInv, ServerInv
        <3> QED
            BY <1>1, <2>1, <3>2, <3>5, <3>6, <3>7, <3>8 DEF OrderlyInv, Finished
    <2> QED
        BY <2>2, <2>3
<1> QED
    BY <1>2, <1>4, <1>6, <1>7 DEF MovedInv

LEMMA MovedStep ==
    ASSUME MovedInv, Moved!Next
    PROVE  MovedInv'
<1>1. CASE \E w \in Moved!Writes, a \in Moved!Addresses,
names \in BOOLEAN : Moved!Send(w, a, names)
    BY <1>1, SendMoves
<1>2. CASE \E w \in Moved!Writes : \/ Moved!Apply(w) \/ Moved!Answered(w) \/ Moved!Rejected(w) \/ Moved!Uncertain(w)
                             \/ Moved!Refresh(w) \/ Moved!Resume(w)
    BY <1>2, ApplyMoves, AnsweredMoves, RejectedMoves, UncertainMoves, RefreshMoves,
       ResumeMoves
<1>3. CASE Moved!Drained \/ Moved!Poll \/ Moved!Reconcile
    BY <1>3, DrainedMoves, PollMoves, ReconcileMoves
<1>4. CASE \E n \in Moved!Loads : Moved!Serve(n) \/ Moved!Arrive(n) \/ Moved!Fail(n)
    BY <1>4, AnswersMove
<1> QED
    BY <1>1, <1>2, <1>3, <1>4 DEF Moved!Next

\* The notice in a state of the invariant, and what a step may do to it.
LEMMA MovedShows ==
    ASSUME MovedInv
    PROVE  Moved!MovedTypeOK /\ Moved!MovedIsTrue
BY MovedTyped DEF MovedInv, OrderlyInv, Orderly, Moved!MovedIsTrue

LEMMA MovedKeeps ==
    ASSUME MovedInv, Moved!Next
    PROVE  Moved!NoticeKept
<1> SUFFICES ASSUME notice # Moved!NoNotice, web # Here, Moved!Quiet
             PROVE  notice' # Moved!NoNotice
    BY DEF Moved!NoticeKept
<1>1. CASE notice' = notice
    BY <1>1 DEF Moved!NoNotice
<1>2. CASE notice' # notice
    <2>1. Moved!Reconcile
        <3>1. ASSUME NEW w \in Moved!Writes, Moved!Uncertain(w) \/ Moved!Resume(w)
              PROVE  FALSE
            BY <3>1 DEF Moved!Uncertain, Moved!Resume, Moved!Quiet
        <3>2. ASSUME NEW w \in Moved!Writes,
                     \/ Moved!Apply(w) \/ Moved!Answered(w) \/ Moved!Rejected(w) \/ Moved!Refresh(w)
                     \/ \E a \in Moved!Addresses, names \in BOOLEAN : Moved!Send(w, a, names)
              PROVE  notice' = notice
            BY <3>2 DEF Moved!Apply, Moved!Answered, Moved!Rejected, Moved!Refresh,
               Moved!Send, Moved!page
        <3>3. (Moved!Drained \/ Moved!Poll \/ \E n \in Moved!Loads : Moved!Serve(n) \/ Moved!Arrive(n) \/ Moved!Fail(n))
                => notice' = notice
            BY DEF Moved!Drained, Moved!Poll, Moved!Serve, Moved!Arrive, Moved!Fail,
               Moved!page
        <3> QED
            BY <1>2, <3>1, <3>2, <3>3 DEF Moved!Next
    <2>2. notice' = Moved!FromStatus(status, notice.link) /\ ~(heard <= before)
        BY <1>2, <2>1 DEF Moved!Reconcile, Moved!Stale
    <2>3. OrderlyInv /\ heard > before
        BY <2>2 DEF MovedInv, Moved!Quiet, Orderly, LoadsInv, Moved!MovedAssumption
    <2>4. PICK u \in Moved!Writes : Latest(u) /\ Stands(u)
        BY <2>3 DEF OrderlyInv
    <2>5. Finished(u) \/ Unknown(u)
        BY <2>4 DEF Moved!Quiet, Latest, Finished, Unknown
    <2>6. notice' = Moved!NoNotice => (web = Here \/ write[u].late)
        BY <2>2, <2>3, <2>4, <2>5, ReconcileTold
    <2>7. ~write[u].late
        BY DEF Moved!Quiet
    <2> QED
        BY <2>6, <2>7
<1> QED
    BY <1>1, <1>2

-----------------------------------------------------------------------------
(* The charts.                                                             *)

AllSubjects == {"total", "host"} \cup Rules \cup Endpoints \cup Connections

Kept == [sample : 1..MaxSnapshots, clock : Int, at : Int, since : Nat \ {0},
         subjects : SUBSET AllSubjects]

\* How many of the recorded snapshots are not in a ring.
Before(ring) == Len(kept) - Len(ring)

\* A ring holds the last of the recorded snapshots, back to the last break of s.
RingIsRun(ring, s) ==
    /\ ring \in Seq(1..MaxSnapshots) /\ Len(ring) \in 1..Slots /\ Len(ring) <= Len(kept)
    /\ \A i \in 1..Len(ring) : ring[i] = kept[Before(ring) + i].sample
    /\ Trend!Continues(Before(ring) + 1, s)
    /\ Len(ring) = Slots \/ Before(ring) = 0 \/ ~Trend!Continues(Before(ring), s)

\* Snapshots that one chart may show are a step apart.
Spaced ==
    \A j \in 2..Len(kept) :
        (kept[j].since = kept[j - 1].since /\ kept[j].clock - kept[j - 1].clock <= Gap)
            => kept[j].clock - kept[j - 1].clock >= MinStep

\* The trend is that of the last recorded snapshot.
TrendIsLast ==
    /\ kept = <<>> => trend = Trend!Empty
    /\ kept # <<>> =>
         /\ trend.since = kept[Len(kept)].since /\ trend.lastAt = kept[Len(kept)].clock
         /\ DOMAIN trend.rings = kept[Len(kept)].subjects
         /\ \A s \in DOMAIN trend.rings : RingIsRun(trend.rings[s], s)

TrendInv ==
    /\ Trend!TrendAssumption
    /\ now \in Nat /\ setBack \in Nat /\ setBacks \in Nat /\ taken \in Nat
    /\ registry \in Nat \ {0} /\ kept \in Seq(Kept)
    /\ TrendIsLast /\ Spaced

LEMMA TrendStart ==
    ASSUME Trend!TrendAssumption, Trend!Init
    PROVE  TrendInv
<1>1. kept = <<>> /\ kept \in Seq(Kept)
    BY EmptySeq DEF Trend!Init
<1>2. Spaced
    BY <1>1 DEF Spaced
<1> QED
    BY <1>1, <1>2 DEF Trend!Init, TrendInv, TrendIsLast

LEMMA AppendedRing ==
    ASSUME Trend!TrendAssumption, NEW ring \in Seq(1..MaxSnapshots), NEW e \in 1..MaxSnapshots
    PROVE  /\ Trend!Appended(ring, e) \in Seq(1..MaxSnapshots)
           /\ Len(Trend!Appended(ring, e)) = IF Len(ring) + 1 > Slots THEN Slots ELSE Len(ring) + 1
           /\ Trend!Appended(ring, e)[Len(Trend!Appended(ring, e))] = e
           /\ \A i \in 1..(Len(Trend!Appended(ring, e)) - 1) :
                /\ Len(ring) + 1 - Len(Trend!Appended(ring, e)) + i \in 1..Len(ring)
                /\ Trend!Appended(ring, e)[i] = ring[Len(ring) + 1 - Len(Trend!Appended(ring, e)) + i]
<1> DEFINE S == 1..MaxSnapshots
           all == Append(ring, e)
           size == IF Len(all) > Slots THEN Slots ELSE Len(all)
           res == SubSeq(all, Len(all) - size + 1, Len(all))
<1>1. /\ all \in Seq(S) /\ Len(all) = Len(ring) + 1 /\ Len(ring) \in Nat
      /\ \A i \in 1..Len(ring) : all[i] = ring[i]
      /\ all[Len(ring) + 1] = e
    BY AppendProperties
<1>2. Trend!Appended(ring, e) = res
    BY DEF Trend!Appended
<1> HIDE DEF all, S
<1>3. size \in 1..Len(all) /\ Slots \in Nat \ {0}
    BY <1>1 DEF Trend!TrendAssumption
<1>4. \A i \in (Len(all) - size + 1)..Len(all) : all[i] \in S
    BY <1>1, <1>3, ElementOfSeq
<1> HIDE DEF size
<1>5. Len(all) - size + 1 \in Int /\ Len(all) \in Int /\ Len(all) - size + 1 <= Len(all)
    BY <1>1, <1>3
<1>6. /\ res \in Seq(S) /\ Len(res) = size
      /\ \A i \in 1..size : res[i] = all[Len(all) - size + i]
    <2>1. /\ res \in Seq(S)
          /\ Len(res) = Len(all) - (Len(all) - size + 1) + 1
          /\ \A i \in 1..(Len(all) - (Len(all) - size + 1) + 1) :
               res[i] = all[(Len(all) - size + 1) + i - 1]
        BY <1>4, <1>5, SubSeqProperties
    <2>2. Len(all) - (Len(all) - size + 1) + 1 = size
        BY <1>3, <1>1
    <2> HIDE DEF res
    <2>3. ASSUME NEW i \in 1..size
          PROVE  res[i] = all[Len(all) - size + i]
        <3>1. (Len(all) - size + 1) + i - 1 = Len(all) - size + i
            BY <1>3, <1>1
        <3>2. res[i] = all[(Len(all) - size + 1) + i - 1]
            BY <2>1, <2>2
        <3> QED
            BY <3>1, <3>2
    <2> QED
        BY <2>1, <2>2, <2>3
<1> HIDE DEF res
<1>7. res[size] = e
    BY <1>1, <1>3, <1>6
<1>8. \A i \in 1..(size - 1) : /\ Len(ring) + 1 - size + i \in 1..Len(ring)
                               /\ res[i] = ring[Len(ring) + 1 - size + i]
    <2> SUFFICES ASSUME NEW i \in 1..(size - 1)
                 PROVE  /\ Len(ring) + 1 - size + i \in 1..Len(ring)
                        /\ res[i] = ring[Len(ring) + 1 - size + i]
        OBVIOUS
    <2>1. i \in 1..size /\ Len(ring) + 1 - size + i \in 1..Len(ring)
        BY <1>1, <1>3
    <2>2. Len(all) - size + i = Len(ring) + 1 - size + i
        BY <1>1, <1>3
    <2>3. res[i] = all[Len(ring) + 1 - size + i]
        BY <2>1, <2>2, <1>6
    <2> QED
        BY <2>1, <2>3, <1>1
<1>9. size = IF Len(ring) + 1 > Slots THEN Slots ELSE Len(ring) + 1
    BY <1>1 DEF size
<1> QED
    BY <1>2, <1>6, <1>7, <1>8, <1>9 DEF S

\* What is recorded goes behind the rest; what continued before still does if the
\* new snapshot follows on.
LEMMA KeptLonger ==
    ASSUME TrendInv, NEW k \in Kept, kept' = Append(kept, k)
    PROVE  /\ kept' \in Seq(Kept) /\ Len(kept') = Len(kept) + 1 /\ Len(kept) \in Nat
           /\ \A i \in 1..Len(kept) : kept'[i] = kept[i]
           /\ kept'[Len(kept) + 1] = k /\ kept' # <<>>
<1>1. kept \in Seq(Kept)
    BY DEF TrendInv
<1> DEFINE longer == Append(kept, k)
<1>2. /\ longer \in Seq(Kept) /\ Len(longer) = Len(kept) + 1 /\ Len(kept) \in Nat
      /\ \A i \in 1..Len(kept) : longer[i] = kept[i]
      /\ longer[Len(kept) + 1] = k
    BY <1>1, AppendProperties
<1> HIDE DEF longer
<1>3. longer # <<>>
    BY <1>2
<1> QED
    BY <1>2, <1>3 DEF longer

\* The new snapshot follows on the last one for s.
Follows(k, s) ==
    /\ s \in k.subjects
    /\ k.since = kept[Len(kept)].since
    /\ k.clock - kept[Len(kept)].clock <= Gap

LEMMA ContinuesLonger ==
    ASSUME TrendInv, NEW k \in Kept, kept' = Append(kept, k), NEW s, NEW i \in 1..Len(kept)
    PROVE  Trend!Continues(i, s)' <=> (Trend!Continues(i, s) /\ Follows(k, s))
<1>1. /\ Len(kept') = Len(kept) + 1 /\ Len(kept) \in Nat
      /\ \A j \in 1..Len(kept) : kept'[j] = kept[j]
      /\ kept'[Len(kept) + 1] = k
    BY KeptLonger
<1>2. ASSUME Trend!Continues(i, s)'
      PROVE  Trend!Continues(i, s) /\ Follows(k, s)
    <2>1. \A j \in i..Len(kept) + 1 :
            /\ s \in kept'[j].subjects
            /\ j > i => /\ kept'[j].since = kept'[j - 1].since
                        /\ kept'[j].clock - kept'[j - 1].clock <= Gap
        BY <1>1, <1>2 DEF Trend!Continues
    <2>2. Trend!Continues(i, s)
        <3> SUFFICES ASSUME NEW j \in i..Len(kept)
                     PROVE  /\ s \in kept[j].subjects
                            /\ j > i => /\ kept[j].since = kept[j - 1].since
                                        /\ kept[j].clock - kept[j - 1].clock <= Gap
            BY DEF Trend!Continues
        <3>1. j \in i..Len(kept) + 1 /\ j \in 1..Len(kept) /\ (j > i => j - 1 \in 1..Len(kept))
            BY <1>1
        <3> QED
            BY <1>1, <2>1, <3>1
    <2>3. Follows(k, s)
        <3>1. /\ Len(kept) + 1 \in i..Len(kept) + 1 /\ Len(kept) + 1 > i
              /\ (Len(kept) + 1) - 1 = Len(kept) /\ Len(kept) \in 1..Len(kept)
            BY <1>1
        <3>2. /\ s \in kept'[Len(kept) + 1].subjects
              /\ kept'[Len(kept) + 1].since = kept'[Len(kept)].since
              /\ kept'[Len(kept) + 1].clock - kept'[Len(kept)].clock <= Gap
            BY <2>1, <3>1
        <3> QED
            BY <1>1, <3>1, <3>2 DEF Follows
    <2> QED
        BY <2>2, <2>3
<1>3. ASSUME Trend!Continues(i, s), Follows(k, s)
      PROVE  Trend!Continues(i, s)'
    <2> SUFFICES ASSUME NEW j \in i..Len(kept) + 1
                 PROVE  /\ s \in kept'[j].subjects
                        /\ j > i => /\ kept'[j].since = kept'[j - 1].since
                                    /\ kept'[j].clock - kept'[j - 1].clock <= Gap
        BY <1>1 DEF Trend!Continues
    <2>1. CASE j = Len(kept) + 1
        <3>1. j - 1 = Len(kept) /\ Len(kept) \in 1..Len(kept)
            BY <1>1, <2>1
        <3> QED
            BY <1>1, <1>3, <2>1, <3>1 DEF Follows
    <2>2. CASE j # Len(kept) + 1
        <3>1. j \in i..Len(kept) /\ j \in 1..Len(kept) /\ (j > i => j - 1 \in 1..Len(kept))
            BY <1>1, <2>2
        <3> QED
            BY <1>1, <1>3, <3>1 DEF Trend!Continues
    <2> QED
        BY <2>1, <2>2
<1> QED
    BY <1>2, <1>3

LEMMA ContinuesLast ==
    ASSUME TrendInv, NEW k \in Kept, kept' = Append(kept, k), NEW s \in k.subjects,
           NEW i, i = Len(kept) + 1
    PROVE  Trend!Continues(i, s)'
<1>1. /\ Len(kept') = Len(kept) + 1 /\ Len(kept) \in Nat
      /\ kept'[Len(kept) + 1] = k
    BY KeptLonger
<1> SUFFICES ASSUME NEW j \in i..Len(kept')
             PROVE  /\ s \in kept'[j].subjects
                    /\ j > i => /\ kept'[j].since = kept'[j - 1].since
                                /\ kept'[j].clock - kept'[j - 1].clock <= Gap
    BY <1>1 DEF Trend!Continues
<1>2. j = Len(kept) + 1 /\ ~(j > i)
    BY <1>1
<1> QED
    BY <1>1, <1>2

\* A ring that begins anew.
LEMMA RingBegins ==
    ASSUME TrendInv, NEW k \in Kept, kept' = Append(kept, k), NEW s \in k.subjects,
           kept = <<>> \/ ~(Follows(k, s) /\ s \in kept[Len(kept)].subjects)
    PROVE  RingIsRun(Trend!Appended(<<>>, k.sample), s)'
<1> PICK n : n = Len(kept)
    OBVIOUS
<1> DEFINE ring == Trend!Appended(<<>>, k.sample)
<1>1. k.sample \in 1..MaxSnapshots /\ <<>> \in Seq(1..MaxSnapshots) /\ Len(<<>>) = 0
    BY EmptySeq DEF Kept
<1>2. Trend!TrendAssumption /\ Slots \in Nat \ {0}
    BY DEF TrendInv, Trend!TrendAssumption
<1>3. ring \in Seq(1..MaxSnapshots) /\ Len(ring) = 1 /\ ring[1] = k.sample
    <2> DEFINE none == <<>>
    <2>1. none \in Seq(1..MaxSnapshots) /\ Len(none) = 0
        BY <1>1
    <2> HIDE DEF none
    <2>2. /\ Trend!Appended(none, k.sample) \in Seq(1..MaxSnapshots)
          /\ Len(Trend!Appended(none, k.sample)) = IF Len(none) + 1 > Slots THEN Slots ELSE Len(none) + 1
          /\ Trend!Appended(none, k.sample)[Len(Trend!Appended(none, k.sample))] = k.sample
        BY <1>1, <1>2, <2>1, AppendedRing
    <2>3. Trend!Appended(none, k.sample) = ring
        BY DEF none
    <2> HIDE DEF ring
    <2>4. Len(ring) = 1
        BY <1>2, <2>1, <2>2, <2>3
    <2> QED
        BY <2>2, <2>3, <2>4
<1> HIDE DEF ring
<1>4. /\ Len(kept') = Len(kept) + 1 /\ Len(kept) \in Nat
      /\ kept'[Len(kept) + 1] = k
    BY KeptLonger
<1>5. Before(ring)' = Len(kept)
    BY <1>3, <1>4 DEF Before
<1>6. Trend!Continues(n + 1, s)'
    BY ContinuesLast
<1>7. n = 0 \/ ~Trend!Continues(n, s)'
    <2>1. CASE kept = <<>>
        BY <2>1
    <2>2. CASE kept # <<>>
        <3>1. n \in 1..Len(kept)
            BY <2>2, EmptySeq DEF TrendInv
        <3>2. Trend!Continues(n, s) => s \in kept[Len(kept)].subjects
            BY <3>1 DEF Trend!Continues
        <3>3. Trend!Continues(n, s)' <=> (Trend!Continues(n, s) /\ Follows(k, s))
            BY <3>1, ContinuesLonger
        <3> QED
            BY <2>2, <3>2, <3>3
    <2> QED
        BY <2>1, <2>2
<1>8. \A i \in 1..Len(ring) : ring[i] = kept'[Before(ring)' + i].sample
    BY <1>3, <1>4, <1>5
<1>9. RingIsRun(ring, s)'
    <2>1. (Before(ring) + 1)' = n + 1 /\ Before(ring)' = n
        BY <1>5
    <2>2. Trend!Continues(Before(ring) + 1, s)'
        BY <1>6, <2>1 DEF Trend!Continues
    <2>3. Before(ring)' = 0 \/ ~Trend!Continues(Before(ring), s)'
        BY <1>7, <2>1 DEF Trend!Continues
    <2>4. Len(ring) \in 1..Slots /\ Len(ring) <= Len(kept')
        BY <1>2, <1>3, <1>4
    <2> QED
        BY <1>3, <1>8, <2>2, <2>3, <2>4 DEF RingIsRun
<1> QED
    BY <1>9 DEF ring

\* A ring that is continued.
LEMMA RingGrows ==
    ASSUME TrendInv, NEW k \in Kept, kept' = Append(kept, k), kept # <<>>,
           NEW ring, NEW s, RingIsRun(ring, s), Follows(k, s)
    PROVE  RingIsRun(Trend!Appended(ring, k.sample), s)'
<1> PICK n, b : n = Len(kept) /\ b = Before(ring)
    OBVIOUS
<1> DEFINE res == Trend!Appended(ring, k.sample)
<1>1. Trend!TrendAssumption /\ Slots \in Nat \ {0}
    BY DEF TrendInv, Trend!TrendAssumption
<1>2. /\ ring \in Seq(1..MaxSnapshots) /\ Len(ring) \in 1..Slots /\ Len(ring) <= Len(kept)
      /\ \A i \in 1..Len(ring) : ring[i] = kept[Before(ring) + i].sample
      /\ Trend!Continues(Before(ring) + 1, s)
      /\ Len(ring) = Slots \/ Before(ring) = 0 \/ ~Trend!Continues(Before(ring), s)
    BY DEF RingIsRun
<1>3. k.sample \in 1..MaxSnapshots
    BY DEF Kept
<1>4. /\ res \in Seq(1..MaxSnapshots)
      /\ Len(res) = IF Len(ring) + 1 > Slots THEN Slots ELSE Len(ring) + 1
      /\ res[Len(res)] = k.sample
      /\ \A i \in 1..(Len(res) - 1) :
           /\ Len(ring) + 1 - Len(res) + i \in 1..Len(ring)
           /\ res[i] = ring[Len(ring) + 1 - Len(res) + i]
    BY <1>1, <1>2, <1>3, AppendedRing
<1> HIDE DEF res
<1>5. /\ Len(kept') = Len(kept) + 1 /\ Len(kept) \in Nat
      /\ \A i \in 1..Len(kept) : kept'[i] = kept[i]
      /\ kept'[Len(kept) + 1] = k
    BY KeptLonger
<1>6. /\ Len(res) \in 1..Slots /\ Len(res) <= Len(kept') /\ Len(res) \in Nat /\ Len(ring) \in Nat
      /\ Len(res) <= Len(ring) + 1
    BY <1>1, <1>2, <1>4, <1>5
<1> PICK c : c = n + 1 - Len(res)
    OBVIOUS
<1>7. /\ Before(res)' = c /\ b = n - Len(ring)
      /\ c >= b /\ b \in Nat /\ c \in Nat /\ c <= n /\ n \in Nat
    BY <1>2, <1>5, <1>6 DEF Before
<1>8. \A i \in 1..Len(res) : res[i] = kept'[c + i].sample
    <2> SUFFICES ASSUME NEW i \in 1..Len(res)
                 PROVE  res[i] = kept'[c + i].sample
        OBVIOUS
    <2>1. CASE i = Len(res)
        <3>1. c + i = n + 1
            BY <2>1, <1>5, <1>6, <1>7
        <3> QED
            BY <2>1, <3>1, <1>4, <1>5
    <2>2. CASE i # Len(res)
        <3> DEFINE m == Len(ring) + 1 - Len(res) + i
        <3>1. i \in 1..(Len(res) - 1)
            BY <2>2, <1>6
        <3>2. m \in 1..Len(ring) /\ res[i] = ring[m]
            BY <3>1, <1>4
        <3>3. b + m = c + i /\ b + m \in 1..n
            BY <3>1, <3>2, <1>2, <1>5, <1>6, <1>7
        <3> HIDE DEF m
        <3>4. ring[m] = kept[b + m].sample
            BY <3>2, <1>2
        <3> QED
            BY <3>2, <3>3, <3>4, <1>5
    <2> QED
        BY <2>1, <2>2
<1>9. Trend!Continues(c + 1, s)'
    <2>1. CASE c = n
        BY <2>1, ContinuesLast DEF Follows
    <2>2. CASE c < n
        <3>1. c + 1 \in 1..Len(kept) /\ b + 1 \in 1..Len(kept) /\ c + 1 >= b + 1
            BY <2>2, <1>5, <1>7
        <3>2. Trend!Continues(c + 1, s)
            <4> SUFFICES ASSUME NEW j \in (c + 1)..Len(kept)
                         PROVE  /\ s \in kept[j].subjects
                                /\ j > c + 1 =>
                                     /\ kept[j].since = kept[j - 1].since
                                     /\ kept[j].clock - kept[j - 1].clock <= Gap
                BY DEF Trend!Continues
            <4>1. /\ j \in (b + 1)..Len(kept)
                  /\ j > c + 1 => j > b + 1
                BY <3>1, <1>5, <1>7
            <4> QED
                BY <4>1, <1>2 DEF Trend!Continues
        <3> QED
            BY <3>1, <3>2, ContinuesLonger
    <2> QED
        BY <2>1, <2>2, <1>7
<1>10. Len(res) = Slots \/ c = 0 \/ ~Trend!Continues(c, s)'
    <2> SUFFICES ASSUME Len(res) # Slots, c # 0
                 PROVE  ~Trend!Continues(c, s)'
        OBVIOUS
    <2>1. Len(ring) # Slots /\ c = b /\ b \in 1..Len(kept)
        BY <1>1, <1>2, <1>4, <1>5, <1>7
    <2>2. ~Trend!Continues(b, s)
        BY <1>2, <2>1
    <2> QED
        BY <2>1, <2>2, ContinuesLonger
<1>11. RingIsRun(res, s)'
    <2>1. Before(res)' = c
        BY <1>7
    <2>2. Trend!Continues(Before(res) + 1, s)'
        BY <1>9, <2>1 DEF Trend!Continues
    <2>3. Before(res)' = 0 \/ ~Trend!Continues(Before(res), s)' \/ Len(res) = Slots
        BY <1>10, <2>1 DEF Trend!Continues
    <2> QED
        BY <1>4, <1>6, <1>8, <2>1, <2>2, <2>3 DEF RingIsRun
<1> QED
    BY <1>11 DEF res

LEMMA SubjectsTyped ==
    ASSUME NEW rules \in SUBSET Rules, NEW endpoints \in SUBSET Endpoints,
           NEW connections \in SUBSET Connections
    PROVE  Trend!Subjects(rules, endpoints, connections) \in SUBSET AllSubjects
BY DEF Trend!Subjects, AllSubjects

LEMMA RecordStep ==
    ASSUME TrendInv, NEW delay \in Delays, NEW subjects \in SUBSET AllSubjects,
           Trend!Record(delay, subjects)
    PROVE  TrendInv'
<1> DEFINE clock == now + delay - setBack
           restart == Trend!Restarts(clock)
           skip == ~restart /\ clock - trend.lastAt < MinStep
           sample == taken + 1
           k == [sample |-> sample, clock |-> clock, at |-> now + delay,
                 since |-> registry, subjects |-> subjects]
<1>1. /\ taken < MaxSnapshots /\ taken' = sample /\ now' = now + delay
      /\ IF skip THEN UNCHANGED <<trend, kept>>
         ELSE /\ trend' = [since |-> registry, lastAt |-> clock,
                           rings |-> Trend!Rings(IF restart THEN <<>> ELSE trend.rings,
                                           subjects, sample)]
              /\ kept' = Append(kept, k)
      /\ UNCHANGED <<setBack, setBacks, registry>>
    BY DEF Trend!Record
<1>2. /\ Trend!TrendAssumption /\ Gap \in Nat /\ MinStep \in Nat /\ delay \in Nat /\ MaxSnapshots \in Nat
      /\ now \in Nat /\ setBack \in Nat /\ taken \in Nat /\ setBacks \in Nat
      /\ registry \in Nat \ {0} /\ kept \in Seq(Kept) /\ TrendIsLast /\ Spaced
    BY DEF TrendInv, Trend!TrendAssumption
<1>3. now' \in Nat /\ taken' \in Nat /\ setBack' \in Nat /\ setBacks' \in Nat /\ registry' \in Nat \ {0}
    BY <1>1, <1>2
<1>4. CASE skip
    <2>1. UNCHANGED <<trend, kept>>
        BY <1>1, <1>4
    <2> QED
        BY <1>2, <1>3, <2>1 DEF TrendInv, Trend!TrendAssumption, TrendIsLast, Spaced,
           RingIsRun, Before,
           Trend!Continues
<1>5. CASE ~skip
    <2>1. k \in Kept /\ k.sample = sample /\ k.clock = clock /\ k.since = registry
          /\ k.subjects = subjects
        BY <1>1, <1>2 DEF Kept
    <2>2. kept' = Append(kept, k)
        BY <1>1, <1>5
    <2>3. /\ trend'.since = registry /\ trend'.lastAt = clock
          /\ trend'.rings = Trend!Rings(IF restart THEN <<>> ELSE trend.rings, subjects, sample)
        BY <1>1, <1>5
    <2>4. ~restart => clock - trend.lastAt >= MinStep
        <3>1. clock \in Int
            BY <1>2
        <3>2. ~restart => trend.lastAt \in Int
            <4>1. ~restart => trend # Trend!Empty
                BY DEF Trend!Restarts
            <4>2. trend # Trend!Empty => kept # <<>>
                BY <1>2 DEF TrendIsLast
            <4>3. kept # <<>> => kept[Len(kept)] \in Kept
                BY <1>2, ElementOfSeq, EmptySeq
            <4> QED
                BY <1>2, <4>1, <4>2, <4>3 DEF TrendIsLast, Kept
        <3> QED
            BY <1>2, <1>5, <3>1, <3>2
    <2> HIDE DEF k
    <2>5. /\ kept' \in Seq(Kept) /\ Len(kept') = Len(kept) + 1 /\ Len(kept) \in Nat
          /\ \A i \in 1..Len(kept) : kept'[i] = kept[i]
          /\ kept'[Len(kept) + 1] = k /\ kept' # <<>>
        BY <2>1, <2>2, KeptLonger
    <2>6. DOMAIN trend'.rings = subjects
        BY <2>3 DEF Trend!Rings
    <2>7. kept # <<>> => /\ kept[Len(kept)] \in Kept /\ Len(kept) \in 1..Len(kept)
                         /\ trend.since = kept[Len(kept)].since
                         /\ trend.lastAt = kept[Len(kept)].clock
                         /\ DOMAIN trend.rings = kept[Len(kept)].subjects
        BY <1>2, ElementOfSeq, EmptySeq DEF TrendIsLast
    <2>8. restart => \/ kept = <<>>
                     \/ ~(registry = kept[Len(kept)].since /\ clock - kept[Len(kept)].clock <= Gap)
        <3> SUFFICES ASSUME restart, kept # <<>>,
                            registry = kept[Len(kept)].since,
                            clock - kept[Len(kept)].clock <= Gap
                     PROVE  FALSE
            OBVIOUS
        <3>1. registry = trend.since /\ trend.lastAt = kept[Len(kept)].clock
            BY <2>7
        <3>2. trend # Trend!Empty
            BY <1>2, <3>1 DEF Trend!Empty
        <3>3. kept[Len(kept)].clock \in Int
            BY <2>7 DEF Kept
        <3>4. ~(clock - trend.lastAt > Gap)
            BY <1>2, <3>1, <3>3
        <3> QED
            BY <3>1, <3>2, <3>4 DEF Trend!Restarts
    <2>9. ~restart => /\ kept # <<>> /\ registry = kept[Len(kept)].since
                      /\ clock - kept[Len(kept)].clock <= Gap
        <3> SUFFICES ASSUME ~restart
                     PROVE  /\ kept # <<>> /\ registry = kept[Len(kept)].since
                            /\ clock - kept[Len(kept)].clock <= Gap
            OBVIOUS
        <3>1. trend # Trend!Empty /\ registry = trend.since /\ ~(clock - trend.lastAt > Gap)
            BY DEF Trend!Restarts
        <3>2. kept # <<>>
            BY <1>2, <3>1 DEF TrendIsLast
        <3>3. kept[Len(kept)].clock \in Int
            BY <2>7, <3>2 DEF Kept
        <3> QED
            BY <1>2, <2>7, <3>1, <3>2, <3>3
    <2>13. PICK q : q = k
        OBVIOUS
    <2>10. ASSUME NEW s \in subjects
           PROVE  RingIsRun(trend.rings[s], s)'
        <3>1. trend'.rings[s] =
                Trend!Appended(IF s \in DOMAIN (IF restart THEN <<>> ELSE trend.rings)
                         THEN (IF restart THEN <<>> ELSE trend.rings)[s] ELSE <<>>, sample)
            BY <2>3 DEF Trend!Rings
        <3>2. CASE ~restart /\ s \in DOMAIN trend.rings
            <4>1. trend'.rings[s] = Trend!Appended(trend.rings[s], k.sample)
                BY <2>1, <3>1, <3>2
            <4>2. RingIsRun(trend.rings[s], s)
                BY <1>2, <2>9, <3>2 DEF TrendIsLast
            <4>3. Follows(k, s)
                BY <2>1, <2>9, <2>10, <3>2 DEF Follows
            <4>4. PICK ring : ring = trend.rings[s]
                OBVIOUS
            <4>5. RingIsRun(Trend!Appended(ring, q.sample), s)'
                BY <2>1, <2>2, <2>9, <2>13, <3>2, <4>2, <4>3, <4>4, RingGrows
            <4>6. trend'.rings[s] = Trend!Appended(ring, q.sample)
                BY <2>13, <4>1, <4>4
            <4> QED
                BY <4>5, <4>6 DEF RingIsRun, Before, Trend!Continues
        <3>3. CASE restart \/ s \notin DOMAIN trend.rings
            <4>1. trend'.rings[s] = Trend!Appended(<<>>, k.sample)
                BY <2>1, <3>1, <3>3
            <4>2. kept = <<>> \/ ~(Follows(k, s) /\ s \in kept[Len(kept)].subjects)
                BY <2>1, <2>7, <2>8, <3>3 DEF Follows
            <4>3. RingIsRun(Trend!Appended(<<>>, q.sample), s)'
                BY <2>1, <2>2, <2>13, <4>2, RingBegins
            <4>4. trend'.rings[s] = Trend!Appended(<<>>, q.sample)
                BY <2>13, <4>1
            <4> QED
                BY <4>3, <4>4 DEF RingIsRun, Before, Trend!Continues
        <3> QED
            BY <3>2, <3>3
    <2>11. TrendIsLast'
        <3>1. kept'[Len(kept')] = k
            BY <2>5
        <3>2. \A s \in DOMAIN trend'.rings : RingIsRun(trend.rings[s], s)'
            BY <2>6, <2>10
        <3> QED
            BY <2>1, <2>3, <2>5, <2>6, <3>1, <3>2 DEF TrendIsLast
    <2>12. Spaced'
        <3> SUFFICES ASSUME NEW j \in 2..(Len(kept) + 1),
        kept'[j].since = kept'[j - 1].since,
                            kept'[j].clock - kept'[j - 1].clock <= Gap
                     PROVE  kept'[j].clock - kept'[j - 1].clock >= MinStep
            BY <2>5 DEF Spaced
        <3>1. CASE j = Len(kept) + 1
            <4>1. j - 1 = Len(kept) /\ Len(kept) \in 1..Len(kept) /\ kept # <<>>
                BY <3>1, <2>5
            <4>2. kept'[j] = k /\ kept'[j - 1] = kept[Len(kept)]
                BY <3>1, <4>1, <2>5
            <4>3. ~restart
                BY <2>1, <2>8, <4>1, <4>2
            <4> QED
                BY <2>1, <2>4, <2>7, <4>1, <4>2, <4>3
        <3>2. CASE j # Len(kept) + 1
            <4>1. j \in 2..Len(kept) /\ j \in 1..Len(kept) /\ j - 1 \in 1..Len(kept)
                BY <3>2, <2>5
            <4> QED
                BY <4>1, <1>2, <2>5 DEF Spaced
        <3> QED
            BY <3>1, <3>2
    <2> QED
        BY <1>2, <1>3, <2>5, <2>11, <2>12 DEF TrendInv
<1> QED
    BY <1>4, <1>5

LEMMA TrendStep ==
    ASSUME TrendInv, Trend!Next
    PROVE  TrendInv'
<1>1. CASE Trend!OnData
    BY <1>1, SubjectsTyped, RecordStep DEF Trend!OnData
<1>2. CASE Trend!Reset \/ Trend!SetClockBack
    <2>1. UNCHANGED <<now, taken, trend, kept>>
        BY <1>2 DEF Trend!Reset, Trend!SetClockBack
    <2>2. setBack' \in Nat /\ setBacks' \in Nat /\ registry' \in Nat \ {0}
        BY <1>2 DEF Trend!Reset, Trend!SetClockBack, TrendInv, Trend!TrendAssumption
    <2> QED
        BY <2>1, <2>2 DEF TrendInv, Trend!TrendAssumption, TrendIsLast, Spaced,
           RingIsRun, Before,
           Trend!Continues
<1> QED
    BY <1>1, <1>2 DEF Trend!Next

\* The Cardinality of Trend is the one of FiniteSets, which facts are known of.
LEMMA TrendCounts ==
    ASSUME NEW S
    PROVE  Trend!Cardinality(S) = Cardinality(S)
BY DEF Trend!Cardinality, Cardinality

\* The snapshots that a chart may show are those its ring holds.
LEMMA RunIsTail ==
    ASSUME TrendInv, NEW ring, NEW s, RingIsRun(ring, s)
    PROVE  Trend!Run(s) = (Before(ring) + 1)..Len(kept)
<1>1. /\ Len(kept) \in Nat /\ DOMAIN kept = 1..Len(kept) /\ Slots \in Nat \ {0}
    BY DEF TrendInv, Trend!TrendAssumption
<1>2. /\ Len(ring) \in 1..Slots /\ Len(ring) <= Len(kept)
      /\ Trend!Continues(Before(ring) + 1, s)
      /\ Len(ring) = Slots \/ Before(ring) = 0 \/ ~Trend!Continues(Before(ring), s)
    BY DEF RingIsRun
<1> DEFINE b == Before(ring)
<1>3. b = Len(kept) - Len(ring) /\ b \in Nat /\ b < Len(kept) /\ Len(ring) \in Nat
    BY <1>1, <1>2 DEF Before
<1>4. ASSUME NEW i \in DOMAIN kept, i > Len(kept) - Slots, Trend!Continues(i, s)
      PROVE  i \in (b + 1)..Len(kept)
    <2> SUFFICES ASSUME i <= b PROVE FALSE
        BY <1>1, <1>3
    <2>1. Len(ring) # Slots /\ b # 0
        BY <1>1, <1>3, <1>4
    <2>2. Trend!Continues(b, s)
        <3> SUFFICES ASSUME NEW j \in b..Len(kept)
                     PROVE  /\ s \in kept[j].subjects
                            /\ j > b => /\ kept[j].since = kept[j - 1].since
                                        /\ kept[j].clock - kept[j - 1].clock <= Gap
            BY DEF Trend!Continues
        <3>1. j \in i..Len(kept) /\ (j > b => j > i)
            BY <1>1, <1>3
        <3> QED
            BY <3>1, <1>4 DEF Trend!Continues
    <2> QED
        BY <1>2, <2>1, <2>2
<1>5. ASSUME NEW i \in (b + 1)..Len(kept)
      PROVE  i \in DOMAIN kept /\ i > Len(kept) - Slots /\ Trend!Continues(i, s)
    <2>1. i \in DOMAIN kept /\ i > Len(kept) - Slots
        BY <1>1, <1>2, <1>3
    <2>2. Trend!Continues(i, s)
        <3> SUFFICES ASSUME NEW j \in i..Len(kept)
                     PROVE  /\ s \in kept[j].subjects
                            /\ j > i => /\ kept[j].since = kept[j - 1].since
                                        /\ kept[j].clock - kept[j - 1].clock <= Gap
            BY DEF Trend!Continues
        <3>1. j \in (b + 1)..Len(kept) /\ (j > i => j > b + 1)
            BY <1>1, <1>3
        <3> QED
            BY <3>1, <1>2 DEF Trend!Continues
    <2> QED
        BY <2>1, <2>2
<1> QED
    BY <1>4, <1>5 DEF Trend!Run

LEMMA TrendShows ==
    ASSUME TrendInv
    PROVE  Trend!TrendTypeOK /\ Trend!ChartsAreRuns
<1>1. /\ Trend!TrendAssumption /\ Slots \in Nat \ {0} /\ Gap \in Nat /\ kept \in Seq(Kept)
      /\ Len(kept) \in Nat /\ DOMAIN kept = 1..Len(kept) /\ TrendIsLast /\ Spaced
    BY DEF TrendInv, Trend!TrendAssumption
<1>2. CASE kept = <<>>
    <2>1. trend = Trend!Empty
        BY <1>1, <1>2 DEF TrendIsLast
    <2>2. trend.since = 0 /\ trend.lastAt = 0 /\ DOMAIN trend.rings = {}
        BY <2>1 DEF Trend!Empty
    <2> QED
        BY <1>2, <2>2 DEF TrendInv, Trend!TrendTypeOK, Trend!ChartsAreRuns
<1>3. CASE kept # <<>>
    <2>1. /\ trend.since = kept[Len(kept)].since /\ trend.lastAt = kept[Len(kept)].clock
          /\ DOMAIN trend.rings = kept[Len(kept)].subjects
          /\ \A s \in DOMAIN trend.rings : RingIsRun(trend.rings[s], s)
        BY <1>1, <1>3 DEF TrendIsLast
    <2>2. kept[Len(kept)] \in Kept
        BY <1>1, <1>3, ElementOfSeq, EmptySeq
    <2>3. Trend!TrendTypeOK
        BY <2>1, <2>2 DEF TrendInv, Trend!TrendTypeOK, RingIsRun, Kept
    <2>4. ASSUME NEW s \in DOMAIN trend.rings
          PROVE  /\ Trend!ToSet(trend.rings[s]) = {kept[i].sample : i \in Trend!Run(s)}
                 /\ Len(trend.rings[s]) = Trend!Cardinality(Trend!Run(s))
                 /\ \A i \in Trend!Run(s) : i - 1 \in Trend!Run(s) => kept[i].clock - kept[i - 1].clock >= MinStep
                 /\ Trend!Points(trend.rings[s]) = Trend!Drawn(s)
        <3> DEFINE ring == trend.rings[s]
                   b == Before(ring)
        <3>1. RingIsRun(ring, s)
            BY <2>1
        <3> HIDE DEF ring
        <3>2. Trend!Run(s) = (b + 1)..Len(kept)
            BY <3>1, RunIsTail
        <3>3. /\ b = Len(kept) - Len(ring) /\ b \in Nat /\ Len(ring) \in Nat \ {0} /\ b < Len(kept)
              /\ DOMAIN ring = 1..Len(ring)
              /\ \A i \in 1..Len(ring) : ring[i] = kept[b + i].sample
            BY <1>1, <3>1 DEF RingIsRun, Before
        <3> HIDE DEF b
        <3>4. \A i \in DOMAIN ring : b + i \in Trend!Run(s) /\ ring[i] = kept[b + i].sample
            BY <1>1, <3>2, <3>3
        <3>5. \A i \in Trend!Run(s) : i - b \in DOMAIN ring /\ ring[i - b] = kept[i].sample
            <4> SUFFICES ASSUME NEW i \in Trend!Run(s)
                         PROVE  i - b \in DOMAIN ring /\ ring[i - b] = kept[i].sample
                OBVIOUS
            <4>1. i - b \in 1..Len(ring) /\ b + (i - b) = i
                BY <1>1, <3>2, <3>3
            <4> QED
                BY <3>3, <4>1
        <3>6. Trend!ToSet(ring) = {kept[i].sample : i \in Trend!Run(s)}
            BY <3>4, <3>5 DEF Trend!ToSet
        <3>7. Trend!Cardinality(Trend!Run(s)) = Len(ring)
            <4>1. Cardinality((b + 1)..Len(kept)) = Len(kept) - (b + 1) + 1
                <5>1. b + 1 \in Int /\ Len(kept) \in Int /\ ~(b + 1 > Len(kept))
                    BY <1>1, <3>3
                <5> QED
                    BY <5>1, FS_Interval
            <4>2. Len(kept) - (b + 1) + 1 = Len(ring)
                BY <1>1, <3>3
            <4> QED
                BY <3>2, <4>1, <4>2, TrendCounts
        <3>8. ASSUME NEW i \in Trend!Run(s), i - 1 \in Trend!Run(s)
              PROVE  kept[i].clock - kept[i - 1].clock >= MinStep
            <4>1. i \in 2..Len(kept) /\ i \in (i - 1)..Len(kept) /\ i > i - 1
                BY <1>1, <3>2, <3>3, <3>8
            <4>2. Trend!Continues(i - 1, s)
                BY <3>8 DEF Trend!Run
            <4> QED
                BY <1>1, <4>1, <4>2 DEF Trend!Continues, Spaced
        <3>9. Trend!Points(ring) = Trend!Drawn(s)
            <4>1. CASE Len(ring) < 2
                <5>1. Trend!Cardinality(Trend!Run(s)) < 2
                    BY <3>7, <4>1
                <5>2. Trend!Drawn(s) = {}
                    BY <5>1 DEF Trend!Drawn
                <5> QED
                    BY <4>1, <5>2 DEF Trend!Points
            <4>2. CASE ~(Len(ring) < 2)
                <5>1. Trend!Points(ring) = {<<Slots - 1 - (Len(ring) - i),
                                              ring[i]>> : i \in DOMAIN ring}
                    BY <4>2 DEF Trend!Points, Trend!Column
                <5>2. \A i \in DOMAIN ring :
                        Slots - 1 - (Len(ring) - i) = Slots - 1 - (Len(kept) - (b + i))
                    <6> SUFFICES ASSUME NEW i \in Int
                                 PROVE  Slots - 1 - (Len(ring) - i) = Slots - 1 - (Len(kept) - (b + i))
                        BY <3>3
                    <6>1. Len(kept) - (b + i) = Len(ring) - i
                        BY <1>1, <3>3
                    <6> QED
                        BY <6>1
                <5>3. \A i \in Trend!Run(s) :
                        Slots - 1 - (Len(kept) - i) = Slots - 1 - (Len(ring) - (i - b))
                    BY <1>1, <3>2, <3>3
                <5>4. ~(Trend!Cardinality(Trend!Run(s)) < 2)
                    BY <3>7, <4>2
                <5> DEFINE drawn == {<<Slots - 1 - (Len(ring) - i),
                                       ring[i]>> : i \in DOMAIN ring}
                           points == {<<Slots - 1 - (Len(kept) - i),
                                        kept[i].sample>> : i \in Trend!Run(s)}
                <5>5. drawn \subseteq points
                    BY <3>4, <5>2
                <5>6. points \subseteq drawn
                    BY <3>5, <5>3
                <5>7. Trend!Drawn(s) = points
                    BY <5>4 DEF Trend!Drawn
                <5> QED
                    BY <5>1, <5>5, <5>6, <5>7
            <4> QED
                BY <4>1, <4>2
        <3> QED
            BY <3>6, <3>7, <3>8, <3>9 DEF ring
    <2>5. kept[Len(kept)] = Trend!Last(kept)
        BY DEF Trend!Last
    <2> QED
        BY <2>1, <2>3, <2>4, <2>5, Zenon DEF Trend!ChartsAreRuns
<1> QED
    BY <1>2, <1>3

-----------------------------------------------------------------------------
(* The tooltip.                                                            *)

\* A microtask: a deferred hide, or the flush of effects.
MicroTasks == [node : Tooltip!Hosts, token : Nat] \cup {Tooltip!Flush}

Waiting(tasks) == {tasks[i] : i \in DOMAIN tasks}

\* The hide that takes back the activation that is shown.
Withdrawal == [node |-> owner, token |-> activation]

\* The owner, the activations and the hides that wait for them: the hide of the
\* activation that is shown waits exactly if the tooltip is due to nobody.
TipInv ==
    /\ owner \in Tooltip!Hosts \cup {None} /\ due \in {owner, None}
    /\ described = {owner} \ {None}
    /\ activation \in 0..MaxActivations /\ microtasks \in Seq(MicroTasks)
    /\ \A task \in Waiting(microtasks) : task.token <= activation
    /\ owner # None => (Withdrawal \in Waiting(microtasks) <=> due = None)

\* The host the tooltip is due to is there and held.
DueIsHeld ==
    due # None => /\ due \in mounted /\ text[due] # ""
                  /\ over = due \/ focus = due \/ due \in pinned

\* The effects have run, or will.
Effected ==
    \/ Tooltip!Flush \in Waiting(microtasks)
    \/ /\ pinned \subseteq {owner}
       /\ popover = "none" <=> owner = None
       /\ popover = "waiting" => frame = owner

TooltipInv ==
    /\ Tooltip!TooltipAssumption /\ Tooltip!TooltipTypeOK /\ TipInv /\ DueIsHeld /\ Effected
    /\ \A h \in Tips : text[h] # ""

LEMMA FlushIsNoHide ==
    ASSUME Tooltip!TooltipAssumption
    PROVE  Tooltip!Flush.node = None /\ Tooltip!Flush.token = 0 /\ Tooltip!Flush \notin [node : Tooltip!Hosts, token : Nat]
BY DEF Tooltip!TooltipAssumption, Tooltip!Flush

LEMMA WaitingAppended ==
    ASSUME NEW S, NEW tasks \in Seq(S), NEW task \in S
    PROVE  /\ Append(tasks, task) \in Seq(S)
           /\ Waiting(Append(tasks, task)) = Waiting(tasks) \cup {task}
<1> DEFINE longer == Append(tasks, task)
<1>1. /\ longer \in Seq(S) /\ Len(longer) = Len(tasks) + 1 /\ Len(tasks) \in Nat
      /\ \A i \in 1..Len(tasks) : longer[i] = tasks[i]
      /\ longer[Len(tasks) + 1] = task
    BY AppendProperties
<1>2. DOMAIN longer = 1..(Len(tasks) + 1) /\ DOMAIN tasks = 1..Len(tasks)
    BY <1>1
<1> HIDE DEF longer
<1>3. DOMAIN longer = DOMAIN tasks \cup {Len(tasks) + 1}
    BY <1>1, <1>2
<1>4. Waiting(longer) = Waiting(tasks) \cup {task}
    BY <1>1, <1>2, <1>3 DEF Waiting
<1> QED
    BY <1>1, <1>4 DEF longer

LEMMA WaitingTail ==
    ASSUME NEW S, NEW tasks \in Seq(S), tasks # <<>>
    PROVE  /\ Head(tasks) \in S /\ Tail(tasks) \in Seq(S)
           /\ Waiting(tasks) = {Head(tasks)} \cup Waiting(Tail(tasks))
<1> DEFINE rest == Tail(tasks)
<1>1. /\ Head(tasks) \in S /\ rest \in Seq(S) /\ Len(rest) = Len(tasks) - 1
      /\ \A i \in 1..Len(rest) : rest[i] = tasks[i + 1]
      /\ Len(tasks) \in Nat \ {0}
    BY HeadTailProperties, EmptySeq
<1>2. Head(tasks) = tasks[1] /\ DOMAIN tasks = 1..Len(tasks) /\ DOMAIN rest = 1..Len(rest)
    BY <1>1
<1> HIDE DEF rest
<1>3. Waiting(tasks) \subseteq {Head(tasks)} \cup Waiting(rest)
    <2> SUFFICES ASSUME NEW i \in DOMAIN tasks, i # 1
                 PROVE  tasks[i] \in Waiting(rest)
        BY <1>2 DEF Waiting
    <2>1. i - 1 \in DOMAIN rest /\ rest[i - 1] = tasks[i]
        BY <1>1, <1>2
    <2> QED
        BY <2>1 DEF Waiting
<1>4. Waiting(rest) \subseteq Waiting(tasks)
    <2> SUFFICES ASSUME NEW i \in DOMAIN rest
                 PROVE  rest[i] \in Waiting(tasks)
        BY DEF Waiting
    <2>1. i + 1 \in DOMAIN tasks /\ rest[i] = tasks[i + 1]
        BY <1>1, <1>2
    <2> QED
        BY <2>1 DEF Waiting
<1>5. Head(tasks) \in Waiting(tasks)
    BY <1>1, <1>2 DEF Waiting
<1> QED
    BY <1>1, <1>3, <1>4, <1>5 DEF rest

LEMMA WaitingFlushed ==
    ASSUME NEW tasks \in Seq(MicroTasks)
    PROVE  /\ Tooltip!Flushed(tasks) \in Seq(MicroTasks)
           /\ Waiting(Tooltip!Flushed(tasks)) = Waiting(tasks) \cup {Tooltip!Flush}
<1>1. Tooltip!Flush \in MicroTasks
    BY DEF MicroTasks
<1>2. CASE Tooltip!Contains(tasks, Tooltip!Flush)
    <2>1. Tooltip!Flush \in Waiting(tasks)
        BY <1>2 DEF Tooltip!Contains, Waiting
    <2> QED
        BY <1>2, <2>1 DEF Tooltip!Flushed
<1>3. CASE ~Tooltip!Contains(tasks, Tooltip!Flush)
    BY <1>1, <1>3, WaitingAppended DEF Tooltip!Flushed
<1> QED
    BY <1>2, <1>3

LEMMA NoneWaits == Waiting(<<>>) = {}
BY DEF Waiting

LEMMA TooltipStart ==
    ASSUME Tooltip!TooltipAssumption, Tooltip!Init
    PROVE  TooltipInv
<1> USE DEF Tooltip!Init, Tooltip!TooltipAssumption
<1>1. Tooltip!TooltipTypeOK
    BY DEF Tooltip!TooltipTypeOK
<1>2. TipInv
    BY EmptySeq, NoneWaits DEF TipInv
<1>3. DueIsHeld /\ Effected
    BY DEF DueIsHeld, Effected
<1>4. \A h \in Tips : text[h] # ""
    BY DEF Tooltip!Hosts
<1> QED
    BY <1>1, <1>2, <1>3, <1>4 DEF TooltipInv

LEMMA HideTip ==
    ASSUME TooltipInv, Tooltip!HideTooltip
    PROVE  /\ TipInv' /\ due' = None
           /\ Tooltip!Flush \in Waiting(microtasks') \/ UNCHANGED <<owner, microtasks>>
<1>1. /\ Tooltip!TooltipAssumption /\ TipInv
    BY DEF TooltipInv
<1>2. /\ owner' = None /\ described' = described \ {owner} /\ due' = None
      /\ UNCHANGED activation
      /\ microtasks' = IF owner = None THEN microtasks ELSE Tooltip!Flushed(microtasks)
    BY DEF Tooltip!HideTooltip
<1>3. /\ microtasks' \in Seq(MicroTasks)
      /\ Waiting(microtasks') \subseteq Waiting(microtasks) \cup {Tooltip!Flush}
      /\ Tooltip!Flush \in Waiting(microtasks') \/ UNCHANGED <<owner, microtasks>>
    BY <1>1, <1>2, WaitingFlushed DEF TipInv
<1>4. \A task \in Waiting(microtasks)' : task.token <= activation'
    BY <1>1, <1>2, <1>3, FlushIsNoHide DEF TipInv
<1>5. described' = {}
    BY <1>1, <1>2 DEF TipInv
<1> QED
    BY <1>1, <1>2, <1>3, <1>4, <1>5 DEF TipInv

\* A host is shown, or has nothing to show: then the tooltip is hidden if it was
\* that host's, and is as it was if not.
LEMMA ShowTip ==
    ASSUME TooltipInv, NEW node \in Tooltip!Hosts, Tooltip!ShowTooltip(node), activation < MaxActivations
    PROVE  /\ TipInv'
           /\ \/ text[node] # "" /\ due' = node /\ Tooltip!Flush \in Waiting(microtasks')
              \/ /\ text[node] = "" /\ due' = None
                 /\ Tooltip!Flush \in Waiting(microtasks') \/ UNCHANGED <<owner, microtasks>>
              \/ text[node] = "" /\ UNCHANGED <<owner, due, microtasks>>
<1>1. /\ Tooltip!TooltipAssumption /\ TipInv
    BY DEF TooltipInv
<1>2. CASE text[node] = ""
    <2>1. UNCHANGED activation
        BY <1>2 DEF Tooltip!ShowTooltip, Tooltip!Activated
    <2>2. CASE owner = node
        <3>1. Tooltip!HideTooltip
            BY <1>2, <2>2 DEF Tooltip!ShowTooltip, Tooltip!Show
        <3> QED
            BY <1>2, <3>1, HideTip
    <2>3. CASE owner # node
        <3>1. UNCHANGED <<owner, activation, described, due, microtasks>>
            BY <1>2, <2>1, <2>3 DEF Tooltip!ShowTooltip, Tooltip!Show, Tooltip!tip
        <3>2. TipInv'
            BY <1>1, <3>1 DEF TipInv, Withdrawal
        <3> QED
            BY <1>2, <3>1, <3>2
    <2> QED
        BY <2>2, <2>3
<1>3. CASE text[node] # ""
    <2>1. /\ owner' = node /\ due' = node /\ described' = (described \ {owner}) \cup {node}
          /\ microtasks' = Tooltip!Flushed(microtasks) /\ activation' = activation + 1
        BY <1>3 DEF Tooltip!ShowTooltip, Tooltip!Show, Tooltip!Activated
    <2>2. /\ microtasks' \in Seq(MicroTasks)
          /\ Waiting(microtasks') = Waiting(microtasks) \cup {Tooltip!Flush}
        BY <1>1, <2>1, WaitingFlushed DEF TipInv
    <2>3. activation \in Nat /\ activation' \in 0..MaxActivations
        BY <1>1, <2>1 DEF TipInv, Tooltip!TooltipAssumption
    <2>4. \A task \in Waiting(microtasks)' : task.token <= activation /\ task.token \in Nat
        <3> SUFFICES ASSUME NEW task \in Waiting(microtasks) \cup {Tooltip!Flush}
                     PROVE  task.token <= activation /\ task.token \in Nat
            BY <2>2
        <3>1. CASE task = Tooltip!Flush
            BY <3>1, <1>1, <2>3, FlushIsNoHide
        <3>2. CASE task \in Waiting(microtasks)
            <4>1. PICK i \in DOMAIN microtasks : task = microtasks[i]
                BY <3>2 DEF Waiting
            <4>2. task \in MicroTasks
                BY <4>1, <1>1, ElementOfSeq DEF TipInv
            <4>3. task.token \in Nat
                BY <4>2, <1>1, FlushIsNoHide DEF MicroTasks
            <4> QED
                BY <3>2, <4>3, <1>1 DEF TipInv
        <3> QED
            BY <3>1, <3>2
    <2>5. \A task \in Waiting(microtasks)' : task.token <= activation'
        BY <2>1, <2>3, <2>4
    <2>6. Withdrawal' \notin Waiting(microtasks)'
        <3>1. Withdrawal'.token = activation + 1
            BY <2>1 DEF Withdrawal
        <3>2. ~(activation + 1 <= activation)
            BY <2>3
        <3> QED
            BY <2>4, <3>1, <3>2
    <2>7. node # None
        BY <1>1 DEF Tooltip!TooltipAssumption
    <2>8. described' = {node}
        BY <1>1, <2>1 DEF TipInv
    <2>9. TipInv'
        BY <2>1, <2>2, <2>3, <2>5, <2>6, <2>7, <2>8 DEF TipInv
    <2> QED
        BY <1>3, <2>1, <2>2, <2>9
<1> QED
    BY <1>2, <1>3

LEMMA ReleaseTip ==
    ASSUME TooltipInv, NEW node \in Tooltip!Hosts, Tooltip!ReleaseTooltip(node)
    PROVE  /\ TipInv' /\ owner' = owner /\ due' = IF due = node THEN None ELSE due
           /\ Waiting(microtasks) \subseteq Waiting(microtasks')
<1>1. /\ Tooltip!TooltipAssumption /\ TipInv
    BY DEF TooltipInv
<1>2. /\ due' = IF due = node THEN None ELSE due
      /\ UNCHANGED <<owner, activation, described>>
    BY DEF Tooltip!ReleaseTooltip
<1>3. CASE owner # node
    <2>1. microtasks' = microtasks /\ due' = due
        BY <1>1, <1>2, <1>3 DEF Tooltip!ReleaseTooltip, TipInv, Tooltip!TooltipAssumption
    <2> QED
        BY <1>1, <1>2, <2>1 DEF TipInv, Withdrawal
<1>4. CASE owner = node
    <2>1. microtasks' = Append(microtasks, Withdrawal)
        BY <1>4 DEF Tooltip!ReleaseTooltip, Withdrawal
    <2>2. Withdrawal \in MicroTasks
        BY <1>1, <1>4 DEF MicroTasks, Withdrawal, TipInv
    <2>3. /\ microtasks' \in Seq(MicroTasks)
          /\ Waiting(microtasks') = Waiting(microtasks) \cup {Withdrawal}
        BY <1>1, <2>1, <2>2, WaitingAppended DEF TipInv
    <2>4. Withdrawal.token <= activation
        BY <1>1 DEF Withdrawal, TipInv
    <2>5. due' = None
        BY <1>1, <1>2, <1>4 DEF TipInv
    <2>6. Withdrawal' = Withdrawal
        BY <1>2 DEF Withdrawal
    <2> QED
        BY <1>1, <1>2, <2>3, <2>4, <2>5, <2>6 DEF TipInv
<1> QED
    BY <1>3, <1>4

\* What the actions are made of: hosts are held by the pointer, the focus and a
\* pin, and one of the three operations is done, or none.
LEMMA HostsTyped ==
    ASSUME TooltipInv, TipInv', mounted' \subseteq mounted, UNCHANGED Tooltip!host,
           text' \in [Tooltip!Hosts -> {"", "text"}],
           over' \in Tooltip!Hosts \cup {None}, focus' \in Tooltip!Hosts \cup {None},
           pinned' \subseteq Tips
    PROVE  Tooltip!TooltipAssumption /\ Tooltip!TooltipTypeOK'
<1>1. Tooltip!TooltipAssumption /\ Tooltip!TooltipTypeOK /\ None \notin Tooltip!Hosts
    BY DEF TooltipInv, Tooltip!TooltipAssumption
<1>2. frame' \in Tooltip!Hosts \cup {None} /\ popover' \in {"none", "waiting", "open"}
    BY <1>1 DEF Tooltip!TooltipTypeOK, Tooltip!host
<1>3. owner' \in Tooltip!Hosts \cup {None} /\ due' \in Tooltip!Hosts \cup {None} /\ described' \subseteq Tooltip!Hosts
    BY DEF TipInv
<1> QED
    BY <1>1, <1>2, <1>3 DEF Tooltip!TooltipTypeOK, TipInv

LEMMA EffectsWait ==
    ASSUME Effected, UNCHANGED Tooltip!host, pinned' \subseteq pinned,
           \/ Tooltip!Flush \in Waiting(microtasks')
           \/ owner' = owner /\ Waiting(microtasks) \subseteq Waiting(microtasks')
    PROVE  Effected'
BY DEF Effected, Tooltip!host

LEMMA HideTipStep ==
    ASSUME TooltipInv, Tooltip!HideTooltip, UNCHANGED <<mounted, over, focus, pinned, Tooltip!host>>,
           text' \in [Tooltip!Hosts -> {"", "text"}], \A h \in Tips : text'[h] = text[h]
    PROVE  TooltipInv'
<1>1. TipInv' /\ due' = None /\ (Tooltip!Flush \in Waiting(microtasks') \/ UNCHANGED <<owner, microtasks>>)
    BY HideTip
<1>2. Tooltip!TooltipAssumption /\ Tooltip!TooltipTypeOK'
    BY <1>1, HostsTyped DEF TooltipInv, Tooltip!TooltipTypeOK
<1>3. DueIsHeld'
    BY <1>1 DEF DueIsHeld
<1>4. Effected'
    BY <1>1, EffectsWait DEF TooltipInv
<1>5. \A h \in Tips : text'[h] # ""
    BY DEF TooltipInv
<1> QED
    BY <1>1, <1>2, <1>3, <1>4, <1>5 DEF TooltipInv

\* A host is shown that is there and that something holds from now on.
LEMMA ShowTipStep ==
    ASSUME TooltipInv, NEW node \in mounted, activation < MaxActivations, Tooltip!ShowTooltip(node),
           UNCHANGED <<mounted, text, Tooltip!host>>,
           over' \in Tooltip!Hosts \cup {None}, focus' \in Tooltip!Hosts \cup {None},
           pinned' = pinned \/ (node \in Tips /\ pinned' = pinned \cup {node}),
           over' = node \/ focus' = node \/ node \in pinned',
           over = None \/ over' = over, focus = None \/ focus' = focus
    PROVE  TooltipInv'
<1>1. /\ node \in Tooltip!Hosts /\ node # None /\ None \notin Tooltip!Hosts
      /\ TipInv /\ DueIsHeld /\ Effected /\ Tooltip!TooltipTypeOK
    BY DEF TooltipInv, Tooltip!TooltipTypeOK, Tooltip!TooltipAssumption
<1>2. /\ TipInv'
      /\ \/ text[node] # "" /\ due' = node /\ Tooltip!Flush \in Waiting(microtasks')
         \/ /\ text[node] = "" /\ due' = None
            /\ Tooltip!Flush \in Waiting(microtasks') \/ UNCHANGED <<owner, microtasks>>
         \/ text[node] = "" /\ UNCHANGED <<owner, due, microtasks>>
    BY <1>1, ShowTip
<1>3. Tooltip!TooltipAssumption /\ Tooltip!TooltipTypeOK'
    BY <1>1, <1>2, HostsTyped DEF Tooltip!TooltipTypeOK
<1>4. text[node] = "" => pinned' = pinned
    BY DEF TooltipInv
<1>5. DueIsHeld'
    <2>1. CASE due' = node /\ text[node] # ""
        BY <2>1 DEF DueIsHeld
    <2>2. CASE due' = None
        BY <2>2 DEF DueIsHeld
    <2>3. CASE due' = due /\ due # None
        <3>1. due \in mounted /\ text[due] # "" /\ (over = due \/ focus = due \/ due \in pinned)
            BY <1>1, <2>3 DEF DueIsHeld
        <3>2. /\ over = due => over' = due
              /\ focus = due => focus' = due
              /\ due \in pinned => due \in pinned'
            BY <2>3
        <3>3. over' = due \/ focus' = due \/ due \in pinned'
            BY <3>1, <3>2
        <3> QED
            BY <2>3, <3>1, <3>3 DEF DueIsHeld
    <2> QED
        BY <1>2, <2>1, <2>2, <2>3
<1>6. Effected'
    BY <1>1, <1>2, <1>4, EffectsWait DEF Effected
<1>7. \A h \in Tips : text'[h] # ""
    BY DEF TooltipInv
<1> QED
    BY <1>2, <1>3, <1>5, <1>6, <1>7 DEF TooltipInv

\* A host is let go of.
LEMMA ReleaseStep ==
    ASSUME TooltipInv, NEW node \in Tooltip!Hosts, Tooltip!ReleaseTooltip(node), UNCHANGED <<text, Tooltip!host>>,
           mounted \ {node} \subseteq mounted', mounted' \subseteq mounted,
           pinned \ {node} \subseteq pinned', pinned' \subseteq pinned,
           over' = over \/ (over = node /\ over' = None),
           focus' = focus \/ (focus = node /\ focus' = None)
    PROVE  TooltipInv'
<1>1. /\ TipInv' /\ owner' = owner /\ due' = IF due = node THEN None ELSE due
      /\ Waiting(microtasks) \subseteq Waiting(microtasks')
    BY ReleaseTip
<1>2. Tooltip!TooltipAssumption /\ Tooltip!TooltipTypeOK'
    BY <1>1, HostsTyped DEF TooltipInv, Tooltip!TooltipTypeOK
<1>3. DueIsHeld'
    BY <1>1 DEF TooltipInv, DueIsHeld
<1>4. Effected'
    BY <1>1, EffectsWait DEF TooltipInv
<1>5. \A h \in Tips : text'[h] # ""
    BY DEF TooltipInv
<1> QED
    BY <1>1, <1>2, <1>3, <1>4, <1>5 DEF TooltipInv

LEMMA RestStep ==
    ASSUME TooltipInv, UNCHANGED <<Tooltip!tip, microtasks, mounted, Tooltip!host, pinned, focus>>,
           text' \in [Tooltip!Hosts -> {"", "text"}], \A h \in Tips : text'[h] = text[h],
           over' \in Tooltip!Hosts \cup {None},
           due # None => text'[due] # "" /\ (over' = due \/ focus = due \/ due \in pinned)
    PROVE  TooltipInv'
<1>1. UNCHANGED <<owner, activation, described, due, microtasks>>
    BY DEF Tooltip!tip
<1>2. TipInv'
    BY <1>1 DEF TooltipInv, TipInv, Withdrawal
<1>3. Tooltip!TooltipAssumption /\ Tooltip!TooltipTypeOK'
    BY <1>2, HostsTyped DEF TooltipInv, Tooltip!TooltipTypeOK
<1>4. DueIsHeld'
    BY <1>1 DEF TooltipInv, DueIsHeld
<1>5. Effected'
    BY <1>1, EffectsWait DEF TooltipInv
<1> QED
    BY <1>2, <1>3, <1>4, <1>5 DEF TooltipInv

LEMMA PointerStep ==
    ASSUME TooltipInv, Tooltip!PointerEnter \/ Tooltip!PointerLeave
    PROVE  TooltipInv'
<1>1. /\ Tooltip!TooltipTypeOK /\ mounted \subseteq Tooltip!Hosts /\ None \notin Tooltip!Hosts
      /\ over \in Tooltip!Hosts \cup {None} /\ focus \in Tooltip!Hosts \cup {None}
    BY DEF TooltipInv, Tooltip!TooltipTypeOK, Tooltip!TooltipAssumption
<1>2. CASE Tooltip!PointerEnter
    <2>1. PICK h \in mounted : over' = h /\ Tooltip!ShowTooltip(h)
        BY <1>2 DEF Tooltip!PointerEnter
    <2> QED
        BY <1>1, <1>2, <2>1, ShowTipStep DEF Tooltip!PointerEnter
<1>3. CASE Tooltip!PointerLeave /\ over \in pinned
    BY <1>1, <1>3, RestStep DEF Tooltip!PointerLeave, TooltipInv, Tooltip!TooltipTypeOK,
       DueIsHeld
<1>4. CASE Tooltip!PointerLeave /\ over \notin pinned
    <2>1. over \in Tooltip!Hosts /\ Tooltip!ReleaseTooltip(over) /\ UNCHANGED <<mounted,
                                                                                text,
                                                                                focus,
                                                                                pinned,
                                                                                Tooltip!host>>
          /\ over' = None
        BY <1>1, <1>4 DEF Tooltip!PointerLeave
    <2> QED
        BY <2>1, ReleaseStep
<1> QED
    BY <1>2, <1>3, <1>4

LEMMA FocusStep ==
    ASSUME TooltipInv, Tooltip!FocusIn \/ Tooltip!FocusOut
    PROVE  TooltipInv'
<1>1. /\ Tooltip!TooltipTypeOK /\ mounted \subseteq Tooltip!Hosts /\ None \notin Tooltip!Hosts
      /\ over \in Tooltip!Hosts \cup {None} /\ focus \in Tooltip!Hosts \cup {None}
    BY DEF TooltipInv, Tooltip!TooltipTypeOK, Tooltip!TooltipAssumption
<1>2. CASE Tooltip!FocusIn
    <2>1. PICK h \in mounted : focus' = h /\ Tooltip!ShowTooltip(h)
        BY <1>2 DEF Tooltip!FocusIn
    <2> QED
        BY <1>1, <1>2, <2>1, ShowTipStep DEF Tooltip!FocusIn
<1>3. CASE Tooltip!FocusOut
    <2>1. focus \in Tooltip!Hosts /\ Tooltip!ReleaseTooltip(focus) /\ UNCHANGED <<mounted, text, over, pinned, Tooltip!host>>
          /\ focus' = None
        BY <1>1, <1>3 DEF Tooltip!FocusOut
    <2> QED
        BY <2>1, ReleaseStep
<1> QED
    BY <1>2, <1>3

LEMMA ToggleStep ==
    ASSUME TooltipInv, Tooltip!Toggle
    PROVE  TooltipInv'
<1>1. UNCHANGED <<mounted, text, over, focus, Tooltip!host>>
    BY DEF Tooltip!Toggle, Tooltip!user
<1>2. Tooltip!TooltipTypeOK
    BY DEF TooltipInv
<1>3. PICK h \in mounted \cap Tips :
        IF h \in pinned THEN Tooltip!HideTooltip /\ UNCHANGED pinned
        ELSE /\ activation < MaxActivations
             /\ Tooltip!ShowTooltip(h) /\ pinned' = pinned \cup {h}
    BY Zenon DEF Tooltip!Toggle
<1>4. CASE h \in pinned
    BY <1>1, <1>2, <1>3, <1>4, HideTipStep DEF Tooltip!TooltipTypeOK
<1>5. CASE h \notin pinned
    BY <1>1, <1>2, <1>3, <1>5, ShowTipStep DEF Tooltip!TooltipTypeOK
<1> QED
    BY <1>4, <1>5

LEMMA DismissStep ==
    ASSUME TooltipInv, Tooltip!Dismiss
    PROVE  TooltipInv'
<1>1. Tooltip!HideTooltip /\ UNCHANGED <<mounted, text, over, focus, pinned, Tooltip!host>>
    BY DEF Tooltip!Dismiss, Tooltip!user
<1> QED
    BY <1>1, HideTipStep DEF TooltipInv, Tooltip!TooltipTypeOK

LEMMA UpdateStep ==
    ASSUME TooltipInv, Tooltip!Update
    PROVE  TooltipInv'
<1>1. PICK h \in mounted \cap Plain : \E value \in {"", "text"} :
         /\ value # text[h] /\ text' = [text EXCEPT ![h] = value]
         /\ IF owner = h /\ value = "" THEN Tooltip!HideTooltip ELSE UNCHANGED <<Tooltip!tip, microtasks>>
    BY Zenon DEF Tooltip!Update
<1>2. PICK value \in {"", "text"} :
         /\ value # text[h] /\ text' = [text EXCEPT ![h] = value]
         /\ IF owner = h /\ value = "" THEN Tooltip!HideTooltip ELSE UNCHANGED <<Tooltip!tip, microtasks>>
    BY <1>1
<1>3. UNCHANGED <<mounted, over, focus, pinned, Tooltip!host>>
    BY DEF Tooltip!Update
<1>4. /\ text \in [Tooltip!Hosts -> {"", "text"}] /\ h \in Tooltip!Hosts /\ h \notin Tips /\ None \notin Tooltip!Hosts
      /\ over \in Tooltip!Hosts \cup {None}
    BY DEF TooltipInv, Tooltip!TooltipTypeOK, Tooltip!TooltipAssumption
<1>5. text' \in [Tooltip!Hosts -> {"",
"text"}] /\ \A g \in Tooltip!Hosts \ {h} : text'[g] = text[g]
    BY <1>2, <1>4
<1>6. \A g \in Tips : text'[g] = text[g]
    BY <1>4, <1>5 DEF Tooltip!Hosts
<1>7. CASE owner = h /\ value = ""
    <2>1. Tooltip!HideTooltip
        BY <1>2, <1>7
    <2> QED
        BY <1>3, <1>5, <1>6, <2>1, HideTipStep
<1>8. CASE ~(owner = h /\ value = "")
    <2>1. UNCHANGED <<Tooltip!tip, microtasks>>
        BY <1>2, <1>8
    <2>2. due # None => text'[due] # "" /\ (over' = due \/ focus = due \/ due \in pinned)
        <3> SUFFICES ASSUME due # None
                     PROVE  text'[due] # "" /\ (over' = due \/ focus = due \/ due \in pinned)
            OBVIOUS
        <3>1. /\ due = owner /\ due \in Tooltip!Hosts /\ text[due] # ""
              /\ over = due \/ focus = due \/ due \in pinned
            BY <1>4 DEF TooltipInv, TipInv, DueIsHeld
        <3>2. CASE due = h
            BY <3>1, <3>2, <1>2, <1>3, <1>4, <1>8
        <3>3. CASE due # h
            BY <3>1, <3>3, <1>3, <1>5
        <3> QED
            BY <3>2, <3>3
    <2>3. over' \in Tooltip!Hosts \cup {None}
        BY <1>3, <1>4
    <2> QED
        BY <1>3, <1>5, <1>6, <2>1, <2>2, <2>3, RestStep
<1> QED
    BY <1>7, <1>8

LEMMA LanguageStep ==
    ASSUME TooltipInv, Tooltip!SwitchLanguage
    PROVE  TooltipInv'
<1>1. /\ microtasks = <<>> /\ owner \in Tips /\ activation < MaxActivations /\ Tooltip!ShowTooltip(owner)
      /\ UNCHANGED <<mounted, text, over, focus, pinned, Tooltip!host>>
    BY DEF Tooltip!SwitchLanguage, Tooltip!NewTask, Tooltip!user
<1>2. owner \in Tooltip!Hosts /\ owner # None
    BY <1>1 DEF Tooltip!Hosts, TooltipInv, Tooltip!TooltipAssumption
<1>3. due = owner
    BY <1>1, <1>2, NoneWaits DEF TooltipInv, TipInv
<1>4. owner \in mounted /\ (over = owner \/ focus = owner \/ owner \in pinned)
    BY <1>2, <1>3 DEF TooltipInv, DueIsHeld
<1> QED
    BY <1>1, <1>4, ShowTipStep DEF TooltipInv, Tooltip!TooltipTypeOK

LEMMA DestroyStep ==
    ASSUME TooltipInv, Tooltip!Destroy
    PROVE  TooltipInv'
<1>1. PICK h \in mounted :
         /\ mounted' = mounted \ {h} /\ pinned' = pinned \ {h}
         /\ over' = IF over = h THEN None ELSE over
         /\ focus' = IF focus = h THEN None ELSE focus
         /\ Tooltip!ReleaseTooltip(h)
    BY DEF Tooltip!Destroy
<1>2. UNCHANGED <<text, Tooltip!host>> /\ h \in Tooltip!Hosts
    BY DEF Tooltip!Destroy, TooltipInv, Tooltip!TooltipTypeOK
<1> QED
    BY <1>1, <1>2, ReleaseStep

\* The deferred hide applies only to the activation it takes back.
LEMMA DeferredStep ==
    ASSUME TooltipInv, Tooltip!DeferredHide
    PROVE  TooltipInv'
<1> DEFINE task == Head(microtasks)
           rest == Tail(microtasks)
           applies == owner = task.node /\ activation = task.token
<1>1. /\ microtasks # <<>> /\ task # Tooltip!Flush
      /\ owner' = IF applies THEN None ELSE owner
      /\ described' = IF applies THEN described \ {owner} ELSE described
      /\ microtasks' = IF applies THEN Tooltip!Flushed(rest) ELSE rest
      /\ UNCHANGED <<mounted, text, over, focus, activation, pinned, Tooltip!host, due>>
    BY DEF Tooltip!DeferredHide, Tooltip!user
<1>2. /\ Tooltip!TooltipAssumption /\ Tooltip!TooltipTypeOK /\ TipInv /\ DueIsHeld /\ Effected
      /\ microtasks \in Seq(MicroTasks)
    BY DEF TooltipInv, TipInv
<1>3. /\ task \in MicroTasks /\ rest \in Seq(MicroTasks)
      /\ Waiting(microtasks) = {task} \cup Waiting(rest)
    BY <1>1, <1>2, WaitingTail
<1>4. task.node \in Tooltip!Hosts /\ task = [node |-> task.node, token |-> task.token]
    BY <1>1, <1>3 DEF MicroTasks
<1> HIDE DEF task, rest
<1>5. CASE applies
    <2>1. task = Withdrawal /\ owner # None
        BY <1>2, <1>4, <1>5 DEF Withdrawal, Tooltip!TooltipAssumption
    <2>2. due = None
        BY <1>2, <1>3, <2>1 DEF TipInv
    <2>3. owner' = None /\ due' = None /\ activation' = activation /\ described' = {}
        BY <1>1, <1>2, <1>5, <2>2 DEF TipInv
    <2>4. /\ microtasks' \in Seq(MicroTasks)
          /\ Waiting(microtasks') = Waiting(rest) \cup {Tooltip!Flush}
        BY <1>1, <1>3, <1>5, WaitingFlushed
    <2>5. \A t \in Waiting(microtasks)' : t.token <= activation'
        BY <1>2, <1>3, <2>3, <2>4, FlushIsNoHide DEF TipInv
    <2>6. TipInv'
        BY <1>2, <2>3, <2>4, <2>5 DEF TipInv
    <2>7. Effected'
        BY <1>1, <1>2, <2>4, EffectsWait
    <2>8. DueIsHeld'
        BY <2>3 DEF DueIsHeld
    <2>9. Tooltip!TooltipTypeOK'
        BY <1>1, <1>2, <2>6, HostsTyped DEF Tooltip!TooltipTypeOK
    <2> QED
        BY <1>1, <1>2, <2>6, <2>7, <2>8, <2>9 DEF TooltipInv
<1>6. CASE ~applies
    <2>1. UNCHANGED <<owner, described, activation, due>> /\ microtasks' = rest
        BY <1>1, <1>6
    <2>2. owner # None => Withdrawal # task
        BY <1>6 DEF Withdrawal
    <2>3. \A t \in Waiting(microtasks)' : t.token <= activation'
        BY <1>2, <1>3, <2>1 DEF TipInv
    <2>4. owner # None => (Withdrawal' \in Waiting(microtasks)' <=> due' = None)
        BY <1>2, <1>3, <2>1, <2>2 DEF TipInv, Withdrawal
    <2>5. TipInv'
        BY <1>2, <1>3, <2>1, <2>3, <2>4 DEF TipInv
    <2>6. Effected'
        BY <1>1, <1>2, <1>3, <2>1 DEF Effected, Tooltip!host
    <2>7. DueIsHeld'
        BY <1>1, <1>2 DEF DueIsHeld
    <2>8. Tooltip!TooltipTypeOK'
        BY <1>1, <1>2, <2>5, HostsTyped DEF Tooltip!TooltipTypeOK
    <2> QED
        BY <1>1, <1>2, <2>5, <2>6, <2>7, <2>8 DEF TooltipInv
<1> QED
    BY <1>5, <1>6

\* The effects: they unpin, and open the popover or have a frame open it.
LEMMA EffectsStep ==
    ASSUME TooltipInv, Tooltip!RunEffects
    PROVE  TooltipInv'
<1> DEFINE rest == Tail(microtasks)
<1>1. /\ microtasks # <<>> /\ Head(microtasks) = Tooltip!Flush /\ microtasks' = rest
      /\ pinned' = pinned \cap {owner}
      /\ UNCHANGED <<mounted, text, over, focus, owner, activation, described, due>>
    BY DEF Tooltip!RunEffects, Tooltip!user, Tooltip!tip
<1>2. IF owner = None THEN popover' = "none" /\ frame' = None
      ELSE IF popover = "open" THEN UNCHANGED <<popover, frame>>
      ELSE \/ popover' = "open" /\ frame' = None
           \/ popover' = "waiting" /\ frame' = owner
    BY DEF Tooltip!RunEffects, Tooltip!host
<1>3. /\ Tooltip!TooltipAssumption /\ Tooltip!TooltipTypeOK /\ TipInv /\ DueIsHeld
      /\ microtasks \in Seq(MicroTasks)
    BY DEF TooltipInv, TipInv
<1>4. /\ rest \in Seq(MicroTasks)
      /\ Waiting(microtasks) = {Tooltip!Flush} \cup Waiting(rest)
    BY <1>1, <1>3, WaitingTail
<1> HIDE DEF rest
<1>5. owner # None => Withdrawal # Tooltip!Flush
    BY <1>3, FlushIsNoHide DEF Withdrawal
<1>6. TipInv'
    <2>1. owner # None => (Withdrawal' \in Waiting(microtasks)' <=> due' = None)
        BY <1>1, <1>3, <1>4, <1>5 DEF TipInv, Withdrawal
    <2>2. \A t \in Waiting(microtasks)' : t.token <= activation'
        BY <1>1, <1>3, <1>4 DEF TipInv
    <2> QED
        BY <1>1, <1>3, <1>4, <2>1, <2>2 DEF TipInv
<1>7. Effected'
    BY <1>1, <1>2, <1>3 DEF Effected, Tooltip!TooltipTypeOK
<1>8. DueIsHeld'
    BY <1>1, <1>3 DEF DueIsHeld, TipInv
<1>9. Tooltip!TooltipTypeOK'
    BY <1>1, <1>2, <1>3 DEF Tooltip!TooltipTypeOK
<1> QED
    BY <1>1, <1>3, <1>6, <1>7, <1>8, <1>9 DEF TooltipInv

LEMMA FrameStep ==
    ASSUME TooltipInv, Tooltip!AnimationFrame
    PROVE  TooltipInv'
<1>1. /\ microtasks = <<>> /\ popover = "waiting" /\ frame' = None
      /\ popover' = IF frame = owner THEN "open" ELSE popover
      /\ UNCHANGED <<mounted, text, over, focus, owner, activation, described, due, pinned,
                     microtasks>>
    BY DEF Tooltip!AnimationFrame, Tooltip!NewTask, Tooltip!user, Tooltip!tip
<1>2. Tooltip!TooltipTypeOK /\ TipInv /\ DueIsHeld /\ Effected /\ Tooltip!TooltipAssumption
    BY DEF TooltipInv
<1>3. Effected'
    BY <1>1, <1>2, NoneWaits DEF Effected
<1>4. TipInv' /\ DueIsHeld'
    BY <1>1, <1>2 DEF TipInv, DueIsHeld, Withdrawal
<1>5. Tooltip!TooltipTypeOK'
    BY <1>1, <1>2 DEF Tooltip!TooltipTypeOK
<1> QED
    BY <1>1, <1>2, <1>3, <1>4, <1>5 DEF TooltipInv

LEMMA TooltipStep ==
    ASSUME TooltipInv, Tooltip!Next
    PROVE  TooltipInv'
BY PointerStep, FocusStep, ToggleStep, DismissStep, UpdateStep, LanguageStep, DestroyStep,
   DeferredStep, EffectsStep, FrameStep DEF Tooltip!Next

LEMMA TooltipShows ==
    ASSUME TooltipInv
    PROVE  Tooltip!TooltipTypeOK /\ Tooltip!TooltipSettles
<1> SUFFICES ASSUME microtasks = <<>>
             PROVE  /\ owner = due
                    /\ described = {owner} \ {None}
                    /\ owner # None => /\ owner \in mounted /\ text[owner] # ""
                                       /\ over = owner \/ focus = owner \/ owner \in pinned
                    /\ pinned \subseteq {owner}
                    /\ popover = "none" <=> owner = None
                    /\ popover = "waiting" => frame = owner
    BY DEF Tooltip!TooltipSettles, TooltipInv
<1>1. owner = due /\ described = {owner} \ {None}
    BY NoneWaits DEF TooltipInv, TipInv
<1>2. /\ pinned \subseteq {owner}
      /\ popover = "waiting" => frame = owner
      /\ popover = "none" <=> owner = None
    BY NoneWaits DEF TooltipInv, Effected
<1> QED
    BY <1>1, <1>2 DEF TooltipInv, DueIsHeld

-----------------------------------------------------------------------------
(* The parts together.                                                     *)

LEMMA RouterRests ==
    ASSUME RouterInv, UNCHANGED allVars
    PROVE  RouterInv'
<1>1. UNCHANGED <<entries, pos, pending, route, acceptedIdx, expectedIdx, prompting, call,
                  dirty, writing, consent, moves, asks>>
    BY DEF allVars, shell
<1>2. Router!RouterTypeOK'
    BY <1>1 DEF RouterInv, Router!RouterTypeOK
<1>3. Router!UndoIsAimed'
    BY <1>1 DEF RouterInv, Router!UndoIsAimed, Router!StampsCount
<1>4. \A i \in DOMAIN entries' : entries'[i].stamp \in Int
    BY <1>1 DEF RouterInv
<1> QED
    BY <1>2, <1>3, <1>4 DEF RouterInv

LEMMA MovedRests ==
    ASSUME MovedInv, UNCHANGED allVars
    PROVE  MovedInv'
BY DEF allVars, shell, MovedInv, ServerInv, WritesInv, LoadsInv, PageInv, OrderlyInv,
   Orderly,
       Stands, Latest, Finished, Unknown, Got, Moved!MovedIsProven, Moved!Busy, Moved!Named,
       Moved!NoNotice

LEMMA TrendRests ==
    ASSUME TrendInv, UNCHANGED allVars
    PROVE  TrendInv'
<1>1. UNCHANGED <<now, setBack, setBacks, registry, taken, trend, kept>>
    BY DEF allVars, shell
<1>2. Spaced'
    BY <1>1 DEF TrendInv, Spaced
<1>3. TrendIsLast'
    <2>1. \A s \in DOMAIN trend.rings : RingIsRun(trend.rings[s], s)' = RingIsRun(trend.rings[s], s)
        BY <1>1 DEF RingIsRun, Before, Trend!Continues
    <2> QED
        BY <1>1, <2>1 DEF TrendInv, TrendIsLast
<1> QED
    BY <1>1, <1>2, <1>3 DEF TrendInv

LEMMA TooltipRests ==
    ASSUME TooltipInv, UNCHANGED allVars
    PROVE  TooltipInv'
<1>1. UNCHANGED <<mounted, text, over, focus, owner, due, activation, described, pinned,
                  microtasks, popover, frame>>
    BY DEF allVars, shell
<1>2. Tooltip!TooltipTypeOK' /\ DueIsHeld'
    BY <1>1 DEF TooltipInv, Tooltip!TooltipTypeOK, DueIsHeld
<1>3. TipInv'
    BY <1>1 DEF TooltipInv, TipInv, Waiting, Withdrawal
<1>4. Effected'
    BY <1>1 DEF TooltipInv, Effected, Waiting
<1> QED
    BY <1>1, <1>2, <1>3, <1>4 DEF TooltipInv

\* Each part keeps the invariant of its module.
ShellInv ==
    /\ PollerInv
    /\ part = "router" => RouterInv
    /\ part = "moved" => MovedInv
    /\ part = "trend" => TrendInv
    /\ part = "tooltip" => TooltipInv

LEMMA ShellStart ==
    ASSUME ShellInit
    PROVE  ShellInv
BY ShellAssumption, InitInv, RouterStart, MovedStart, TrendStart, TooltipStart
   DEF ShellAssumption, ShellInit, ShellInv

\* The poller makes its own steps, or none.
LEMMA PollerMoves ==
    ASSUME [ShellNext]_allVars
    PROVE  [Next]_vars
BY DEF ShellNext, allVars

LEMMA ShellStep ==
    ASSUME ShellInv, [ShellNext]_allVars
    PROVE  ShellInv'
<1>1. PollerInv'
    BY PollerMoves, NextInv DEF ShellInv
<1>2. CASE part = "poller" /\ UNCHANGED part
    BY <1>1, <1>2 DEF ShellInv
<1>3. CASE part = "router" /\ Router!Next /\ UNCHANGED <<part, vars, besideRouter>>
    BY <1>1, <1>3, RouterStep DEF ShellInv
<1>4. CASE part = "moved" /\ Moved!Next /\ UNCHANGED <<part, vars, besideMoved>>
    BY <1>1, <1>4, MovedStep DEF ShellInv
<1>5. CASE part = "trend" /\ Trend!Next /\ UNCHANGED <<part, vars, besideTrend>>
    BY <1>1, <1>5, TrendStep DEF ShellInv
<1>6. CASE part = "tooltip" /\ Tooltip!Next /\ UNCHANGED <<part, vars, besideTooltip>>
    BY <1>1, <1>6, TooltipStep DEF ShellInv
<1>7. CASE UNCHANGED allVars
    <2>1. UNCHANGED part
        BY <1>7 DEF allVars
    <2> QED
        BY <1>1, <1>7, <2>1, RouterRests, MovedRests, TrendRests, TooltipRests DEF ShellInv
<1> QED
    BY <1>2, <1>3, <1>4, <1>5, <1>6, <1>7 DEF ShellNext

\* The inductive invariant of all parts.
THEOREM ShellTheorem == ShellSpec => []ShellInv
<1>1. ShellInit => ShellInv
    BY ShellStart
<1>2. ShellInv /\ [ShellNext]_allVars => ShellInv'
    BY ShellStep
<1> QED
    BY <1>1, <1>2, PTL DEF ShellSpec

\* What holds of the poller by itself holds of it beside the other parts.
THEOREM ShellPollerTheorem == ShellSpec => Spec
<1>1. ShellInit => Init
    BY DEF ShellInit
<1>2. [ShellNext]_allVars => [Next]_vars
    BY PollerMoves
<1> QED
    BY <1>1, <1>2, PTL DEF ShellSpec, Spec

\* The router: an undo is aimed at the entry of the page shown from wherever the
\* browser is, and neither it nor Back or Forward rewrites an entry.
THEOREM UndoTheorem == ShellSpec => UndoIsTrue
<1>1. ShellInv => (part = "router" => Router!RouterTypeOK /\ Router!UndoIsAimed)
    BY DEF ShellInv, RouterInv
<1>2. ShellInv /\ [ShellNext]_allVars => [part = "router" => Router!EntryKept]_allVars
    <2> SUFFICES ASSUME ShellInv, ShellNext, part = "router"
                 PROVE  Router!EntryKept
        OBVIOUS
    <2> QED
        BY RouterStep DEF ShellInv, ShellNext
<1> QED
    BY <1>1, <1>2, ShellTheorem, PTL DEF ShellSpec, UndoIsTrue

\* The router: unsaved edits are left only in a step the user agreed to.
THEOREM NothingLostTheorem == ShellSpec => NothingLost
<1>1. ShellInv /\ [ShellNext]_allVars => [part = "router" => Router!AgreedToLeave]_allVars
    <2> SUFFICES ASSUME ShellInv, ShellNext, part = "router"
                 PROVE  Router!AgreedToLeave
        OBVIOUS
    <2> QED
        BY RouterStep DEF ShellInv, ShellNext
<1> QED
    BY <1>1, ShellTheorem, PTL DEF ShellSpec, NothingLost

\* The notice of a moved web UI: it links to an address the web UI has listened
\* on, and stays for as long as the listener is elsewhere.
THEOREM MovedTheorem == ShellSpec => MovedIsTrue
<1>1. ShellInv => (part = "moved" => Moved!MovedTypeOK /\ Moved!MovedIsTrue)
    BY MovedShows DEF ShellInv
<1>2. ShellInv /\ [ShellNext]_allVars => [part = "moved" => Moved!NoticeKept]_allVars
    <2> SUFFICES ASSUME ShellInv, ShellNext, part = "moved"
                 PROVE  Moved!NoticeKept
        OBVIOUS
    <2> QED
        BY MovedKeeps DEF ShellInv, ShellNext
<1> QED
    BY <1>1, <1>2, ShellTheorem, PTL DEF ShellSpec, MovedIsTrue

\* The charts: each is the unbroken past of its subject.
THEOREM ChartsTheorem == ShellSpec => []ChartsAreRuns
<1>1. ShellInv => ChartsAreRuns
    BY TrendShows DEF ShellInv, ChartsAreRuns
<1> QED
    BY <1>1, ShellTheorem, PTL

\* The tooltip ends where the last activation that was not taken back put it.
THEOREM TooltipTheorem == ShellSpec => []TooltipSettles
<1>1. ShellInv => TooltipSettles
    BY TooltipShows DEF ShellInv, TooltipSettles
<1> QED
    BY <1>1, ShellTheorem, PTL

-----------------------------------------------------------------------------
(* The poller by itself.                                                   *)

\* PollerInv is an invariant of the poller, and with it the types.
THEOREM PollerInvTheorem == Spec => []PollerInv
<1> QED
  BY InitInv, NextInv, PTL DEF Spec

\* Polling never ends while somebody looks at the page.
THEOREM PollingTheorem == Spec => []KeepsPolling
<1>1. PollerInv => KeepsPolling
  BY DEF PollerInv
<1> QED
  BY <1>1, PollerInvTheorem, PTL

\* What a refresh returns is no older than the refresh.
THEOREM RefreshTheorem == Spec => []RefreshIsFresh
<1>1. PollerInv => RefreshIsFresh
  <2> SUFFICES ASSUME PollerInv, NEW r \in Refreshes, refresh[r] = "value"
               PROVE  seen[joined[r]] >= asked[r]
    BY DEF RefreshIsFresh
  <2>1. Own(r)
    BY DEF PollerInv, Owned
  <2> QED
    BY <2>1 DEF Own
<1> QED
  BY <1>1, PollerInvTheorem, PTL

\* What is shown never becomes older, and an answer after the mark shows what
\* the write of the page made.
THEOREM AnswersTheorem == Spec => AnswersInOrder
<1>1. ASSUME PollerInv, [Next]_vars, shown' # shown
      PROVE  data' >= data /\ (answered' > mark => data' >= wrote)
  <2> USE <1>1
  <2>1. PICK n \in Loads : Succeed(n)
    BY DEF Next, vars, shown, Fire, Hide, Show, Subscribe, Unsubscribe, Respond, Fail,
       Settle,
           Reschedule, Refresh, Resume, Return, BeginWrite, Apply, EndWrite, Change
  <2>2. Current(n) /\ data' = seen[n] /\ answered' = n /\ phase[n] = "served"
    BY <2>1 DEF Succeed
  <2> QED
    BY <2>2, CurrentIsSeen
<1>2. PollerInv /\ [Next]_vars =>
         [ shown' # shown => /\ data' >= data
                             /\ answered' > mark => data' >= wrote ]_vars
  BY <1>1
<1> QED
  BY PollerInvTheorem, <1>2, PTL DEF Spec, AnswersInOrder

\* No answer that is shown or returned is older than it may be.
THEOREM AnswersAreFreshTheorem == Spec => AnswersAreFresh
BY RefreshTheorem, AnswersTheorem, PTL DEF AnswersAreFresh
=============================================================================
