-------------------------------- MODULE Trend --------------------------------
(***************************************************************************)
(* The rate charts of the web UI (trend.ts, trend.svelte.ts, sparkline.ts):*)
(* a ring of samples for the total, each rule, each host, each endpoint of *)
(* a host and each connection, fed by the snapshots the stats poller takes.*)
(*                                                                         *)
(* A sample stands for the rates of its subject in one snapshot and is     *)
(* written as the number of that snapshot.  Endpoints are those of one     *)
(* host.  Snapshots arrive in order: Poller!AnswersInOrder.                *)
(***************************************************************************)
EXTENDS Integers, Sequences, FiniteSets, SequencesExt

CONSTANTS Rules, Endpoints, Connections,
          Slots,          \* TREND_SAMPLES
          Gap, MinStep,   \* TREND_GAP_MS, TREND_MIN_STEP_MS
          Delays,         \* the times that may pass between two snapshots
          MaxSnapshots, MaxResets, MaxSetBacks   \* bounds

\* What the constants are assumed to be.
TrendAssumption ==
    /\ Slots \in Nat \ {0} /\ MinStep \in Nat /\ Gap \in Nat /\ MinStep <= Gap
    /\ Delays \subseteq Nat
    /\ MaxSnapshots \in Nat /\ MaxResets \in Nat /\ MaxSetBacks \in Nat

VARIABLES now,      \* the time
          setBack,  \* how far the clock was set back
          setBacks,
          since,    \* of the registry
          taken,    \* snapshots so far
          trend,    \* [since, lastAt, rings], or Empty
          kept      \* the snapshots that were recorded, for the properties

vars == <<now, setBack, setBacks, since, taken, trend, kept>>

\* EMPTY_TREND
Empty == [since |-> 0, lastAt |-> 0, rings |-> <<>>]

Init ==
    /\ now = 0 /\ setBack = 0 /\ setBacks = 0
    /\ since = 1 /\ taken = 0 /\ trend = Empty /\ kept = <<>>

-----------------------------------------------------------------------------
(* recordTrend                                                             *)

\* The subjects of a snapshot.  A host is there with any of its endpoints.
Subjects(rules, endpoints, connections) ==
    {"total"} \cup rules \cup endpoints \cup connections
        \cup (IF endpoints = {} THEN {} ELSE {"host"})

\* append
Appended(samples, sample) ==
    LET all == Append(samples, sample)
    IN  SubSeq(all, Len(all) - (IF Len(all) > Slots THEN Slots ELSE Len(all)) + 1, Len(all))

\* Mutant: a subject that was away takes up its old ring.
RingsKept(previous, subjects, sample) ==
    [s \in subjects \cup DOMAIN previous |->
        IF s \notin subjects THEN previous[s]
        ELSE Appended(IF s \in DOMAIN previous THEN previous[s] ELSE <<>>, sample)]
\* The rings are copied for the subjects of the snapshot, and for no other.
Rings(previous, subjects, sample) ==
    [s \in subjects |->
        Appended(IF s \in DOMAIN previous THEN previous[s] ELSE <<>>, sample)]

Restarts(clock) ==
    \/ trend = Empty \/ since # trend.since
    \/ clock - trend.lastAt > Gap

Record(delay, subjects) ==
    LET clock == now + delay - setBack
        restart == Restarts(clock)
        skip == ~restart /\ clock - trend.lastAt < MinStep
        sample == taken + 1
    IN  /\ taken < MaxSnapshots
        /\ taken' = sample /\ now' = now + delay
        /\ IF skip THEN UNCHANGED <<trend, kept>>
           ELSE /\ trend' = [since |-> since, lastAt |-> clock,
                             rings |-> Rings(IF restart THEN <<>> ELSE trend.rings,
                                             subjects, sample)]
                /\ kept' = Append(kept, [sample |-> sample, clock |-> clock, at |-> now + delay,
                                         since |-> since, subjects |-> subjects])
        /\ UNCHANGED <<setBack, setBacks, since>>

\* stats.svelte.ts: onData.  Connections and endpoints come with a rule.
OnData ==
    \E delay \in Delays, rules \in SUBSET Rules :
    \E endpoints \in SUBSET Endpoints, connections \in SUBSET Connections :
        /\ rules = {} => endpoints = {} /\ connections = {}
        /\ Record(delay, Subjects(rules, endpoints, connections))

\* The statistics are reset, or the program starts again.
Reset ==
    /\ since <= MaxResets /\ taken < MaxSnapshots
    /\ since' = since + 1
    /\ UNCHANGED <<now, setBack, setBacks, taken, trend, kept>>

\* Date.now() is the wall clock.
SetClockBack ==
    /\ setBacks < MaxSetBacks /\ taken < MaxSnapshots
    /\ setBacks' = setBacks + 1 /\ setBack' = setBack + Gap
    /\ UNCHANGED <<now, since, taken, trend, kept>>

Next == OnData \/ Reset \/ SetClockBack

Spec == Init /\ [][Next]_vars

-----------------------------------------------------------------------------
(* sparklinePoints                                                         *)

\* The column of a sample: columns 0..Slots-1, the newest at the right.
Column(samples, i) == Slots - 1 - (Len(samples) - i)

\* Nothing is drawn before the second sample.
Points(samples) ==
    IF Len(samples) < 2 THEN {}
    ELSE {<<Column(samples, i), samples[i]>> : i \in DOMAIN samples}

\* Endpoints are alike, for TLC.
EndpointSymmetry == Permutations(Endpoints)

-----------------------------------------------------------------------------
(* Properties.                                                             *)

\* Every variable keeps its type.
TrendTypeOK ==
    /\ now \in Nat /\ setBack \in Nat /\ setBacks \in Nat /\ since \in Nat /\ taken \in Nat
    /\ trend.since \in Nat /\ trend.lastAt \in Int
    /\ \A s \in DOMAIN trend.rings : trend.rings[s] \in Seq(1..MaxSnapshots)

\* The first of the recorded snapshots that a chart of s may still show: none of
\* those after it lacks s, is of another registry, or comes after a silence.
Continues(i, s) ==
    \A j \in i..Len(kept) :
        /\ s \in kept[j].subjects
        /\ j > i => /\ kept[j].since = kept[j - 1].since
                    /\ kept[j].clock - kept[j - 1].clock <= Gap

\* The snapshots that a chart of s shows, and its points.
Run(s) == {i \in DOMAIN kept : i > Len(kept) - Slots /\ Continues(i, s)}
Drawn(s) ==
    IF Cardinality(Run(s)) < 2 THEN {}
    ELSE {<<Slots - 1 - (Len(kept) - i), kept[i].sample>> : i \in Run(s)}

\* A chart is the unbroken past of its subject: its ring holds every recorded
\* snapshot back to the last break, as many as fit and each once, a step apart, and
\* none of before a reset, a silence or an absence.  Charts can be compared: a
\* sample is drawn in the column of its snapshot, however short the ring is.
ChartsAreRuns ==
    kept # <<>> =>
        /\ DOMAIN trend.rings = Last(kept).subjects
        /\ \A s \in DOMAIN trend.rings :
             /\ ToSet(trend.rings[s]) = {kept[i].sample : i \in Run(s)}
             /\ Len(trend.rings[s]) = Cardinality(Run(s))
             /\ \A i \in Run(s) : i - 1 \in Run(s) => kept[i].clock - kept[i - 1].clock >= MinStep
             /\ Points(trend.rings[s]) = Drawn(s)

\* "A refresh right after a tick is not a new sample.": no other snapshot goes
\* unrecorded.
OnlyEarlyIsSkipped ==
    [][taken' # taken /\ kept' = kept => now' - Last(kept).at < MinStep]_vars
=============================================================================
