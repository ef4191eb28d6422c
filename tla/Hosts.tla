-------------------------------- MODULE Hosts --------------------------------
(***************************************************************************)
(* The hosts page (hosts.ts, HostsPage): the statistics of the URLs of all *)
(* hops, put together by host and by endpoint, filtered and sorted.        *)
(*                                                                         *)
(* A URL is [host, label, user]: URLs that differ in the credentials alone *)
(* have one label.  A host or label is a number, in the order of the       *)
(* names.  The counters that are only added up are one, bytes; a rate is   *)
(* rounded by nothing here, so averages stay fractions.                    *)
(***************************************************************************)
EXTENDS Lists

CONSTANTS URLs, Stats,
          Uses,      \* <<rule, way, index>>: where a URL is used, in number order
          MaxEntries   \* a bound

\* What the constants are assumed to be.
HostsAssumption ==
    /\ URLs \subseteq [host : Nat, label : Nat, user : Nat]
    /\ Stats \subseteq [bytes : Nat, dials : Nat, failures : Nat, average : Nat,
                        last : Nat, latency : Nat]
    /\ Uses \subseteq Nat \X {1, 2} \X Nat /\ MaxEntries \in Nat

VARIABLES entries,   \* the URLs of the snapshot, in its order
          hosts,     \* what aggregateHosts makes of them
          sort,      \* [key, direction]
          query      \* a host or label that is searched, or 0

vars == <<entries, hosts, sort, query>>

Keys == {"traffic", "host", "latency"}

Init ==
    /\ entries = <<>> /\ hosts = <<>> /\ query = 0
    /\ sort = [key |-> "traffic", direction |-> "descending"]

-----------------------------------------------------------------------------
(* sumStats                                                                *)

\* The loop of sumStats adds one sample after the other.
Added(numbers) ==
    LET upTo[n \in 0..Len(numbers)] == IF n = 0 THEN 0 ELSE upTo[n - 1] + numbers[n]
    IN  upTo[Len(numbers)]

Total(samples, Of(_)) == Added(Mapped(samples, Of))

MaxZero(n) == IF n > 0 THEN n ELSE 0

\* Mutant: the average is not weighted, each URL counts alike.
WeightedByUrl(s) == s.average
\* Latencies count once for each successful dial.
Weighted(s) == MaxZero(s.dials - s.failures) * s.average

\* The last latency is that of the first sample with the newest activity; 0 is never.
Latest(samples) ==
    LET newest == {i \in DOMAIN samples : \A j \in DOMAIN samples :
                      samples[j].last <= samples[i].last}
    IN  samples[CHOOSE i \in newest : \A j \in newest : i <= j]

SumStats(samples) ==
    [bytes |-> Total(samples, LAMBDA s : s.bytes),
     dials |-> Total(samples, LAMBDA s : s.dials),
     failures |-> Total(samples, LAMBDA s : s.failures),
     weighted |-> Total(samples, Weighted),
     last |-> Latest(samples).last,
     latency |-> Latest(samples).latency]

-----------------------------------------------------------------------------
(* aggregateHosts                                                          *)

InEndpoint(e, host, label) == e.url.host = host /\ e.url.label = label

Endpoint(es, host, label) ==
    LET own == Filtered(es, LAMBDA e : InEndpoint(e, host, label))
    IN  [endpoint |-> label,
         urls |-> {own[i].url : i \in DOMAIN own},
         uses |-> Uniques(Mapped(own, LAMBDA e : <<e.rule, e.way, e.index>>)),
         samples |-> Mapped(own, LAMBDA e : e.stats),
         stats |-> SumStats(Mapped(own, LAMBDA e : e.stats))]

Host(es, host) ==
    LET own == Filtered(es, LAMBDA e : e.url.host = host)
        buckets == Mapped(Uniques(Mapped(own, LAMBDA e : e.url.label)),
                          LAMBDA label : Endpoint(es, host, label))
    IN  [host |-> host,
         rules |-> {own[i].rule : i \in DOMAIN own},
         stats |-> SumStats(FlattenSeq(Mapped(buckets, LAMBDA b : b.samples))),
         endpoints |-> StableSort(buckets, LAMBDA l, r : l.stats.bytes > r.stats.bytes)]

AggregateHosts(es) ==
    StableSort(Mapped(Uniques(Mapped(es, LAMBDA e : e.url.host)), LAMBDA h : Host(es, h)),
               LAMBDA l, r : \/ l.stats.bytes > r.stats.bytes
                             \/ l.stats.bytes = r.stats.bytes /\ l.host < r.host)

-----------------------------------------------------------------------------
(* filterHosts and sortHosts                                               *)

FilterHosts ==
    Filtered(hosts, LAMBDA h : \/ query = 0 \/ h.host = query
                                \/ \E i \in DOMAIN h.endpoints : h.endpoints[i].endpoint = query)

\* avg_latency_ms, as a fraction of its successful dials.
Successes(stats) == stats.dials - stats.failures
LatencyBelow(l, r) ==
    IF Successes(l) <= 0 THEN Successes(r) > 0 /\ r.weighted > 0
    ELSE IF Successes(r) <= 0 THEN FALSE
    ELSE l.weighted * Successes(r) < r.weighted * Successes(l)

Below(l, r) ==
    CASE sort.key = "traffic" -> l.stats.bytes < r.stats.bytes
      [] sort.key = "host" -> l.host < r.host
      [] sort.key = "latency" -> LatencyBelow(l.stats, r.stats)

SortHosts(listed) ==
    StableSort(listed, LAMBDA l, r : IF sort.direction = "ascending" THEN Below(l, r)
                                    ELSE Below(r, l))

Shown == SortHosts(FilterHosts)

-----------------------------------------------------------------------------
(* A snapshot is put together URL by URL; then the user works the controls.*)

\* The snapshot goes rule by rule, chain by chain and hop by hop.
Later(p, q) ==
    \/ p[1] < q[1]
    \/ p[1] = q[1] /\ (p[2] < q[2] \/ (p[2] = q[2] /\ p[3] <= q[3]))
PlaceOf(e) == <<e.rule, e.way, e.index>>

\* The counters of a hop are one for each URL.
Report ==
    /\ Len(entries) < MaxEntries
    /\ \E p \in Uses, u \in URLs, s \in Stats :
         /\ entries # <<>> => Later(PlaceOf(Last(entries)), p)
         /\ \A i \in DOMAIN entries : PlaceOf(entries[i]) = p => entries[i].url # u
         /\ entries' = Append(entries, [rule |-> p[1], way |-> p[2], index |-> p[3],
                                        url |-> u, stats |-> s])
    /\ hosts' = AggregateHosts(entries')
    /\ UNCHANGED <<sort, query>>

Search ==
    /\ \E q \in {0} \cup {u.host : u \in URLs} \cup {u.label : u \in URLs} :
         q # query /\ query' = q
    /\ UNCHANGED <<entries, hosts, sort>>

SortBy ==
    /\ \E k \in Keys : k # sort.key /\ sort' = [sort EXCEPT !.key = k]
    /\ UNCHANGED <<entries, hosts, query>>

FlipDirection ==
    /\ sort' = [sort EXCEPT !.direction = IF @ = "ascending" THEN "descending" ELSE "ascending"]
    /\ UNCHANGED <<entries, hosts, query>>

Next == Report \/ Search \/ SortBy \/ FlipDirection

Spec == Init /\ [][Next]_vars

-----------------------------------------------------------------------------
(* Properties.                                                             *)

\* Every variable keeps its type.
HostsTypeOK ==
    /\ \A i \in DOMAIN entries : entries[i].url \in URLs /\ entries[i].stats \in Stats
    /\ sort \in [key : Keys, direction : {"ascending", "descending"}]
    /\ query \in Nat /\ Len(hosts) <= Len(entries)

OfEntries(Of(_)) == Total(Mapped(entries, LAMBDA e : e.stats), Of)
OfHosts(Of(_)) == Total(Mapped(hosts, LAMBDA h : h.stats), Of)

\* A snapshot may hold a failure whose dial it has not, as counters are read one
\* by one; such an entry is not whole.
Whole(stats) == stats.failures <= stats.dials

\* The page accounts for the snapshot: every host and endpoint is there once, and
\* each URL counts once in each sum, however many rules and hops use it.  The
\* average latency of a host is one its URLs could have, and its last latency is
\* that of an endpoint last active.  Sorted either way, hosts that tie stay
\* by traffic and then by name.
HostsConserve ==
    /\ OfHosts(LAMBDA s : s.bytes) = OfEntries(LAMBDA s : s.bytes)
    /\ OfHosts(LAMBDA s : s.dials) = OfEntries(LAMBDA s : s.dials)
    /\ \A i, j \in DOMAIN hosts : hosts[i].host = hosts[j].host => i = j
    /\ \A i \in DOMAIN hosts :
         LET h == hosts[i]
             ends == Mapped(h.endpoints, LAMBDA e : e.stats)
         IN  /\ h.stats.bytes = Total(ends, LAMBDA s : s.bytes)
             /\ h.stats.weighted = Total(ends, LAMBDA s : s.weighted)
             /\ LET own == {e \in ToSet(entries) : e.url.host = h.host}
                    dialed == {e \in own : e.stats.dials > e.stats.failures}
                IN  (dialed # {} /\ \A e \in own : Whole(e.stats)) =>
                      \E low, high \in dialed :
                        /\ low.stats.average * Successes(h.stats) <= h.stats.weighted
                        /\ h.stats.weighted <= high.stats.average * Successes(h.stats)
             /\ \E k \in DOMAIN ends : /\ ends[k].last = h.stats.last
                                       /\ ends[k].latency = h.stats.latency
             /\ UNION {{use[1] : use \in ToSet(h.endpoints[k].uses)} : k \in DOMAIN ends} = h.rules
    /\ LET shown == Shown
       IN  \A i, j \in DOMAIN shown :
             (i < j /\ ~Below(shown[i], shown[j]) /\ ~Below(shown[j], shown[i])) =>
               \/ shown[i].stats.bytes > shown[j].stats.bytes
               \/ shown[i].stats.bytes = shown[j].stats.bytes /\ shown[i].host < shown[j].host
=============================================================================
