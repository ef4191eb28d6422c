-------------------------------- MODULE Moved --------------------------------
(***************************************************************************)
(* The notice that the web UI has moved (moved.svelte.ts), with the writes *)
(* of the settings and YAML pages that may move it, the listener that they *)
(* move (webui.go) and the loads of status (polling.svelte.ts) from which  *)
(* the notice learns where the listener is.                                *)
(*                                                                         *)
(* An address is one a browser could use.  Of the addresses the page knows *)
(* its own, Here, and those that no link can name.  The candidate of a     *)
(* write is None when the server picks the port or the text says where.    *)
(***************************************************************************)
EXTENDS Integers

CONSTANTS Here, Elsewhere, Unnameable, None,
          MaxWrites, MaxLoads   \* bounds of the model

\* What the constants are assumed to be.
MovedAssumption ==
    /\ Here \notin Elsewhere /\ Unnameable \subseteq Elsewhere
    /\ None \notin Elsewhere \cup {Here}
    /\ MaxWrites \in Nat /\ MaxLoads \in Nat

Addresses == Elsewhere \cup {Here}
Writes == 1..MaxWrites
Loads == 1..MaxLoads

VARIABLES web,        \* the address of the listener, None when there is none
          draining,   \* the server that was here still answers
          been,       \* the addresses it listened on, for the properties
          write,      \* of each write: where it stands, what it asks and got
          load,       \* of each load of status: where it stands, what it got
          requested, answered, data,          \* of the poller
          due,        \* the effect of App on its data has not run
          notice, candidate, reloaded, mark   \* of moved

server == <<web, draining, been>>
poller == <<requested, answered, data, due, load>>
page == <<notice, candidate, reloaded, mark>>
vars == <<server, write, poller, page>>

NoNotice == [kind |-> "none", link |-> None]
NewWrite == [at |-> "new", asks |-> Here, names |-> TRUE, reply |-> "none", got |-> 0, orderly |-> TRUE,
             late |-> FALSE]

Init ==
    /\ web = Here /\ draining = FALSE /\ been = {Here}
    /\ write = [w \in Writes |-> NewWrite]
    /\ load = [n \in Loads |-> [at |-> "new", value |-> None]]
    /\ requested = 0 /\ answered = 0 /\ data = None /\ due = FALSE
    /\ notice = NoNotice /\ candidate = None /\ reloaded = TRUE /\ mark = 0

Busy == \E w \in Writes : write[w].at = "sent"
InFlight == \E n \in Loads : load[n].at \in {"sent", "served"}
Reachable == web = Here \/ draining

-----------------------------------------------------------------------------
(* What the page makes of an address (settings.ts, moved.svelte.ts:30-72). *)

\* linkFor and movedHref: null for this page's own address and for no address.
LinkFor(address) ==
    IF address \in {Here, None} \cup Unnameable THEN None ELSE address

Claim(address) ==
    IF address \in Unnameable THEN [kind |-> "unknown", link |-> None]
    ELSE IF address = Here THEN NoNotice ELSE [kind |-> "moved", link |-> address]

\* A status answer is the address of the listener, None when nothing runs.
FromStatus(current, link) ==
    IF current = None
    THEN [kind |-> "unconfirmed",
          link |-> IF LinkFor(candidate) # None THEN LinkFor(candidate) ELSE link]
    ELSE IF Claim(current) # NoNotice /\ candidate # None
         THEN Claim(candidate) ELSE Claim(current)

FromWrite ==
    IF ~reloaded THEN [kind |-> "unconfirmed", link |-> LinkFor(candidate)]
    ELSE IF candidate # None THEN Claim(candidate)
         ELSE [kind |-> "unknown", link |-> None]

-----------------------------------------------------------------------------
(* The writes: saveAddress, and save of the YAML page.                     *)

\* The write is over, and the page knows how the server took it.
Settled(w) == write[w].at \in {"new", "done"} /\ write[w].got # -1

\* Mutant: the mark is not taken.
BeginUnmarked == UNCHANGED mark
\* beginWrite
BeginWrite == mark' = requested

Send(w, address, names) ==
    /\ write[w].at = "new" /\ ~Busy
    /\ \A v \in Writes : v < w => write[v].at # "new"
    /\ BeginWrite
    /\ write' = [write EXCEPT ![w].at = "sent", ![w].asks = address, ![w].names = names,
                             ![w].orderly = notice = NoNotice
                                 /\ \A v \in Writes : Settled(v)]
    /\ UNCHANGED <<server, poller, notice, candidate, reloaded>>

\* The server has the write, which may be after the page gave it up: the old
\* listener is closed before the new one is opened, and its server drains.
Apply(w) ==
    /\ write[w].reply = "none"
    /\ write[w].at = "sent" \/ (write[w].at = "done" /\ write[w].got = -1)
    /\ \E reply \in {"rejected", "saved", "ok"} :
         /\ write' = [write EXCEPT ![w].reply = reply, ![w].late = write[w].at = "done"]
         /\ web' = CASE reply = "rejected" -> web
                     [] reply = "saved" -> None
                     [] reply = "ok" -> write[w].asks
         /\ reply = "saved" => write[w].asks # web
    /\ draining' = (draining \/ (web = Here /\ web' # Here))
    /\ been' = been \cup ({web'} \ {None})
    /\ UNCHANGED <<poller, page>>

Drained == draining /\ draining' = FALSE /\ UNCHANGED <<web, been, write, poller, page>>

Named(w) == IF write[w].names THEN write[w].asks ELSE None

\* The first part of afterWrite, up to the refresh; `got` is 0 until it has one.
Answered(w) ==
    /\ write[w].at = "sent" /\ write[w].reply \in {"ok", "saved"}
    /\ write' = [write EXCEPT ![w].at = "refresh"]
    /\ candidate' = Named(w)
    /\ reloaded' = (write[w].reply = "ok")
    /\ UNCHANGED <<server, poller, notice, mark>>

Rejected(w) ==
    /\ write[w].at = "sent" /\ write[w].reply = "rejected"
    /\ write' = [write EXCEPT ![w].at = "done"]
    /\ UNCHANGED <<server, poller, page>>

\* No answer: the YAML page only says so, the settings page is uncertain.
Uncertain(w) ==
    /\ write[w].at = "sent"
    /\ write' = [write EXCEPT ![w].at = "done", ![w].got = -1]
    /\ IF write[w].names
       THEN /\ candidate' = write[w].asks
            /\ notice' = IF LinkFor(write[w].asks) = None THEN NoNotice
                         ELSE [kind |-> "maybe", link |-> write[w].asks]
       ELSE UNCHANGED <<candidate, notice>>
    /\ UNCHANGED <<server, poller, reloaded, mark>>

-----------------------------------------------------------------------------
(* The loads of status, and what moved does with their answers.            *)

FetchOnce ==
    /\ requested < MaxLoads
    /\ requested' = requested + 1
    /\ load' = [load EXCEPT ![requested'].at = "sent"]
    /\ UNCHANGED <<answered, data, due>>

Poll == ~Busy /\ ~InFlight /\ FetchOnce /\ UNCHANGED <<server, write, page>>

Serve(n) ==
    /\ load[n].at = "sent" /\ Reachable
    /\ load' = [load EXCEPT ![n] = [at |-> "served", value |-> web]]
    /\ UNCHANGED <<server, write, requested, answered, data, due, page>>

Arrive(n) ==
    /\ load[n].at = "served"
    /\ load' = [load EXCEPT ![n].at = "arrived"]
    /\ answered' = n /\ data' = load[n].value /\ due' = TRUE
    /\ UNCHANGED <<server, write, requested, page>>

Fail(n) ==
    /\ load[n].at \in {"sent", "served"}
    /\ load' = [load EXCEPT ![n].at = "failed"]
    /\ UNCHANGED <<server, write, requested, answered, data, due, page>>

\* refresh of afterWrite: it waits for the load under way and begins one, or has
\* nothing, when the page is hidden, which aborts that load, or a write began.
Refresh(w) ==
    /\ write[w].at = "refresh"
    /\ \/ ~InFlight /\ ~Busy /\ FetchOnce
       \/ /\ load' = [n \in Loads |-> IF load[n].at \in {"sent", "served"}
                                      THEN [load[n] EXCEPT !.at = "failed"] ELSE load[n]]
          /\ UNCHANGED <<requested, answered, data, due>>
    /\ write' = [write EXCEPT ![w].at = "await",
                              ![w].got = IF requested' = requested THEN 0 ELSE requested']
    /\ UNCHANGED <<server, page>>

\* The rest of afterWrite.
Resume(w) ==
    LET n == write[w].got IN
    /\ write[w].at = "await"
    /\ n # 0 => load[n].at \in {"arrived", "failed"}
    /\ write' = [write EXCEPT ![w].at = "done"]
    /\ notice' = IF n # 0 /\ load[n].at = "arrived"
                 THEN FromStatus(load[n].value, None) ELSE FromWrite
    /\ UNCHANGED <<server, poller, candidate, reloaded, mark>>

\* An answer to a request that was on the wire when the last write began.
Stale == answered <= mark

\* reconcile, the effect of App on what the poller shows.
Reconcile ==
    /\ due /\ due' = FALSE
    /\ notice' = IF \/ notice = NoNotice \/ Stale
                    \/ notice.kind = "maybe" /\ data = None
                 THEN notice ELSE FromStatus(data, notice.link)
    /\ UNCHANGED <<server, write, requested, answered, data, load, candidate, reloaded, mark>>

Next ==
    \/ \E w \in Writes, a \in Addresses, names \in BOOLEAN : Send(w, a, names)
    \/ \E w \in Writes : \/ Apply(w) \/ Answered(w) \/ Rejected(w) \/ Uncertain(w)
                         \/ Refresh(w) \/ Resume(w)
    \/ Drained \/ Poll \/ Reconcile
    \/ \E n \in Loads : Serve(n) \/ Arrive(n) \/ Fail(n)

Spec == Init /\ [][Next]_vars

-----------------------------------------------------------------------------

\* Every variable keeps its type.
MovedTypeOK ==
    /\ web \in Elsewhere \cup {Here, None} /\ been \subseteq Elsewhere \cup {Here}
    /\ draining \in BOOLEAN /\ due \in BOOLEAN /\ reloaded \in BOOLEAN
    /\ requested \in 0..MaxLoads /\ answered \in 0..MaxLoads /\ mark \in 0..MaxLoads
    /\ candidate \in Elsewhere \cup {Here, None} /\ data \in Elsewhere \cup {Here, None}
    /\ notice \in [kind : {"none", "moved", "maybe", "unknown", "unconfirmed"},
                   link : Elsewhere \cup {None}]

\* A notice that the web UI has moved links to an address it has listened on,
\* although answers of status and of the writes come late, or never
\* (moved.svelte.ts:15: 'moved' is proven or implied by an applied write).
MovedIsProven == notice.kind = "moved" => notice.link \in been

\* It does if no write began before the page knew what became of the last, nor
\* after a notice that asks to reopen it.
MovedIsTrue == (\A w \in Writes : write[w].orderly) => MovedIsProven

\* Between writes, a notice stays for as long as the listener is not at the
\* address of this page, also the one of a write that got no answer: what was
\* there before the write does not take it down (moved.svelte.ts:84-88, 108-111).
\* A write that is applied after the page gave it up is beyond that.
Quiet == \A w \in Writes : /\ write[w].orderly /\ ~write[w].late
                           /\ write[w].at \in {"new", "done"}
NoticeKept ==
    notice # NoNotice /\ web # Here /\ web' = web /\ Quiet => notice' # NoNotice
NoticeStays == [][NoticeKept]_vars
=============================================================================
