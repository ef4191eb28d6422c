------------------------------- MODULE Router -------------------------------
(***************************************************************************)
(* The hash router of the web UI (router.svelte.ts) over the session       *)
(* history of the browser, with a page that may hold unsaved edits, writes *)
(* that keep the page busy, and links that ask before they leave.          *)
(*                                                                         *)
(* A hash is the page it names; a hash that names none is in Garbage.  The *)
(* browser moves and delivers popstate in one task; a history.go() of the  *)
(* page is a later task, dropped when it leads out of the history.         *)
(***************************************************************************)
EXTENDS Integers, Sequences

CONSTANTS Pages, Home, Garbage, Calls, None,
          MaxEntries, MaxMoves, MaxPending,    \* bounds of the model
          MaxAsks                              \* questions, loads and remounts

\* What the constants are assumed to be.
RouterAssumption ==
    /\ Home \in Pages /\ Garbage \cap Pages = {} /\ None \notin Int \cup Pages \cup Garbage
    /\ MaxEntries \in Nat /\ MaxMoves \in Nat /\ MaxPending \in Nat /\ MaxAsks \in Nat

VARIABLES entries,      \* of the session history: the hash and its stamp
          pos,          \* the entry the browser is on
          pending,      \* the history.go() calls that have not run
          route, acceptedIdx, expectedIdx, prompting,
          call,         \* the navigate calls that wait for an answer
          dirty, busy,  \* of the page shown
          consent,      \* the user agreed to leave in this step
          moves, asks   \* of the bounds

history == <<entries, pos, pending>>
router == <<route, acceptedIdx, expectedIdx>>
vars == <<history, router, prompting, call, dirty, busy, consent, moves, asks>>

Entries == [hash : Pages \cup Garbage, stamp : Int \cup {None}]

\* routeFor
RouteFor(hash) == IF hash \in Pages THEN hash ELSE Home

Idle == [at |-> "idle", to |-> Home, replace |-> FALSE]

\* start, in a history of pages this document may have shown before.
Init ==
    /\ entries = <<[hash |-> Home, stamp |-> 0]>> /\ pos = 1 /\ pending = <<>>
    /\ route = Home /\ acceptedIdx = 0 /\ expectedIdx = None
    /\ prompting = FALSE
    /\ call = [c \in Calls |-> Idle]
    /\ dirty = FALSE /\ busy = FALSE /\ consent = FALSE
    /\ moves = 0 /\ asks = 0

-----------------------------------------------------------------------------
(* The helpers, over a list of entries and a position in it.               *)

\* sync: an entry without a stamp is a fresh push after the accepted one.
Sync(list, p) == IF list[p].stamp = None THEN acceptedIdx + 1 ELSE list[p].stamp

Canonicalise(list, p, idx, hash) ==
    entries' = [list EXCEPT ![p] = [hash |-> hash, stamp |-> idx]]

\* The page is another one: its component, and with it its guard, is new.
Show(page) ==
    /\ route' = page
    /\ dirty' = (dirty /\ page = route)

\* restore
Restore(list, p, idx, queue) ==
    IF idx = acceptedIdx
    THEN /\ Canonicalise(list, p, idx, route)
         /\ expectedIdx' = None
         /\ pending' = queue
    ELSE /\ entries' = [list EXCEPT ![p].stamp = idx]
         /\ expectedIdx' = acceptedIdx
         /\ pending' = Append(queue, acceptedIdx - idx)

\* Mutant: while a link asks, Back is not refused.
RefusedUnlessAsking(yes) == busy \/ (dirty /\ ~prompting /\ ~yes)
\* A move to another page is refused, where `yes` is the answer to a question.
Refused(yes) == busy \/ prompting \/ (dirty /\ ~yes)

\* onPopstate, after the browser moved to entry p; the user may be asked.
Popstate(list, p, queue) ==
    LET idx == Sync(list, p)
        to == RouteFor(list[p].hash)
        stays == expectedIdx = idx \/ to = route
        asked == ~busy /\ ~prompting /\ dirty
        Accept(page) ==
            /\ Show(page)
            /\ acceptedIdx' = idx /\ expectedIdx' = None /\ pending' = queue
            /\ Canonicalise(list, p, idx, page)
    IN  /\ pos' = p
        /\ \E yes \in BOOLEAN :
             /\ consent' = (~stays /\ asked /\ yes)
             /\ IF stays THEN Accept(route)
                ELSE IF Refused(yes)
                     THEN Restore(list, p, idx, queue) /\ UNCHANGED <<route, acceptedIdx, dirty>>
                     ELSE Accept(to)
        /\ UNCHANGED <<prompting, call, busy, asks>>

-----------------------------------------------------------------------------
(* What the browser and the user do.                                       *)

\* Back, Forward, or a longer move.
Traverse(delta) ==
    /\ moves < MaxMoves /\ moves' = moves + 1
    /\ Len(pending) < MaxPending
    /\ delta # 0 /\ pos + delta \in DOMAIN entries
    /\ Popstate(entries, pos + delta, pending)

\* The next history.go() of the page runs.
Land ==
    /\ pending # <<>>
    /\ IF pos + Head(pending) \in DOMAIN entries
       THEN Popstate(entries, pos + Head(pending), Tail(pending))
       ELSE /\ pending' = Tail(pending)
            /\ consent' = FALSE
            /\ UNCHANGED <<entries, pos, router, prompting, call, dirty, busy, asks>>
    /\ UNCHANGED moves

\* Another hash in the address bar.  One typed in the instant in which an
\* undo is under way would cut the accepted entry off; it is left out.
Type(hash) ==
    /\ moves < MaxMoves /\ moves' = moves + 1
    /\ pending = <<>> /\ pos < MaxEntries
    /\ hash # entries[pos].hash
    /\ Popstate(Append(SubSeq(entries, 1, pos), [hash |-> hash, stamp |-> None]),
                pos + 1, pending)

\* start: every entry the browser can be on then has its stamp.
Start ==
    /\ asks < MaxAsks /\ asks' = asks + 1
    /\ route' = RouteFor(entries[pos].hash)
    /\ acceptedIdx' = Sync(entries, pos) /\ expectedIdx' = None
    /\ Canonicalise(entries, pos, acceptedIdx', route')
    /\ prompting' = FALSE /\ dirty' = FALSE /\ consent' = TRUE
    /\ UNCHANGED <<pos, moves>>

\* The page is loaded again: what it knew is gone, the history stays.
Load ==
    /\ Start
    /\ pending' = <<>>
    /\ call' = [c \in Calls |-> Idle]
    /\ busy' = FALSE

\* The application is disposed of and started again in the same document.
Remount ==
    /\ Start
    /\ call' = [c \in Calls |->
                  IF call[c].at = "asking" THEN [call[c] EXCEPT !.at = "stale"] ELSE call[c]]
    /\ UNCHANGED <<pending, busy>>

\* The page gets unsaved edits, or they are saved; a write begins or ends.
Edit ==
    /\ \/ dirty' = ~dirty /\ UNCHANGED busy
       \/ busy' = ~busy /\ UNCHANGED dirty
    /\ consent' = FALSE
    /\ UNCHANGED <<history, router, prompting, call, moves, asks>>

-----------------------------------------------------------------------------
(* navigate                                                                *)

Push(hash) ==
    /\ pos' = pos + 1
    /\ entries' = Append(SubSeq(entries, 1, pos),
                         [hash |-> hash, stamp |-> Sync(entries, pos) + 1])
    /\ acceptedIdx' = Sync(entries, pos) + 1

Go(hash, replace) ==
    /\ IF replace
       THEN /\ Canonicalise(entries, pos, Sync(entries, pos), hash)
            /\ acceptedIdx' = Sync(entries, pos)
            /\ UNCHANGED pos
       ELSE pos < MaxEntries /\ Push(hash)
    /\ Show(hash)
    /\ UNCHANGED <<pending, expectedIdx>>

\* To the page shown, which may write the entry, or refused at once.
NavigateHere ==
    /\ expectedIdx = None
    /\ Canonicalise(entries, pos, Sync(entries, pos), route)
    /\ consent' = FALSE
    /\ UNCHANGED <<pos, pending, router, prompting, call, dirty, busy, moves, asks>>

\* Nothing forbids to leave but unsaved edits.
Free == ~busy /\ ~prompting /\ expectedIdx = None

Navigate(to, replace) ==
    /\ to # route /\ Free /\ ~dirty
    /\ Go(to, replace)
    /\ consent' = FALSE
    /\ UNCHANGED <<prompting, call, busy, moves, asks>>

Ask(c, to, replace) ==
    /\ asks < MaxAsks /\ asks' = asks + 1
    /\ call[c].at = "idle"
    /\ to # route /\ Free /\ dirty
    /\ prompting' = TRUE
    /\ call' = [call EXCEPT ![c] = [at |-> "asking", to |-> to, replace |-> replace]]
    /\ consent' = FALSE
    /\ UNCHANGED <<history, router, dirty, busy, moves>>

\* Mutant: the answer is not checked against what happened meanwhile.
MayGoUnchecked(c) == call[c].at = "asking"
\* The answer was yes: this lifecycle, no write, no undo under way.
MayGo(c) == call[c].at = "asking" /\ ~busy /\ expectedIdx = None

Answer(c, yes) ==
    /\ call[c].at # "idle"
    /\ call' = [call EXCEPT ![c] = Idle]
    /\ prompting' = (prompting /\ call[c].at = "stale")
    /\ consent' = yes
    /\ IF yes /\ MayGo(c)
       THEN Go(call[c].to, call[c].replace)
       ELSE UNCHANGED <<history, router, dirty>>
    /\ UNCHANGED <<busy, moves, asks>>

-----------------------------------------------------------------------------
Next ==
    \/ \E delta \in -MaxEntries..MaxEntries : Traverse(delta)
    \/ Land
    \/ \E hash \in Pages \cup Garbage : Type(hash)
    \/ Load \/ Remount \/ Edit
    \/ NavigateHere
    \/ \E to \in Pages, replace \in BOOLEAN : Navigate(to, replace)
    \/ \E c \in Calls, to \in Pages, replace \in BOOLEAN : Ask(c, to, replace)
    \/ \E c \in Calls, yes \in BOOLEAN : Answer(c, yes)

\* The browser gets to each history.go() it was asked for.
Spec == Init /\ [][Next]_vars /\ WF_vars(Land)

-----------------------------------------------------------------------------

\* Every variable holds a value of its type.
RouterTypeOK ==
    /\ entries \in Seq(Entries) /\ pos \in DOMAIN entries
    /\ pending \in Seq(Int)
    /\ route \in Pages /\ acceptedIdx \in Int /\ expectedIdx \in Int \cup {None}
    /\ prompting \in BOOLEAN
    /\ call \in [Calls -> [at : {"idle", "asking", "stale"}, to : Pages, replace : BOOLEAN]]
    /\ dirty \in BOOLEAN /\ busy \in BOOLEAN /\ consent \in BOOLEAN
    /\ moves \in Nat /\ asks \in Nat

\* The stamps count the entries, whatever was pushed, typed, cut off or loaded
\* again: the difference of two stamps is a distance in the history, which is
\* what restore gives to history.go().
StampsCount ==
    \A i, j \in DOMAIN entries : entries[i].stamp - entries[j].stamp = i - j

\* The entry of the page shown is in the history and shows that page.  When no
\* move is pending the browser is on it; while a refused move is being undone,
\* the last pending move is the one that leads back to it, from wherever the
\* browser went meanwhile.
UndoIsAimed ==
    /\ StampsCount
    /\ \E i \in DOMAIN entries : entries[i].stamp = acceptedIdx /\ entries[i].hash = route
    /\ expectedIdx = None => entries[pos].stamp = acceptedIdx
    /\ expectedIdx # None =>
         /\ expectedIdx = acceptedIdx /\ pending # <<>>
         /\ entries[pos].stamp + pending[Len(pending)] = acceptedIdx

\* Back, Forward and the undoing of either never rewrite what an entry shows.
EntryKept ==
    Land \/ (\E delta \in -MaxEntries..MaxEntries : Traverse(delta)) =>
        \A i \in DOMAIN entries : RouteFor(entries'[i].hash) = RouteFor(entries[i].hash)
EntriesKept == [][EntryKept]_vars

\* Unsaved edits are left only in a step in which the user agreed to it, and an
\* undo never leads to another page than the one with the edits.
AgreedToLeave == dirty /\ route' # route => consent'
NothingLost == [][AgreedToLeave]_vars

\* The comment of HISTORY_INDEX_KEY: a refused Back or Forward is undone.
RefusedIsUndone == expectedIdx # None ~> expectedIdx = None
=============================================================================
