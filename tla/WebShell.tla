------------------------------ MODULE WebShell ------------------------------
(***************************************************************************)
(* What every page of the web UI stands on, in one specification: the      *)
(* poller (EXTENDed), the router, the notice of a moved web UI, the charts *)
(* and the tooltip.  The parts do not interact: `part` says which one a    *)
(* behaviour is about, the poller is at its start in the others, and the   *)
(* variables that only other parts have are Unused.                        *)
(***************************************************************************)
EXTENDS Poller, Sequences

CONSTANTS None, Unused,
          Pages, Home, Garbage, Calls, MaxMoves, MaxPending, MaxAsks,  \* of Router
          MaxEntries,                                                  \* of its history
          Here, Elsewhere, Unnameable, MaxWrites, MaxStatusLoads,      \* of Moved
          Rules, Endpoints, Connections, Slots, Gap, MinStep, Delays,  \* of Trend
          MaxSnapshots, MaxResets, MaxSetBacks,
          Plain, Tips, MaxActivations, MaxTasks                        \* of Tooltip

VARIABLES part,
          entries, pos, pending, route, acceptedIdx, expectedIdx, prompting, call,
          dirty, writing, consent, moves, asks, web, draining, been, write, load,
          sent, heard, status, due, notice, candidate, reloaded, before, now,
          setBack, setBacks, registry, taken, trend, kept, mounted, text, over,
          focus, owner, activation, described, pinned, microtasks, popover, frame

Router == INSTANCE Router WITH busy <- writing
Moved == INSTANCE Moved WITH
             MaxLoads <- MaxStatusLoads, requested <- sent, answered <- heard,
             data <- status, mark <- before
Trend == INSTANCE Trend WITH since <- registry
Tooltip == INSTANCE Tooltip

ASSUME ShellAssumption ==
    /\ Router!RouterAssumption /\ Moved!MovedAssumption
    /\ Trend!TrendAssumption /\ Tooltip!TooltipAssumption

shell == <<entries, pos, pending, route, acceptedIdx, expectedIdx, prompting, call,
           dirty, writing, consent, moves, asks, web, draining, been, write, load,
           sent, heard, status, due, notice, candidate, reloaded, before, now,
           setBack, setBacks, registry, taken, trend, kept, mounted, text, over,
           focus, owner, activation, described, pinned, microtasks, popover, frame>>

allVars == <<part, vars, shell>>

-----------------------------------------------------------------------------
(* The variables that a part does not have.                                *)

besideRouter == <<web, draining, been, write, load, sent, heard, status, due,
                  notice, candidate, reloaded, before, now, setBack, setBacks,
                  registry, taken, trend, kept, mounted, text, over, focus, owner,
                  activation, described, pinned, microtasks, popover, frame>>
besideMoved == <<entries, pos, pending, route, acceptedIdx, expectedIdx, prompting,
                 call, dirty, writing, consent, moves, asks, now, setBack, setBacks,
                 registry, taken, trend, kept, mounted, text, over, focus, owner,
                 activation, described, pinned, microtasks, popover, frame>>
besideTrend == <<entries, pos, pending, route, acceptedIdx, expectedIdx, prompting,
                 call, dirty, writing, consent, moves, asks, web, draining, been,
                 write, load, sent, heard, status, due, notice, candidate, reloaded,
                 before, mounted, text, over, focus, owner, activation, described,
                 pinned, microtasks, popover, frame>>
besideTooltip == <<entries, pos, pending, route, acceptedIdx, expectedIdx,
                   prompting, call, dirty, writing, consent, moves, asks, web,
                   draining, been, write, load, sent, heard, status, notice,
                   candidate, reloaded, before, now, setBack, setBacks, registry,
                   taken, trend, kept>>

ShellInit ==
    /\ Init
    /\ \/ /\ part = "poller"
          /\ entries = Unused /\ pos = Unused /\ pending = Unused /\ route = Unused /\
             acceptedIdx = Unused /\ expectedIdx = Unused /\ prompting = Unused /\ call =
             Unused /\ dirty = Unused /\ writing = Unused /\ consent = Unused /\ moves =
             Unused /\ asks = Unused /\ web = Unused /\ draining = Unused /\ been = Unused
             /\ write = Unused /\ load = Unused /\ sent = Unused /\ heard = Unused /\ status
             = Unused /\ due = Unused /\ notice = Unused /\ candidate = Unused /\ reloaded =
             Unused /\ before = Unused /\ now = Unused /\ setBack = Unused /\ setBacks =
             Unused /\ registry = Unused /\ taken = Unused /\ trend = Unused /\ kept =
             Unused /\ mounted = Unused /\ text = Unused /\ over = Unused /\ focus = Unused
             /\ owner = Unused /\ activation = Unused /\ described = Unused /\ pinned =
             Unused /\ microtasks = Unused /\ popover = Unused /\ frame = Unused
       \/ /\ part = "router" /\ visible /\ Router!Init
          /\ web = Unused /\ draining = Unused /\ been = Unused /\ write = Unused /\ load =
             Unused /\ sent = Unused /\ heard = Unused /\ status = Unused /\ due = Unused /\
             notice = Unused /\ candidate = Unused /\ reloaded = Unused /\ before = Unused
             /\ now = Unused /\ setBack = Unused /\ setBacks = Unused /\ registry = Unused
             /\ taken = Unused /\ trend = Unused /\ kept = Unused /\ mounted = Unused /\
             text = Unused /\ over = Unused /\ focus = Unused /\ owner = Unused /\
             activation = Unused /\ described = Unused /\ pinned = Unused /\ microtasks =
             Unused /\ popover = Unused /\ frame = Unused
       \/ /\ part = "moved" /\ visible /\ Moved!Init
          /\ entries = Unused /\ pos = Unused /\ pending = Unused /\ route = Unused /\
             acceptedIdx = Unused /\ expectedIdx = Unused /\ prompting = Unused /\ call =
             Unused /\ dirty = Unused /\ writing = Unused /\ consent = Unused /\ moves =
             Unused /\ asks = Unused /\ now = Unused /\ setBack = Unused /\ setBacks =
             Unused /\ registry = Unused /\ taken = Unused /\ trend = Unused /\ kept =
             Unused /\ mounted = Unused /\ text = Unused /\ over = Unused /\ focus = Unused
             /\ owner = Unused /\ activation = Unused /\ described = Unused /\ pinned =
             Unused /\ microtasks = Unused /\ popover = Unused /\ frame = Unused
       \/ /\ part = "trend" /\ visible /\ Trend!Init
          /\ entries = Unused /\ pos = Unused /\ pending = Unused /\ route = Unused /\
             acceptedIdx = Unused /\ expectedIdx = Unused /\ prompting = Unused /\ call =
             Unused /\ dirty = Unused /\ writing = Unused /\ consent = Unused /\ moves =
             Unused /\ asks = Unused /\ web = Unused /\ draining = Unused /\ been = Unused
             /\ write = Unused /\ load = Unused /\ sent = Unused /\ heard = Unused /\ status
             = Unused /\ due = Unused /\ notice = Unused /\ candidate = Unused /\ reloaded =
             Unused /\ before = Unused /\ mounted = Unused /\ text = Unused /\ over = Unused
             /\ focus = Unused /\ owner = Unused /\ activation = Unused /\ described =
             Unused /\ pinned = Unused /\ microtasks = Unused /\ popover = Unused /\ frame =
             Unused
       \/ /\ part = "tooltip" /\ visible /\ Tooltip!Init
          /\ entries = Unused /\ pos = Unused /\ pending = Unused /\ route = Unused /\
             acceptedIdx = Unused /\ expectedIdx = Unused /\ prompting = Unused /\ call =
             Unused /\ dirty = Unused /\ writing = Unused /\ consent = Unused /\ moves =
             Unused /\ asks = Unused /\ web = Unused /\ draining = Unused /\ been = Unused
             /\ write = Unused /\ load = Unused /\ sent = Unused /\ heard = Unused /\ status
             = Unused /\ notice = Unused /\ candidate = Unused /\ reloaded = Unused /\
             before = Unused /\ now = Unused /\ setBack = Unused /\ setBacks = Unused /\
             registry = Unused /\ taken = Unused /\ trend = Unused /\ kept = Unused

ShellNext ==
    \/ part = "poller" /\ Next /\ UNCHANGED <<part, shell>>
    \/ part = "router" /\ Router!Next /\ UNCHANGED <<part, vars, besideRouter>>
    \/ part = "moved" /\ Moved!Next /\ UNCHANGED <<part, vars, besideMoved>>
    \/ part = "trend" /\ Trend!Next /\ UNCHANGED <<part, vars, besideTrend>>
    \/ part = "tooltip" /\ Tooltip!Next /\ UNCHANGED <<part, vars, besideTooltip>>

ShellSpec == ShellInit /\ [][ShellNext]_allVars

-----------------------------------------------------------------------------
(* Properties of the parts but the poller, each of one part.               *)

\* Router: an undo is aimed at the entry of the page shown from wherever the
\* browser is, and neither it nor Back or Forward rewrites an entry.
UndoIsTrue ==
    /\ [](part = "router" => Router!RouterTypeOK /\ Router!UndoIsAimed)
    /\ [][part = "router" => Router!EntryKept]_allVars

\* Router: unsaved edits are left only in a step the user agreed to.
NothingLost == [][part = "router" => Router!AgreedToLeave]_allVars

\* Moved: a notice that the web UI moved is true, and stays while it is.
MovedIsTrue ==
    /\ [](part = "moved" => Moved!MovedTypeOK /\ Moved!MovedIsTrue)
    /\ [][part = "moved" => Moved!NoticeKept]_allVars

\* Trend: a chart is the unbroken past of its subject.
ChartsAreRuns == part = "trend" => Trend!TrendTypeOK /\ Trend!ChartsAreRuns

\* Tooltip: it ends where the last activation that was not taken back put it.
TooltipSettles == part = "tooltip" => Tooltip!TooltipTypeOK /\ Tooltip!TooltipSettles
=============================================================================
