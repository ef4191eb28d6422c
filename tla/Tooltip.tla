------------------------------- MODULE Tooltip -------------------------------
(***************************************************************************)
(* The one tooltip of the page (tooltip.svelte.ts), shared by the hosts of *)
(* the tooltip action and by the help tips, which a click pins (HelpTip),  *)
(* and drawn by TooltipHost as a popover.                                  *)
(*                                                                         *)
(* A hide is deferred by a microtask.  The microtasks of a task run in     *)
(* order before the next task, which a user's event is; focus moved by the *)
(* page and hosts that go away are steps of any task.                      *)
(***************************************************************************)
EXTENDS Integers, Sequences, SequencesExt

CONSTANTS Plain, Tips,        \* hosts of the action, and help tips
          None,
          MaxActivations, MaxTasks   \* bounds

Hosts == Plain \cup Tips

\* What the constants are assumed to be.
TooltipAssumption ==
    /\ Plain \cap Tips = {} /\ None \notin Hosts
    /\ MaxActivations \in Nat /\ MaxTasks \in Nat

VARIABLES mounted, text,      \* hosts, and the value of each
          over, focus,        \* the host under the pointer, the host with the focus
          owner, activation,
          described,          \* hosts whose aria-describedby names the tooltip
          pinned,             \* help tips
          microtasks,         \* [node, token] of a deferred hide, or a flush of effects
          popover, frame,     \* "none", "waiting", "open", and the owner of a frame
          due                 \* the host the tooltip is due to, for the properties

vars == <<mounted, text, over, focus, owner, activation, described, pinned,
          microtasks, popover, frame, due>>
tip == <<owner, activation, described, due>>
host == <<popover, frame>>
user == <<mounted, text, over, focus>>

Flush == [node |-> None, token |-> 0]

Init ==
    /\ mounted = Hosts /\ text = [h \in Hosts |-> "text"]
    /\ over = None /\ focus = None /\ owner = None /\ activation = 0 /\ described = {}
    /\ pinned = {} /\ microtasks = <<>> /\ popover = "none" /\ frame = None /\ due = None

\* The next task begins when the microtasks are done.
NewTask == microtasks = <<>>

-----------------------------------------------------------------------------
(* tooltip.svelte.ts.  Effects that read the owner run with the next flush.*)

Flushed(tasks) == IF Contains(tasks, Flush) THEN tasks ELSE Append(tasks, Flush)

HideTooltip ==
    /\ owner' = None /\ described' = described \ {owner} /\ due' = None
    /\ UNCHANGED activation
    /\ microtasks' = IF owner = None THEN microtasks ELSE Flushed(microtasks)

\* show
Show(node, value) ==
    IF value = "" THEN
        IF owner = node THEN HideTooltip ELSE UNCHANGED <<tip, microtasks>>
    ELSE /\ owner' = node
         /\ described' = (described \ {owner}) \cup {node}
         /\ due' = node
         /\ microtasks' = Flushed(microtasks)

\* Mutant: showing the owner again is no activation.
ActivatedByOthers(node, value) == value # "" /\ owner # node
\* A blank value is no activation.
Activated(node, value) == value # ""

ShowTooltip(node) ==
    /\ Show(node, text[node])
    /\ IF Activated(node, text[node]) THEN activation' = activation + 1 ELSE UNCHANGED activation

ReleaseTooltip(node) ==
    /\ microtasks' = IF owner # node THEN microtasks
                     ELSE Append(microtasks, [node |-> node, token |-> activation])
    /\ due' = IF due = node THEN None ELSE due
    /\ UNCHANGED <<owner, activation, described>>

-----------------------------------------------------------------------------
(* Events.                                                                 *)

PointerEnter ==
    /\ NewTask /\ over = None
    /\ activation < MaxActivations
    /\ \E h \in mounted : over' = h /\ ShowTooltip(h)
    /\ UNCHANGED <<mounted, text, focus, pinned, host>>

\* A help tip that is pinned stays when the pointer leaves.
PointerLeave ==
    /\ NewTask /\ over # None
    /\ over' = None
    /\ IF over \in pinned THEN UNCHANGED <<tip, microtasks>> ELSE ReleaseTooltip(over)
    /\ UNCHANGED <<mounted, text, focus, pinned, host>>

FocusIn ==
    /\ focus = None /\ Len(microtasks) < MaxTasks
    /\ activation < MaxActivations
    /\ \E h \in mounted : focus' = h /\ ShowTooltip(h)
    /\ UNCHANGED <<mounted, text, over, pinned, host>>

FocusOut ==
    /\ focus # None /\ Len(microtasks) < MaxTasks
    /\ focus' = None /\ ReleaseTooltip(focus)
    /\ UNCHANGED <<mounted, text, over, pinned, host>>

\* A click or tap on a help tip.
Toggle ==
    /\ NewTask
    /\ \E h \in mounted \cap Tips :
         IF h \in pinned THEN HideTooltip /\ UNCHANGED pinned
         ELSE /\ activation < MaxActivations
              /\ ShowTooltip(h) /\ pinned' = pinned \cup {h}
    /\ UNCHANGED <<user, host>>

\* Escape, scroll, resize, or a tap elsewhere while a help tip is pinned.
Dismiss ==
    /\ NewTask /\ HideTooltip
    /\ UNCHANGED <<user, pinned, host>>

\* update of the action: a poll may change the value.
Update ==
    /\ Len(microtasks) < MaxTasks
    /\ \E h \in mounted \cap Plain, value \in {"", "text"} :
         /\ value # text[h] /\ text' = [text EXCEPT ![h] = value]
         /\ IF owner = h /\ value = "" THEN HideTooltip ELSE UNCHANGED <<tip, microtasks>>
    /\ UNCHANGED <<mounted, over, focus, pinned, host>>

\* Another language: the effect of a help tip that is shown shows it again.
SwitchLanguage ==
    /\ NewTask /\ owner \in Tips /\ activation < MaxActivations
    /\ ShowTooltip(owner)
    /\ UNCHANGED <<user, pinned, host>>

\* destroy: a row goes away, hovered, focused or pinned as it may be.
Destroy ==
    /\ Len(microtasks) < MaxTasks
    /\ \E h \in mounted :
         /\ mounted' = mounted \ {h} /\ pinned' = pinned \ {h}
         /\ over' = IF over = h THEN None ELSE over
         /\ focus' = IF focus = h THEN None ELSE focus
         /\ ReleaseTooltip(h)
    /\ UNCHANGED <<text, host>>

-----------------------------------------------------------------------------
(* Microtasks and frames.                                                  *)

DeferredHide ==
    /\ microtasks # <<>> /\ Head(microtasks) # Flush
    /\ LET task == Head(microtasks)
           applies == owner = task.node /\ activation = task.token
       IN  /\ owner' = IF applies THEN None ELSE owner
           /\ described' = IF applies THEN described \ {owner} ELSE described
           /\ microtasks' = IF applies THEN Flushed(Tail(microtasks)) ELSE Tail(microtasks)
    /\ UNCHANGED <<user, activation, pinned, host, due>>

\* A help tip that is not the owner is unpinned; TooltipHost opens its popover, or
\* in the next frame if the browser refuses.
RunEffects ==
    /\ microtasks # <<>> /\ Head(microtasks) = Flush
    /\ microtasks' = Tail(microtasks)
    /\ pinned' = pinned \cap {owner}
    /\ IF owner = None THEN popover' = "none" /\ frame' = None
       ELSE IF popover = "open" THEN UNCHANGED host
       ELSE \/ popover' = "open" /\ frame' = None
            \/ popover' = "waiting" /\ frame' = owner
    /\ UNCHANGED <<user, tip>>

AnimationFrame ==
    /\ NewTask /\ popover = "waiting" /\ frame # None
    /\ frame' = None
    /\ popover' = IF frame = owner THEN "open" ELSE popover
    /\ UNCHANGED <<user, tip, pinned, microtasks>>

Next == \/ PointerEnter \/ PointerLeave \/ FocusIn \/ FocusOut \/ Toggle \/ Dismiss
        \/ Update \/ SwitchLanguage \/ Destroy \/ DeferredHide \/ RunEffects \/ AnimationFrame

Spec == Init /\ [][Next]_vars

-----------------------------------------------------------------------------
(* Properties.                                                             *)

\* Every variable keeps its type.
TooltipTypeOK ==
    /\ mounted \subseteq Hosts /\ text \in [Hosts -> {"", "text"}]
    /\ over \in Hosts \cup {None} /\ focus \in Hosts \cup {None} /\ owner \in Hosts \cup {None}
    /\ due \in Hosts \cup {None} /\ frame \in Hosts \cup {None}
    /\ activation \in 0..MaxActivations /\ described \subseteq Hosts /\ pinned \subseteq Tips
    /\ popover \in {"none", "waiting", "open"}

\* However hosts are entered, left, focused, pinned and destroyed within one task,
\* once its microtasks are done the tooltip is that of the last activation that
\* was not taken back, or of nobody: a host that is there and that the pointer,
\* the focus or a pin still holds.  Only that host is described by it, and its
\* popover is open or a frame will open it.
TooltipSettles ==
    microtasks = <<>> =>
        /\ owner = due
        /\ described = {owner} \ {None}
        /\ owner # None => /\ owner \in mounted /\ text[owner] # ""
                           /\ over = owner \/ focus = owner \/ owner \in pinned
        /\ pinned \subseteq {owner}
        /\ popover = "none" <=> owner = None
        /\ popover = "waiting" => frame = owner
=============================================================================
