------------------------ MODULE VirtualNetworkProofs ------------------------
(***************************************************************************)
(* Proofs about VirtualNetwork, for any channels, listeners and dials.     *)
(***************************************************************************)
EXTENDS VirtualNetwork, TLAPS

\* A loop that is not idle has a listener of its channel, which is in the table
\* until its Close is over; and the table holds nothing else.
TableInv ==
    /\ \A n \in Names :
          at[n] # "idle" =>
             /\ current[n] # None
             /\ name[current[n]] = n
             /\ once[current[n]] # "over" => table[n] = current[n]
    /\ \A n \in Names :
          table[n] # None =>
             /\ at[n] # "idle"
             /\ current[n] = table[n]
             /\ once[table[n]] # "over"
    /\ \A l \in Listeners :
          IF name[l] = None THEN once[l] = "free" /\ ~watch[l]
                            ELSE once[l] = "free" => table[name[l]] = l

\* done is closed by the function of once, and by nothing else.
OnceInv == \A l \in Listeners : done[l] <=> once[l] # "free"

\* A dial offers its connection to a listener that was made.
OfferInv == \A d \in Dials : dial[d] = "offer" => target[d] # None /\ name[target[d]] # None

Inv == TypeOK /\ TableInv /\ OnceInv /\ OfferInv

-----------------------------------------------------------------------------

LEMMA InitVirtual == Init => Inv
BY VirtualAssumption DEF Init, Inv, TypeOK, TableInv, OnceInv, OfferInv

LEMMA StepVirtual == Inv /\ [Next]_vars => Inv'
<1> SUFFICES ASSUME Inv, [Next]_vars PROVE Inv'
    OBVIOUS
<1> USE VirtualAssumption DEF Inv
<1>0. CASE UNCHANGED vars
    BY <1>0 DEF vars, listenerVars, loopVars, dialVars, TypeOK, TableInv, OnceInv,
        OfferInv
<1>1. ASSUME NEW n \in Names, NEW l \in Listeners, Listen(n, l) PROVE Inv'
    <2>1. TypeOK'
        BY <1>1 DEF TypeOK, Listen, dialVars
    <2>2. TableInv'
        BY <1>1 DEF TypeOK, TableInv, Listen
    <2>3. OnceInv'
        BY <1>1 DEF OnceInv, Listen
    <2>9. OfferInv'
        BY <1>1 DEF OfferInv, TypeOK, Listen, dialVars
    <2> QED
        BY <2>1, <2>2, <2>3, <2>9
<1>2. ASSUME NEW n \in Names, Cancel(n) PROVE Inv'
    <2>1. TypeOK'
        BY <1>2 DEF TypeOK, Cancel, loopVars, dialVars
    <2>2. TableInv' /\ OnceInv'
        BY <1>2 DEF TypeOK, TableInv, OnceInv, Cancel, loopVars
    <2>9. OfferInv'
        BY <1>2 DEF OfferInv, TypeOK, Cancel, dialVars
    <2> QED
        BY <2>1, <2>2, <2>9
<1>3. ASSUME NEW l \in Listeners, CloseEnds(l) PROVE Inv'
    <2>1. TypeOK'
        BY <1>3 DEF TypeOK, CloseEnds, loopVars, dialVars
    <2>2. TableInv'
        BY <1>3 DEF TypeOK, TableInv, CloseEnds, loopVars
    <2>3. OnceInv'
        BY <1>3 DEF TypeOK, OnceInv, CloseEnds
    <2>9. OfferInv'
        BY <1>3 DEF OfferInv, TypeOK, CloseEnds, dialVars
    <2> QED
        BY <2>1, <2>2, <2>3, <2>9
<1>4. ASSUME NEW l \in Listeners, WatchCloses(l) PROVE Inv'
    <2>1. TypeOK'
        BY <1>4 DEF TypeOK, WatchCloses, CloseBegins, loopVars, dialVars
    <2>2. TableInv' /\ OnceInv'
        BY <1>4 DEF TypeOK, TableInv, OnceInv, WatchCloses, CloseBegins, loopVars
    <2>9. OfferInv'
        BY <1>4 DEF OfferInv, TypeOK, WatchCloses, dialVars
    <2> QED
        BY <2>1, <2>2, <2>9
<1>5. ASSUME NEW n \in Names, AcceptFails(n) \/ ServeFails(n) PROVE Inv'
    <2>1. TypeOK'
        BY <1>5 DEF TypeOK, AcceptFails, ServeFails, listenerVars, dialVars
    <2>2. TableInv' /\ OnceInv'
        BY <1>5 DEF TypeOK, TableInv, OnceInv, AcceptFails, ServeFails, listenerVars
    <2>9. OfferInv'
        BY <1>5 DEF OfferInv, TypeOK, AcceptFails, ServeFails, listenerVars, dialVars
    <2> QED
        BY <2>1, <2>2, <2>9
<1>6. ASSUME NEW n \in Names, LoopCloses(n) PROVE Inv'
    <2>1. TypeOK'
        BY <1>6 DEF TypeOK, LoopCloses, CloseBegins, loopVars, dialVars
    <2>2. TableInv' /\ OnceInv'
        BY <1>6 DEF TypeOK, TableInv, OnceInv, LoopCloses, CloseBegins, loopVars
    <2>9. OfferInv'
        BY <1>6 DEF OfferInv, TypeOK, LoopCloses, dialVars
    <2> QED
        BY <2>1, <2>2, <2>9
<1>7. ASSUME NEW n \in Names, LoopClosed(n) PROVE Inv'
    <2>1. TypeOK'
        BY <1>7 DEF TypeOK, LoopClosed, listenerVars, dialVars
    <2>2. TableInv' /\ OnceInv'
        BY <1>7 DEF TypeOK, TableInv, OnceInv, LoopClosed, listenerVars
    <2>9. OfferInv'
        BY <1>7 DEF OfferInv, TypeOK, LoopClosed, listenerVars, dialVars
    <2> QED
        BY <2>1, <2>2, <2>9
<1>8. ASSUME NEW d \in Dials, DialProceeds(d) \/ CtxDone(d) \/ \E n \in Names : Dial(d, n)
      PROVE  Inv'
    <2>1. UNCHANGED <<listenerVars, loopVars>>
        BY <1>8 DEF DialProceeds, Meet, DialRefused, DialCancelled, CtxDone, Dial
    <2>2. dial' \in [Dials -> {"ready", "offer", "connected", "refused", "cancelled"}]
          /\ target' \in [Dials -> Listeners \cup {None}]
          /\ ctxDone' \in [Dials -> BOOLEAN]
        <3>1. CASE DialProceeds(d)
            BY <3>1 DEF TypeOK, DialProceeds, Meet, DialRefused, DialCancelled
        <3>2. CASE CtxDone(d)
            BY <3>2 DEF TypeOK, CtxDone
        <3>3. ASSUME NEW n \in Names, Dial(d, n)
              PROVE  /\ dial' \in [Dials -> {"ready", "offer", "connected", "refused",
                                             "cancelled"}]
                     /\ target' \in [Dials -> Listeners \cup {None}]
                     /\ ctxDone' \in [Dials -> BOOLEAN]
            <4>1. (IF ctxDone[d] THEN None ELSE table[n]) \in Listeners \cup {None}
                BY DEF TypeOK
            <4> QED
                BY <3>3, <4>1 DEF TypeOK, Dial
        <3> QED
            BY <1>8, <3>1, <3>2, <3>3
    <2>3. TypeOK'
        BY <2>1, <2>2 DEF TypeOK, listenerVars, loopVars
    <2>4. TableInv' /\ OnceInv'
        BY <2>1 DEF TableInv, OnceInv, listenerVars, loopVars
    <2>5. OfferInv'
        <3>1. CASE DialProceeds(d)
            BY <2>1, <3>1 DEF OfferInv, TypeOK, listenerVars, DialProceeds, Meet, DialRefused,
                              DialCancelled
        <3>2. CASE CtxDone(d)
            BY <2>1, <3>2 DEF OfferInv, CtxDone, listenerVars
        <3>3. ASSUME NEW n \in Names, Dial(d, n) PROVE OfferInv'
            <4>1. table[n] # None => table[n] \in Listeners /\ name[table[n]] = n
                BY DEF TypeOK, TableInv
            <4> QED
                BY <2>1, <3>3, <4>1 DEF OfferInv, TypeOK, Dial, listenerVars
        <3> QED
            BY <1>8, <3>1, <3>2, <3>3
    <2> QED
        BY <2>3, <2>4, <2>5
<1> QED
    BY <1>0, <1>1, <1>2, <1>3, <1>4, <1>5, <1>6, <1>7, <1>8
    DEF Next, LoopProceeds, ListenerProceeds

THEOREM VirtualInvariant == Spec => []Inv
BY InitVirtual, StepVirtual, PTL DEF Spec

\* A rule that is restarted never meets its own channel still taken
\* (virtual.go:45-46, 89-99): Close returns to both its callers only when the
\* entry is gone.
THEOREM NameFreeTheorem == Spec => []NameFreeBetweenListens
<1>1. Inv => NameFreeBetweenListens
    BY DEF Inv, TableInv, NameFreeBetweenListens
<1> QED
    BY VirtualInvariant, <1>1, PTL

\* Dials find the listener that is being served (virtual.go:61, 93-95).
THEOREM ServedIsFoundTheorem == Spec => []ServedIsFound
<1>1. Inv => ServedIsFound
    BY DEF Inv, TypeOK, TableInv, OnceInv, ServedIsFound
<1> QED
    BY VirtualInvariant, <1>1, PTL

\* Whoever dials a listener is heard, or sees it closed (virtual.go:66-77).
THEOREM OfferIsHeardTheorem == Spec => []OfferIsHeard
<1>1. Inv => OfferIsHeard
    BY DEF Inv, TypeOK, TableInv, OnceInv, OfferInv, OfferIsHeard
<1> QED
    BY VirtualInvariant, <1>1, PTL

\* Names are free for the next listener, the one served is found, and whoever
\* dialed one is heard (virtual.go:45-99).
THEOREM ChannelsAreServedTheorem == Spec => []ChannelsAreServed
BY NameFreeTheorem, ServedIsFoundTheorem, OfferIsHeardTheorem, PTL DEF ChannelsAreServed
=============================================================================
