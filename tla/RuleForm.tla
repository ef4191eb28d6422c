------------------------------ MODULE RuleForm ------------------------------
(***************************************************************************)
(* The form of a rule (ruleEditor.ts, rule.ts, way.ts and the controls of  *)
(* RuleEditorPage, ListenProtocols and HopEditor) and the check of the     *)
(* server (config/validate.go) that it mirrors.  The user works one        *)
(* control at a time, saves, and goes on with the rule read back.          *)
(*                                                                         *)
(* Text is trimmed where the code trims it, and Empty is "".  A user       *)
(* name may hold a colon, a rule name a slash, a channel a blank, a port   *)
(* may not parse; a URL may be blank, lack its scheme, or have one and be  *)
(* refused by url.Parse, like http://h:abc; a cipher may be one that the   *)
(* server does not have.  What JavaScript and Go take for white space is   *)
(* taken for the same.                                                     *)
(***************************************************************************)
EXTENDS Lists

CONSTANTS Types,      \* of the protocols offered: some of PROTOCOLS
          MaxEdits,   \* since the form was opened or saved: a bound
          MaxHops     \* of a chain and of its URLs: a bound

\* What the constants are assumed to be.
RuleFormAssumption ==
    /\ Types \subseteq {"http", "socks5", "socks4", "ssh", "ss"}
    /\ MaxEdits \in Nat /\ MaxHops \in Nat \ {0}

Empty == "empty"
FormNames == {Empty, "mine", "other", "a/b"}
Users == {Empty, "user", "a:b"}
Passwords == {Empty, "secret"}
Hosts == {Empty, "loopback", "lan"}
PortTexts == {"0", "80", "81", "bad"}
Channels == {Empty, "ch", "ch2", "c h"}
HopURLs == {Empty, "good", "noscheme", "unparsable"}
Ciphers == {"cipher", "unknown"}
DefaultCipher == "cipher"

VARIABLES draft, savedName, edits

vars == <<draft, savedName, edits>>

-----------------------------------------------------------------------------
(* Ports, addresses and chains.                                            *)

NoPort == 99999
PortOf == [p \in PortTexts |-> CASE p = "0" -> 0 [] p = "80" -> 80 [] p = "81" -> 81
                                 [] p = "bad" -> NoPort]
\* parsePort
ParsePort(text, minimum) == IF PortOf[text] >= minimum THEN PortOf[text] ELSE NoPort
PortText(port) == CHOOSE p \in PortTexts : PortOf[p] = port

\* joinHostPort, and Address.String of the server.
JoinHostPort(host, port) == <<IF host = Empty THEN "loopback" ELSE host, port>>
VirtualAddress(channel) == <<"virtual", channel>>

IsVirtualChannel(channel) == channel \in {"ch", "ch2"}

\* wayOf and serializeWay: blank URLs go, and then hops without one.
Filled(hop) == Filtered(hop, LAMBDA u : u # Empty)
WayOf(hops) == Filtered(Mapped(hops, Filled), LAMBDA h : h # <<>>)

\* readWay
WayErrors(hops) ==
    {e \in {"hopUrlEmpty", "hopUrlNoScheme"} : \E i \in DOMAIN hops :
        \/ e = "hopUrlNoScheme" /\ \E k \in DOMAIN hops[i] : hops[i][k] = "noscheme"
        \/ /\ e = "hopUrlEmpty" /\ hops[i] # <<>>
           /\ \A k \in DOMAIN hops[i] : hops[i][k] = Empty}

-----------------------------------------------------------------------------
(* Rules and drafts.                                                       *)

\* The user name field of a row is shown for some protocols only, as is the password's.
RowFields(type) == CASE type = "ss" -> {"password"} [] type = "socks4" -> {"username"}
                  [] OTHER -> {"username", "password"}

Legacy == {"http", "socks5", "socks4", "ssh"}

Entry(type, username, password, cipher) ==
    [type |-> type, username |-> username, password |-> password, cipher |-> cipher]

IsCustom(entry) == entry.username # Empty \/ entry.password # Empty

\* protocolsFrom
RowOf(listen, type) ==
    LET stored == {e \in listen.protocols : e.type = type}
        entry == IF stored = {} THEN Entry(type, Empty, Empty, Empty) ELSE CHOOSE e \in stored : TRUE
    IN  [enabled |-> IF listen.protocols # {} THEN stored # {}
                     ELSE type \in Legacy \/ (type = "ss" /\ listen.cipher # Empty),
         custom |-> IsCustom(entry),
         username |-> entry.username, password |-> entry.password,
         cipher |-> IF type # "ss" THEN Empty
                    ELSE IF entry.cipher # Empty THEN entry.cipher
                    ELSE IF listen.cipher # Empty THEN listen.cipher ELSE DefaultCipher]

\* draftFrom
DraftFrom(rule) ==
    [name |-> rule.name, enabled |-> ~rule.disabled,
     mode |-> IF rule.forward.port > 0 \/ rule.forward.virtual # Empty THEN "forward" ELSE "proxy",
     kind |-> IF rule.listen.virtual # Empty THEN "virtual" ELSE "address",
     host |-> rule.listen.host, port |-> PortText(rule.listen.port),
     channel |-> rule.listen.virtual,
     username |-> rule.listen.username, password |-> rule.listen.password,
     rows |-> [type \in Types |-> RowOf(rule.listen, type)],
     way |-> rule.listen.way,
     targetKind |-> IF rule.forward.virtual # Empty THEN "virtual" ELSE "address",
     targetHost |-> rule.forward.host,
     targetPort |-> IF rule.forward.port > 0 THEN PortText(rule.forward.port) ELSE "bad",
     targetChannel |-> rule.forward.virtual,
     exit |-> rule.forward.way]

EmptyListen == [host |-> "loopback", port |-> 0, virtual |-> Empty, username |-> Empty, password |-> Empty,
                cipher |-> Empty, protocols |-> {}, way |-> <<>>]
EmptyForward == [host |-> Empty, port |-> 0, virtual |-> Empty, way |-> <<>>]
EmptyRule == [name |-> Empty, disabled |-> FALSE, listen |-> EmptyListen, forward |-> EmptyForward]

\* What else is configured: two rules, a third that is disabled, and the web UI.
Others == {
    [EmptyRule EXCEPT !.name = "other", !.listen.port = 80],
    [EmptyRule EXCEPT !.name = "entry", !.listen.host = Empty, !.listen.virtual = "ch"],
    [EmptyRule EXCEPT !.name = "off", !.listen.port = 81, !.disabled = TRUE] }
WebUI == JoinHostPort("lan", 81)

-----------------------------------------------------------------------------
(* readRule: the errors, and the rule when there are none.                 *)

Mark(condition, error) == IF condition THEN {error} ELSE {}

Forwarding(d) == d.mode = "forward"
ListenVirtual(d) == d.kind = "virtual"
TargetVirtual(d) == Forwarding(d) /\ d.targetKind = "virtual"
Enabled(d) == {t \in Types : d.rows[t].enabled}
OwnUser(row) == IF row.custom THEN row.username ELSE Empty
OwnPassword(row) == IF row.custom THEN row.password ELSE Empty

\* Mutant: a shared password that Shadowsocks uses is refused all the same.
NoSharedForSS(d) == FALSE
\* The shared password may serve Shadowsocks alone.
SharedForSS(d) == "ss" \in Enabled(d) /\ OwnPassword(d.rows["ss"]) = Empty

\* readAuth
AuthErrors(d) ==
    Mark(d.username = "a:b", "usernameColon")
    \cup UNION {LET row == d.rows[t] IN
           Mark(OwnUser(row) = "a:b" /\ "username" \in RowFields(t), "rowUsernameColon")
           \cup Mark(/\ t # "ss" /\ (OwnPassword(row) # Empty \/ d.password # Empty)
                     /\ OwnUser(row) = Empty /\ d.username = Empty
                     /\ OwnPassword(row) # Empty \/ ~SharedForSS(d), "passwordNeedsUsername")
         : t \in Enabled(d)}

ProtocolErrors(d) ==
    Mark(Enabled(d) = {}, "protocolRequired")
    \cup Mark("ss" \in Enabled(d) /\ d.rows["ss"].cipher = Empty, "cipherRequired")
    \cup Mark("ss" \in Enabled(d) /\ OwnPassword(d.rows["ss"]) = Empty /\ d.password = Empty,
              "passwordRequired")

ListenPort(d) == IF ListenVirtual(d) THEN 0 ELSE ParsePort(d.port, 0)
ListenWay(d) == IF ListenVirtual(d) THEN <<>> ELSE WayOf(d.way)

\* configuredAddress, and Listen.Address of the server.
Address(listen) ==
    IF listen.virtual # Empty THEN VirtualAddress(listen.virtual)
    ELSE JoinHostPort(listen.host, listen.port)

\* listens: the rules whose addresses count.
Listens(rule) ==
    /\ ~rule.disabled /\ rule.listen.way = <<>>
    /\ rule.listen.port # 0 \/ rule.listen.virtual # Empty

AddressErrors(d) ==
    LET address == IF ListenVirtual(d) THEN VirtualAddress(d.channel)
                   ELSE JoinHostPort(d.host, ListenPort(d))
        counts == /\ d.enabled /\ ListenPort(d) # NoPort
                  /\ ListenVirtual(d) => IsVirtualChannel(d.channel)
                  /\ ListenVirtual(d) \/ (ListenPort(d) # 0 /\ ListenWay(d) = <<>>)
        taken == \E r \in Others : r.name # savedName /\ Listens(r) /\ Address(r.listen) = address
    IN  Mark(counts /\ taken, "listenAddressTaken")
        \cup Mark(counts /\ ~taken /\ WebUI = address, "listenAddressWebUI")

Errors(d) ==
    Mark(d.name = Empty, "ruleNameRequired") \cup Mark(d.name = "a/b", "ruleNameSlash")
    \cup Mark(\E r \in Others : r.name = d.name /\ r.name # savedName, "ruleNameTaken")
    \cup Mark(ListenPort(d) = NoPort, "invalidPort")
    \cup Mark(ListenVirtual(d) /\ ~IsVirtualChannel(d.channel), "invalidVirtualChannel")
    \cup (IF ListenVirtual(d) THEN {} ELSE WayErrors(d.way))
    \cup (IF Forwarding(d) THEN {} ELSE ProtocolErrors(d) \cup AuthErrors(d))
    \cup Mark(Forwarding(d) /\ ~TargetVirtual(d) /\ ParsePort(d.targetPort, 1) = NoPort,
              "invalidForwardPort")
    \cup Mark(TargetVirtual(d) /\ ~IsVirtualChannel(d.targetChannel), "invalidTargetChannel")
    \cup Mark(/\ TargetVirtual(d) /\ ListenVirtual(d)
              /\ d.channel = d.targetChannel /\ IsVirtualChannel(d.channel), "virtualSelfLoop")
    \cup (IF TargetVirtual(d) THEN {} ELSE WayErrors(d.exit))
    \cup AddressErrors(d)

\* Forward rules serve no protocol.
SharedSent(d) == ~Forwarding(d)

RuleOf(d) ==
    [name |-> d.name, disabled |-> ~d.enabled,
     listen |->
        [host |-> IF ListenVirtual(d) THEN Empty ELSE d.host, port |-> ListenPort(d),
         virtual |-> IF ListenVirtual(d) THEN d.channel ELSE Empty,
         username |-> IF SharedSent(d) THEN d.username ELSE Empty,
         password |-> IF SharedSent(d) THEN d.password ELSE Empty,
         cipher |-> Empty,
         protocols |-> IF Forwarding(d) THEN {}
                       ELSE {Entry(t, OwnUser(d.rows[t]), OwnPassword(d.rows[t]), d.rows[t].cipher)
                               : t \in Enabled(d)},
         way |-> ListenWay(d)],
     forward |->
        [host |-> IF Forwarding(d) /\ ~TargetVirtual(d) THEN d.targetHost ELSE Empty,
         port |-> IF Forwarding(d) /\ ~TargetVirtual(d) THEN ParsePort(d.targetPort, 1) ELSE 0,
         virtual |-> IF TargetVirtual(d) THEN d.targetChannel ELSE Empty,
         way |-> IF TargetVirtual(d) THEN <<>> ELSE WayOf(d.exit)]]

-----------------------------------------------------------------------------
(* Validate of the server, of a configuration with this rule in its place. *)

\* Schemes: the shared credentials fill what an entry leaves empty.
Schemes(listen) ==
    LET raw == IF listen.protocols # {} THEN listen.protocols
               ELSE {Entry(t, Empty, Empty, Empty) : t \in Legacy \cup Mark(listen.cipher # Empty, "ss")}
    IN  {[raw |-> e,
          username |-> IF e.username = Empty THEN listen.username ELSE e.username,
          password |-> IF e.password = Empty THEN listen.password ELSE e.password,
          cipher |-> IF e.type = "ss" /\ e.cipher = Empty THEN listen.cipher ELSE e.cipher] : e \in raw}

\* shadowsocks.IsCipher; none is the caller's business.
IsCipher(cipher) == cipher = "cipher"

ValidateListenAuth(listen, proxy) ==
    LET sharedForSS == \/ listen.protocols = {} /\ listen.cipher # Empty
                       \/ \E e \in listen.protocols : e.type = "ss" /\ e.password = Empty
    IN  /\ listen.username # "a:b"
        /\ listen.cipher # Empty => IsCipher(listen.cipher)
        /\ ~proxy => listen.username = Empty /\ listen.cipher = Empty /\ listen.protocols = {}
        /\ \A e \in listen.protocols :
             e.username # "a:b" /\ (e.cipher # Empty => e.type = "ss" /\ IsCipher(e.cipher))
        /\ listen.protocols # {} /\ listen.cipher # Empty => \E e \in listen.protocols : e.type = "ss"
        /\ \A s \in Schemes(listen) :
             IF s.raw.type = "ss" THEN s.cipher # Empty /\ s.password # Empty
             ELSE s.password = Empty \/ s.username # Empty \/ (s.raw.password = Empty /\ sharedForSS)

ValidateVirtual(end) ==
    end.virtual # Empty => /\ IsVirtualChannel(end.virtual)
                        /\ end.host = Empty /\ end.port = 0 /\ end.way = <<>>

\* Of url.Parse the form checks the scheme alone.
ValidateWay(way) ==
    \A i \in DOMAIN way : way[i] # <<>> /\ \A k \in DOMAIN way[i] : way[i][k] = "good"

IsProxy(forward) == forward.port = 0 /\ forward.virtual = Empty

Validate(rule) ==
    LET rest == {r \in Others : r.name # savedName}
    IN  /\ rule.name \notin {Empty, "a/b"} \cup {r.name : r \in rest}
        /\ rule.listen.port <= 65535 /\ rule.forward.port <= 65535
        /\ rule.forward.host # Empty => ~IsProxy(rule.forward)
        /\ ValidateListenAuth(rule.listen, IsProxy(rule.forward))
        /\ ValidateVirtual(rule.listen) /\ ValidateVirtual(rule.forward)
        /\ rule.listen.virtual # Empty => rule.listen.virtual # rule.forward.virtual
        /\ ValidateWay(rule.listen.way) /\ ValidateWay(rule.forward.way)
        /\ Listens(rule) =>
             /\ \A r \in rest : Listens(r) => Address(r.listen) # Address(rule.listen)
             /\ Address(rule.listen) # WebUI

-----------------------------------------------------------------------------
(* The controls.                                                           *)

\* A new rule, or one written by hand.
Init ==
    /\ \/ draft = DraftFrom(EmptyRule) /\ savedName = Empty
       \/ /\ savedName = "mine"
          /\ draft = DraftFrom([EmptyRule EXCEPT
                !.name = "mine", !.listen.port = 81, !.listen.cipher = "cipher",
                !.listen.password = "secret"])
       \/ /\ savedName = "mine"
          /\ draft = DraftFrom([EmptyRule EXCEPT
                !.name = "mine", !.forward.port = 80, !.forward.way = << <<"good">> >>])
       \/ /\ savedName = "mine"
          /\ draft = DraftFrom([EmptyRule EXCEPT
                !.name = "mine",
                !.listen.protocols = {Entry("ss", "a:b", "secret", "unknown")}])
    /\ edits = 0

Edit(d) ==
    /\ edits < MaxEdits /\ d # draft
    /\ draft' = d /\ edits' = edits + 1
    /\ UNCHANGED savedName

TypeName == \E n \in FormNames : Edit([draft EXCEPT !.name = n])
SwitchEnabled == Edit([draft EXCEPT !.enabled = ~@])
SwitchMode == \E m \in {"proxy", "forward"} : Edit([draft EXCEPT !.mode = m])
SwitchKind == \E k \in {"address", "virtual"} : Edit([draft EXCEPT !.kind = k])
TypeChannel == \E c \in Channels : Edit([draft EXCEPT !.channel = c])
TypeHost == \E h \in Hosts : Edit([draft EXCEPT !.host = h])
TypePort == \E p \in PortTexts : Edit([draft EXCEPT !.port = p])
SwitchTarget == Forwarding(draft) /\ \E k \in {"address", "virtual"} : Edit([draft EXCEPT !.targetKind = k])
TypeTargetChannel == TargetVirtual(draft) /\ \E c \in Channels : Edit([draft EXCEPT !.targetChannel = c])
TypeTarget ==
    /\ Forwarding(draft) /\ ~TargetVirtual(draft)
    /\ \/ \E h \in Hosts : Edit([draft EXCEPT !.targetHost = h])
       \/ \E p \in PortTexts : Edit([draft EXCEPT !.targetPort = p])

\* ListenProtocols: the shared credentials and one row for each protocol.
TypeShared ==
    /\ ~Forwarding(draft)
    /\ \/ \E u \in Users : Edit([draft EXCEPT !.username = u])
       \/ \E p \in Passwords : Edit([draft EXCEPT !.password = p])
CheckProtocol == ~Forwarding(draft) /\ \E t \in Types : Edit([draft EXCEPT !.rows[t].enabled = ~@])
CheckCustom ==
    ~Forwarding(draft) /\ \E t \in Enabled(draft) : Edit([draft EXCEPT !.rows[t].custom = ~@])
TypeRow ==
    /\ ~Forwarding(draft)
    /\ \E t \in Enabled(draft) :
         /\ draft.rows[t].custom
         /\ \/ "username" \in RowFields(t) /\ \E u \in Users : Edit([draft EXCEPT !.rows[t].username = u])
            \/ "password" \in RowFields(t) /\ \E p \in Passwords : Edit([draft EXCEPT !.rows[t].password = p])
\* A cipher that the list does not offer is offered as long as it is the rule's.
PickCipher ==
    /\ ~Forwarding(draft) /\ "ss" \in Enabled(draft)
    /\ Edit([draft EXCEPT !.rows["ss"].cipher = DefaultCipher])

\* HopEditor, of the listen chain or of the exit chain.
ChainFields == {"way", "exit"}
Shown(chain) == IF chain = "way" THEN ~ListenVirtual(draft) ELSE ~TargetVirtual(draft)
EditChain(chain, hops) == Shown(chain) /\ Edit([draft EXCEPT ![chain] = hops])

AddHop(c) == Len(draft[c]) < MaxHops /\ EditChain(c, Append(draft[c], <<Empty>>))
RemoveHop(c) == \E i \in DOMAIN draft[c] : EditChain(c, RemoveAt(draft[c], i))
Move(c) ==
    \E i \in 1..Len(draft[c]) - 1 :
        EditChain(c, [draft[c] EXCEPT ![i] = draft[c][i + 1], ![i + 1] = draft[c][i]])
AddUrl(c) ==
    \E i \in DOMAIN draft[c] :
        Len(draft[c][i]) < MaxHops /\ EditChain(c, [draft[c] EXCEPT ![i] = Append(@, Empty)])
RemoveUrl(c) ==
    \E i \in DOMAIN draft[c] : \E k \in DOMAIN draft[c][i] :
        EditChain(c, [draft[c] EXCEPT ![i] = RemoveAt(@, k)])
TypeUrl(c) ==
    \E i \in DOMAIN draft[c] : \E k \in DOMAIN draft[c][i], u \in HopURLs :
        EditChain(c, [draft[c] EXCEPT ![i][k] = u])

\* A rule that is saved is read back the next time it is opened.
SaveAndReopen ==
    /\ Errors(draft) = {} /\ Validate(RuleOf(draft))
    /\ savedName' = draft.name
    /\ draft' = DraftFrom(RuleOf(draft))
    /\ edits' = edits

Next ==
    \/ TypeName \/ SwitchEnabled \/ SwitchMode \/ SwitchKind \/ TypeChannel \/ TypeHost \/ TypePort
    \/ SwitchTarget \/ TypeTargetChannel \/ TypeTarget
    \/ TypeShared \/ CheckProtocol \/ CheckCustom \/ TypeRow \/ PickCipher
    \/ \E c \in ChainFields : AddHop(c) \/ RemoveHop(c) \/ Move(c) \/ AddUrl(c) \/ RemoveUrl(c) \/ TypeUrl(c)
    \/ SaveAndReopen

Spec == Init /\ [][Next]_vars

-----------------------------------------------------------------------------
(* Properties.                                                             *)

\* Every variable keeps its type.
RuleFormTypeOK ==
    /\ savedName \in FormNames /\ edits \in 0..MaxEdits
    /\ DOMAIN draft = DOMAIN DraftFrom(EmptyRule) /\ DOMAIN draft.rows = Types
    /\ draft.mode \in {"proxy", "forward"}
    /\ {draft.kind, draft.targetKind} \subseteq {"address", "virtual"}
    /\ Len(draft.way) <= MaxHops /\ Len(draft.exit) <= MaxHops

\* Errors the server does not share: an empty protocol list means the legacy
\* set to it, it never sees a hop left blank, and no rule holds such a port.
FormOnly == {"protocolRequired", "hopUrlEmpty", "invalidPort", "invalidForwardPort",
             "invalidVirtualChannel", "invalidTargetChannel"}

\* What the form does not look at and leaves to the answer of the server: a hop
\* URL with a scheme that url.Parse refuses, a colon in the user name of a
\* Shadowsocks row, which shows none (ruleEditor.ts:238), and a stored cipher.
Holds(hops, url) == \E i \in DOMAIN hops : \E k \in DOMAIN hops[i] : hops[i][k] = url
LeftToServer(d) ==
    \/ ~ListenVirtual(d) /\ Holds(d.way, "unparsable")
    \/ ~TargetVirtual(d) /\ Holds(d.exit, "unparsable")
    \/ /\ ~Forwarding(d) /\ "ss" \in Enabled(d)
       /\ OwnUser(d.rows["ss"]) = "a:b" \/ ~IsCipher(d.rows["ss"].cipher)

\* The form mirrors the server.  With the other rules and the web UI known, a
\* save that the form passes is refused by Validate for what the form leaves to
\* it and for nothing else, and no error of the form, but for those of its own,
\* keeps the user from saving a rule that is good.
FormMirrorsServer ==
    /\ Errors(draft) = {} => (Validate(RuleOf(draft)) <=> ~LeftToServer(draft))
    /\ Errors(draft) \ FormOnly # {} => ~Validate(RuleOf(draft))

\* A saved rule reopens as itself: reading back what was saved and saving it
\* again changes nothing, whatever the form hides in its present mode.
Reopens ==
    Errors(draft) = {} =>
        /\ Errors(DraftFrom(RuleOf(draft))) = {}
        /\ RuleOf(DraftFrom(RuleOf(draft))) = RuleOf(draft)
=============================================================================
