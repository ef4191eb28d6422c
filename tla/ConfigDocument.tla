-------------------------- MODULE ConfigDocument --------------------------
(***************************************************************************)
(* What config.yaml can hold, what Validate accepts, and what each call    *)
(* of the configs service asks to change (config/store.go, validate.go,    *)
(* app/web/services/configs/configs.go).                                   *)
(*                                                                         *)
(* A rule is its name and the address or channel it listens on: `Off` when *)
(* it takes none here (disabled, remote or port 0), `Broken` when one of   *)
(* the checks of a single rule fails.  The rest of a config is the address *)
(* of the web UI and the no-proxy lists.                                   *)
(***************************************************************************)
EXTENDS Integers, Sequences, SequencesExt

CONSTANTS Names,      \* rule names
          Blank,      \* the empty name
          Addresses,  \* local addresses
          Off,        \* no address
          Broken,     \* a listener or web UI address that is not well-formed
          Lists,      \* no-proxy lists
          Nothing,    \* the no-proxy list of an empty file
          Absent,     \* there is no file
          Empty,      \* the file has no bytes
          Torn,       \* the file ends in the middle of a line
          Default,    \* the config a new installation starts with
          Operations, \* what calls may ask
          None        \* no operation

ASSUME DocumentAssumption ==
    /\ Blank \notin Names
    /\ Off \notin Addresses /\ Broken \notin Addresses /\ Off # Broken
    /\ Absent # Empty /\ Absent # Torn /\ Empty # Torn

ListenSettings == Addresses \cup {Off, Broken}
Rule == [name : Names \cup {Blank}, listen : ListenSettings]
Config == [rules : Seq(Rule), web : ListenSettings, noProxy : Lists \cup {Nothing}]

ASSUME DocumentKinds == {Absent, Empty, Torn} \cap Config = {}

\* What a write of the default that was cut short leaves; the file has the
\* web UI first and the no-proxy lists last.
CutShort ==
    {Empty, Torn, [Default EXCEPT !.noProxy = Nothing],
     [Default EXCEPT !.noProxy = Nothing, !.rules = <<>>]}

Documents == Config \cup {Absent, Empty, Torn}

\* Store.Load succeeds; an empty file is the zero config.
Readable(file) == file \notin {Absent, Torn}
Parse(file) ==
    IF file = Empty THEN [rules |-> <<>>, web |-> Off, noProxy |-> Nothing] ELSE file

\* What Validate accepts.
Valid(conf) ==
    /\ conf.web # Broken
    /\ \A i \in DOMAIN conf.rules :
          /\ conf.rules[i].name # Blank
          /\ conf.rules[i].listen # Broken
          /\ conf.rules[i].listen \in Addresses => conf.rules[i].listen # conf.web
    /\ \A i, j \in DOMAIN conf.rules : i # j =>
          /\ conf.rules[i].name # conf.rules[j].name
          /\ conf.rules[i].listen \in Addresses => conf.rules[i].listen # conf.rules[j].listen

Named(conf, name) == {i \in DOMAIN conf.rules : conf.rules[i].name = name}
First(S) == CHOOSE i \in S : \A j \in S : i <= j

-----------------------------------------------------------------------------
(* The calls that write: PUT /, PUT /raw ("replace"), PUT /web-ui,         *)
(* PUT /no-proxy and the three on rules.                                   *)

Operation ==
    [kind : {"replace"}, conf : Config]
      \cup [kind : {"create"}, rule : Rule]
      \cup [kind : {"update"}, name : Names, rule : Rule]
      \cup [kind : {"delete"}, name : Names]
      \cup [kind : {"webUI"}, web : ListenSettings]
      \cup [kind : {"noProxy"}, noProxy : Lists]

\* The call changes what is stored (modify); the others replace it.
Modifies(o) == o.kind # "replace"

\* Refused before anything is locked.
BadArgument(o) == o.kind = "create" /\ o.rule.name = Blank

\* A body without a name keeps the name of the path.
Replacement(o) == IF o.rule.name = Blank THEN [o.rule EXCEPT !.name = o.name] ELSE o.rule

\* The function given to modify returns an error.
Refuses(o, conf) ==
    \/ o.kind = "create" /\ Named(conf, o.rule.name) # {}
    \/ o.kind \in {"update", "delete"} /\ Named(conf, o.name) = {}
    \/ /\ o.kind = "update"
       /\ Replacement(o).name # o.name
       /\ Named(conf, Replacement(o).name) # {}

Result(o, conf) ==
    CASE o.kind = "create"  -> [conf EXCEPT !.rules = Append(@, o.rule)]
      [] o.kind = "update"  -> [conf EXCEPT !.rules[First(Named(conf, o.name))] = Replacement(o)]
      [] o.kind = "delete"  -> [conf EXCEPT !.rules = RemoveAt(@, First(Named(conf, o.name)))]
      [] o.kind = "webUI"   -> [conf EXCEPT !.web = o.web]
      [] o.kind = "noProxy" -> [conf EXCEPT !.noProxy = o.noProxy]
      [] OTHER              -> o.conf

ASSUME OperationAssumption ==
    /\ Operations \subseteq Operation
    /\ None \notin Operations
    /\ Default \in Config /\ Valid(Default)
=============================================================================
