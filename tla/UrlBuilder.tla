----------------------------- MODULE UrlBuilder -----------------------------
(***************************************************************************)
(* The URL builder of the rule editor (urlBuilder.ts and                   *)
(* UrlBuilderDialog.svelte): it takes the URL of one row apart into the    *)
(* fields of a layout and writes a URL from them.                          *)
(*                                                                         *)
(* A URL is a record of what it is made of, as text in the URL; a text     *)
(* that no URL can be read from is an empty scheme.  "odd" is a text that  *)
(* a URL cannot hold as it is, "odd%" the same percent-encoded, "bad%" a   *)
(* malformed encoding; "blank" is spaces.  One layout stands for each set  *)
(* of fields.                                                              *)
(*                                                                         *)
(* Host and port are written as they were typed, and any host that is not  *)
(* blank may be used: one with a port in it, "h:p", is put in brackets;    *)
(* one with an "@" ends the credentials, so that what is before it joins   *)
(* them, as "x@u" for any "x"; one with a "/" or a "?" is cut there.       *)
(***************************************************************************)
EXTENDS Naturals

CONSTANTS None,
          MaxEdits  \* of fields and of the row by hand: a bound

VARIABLES row,      \* the URL of the row the builder is opened from
          builder,  \* what the dialog shows, or None
          edits

vars == <<row, builder, edits>>

-----------------------------------------------------------------------------
(* proxy_layouts.json.                                                     *)

FieldsOf(layout) ==
    CASE layout = "http" -> {"username", "password", "host", "port"}
      [] layout = "socks4" -> {"username", "host", "port"}
      [] layout = "ssh" -> {"username", "password", "host", "port", "identity"}
      [] layout = "shadowsocks" -> {"encrypto", "password", "host", "port"}
      [] layout \in {"command", "netcat"} -> {"command"}

Layouts == {"http", "socks4", "ssh", "shadowsocks", "command", "netcat"}
Commands == {"command", "netcat"}

SchemeOf(layout) == CASE layout = "shadowsocks" -> "ss" [] layout = "command" -> "cmd"
                      [] layout = "netcat" -> "nc" [] OTHER -> layout
\* layoutFor: by name or by alias.
LayoutsFor(scheme) == {l \in Layouts : scheme \in {l, SchemeOf(l)}}

DefaultPort(layout) == CASE layout = "http" -> "80" [] layout = "socks4" -> "1080"
                         [] layout = "ssh" -> "22" [] layout = "shadowsocks" -> "8379"
Default(layout, field) == CASE field = "port" -> DefaultPort(layout)
                            [] field = "encrypto" -> "cipher" [] OTHER -> ""

\* initialValues: a field that was not found in the URL takes its default.
InitialValues(layout, found) ==
    [f \in FieldsOf(layout) |->
        IF f \in DOMAIN found /\ found[f] # None THEN found[f] ELSE Default(layout, f)]

-----------------------------------------------------------------------------
(* Writing a URL and reading one.                                          *)

NoURL == [scheme |-> ""]

Encoded(text) == CASE text = "odd" -> "odd%" [] text = "bad%" -> "bad%25"
                   [] text = "x@u" -> "x@u%" [] OTHER -> text
Decoded(text) == CASE text = "odd%" -> "odd" [] text = "bad%25" -> "bad%"
                   [] text = "x@u%" -> "x@u" [] OTHER -> text
Trimmed(text) == IF text = "blank" THEN "" ELSE text
Bracketed(host) == CASE host = "v6" -> "[v6]" [] host = "h:p" -> "[h:p]" [] OTHER -> host

PortOf(b) == IF b.values.port = "" THEN DefaultPort(b.layout) ELSE b.values.port

\* The password of the user information.
Password(b) == Encoded(b.values.password)

\* buildURL
BuildURL(b) ==
    LET v == b.values
        has(f) == f \in DOMAIN v
    IN  IF b.layout \in Commands
        THEN [scheme |-> SchemeOf(b.layout), command |-> Trimmed(v.command)]
        ELSE [scheme |-> SchemeOf(b.layout),
              username |-> Encoded(IF b.layout = "shadowsocks" THEN v.encrypto ELSE v.username),
              password |-> IF has("password") THEN Password(b) ELSE "",
              host |-> Bracketed(Trimmed(v.host)), port |-> PortOf(b),
              identity |-> IF has("identity") THEN Encoded(v.identity) ELSE ""]

MayUse(b) ==
    IF b.layout \in Commands THEN b.layout = "netcat" \/ Trimmed(b.values.command) # ""
    ELSE /\ Trimmed(b.values.host) # "" /\ PortOf(b) # "bad"
         /\ b.layout = "shadowsocks" => b.values.encrypto # "" /\ b.values.password # ""

\* The URL constructor reads it.
Readable(url) ==
    \/ "command" \in DOMAIN url
    \/ /\ "host" \in DOMAIN url
       /\ url.host \notin {"", "v6", "[h:p]"} /\ url.port # "bad"
       /\ "odd" \notin {url.username, url.password, url.identity}

Cut == {"h/x", "h?x"}
\* The letters of a host of http are made small.
HostRead(url) == IF url.host \in Cut \cup {"u@h"} \/ (url.host = "H" /\ url.scheme = "http")
                 THEN "h" ELSE url.host
\* A port is a number, and http leaves out its own.
Number(port) == IF port = "0080" THEN "80" ELSE port
PortRead(url) ==
    IF url.host \in Cut \/ url.port = "" \/ (url.scheme = "http" /\ Number(url.port) = "80")
    THEN None ELSE Number(url.port)
\* The last "@" ends the credentials.
UsernameRead(url) ==
    CASE url.host # "u@h" \/ url.password # "" -> url.username
      [] url.host = "u@h" /\ url.password = "" /\ url.username = "" -> "u"
      [] OTHER -> "x@u%"
PasswordRead(url) == IF url.host = "u@h" /\ url.password # "" THEN "x@u%" ELSE url.password
IdentityRead(url) == IF url.host = "h?x" THEN "" ELSE url.identity

\* parseURL: the layout and the values found, or none.
ParseURL(url) ==
    {[layout |-> l,
      values |-> IF l \in Commands THEN [command |-> url.command]
                 ELSE [username |-> Decoded(UsernameRead(url)),
                       password |-> Decoded(PasswordRead(url)),
                       host |-> HostRead(url), port |-> PortRead(url),
                       identity |-> Decoded(IdentityRead(url)),
                       encrypto |-> Decoded(UsernameRead(url))]]
        : l \in {k \in LayoutsFor(url.scheme) : Readable(url)}}

-----------------------------------------------------------------------------
(* The dialog, and the row by hand.                                        *)

Typeable(field) ==
    CASE field = "host" -> {"", "h", "H", "v6", "blank", "h:p", "u@h"} \cup Cut
      [] field = "port" -> {"", "80", "0080", "22", "bad"}
      [] field = "encrypto" -> {"cipher", "other"} [] field = "command" -> {"", "jump", "blank"}
      [] OTHER -> {"", "plain", "odd", "bad%"}

Written(scheme, username, password, port) ==
    [scheme |-> scheme, username |-> username, password |-> password,
     host |-> "h", port |-> port, identity |-> ""]

\* What a row may hold that no builder has written: nothing, a name for a
\* scheme, no port, a malformed encoding, a field that the layout has not, a
\* cipher that it does not offer, a scheme it has no layout for.
HandWritten ==
    {NoURL, [scheme |-> "command", command |-> "jump"], Written("http", "bad%", "odd%", ""),
     Written("socks4", "plain", "plain", "80"), Written("ss", "plain", "", "80"),
     Written("tls", "", "", "80")}

\* What the constants are assumed to be: null is none of the texts.
UrlBuilderAssumption ==
    /\ MaxEdits \in Nat /\ None \notin {"", "[v6]", "x@u"}
    /\ \A l \in Layouts : \A f \in FieldsOf(l) :
         None # Default(l, f) /\ None \notin Typeable(f)

Init == row \in HandWritten /\ builder = None /\ edits = 0

TypeRow ==
    /\ builder = None /\ edits < MaxEdits
    /\ row' \in HandWritten /\ edits' = edits + 1
    /\ UNCHANGED builder

\* The fields of the URL of the row, or the defaults of the first layout.
Open ==
    /\ builder = None
    /\ LET found == ParseURL(row)
           l == IF found = {} THEN "http" ELSE (CHOOSE p \in found : TRUE).layout
           v == IF found = {} THEN <<>> ELSE (CHOOSE p \in found : TRUE).values
       IN  builder' = [layout |-> l, values |-> InitialValues(l, v)]
    /\ UNCHANGED <<row, edits>>

\* Another layout starts from its defaults.
StartsFrom(layout) == InitialValues(layout, <<>>)

SelectLayout ==
    /\ builder # None /\ edits < MaxEdits
    /\ \E l \in Layouts \ {builder.layout} : builder' = [layout |-> l, values |-> StartsFrom(l)]
    /\ edits' = edits + 1 /\ UNCHANGED row

Type ==
    /\ builder # None /\ edits < MaxEdits
    /\ \E f \in FieldsOf(builder.layout) : \E t \in Typeable(f) \ {builder.values[f]} :
         builder' = [builder EXCEPT !.values[f] = t]
    /\ edits' = edits + 1 /\ UNCHANGED row

\* The row takes the URL; Cancel, Escape and leaving the page keep the row.
Use ==
    /\ builder # None /\ MayUse(builder)
    /\ row' = BuildURL(builder) /\ builder' = None
    /\ UNCHANGED edits
Cancel == builder # None /\ builder' = None /\ UNCHANGED <<row, edits>>

Next == TypeRow \/ Open \/ SelectLayout \/ Type \/ Use \/ Cancel

Spec == Init /\ [][Next]_vars

-----------------------------------------------------------------------------
(* Properties.                                                             *)

\* Every variable keeps its type.
UrlBuilderTypeOK ==
    /\ row \in HandWritten \/ \E l \in Layouts : row.scheme = SchemeOf(l)
    /\ edits \in 0..MaxEdits
    /\ builder # None =>
         /\ builder.layout \in Layouts /\ DOMAIN builder.values = FieldsOf(builder.layout)
         /\ \A f \in DOMAIN builder.values : builder.values[f] # None

\* What is left of a builder when it is seen again: blanks are trimmed, a missing
\* port is the default, a port is a number.
Seen(b) ==
    [layout |-> b.layout,
     values |-> [f \in FieldsOf(b.layout) |->
        CASE f = "host" -> IF b.layout = "http" /\ b.values[f] = "H" THEN "h"
                           ELSE Bracketed(Trimmed(b.values[f]))
          [] f = "port" -> Number(PortOf(b))
          [] f = "command" -> Trimmed(b.values[f])
          [] OTHER -> b.values[f]]]

\* What the builder shows that is opened from the URL of a builder, if it can be read.
Reopened(b) == {[layout |-> p.layout, values |-> InitialValues(p.layout, p.values)] :
                  p \in ParseURL(BuildURL(b))}

\* A host that is one, and no more.
IsHost(text) == text \notin {"h:p", "[h:p]", "u@h"} \cup Cut

\* A URL that may be used is read back, by urlBuilder.ts itself, as the same layout
\* with the same fields, exactly when the host that was typed is one, which the
\* dialog does not ask for; whatever is read back may be used, and from then on it
\* stays as it is.  Nothing of one layout is carried into the URL of another.
BuiltReopens ==
    builder # None /\ MayUse(builder) =>
        /\ Reopened(builder) = {Seen(builder)} <=>
             (builder.layout \in Commands \/ IsHost(builder.values["host"]))
        /\ \A b \in Reopened(builder) :
             b.layout = builder.layout /\ MayUse(b) /\ Reopened(b) = {b}
=============================================================================
