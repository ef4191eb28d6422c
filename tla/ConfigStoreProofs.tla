------------------------ MODULE ConfigStoreProofs ------------------------
(***************************************************************************)
(* The configs service implements ConfigRegister, for any number of        *)
(* requests, operations, hand edits and crashes.                           *)
(***************************************************************************)
EXTENDS ConfigStore, SequenceTheorems, WellFoundedInduction, TLAPS

(* A set of indices that is not empty has a first one. *)
LEMMA FirstExists ==
    ASSUME NEW S \in SUBSET Nat, S # {}
    PROVE  First(S) \in S
<1> DEFINE R == {p \in Nat \X Nat : p[1] < p[2]}
<1>1. IsWellFoundedOn(R, Nat)
  BY NatLessThanWellFounded DEF OpToRel
<1>2. PICK i \in S : \A j \in S : <<j, i>> \notin R
  <2> HIDE DEF R
  <2> QED BY <1>1, WFMin
<1>3. \A j \in S : i <= j
  <2> SUFFICES ASSUME NEW j \in S PROVE i <= j OBVIOUS
  <2>1. <<j, i>> \notin R BY <1>2
  <2> QED BY <2>1
<1> QED
  BY <1>3 DEF First

(* What modify computes is again a config. *)
LEMMA ResultType ==
    ASSUME NEW o \in Operation, NEW c \in Config, ~Refuses(o, c)
    PROVE  Result(o, c) \in Config
<1>0. c.rules \in Seq(Rule) BY DEF Config
<1>1. CASE o.kind = "create"
  <2>1. o.rule \in Rule BY <1>1 DEF Operation
  <2>2. Append(c.rules, o.rule) \in Seq(Rule) BY <1>0, <2>1
  <2> QED BY <1>1, <2>2 DEF Result, Config
<1>2. CASE o.kind = "update"
  <2>1. Named(c, o.name) # {} BY <1>2 DEF Refuses
  <2>2. First(Named(c, o.name)) \in DOMAIN c.rules
    <3>1. DOMAIN c.rules \subseteq Nat BY <1>0
    <3>2. Named(c, o.name) \in SUBSET Nat BY <3>1 DEF Named
    <3>3. First(Named(c, o.name)) \in Named(c, o.name) BY <3>2, <2>1, FirstExists
    <3> QED BY <3>3 DEF Named
  <2>3. Replacement(o) \in Rule BY <1>2 DEF Operation, Replacement, Rule
  <2>4. [c.rules EXCEPT ![First(Named(c, o.name))] = Replacement(o)] \in Seq(Rule)
    BY <1>0, <2>2, <2>3, ExceptSeq
  <2> QED BY <1>2, <2>4 DEF Result, Config
<1>3. CASE o.kind = "delete"
  <2>1. Named(c, o.name) # {} BY <1>3 DEF Refuses
  <2>2. First(Named(c, o.name)) \in 1..Len(c.rules)
    <3>1. DOMAIN c.rules = 1..Len(c.rules) BY <1>0
    <3>2. Named(c, o.name) \in SUBSET Nat BY <3>1 DEF Named
    <3>3. First(Named(c, o.name)) \in Named(c, o.name) BY <3>2, <2>1, FirstExists
    <3> QED BY <3>1, <3>3 DEF Named
  <2>3. RemoveAt(c.rules, First(Named(c, o.name))) \in Seq(Rule)
    <3> DEFINE i == First(Named(c, o.name))
    <3>1. SubSeq(c.rules, 1, i - 1) \in Seq(Rule) BY <1>0, <2>2, SubSeqProperties
    <3>2. SubSeq(c.rules, i + 1, Len(c.rules)) \in Seq(Rule) BY <1>0, <2>2, SubSeqProperties
    <3> QED BY <3>1, <3>2, ConcatProperties DEF RemoveAt
  <2> QED BY <1>3, <2>3 DEF Result, Config
<1>4. CASE o.kind = "webUI" BY <1>4 DEF Result, Config, Operation
<1>5. CASE o.kind = "noProxy" BY <1>5 DEF Result, Config, Operation
<1>6. CASE o.kind = "replace" BY <1>6 DEF Result, Operation
<1> QED BY <1>1, <1>2, <1>3, <1>4, <1>5, <1>6 DEF Operation
-----------------------------------------------------------------------------
(* Types.                                                                  *)

\* What follows from the kinds of documents.
LEMMA Kinds ==
    /\ \A d \in Documents : Readable(d) => Parse(d) \in Config
    /\ CutShort \subseteq Documents
    /\ \A d \in Config : Readable(d) /\ Parse(d) = d /\ d \notin {Absent, Empty, Torn}
    /\ Empty \in Documents /\ Torn \in Documents /\ Default \in Documents
<1>1. [rules |-> <<>>, web |-> Off, noProxy |-> Nothing] \in Config
  BY EmptySeq DEF Config, ListenSettings
<1>2. CutShort \subseteq Documents
  <2>1. [Default EXCEPT !.noProxy = Nothing] \in Config
    BY OperationAssumption DEF Config
  <2>2. [Default EXCEPT !.noProxy = Nothing, !.rules = <<>>] \in Config
    BY OperationAssumption, EmptySeq DEF Config
  <2> QED BY <2>1, <2>2 DEF CutShort, Documents
<1> QED
  BY <1>1, <1>2, DocumentKinds, OperationAssumption DEF Readable, Parse, Documents

LEMMA InitType == StoreInit => StoreTypeOK
<1> SUFFICES ASSUME StoreInit PROVE StoreTypeOK
  OBVIOUS
<1>1. file \in Documents BY Kinds DEF StoreInit, Documents
<1>2. Default \in Config BY OperationAssumption
<1>3. applied \in 0..version /\ edits \in 0..MaxEdits /\ crashes \in 0..MaxCrashes
  BY StoreAssumption DEF StoreInit
<1>4. conf \in [Requests -> Config] BY <1>2 DEF StoreInit
<1>5. asked \in [Requests -> Operations \cup {None}] BY DEF StoreInit
<1>6. /\ version \in Nat \ {0} /\ phase \in {"start", "create", "up"}
      /\ written \in [Requests -> Nat] /\ raced \subseteq Requests
      /\ lock = None /\ worker = None
  BY DEF StoreInit
<1>7. /\ pc \in [Requests -> {"idle"}] /\ temp \in [Requests -> {"none"}]
      /\ outcome \in [Requests -> {"none"}]
  BY DEF StoreInit
<1>8. invalid \in BOOLEAN BY DEF StoreInit
<1> QED
  BY <1>1, <1>3, <1>4, <1>5, <1>6, <1>7, <1>8 DEF StoreTypeOK

-----------------------------------------------------------------------------
(* The inductive invariant.                                                *)

\* The handler of a request and the worker agree on where they stand.
Standing ==
    /\ phase = "create" => file = Empty
    /\ phase # "up" => worker = None /\ \A r \in Requests : pc[r] \in {"idle", "done"}
    /\ \A r \in Requests :
          /\ asked[r] = None <=> pc[r] = "idle"
          /\ worker = r <=> pc[r] = "reloading"
          /\ pc[r] \notin {"idle", "queued", "done"} => lock = r
          /\ outcome[r] = "none" <=> pc[r] # "done"

\* What a request is about to write follows from what it asks and, unless it
\* was raced, from what the file holds.
Prepared ==
    \A r \in Requests :
       /\ pc[r] = "loaded" =>
             /\ Modifies(asked[r])
             /\ r \notin raced => Readable(file) /\ conf[r] = Parse(file)
       /\ pc[r] \in {"save", "fill", "rename"} =>
             /\ Valid(conf[r])
             /\ ~Modifies(asked[r]) => conf[r] = asked[r].conf
             /\ Modifies(asked[r]) /\ r \notin raced =>
                   /\ Readable(file)
                   /\ ~Refuses(asked[r], Parse(file))
                   /\ conf[r] = Result(asked[r], Parse(file))
       /\ pc[r] = "rename" => temp[r] = "whole"
       /\ temp[r] # "none" => pc[r] \in {"fill", "rename"} \/ outcome[r] = "lost"

\* A reload reads the file after the request it belongs to has written it.
Reloaded ==
    \A r \in Requests :
       /\ pc[r] = "saved" => written[r] <= version
       /\ pc[r] = "reloading" /\ ~invalid => written[r] <= applied

StoreInv == StoreTypeOK /\ Standing /\ Prepared /\ Reloaded

LEMMA StepType == StoreTypeOK /\ Standing /\ [Next]_vars => StoreTypeOK'
<1> SUFFICES ASSUME StoreTypeOK, Standing, [Next]_vars PROVE StoreTypeOK'
  OBVIOUS
<1> USE Kinds, OperationAssumption, StoreAssumption DEF StoreTypeOK, service, reloading
<1>1. CASE InitStat BY <1>1 DEF InitStat
<1>2. CASE InitWrite BY <1>2 DEF InitWrite
<1>3. CASE Crash
  <2>1. file' \in Documents /\ version' \in Nat \ {0} BY <1>3 DEF Crash
  <2>2. pc' \in [Requests -> {"idle", "done"}] BY <1>3 DEF Crash
  <2>3. outcome' \in [Requests -> {"none", "ok", "saved", "refused", "lost"}]
    BY <1>3 DEF Crash
  <2>4. applied' \in 0..version' /\ crashes' \in 0..MaxCrashes BY <1>3, <2>1 DEF Crash
  <2> QED BY <1>3, <2>1, <2>2, <2>3, <2>4 DEF Crash
<1>4. ASSUME NEW r \in Requests, Begin(r) PROVE StoreTypeOK' BY <1>4 DEF Begin
<1>5. ASSUME NEW r \in Requests, Enter(r) PROVE StoreTypeOK' BY <1>5 DEF Enter
<1>6. ASSUME NEW r \in Requests, Load(r) PROVE StoreTypeOK' BY <1>6 DEF Load, Refuse
<1>7. ASSUME NEW r \in Requests, Modify(r) PROVE StoreTypeOK'
  <2>1. asked[r] \in Operation BY <1>7 DEF Modify, Standing
  <2>2. ~Refuses(asked[r], conf[r]) => Result(asked[r], conf[r]) \in Config
    BY <2>1, ResultType
  <2> QED BY <1>7, <2>2 DEF Modify, Refuse
<1>8. ASSUME NEW r \in Requests, Replace(r) PROVE StoreTypeOK'
  <2>1. asked[r] \in Operation /\ ~Modifies(asked[r]) BY <1>8 DEF Replace, Standing
  <2>2. asked[r].conf \in Config BY <2>1 DEF Operation, Modifies
  <2> QED BY <1>8, <2>2 DEF Replace, Refuse
<1>9. ASSUME NEW r \in Requests, CreateTemp(r) PROVE StoreTypeOK' BY <1>9 DEF CreateTemp
<1>10. ASSUME NEW r \in Requests, FillTemp(r) PROVE StoreTypeOK' BY <1>10 DEF FillTemp
<1>11. ASSUME NEW r \in Requests, Rename(r) PROVE StoreTypeOK' BY <1>11 DEF Rename, Documents
<1>12. ASSUME NEW r \in Requests, SaveFails(r) PROVE StoreTypeOK' BY <1>12 DEF SaveFails, Refuse
<1>13. ASSUME NEW w \in Requests \cup {Menu}, ReloadLoads(w) PROVE StoreTypeOK'
  BY <1>13 DEF ReloadLoads
<1>14. ASSUME NEW w \in Requests \cup {Menu}, ReloadEnds(w) PROVE StoreTypeOK'
  BY <1>14 DEF ReloadEnds
<1>15. ASSUME NEW d \in Edits, Edit(d) PROVE StoreTypeOK' BY <1>15 DEF Edit
<1>16. CASE UNCHANGED vars BY <1>16 DEF vars
<1> QED
  BY <1>1, <1>2, <1>3, <1>4, <1>5, <1>6, <1>7, <1>8, <1>9, <1>10, <1>11, <1>12, <1>13,
     <1>14, <1>15, <1>16 DEF Next, Handle

LEMMA StepStanding == StoreTypeOK /\ Standing /\ [Next]_vars => Standing'
<1> SUFFICES ASSUME StoreTypeOK, Standing, [Next]_vars PROVE Standing'
  OBVIOUS
<1> USE OperationAssumption, StoreAssumption DEF StoreTypeOK, Standing, service, reloading
<1>1. CASE InitStat BY <1>1 DEF InitStat
<1>2. CASE InitWrite BY <1>2 DEF InitWrite
<1>3. CASE Crash BY <1>3 DEF Crash
<1>4. ASSUME NEW r \in Requests, Begin(r) PROVE Standing' BY <1>4 DEF Begin
<1>5. ASSUME NEW r \in Requests, Enter(r) PROVE Standing' BY <1>5 DEF Enter
<1>6. ASSUME NEW r \in Requests, Load(r) PROVE Standing' BY <1>6 DEF Load, Refuse
<1>7. ASSUME NEW r \in Requests, Modify(r) PROVE Standing' BY <1>7 DEF Modify, Refuse
<1>8. ASSUME NEW r \in Requests, Replace(r) PROVE Standing' BY <1>8 DEF Replace, Refuse
<1>9. ASSUME NEW r \in Requests, CreateTemp(r) PROVE Standing' BY <1>9 DEF CreateTemp
<1>10. ASSUME NEW r \in Requests, FillTemp(r) PROVE Standing' BY <1>10 DEF FillTemp
<1>11. ASSUME NEW r \in Requests, Rename(r) PROVE Standing' BY <1>11 DEF Rename
<1>12. ASSUME NEW r \in Requests, SaveFails(r) PROVE Standing' BY <1>12 DEF SaveFails, Refuse
<1>13. ASSUME NEW w \in Requests \cup {Menu}, ReloadLoads(w) PROVE Standing'
  BY <1>13 DEF ReloadLoads
<1>14. ASSUME NEW w \in Requests \cup {Menu}, ReloadEnds(w) PROVE Standing'
  BY <1>14 DEF ReloadEnds
<1>15. ASSUME NEW d \in Edits, Edit(d) PROVE Standing' BY <1>15 DEF Edit
<1>16. CASE UNCHANGED vars BY <1>16 DEF vars
<1> QED
  BY <1>1, <1>2, <1>3, <1>4, <1>5, <1>6, <1>7, <1>8, <1>9, <1>10, <1>11, <1>12, <1>13,
     <1>14, <1>15, <1>16 DEF Next, Handle

LEMMA StepPrepared == StoreInv /\ [Next]_vars => Prepared'
<1> SUFFICES ASSUME StoreTypeOK, Standing, Prepared, [Next]_vars PROVE Prepared'
  BY DEF StoreInv
<1> USE DEF StoreTypeOK, Standing, Prepared, service, reloading
<1>1. CASE InitStat BY <1>1 DEF InitStat
<1>2. CASE InitWrite BY <1>2 DEF InitWrite
<1>3. CASE Crash BY <1>3 DEF Crash
<1>4. ASSUME NEW r \in Requests, Begin(r) PROVE Prepared' BY <1>4 DEF Begin
<1>5. ASSUME NEW r \in Requests, Enter(r) PROVE Prepared' BY <1>5 DEF Enter
<1>6. ASSUME NEW r \in Requests, Load(r) PROVE Prepared' BY <1>6 DEF Load, Refuse
<1>7. ASSUME NEW r \in Requests, Modify(r) PROVE Prepared' BY <1>7 DEF Modify, Refuse
<1>8. ASSUME NEW r \in Requests, Replace(r) PROVE Prepared' BY <1>8 DEF Replace, Refuse
<1>9. ASSUME NEW r \in Requests, CreateTemp(r) PROVE Prepared' BY <1>9 DEF CreateTemp
<1>10. ASSUME NEW r \in Requests, FillTemp(r) PROVE Prepared' BY <1>10 DEF FillTemp
<1>11. ASSUME NEW r \in Requests, Rename(r) PROVE Prepared' BY <1>11 DEF Rename
<1>12. ASSUME NEW r \in Requests, SaveFails(r) PROVE Prepared' BY <1>12 DEF SaveFails, Refuse
<1>13. ASSUME NEW w \in Requests \cup {Menu}, ReloadLoads(w) PROVE Prepared'
  BY <1>13 DEF ReloadLoads
<1>14. ASSUME NEW w \in Requests \cup {Menu}, ReloadEnds(w) PROVE Prepared'
  BY <1>14 DEF ReloadEnds
<1>15. ASSUME NEW d \in Edits, Edit(d) PROVE Prepared' BY <1>15 DEF Edit
<1>16. CASE UNCHANGED vars BY <1>16 DEF vars
<1> QED
  BY <1>1, <1>2, <1>3, <1>4, <1>5, <1>6, <1>7, <1>8, <1>9, <1>10, <1>11, <1>12, <1>13,
     <1>14, <1>15, <1>16 DEF Next, Handle

LEMMA StepReloaded == StoreInv /\ [Next]_vars => Reloaded'
<1> SUFFICES ASSUME StoreTypeOK, Standing, Reloaded, [Next]_vars PROVE Reloaded'
  BY DEF StoreInv
<1> USE StoreAssumption DEF StoreTypeOK, Standing, Reloaded, service, reloading
<1>1. CASE InitStat BY <1>1 DEF InitStat
<1>2. CASE InitWrite BY <1>2 DEF InitWrite
<1>3. CASE Crash BY <1>3 DEF Crash
<1>4. ASSUME NEW r \in Requests, Begin(r) PROVE Reloaded' BY <1>4 DEF Begin
<1>5. ASSUME NEW r \in Requests, Enter(r) PROVE Reloaded' BY <1>5 DEF Enter
<1>6. ASSUME NEW r \in Requests, Load(r) PROVE Reloaded' BY <1>6 DEF Load, Refuse
<1>7. ASSUME NEW r \in Requests, Modify(r) PROVE Reloaded' BY <1>7 DEF Modify, Refuse
<1>8. ASSUME NEW r \in Requests, Replace(r) PROVE Reloaded' BY <1>8 DEF Replace, Refuse
<1>9. ASSUME NEW r \in Requests, CreateTemp(r) PROVE Reloaded' BY <1>9 DEF CreateTemp
<1>10. ASSUME NEW r \in Requests, FillTemp(r) PROVE Reloaded' BY <1>10 DEF FillTemp
<1>11. ASSUME NEW r \in Requests, Rename(r) PROVE Reloaded' BY <1>11 DEF Rename
<1>12. ASSUME NEW r \in Requests, SaveFails(r) PROVE Reloaded' BY <1>12 DEF SaveFails, Refuse
<1>13. ASSUME NEW w \in Requests \cup {Menu}, ReloadLoads(w) PROVE Reloaded'
  BY <1>13 DEF ReloadLoads
<1>14. ASSUME NEW w \in Requests \cup {Menu}, ReloadEnds(w) PROVE Reloaded'
  BY <1>14 DEF ReloadEnds
<1>15. ASSUME NEW d \in Edits, Edit(d) PROVE Reloaded' BY <1>15 DEF Edit
<1>16. CASE UNCHANGED vars BY <1>16 DEF vars
<1> QED
  BY <1>1, <1>2, <1>3, <1>4, <1>5, <1>6, <1>7, <1>8, <1>9, <1>10, <1>11, <1>12, <1>13,
     <1>14, <1>15, <1>16 DEF Next, Handle

LEMMA StoreInvariant == Spec => []StoreInv
<1>1. StoreInit => StoreInv
  <2>1. StoreInit => Standing /\ Prepared /\ Reloaded
    BY StoreAssumption DEF StoreInit, Standing, Prepared, Reloaded
  <2> QED BY <2>1, InitType DEF StoreInv
<1>2. StoreInv /\ [Next]_vars => StoreInv'
  BY StepType, StepStanding, StepPrepared, StepReloaded DEF StoreInv
<1> QED BY <1>1, <1>2, PTL DEF Spec

-----------------------------------------------------------------------------
(* The variables of the service keep their types. *)
THEOREM StoreTypeInvariant == Spec => []StoreTypeOK
<1>1. StoreInv => StoreTypeOK BY DEF StoreInv
<1> QED BY <1>1, StoreInvariant, PTL

\* A temporary file stays behind only when the process ended while it was
\* being written (store.go:82).
THEOREM NoLitterTheorem == Spec => []NoLitter
<1>1. StoreInv => NoLitter BY DEF StoreInv, Prepared, NoLitter
<1> QED BY <1>1, StoreInvariant, PTL

\* A call is answered ok only after the worker has read the file at the
\* version it wrote, or at a later one (configs.go:57-62, 82).
THEOREM AppliedBeforeOkTheorem == Spec => AppliedBeforeOk
<1>1. ASSUME StoreInv, [Next]_vars, NEW r \in Requests, outcome[r] # "ok", outcome'[r] = "ok"
      PROVE  applied' >= written[r]
  <2> USE <1>1, StoreAssumption DEF StoreInv, StoreTypeOK, service, reloading
  <2>1. PICK w \in Requests \cup {Menu} : ReloadEnds(w)
    BY DEF Next, Handle, InitStat, InitWrite, Crash, Begin, Enter, Load, Modify, Replace,
           CreateTemp, FillTemp, Rename, SaveFails, Refuse, ReloadLoads, Edit, vars
  <2>2. w = r /\ ~invalid BY <2>1 DEF ReloadEnds
  <2>3. pc[r] = "reloading" BY <2>1, <2>2 DEF ReloadEnds, Standing
  <2>4. written[r] <= applied BY <2>2, <2>3 DEF Reloaded
  <2> QED BY <2>1, <2>4 DEF ReloadEnds
<1>2. StoreInv /\ [Next]_vars =>
        [\A r \in Requests :
           outcome[r] # "ok" /\ outcome'[r] = "ok" => applied' >= written[r]]_vars
  BY <1>1
<1> QED BY <1>2, StoreInvariant, PTL DEF Spec, AppliedBeforeOk

\* SaveRaw replaces the file by a whole config or not at all; only Init can
\* be caught with half a file (store.go:74-100).
THEOREM SavesAreWholeTheorem == Spec => SavesAreWhole
<1>1. ASSUME StoreInv, [Next]_vars, file' # file, edits' = edits, phase = "up"
      PROVE  file' \in Config
  <2> USE <1>1, StoreAssumption DEF StoreInv, StoreTypeOK, service, reloading
  <2>1. PICK r \in Requests : Rename(r)
    BY DEF Next, Handle, InitStat, InitWrite, Crash, Begin, Enter, Load, Modify, Replace,
           CreateTemp, FillTemp, SaveFails, Refuse, ReloadLoads, ReloadEnds, Edit, vars
  <2> QED BY <2>1 DEF Rename, Prepared
<1>2. StoreInv /\ [Next]_vars =>
        [file' # file /\ edits' = edits /\ phase = "up" => file' \in Config]_vars
  BY <1>1
<1> QED BY <1>2, StoreInvariant, PTL DEF Spec, SavesAreWhole

\* A process that has started has found a file with something in it, or written
\* one: an empty file, or one cut short before its first byte, is written again.
\* So files neither go missing nor pile up (store.go:39-48, 82).
THEOREM FilesAreKeptTheorem == Spec => FilesAreKept
<1>1. ASSUME StoreInv, [Next]_vars, phase # "up", phase' = "up"
      PROVE  file' \notin {Absent, Empty}
  <2> USE <1>1 DEF StoreInv, StoreTypeOK, service, reloading
  <2>1. InitStat \/ InitWrite
    BY DEF Next, Handle, Crash, Begin, Enter, Load, Modify, Replace, CreateTemp, FillTemp,
           Rename, SaveFails, Refuse, ReloadLoads, ReloadEnds, Edit, vars
  <2>2. CASE InitStat BY <2>2 DEF InitStat
  <2>3. CASE InitWrite BY <2>3, DocumentKinds, OperationAssumption DEF InitWrite
  <2> QED BY <2>1, <2>2, <2>3
<1>2. StoreInv /\ [Next]_vars =>
        [phase # "up" /\ phase' = "up" => file' \notin {Absent, Empty}]_vars
  BY <1>1
<1>3. Spec => StartsWithAFile
  BY <1>2, StoreInvariant, PTL DEF Spec, StartsWithAFile
<1> QED BY <1>3, NoLitterTheorem, PTL DEF FilesAreKept

-----------------------------------------------------------------------------
(* Refinement.                                                             *)

\* Both modules read documents and operations the same way.
LEMMA SameDocuments ==
    /\ Register!CutShort = CutShort
    /\ Register!Config = Config
    /\ \A d : Register!Readable(d) = Readable(d) /\ Register!Parse(d) = Parse(d)
    /\ \A c : Register!Valid(c) = Valid(c)
    /\ \A o : Register!Modifies(o) = Modifies(o) /\ Register!BadArgument(o) = BadArgument(o)
    /\ \A o, c : Register!Refuses(o, c) = Refuses(o, c)
    /\ \A o, c : Register!Result(o, c) = Result(o, c)
<1>1. Register!CutShort = CutShort BY DEF Register!CutShort, CutShort
<1>2. Register!Config = Config
  BY DEF Register!Config, Config, Register!Rule, Rule, Register!ListenSettings, ListenSettings
<1>3. \A d : Register!Readable(d) = Readable(d) /\ Register!Parse(d) = Parse(d)
  BY DEF Register!Readable, Readable, Register!Parse, Parse
<1>4. \A c : Register!Valid(c) = Valid(c) BY DEF Register!Valid, Valid
<1>5. \A o : Register!Modifies(o) = Modifies(o) /\ Register!BadArgument(o) = BadArgument(o)
  BY DEF Register!Modifies, Modifies, Register!BadArgument, BadArgument
<1>6. /\ \A c, n : Register!Named(c, n) = Named(c, n)
      /\ \A o : Register!Replacement(o) = Replacement(o)
      /\ \A S : Register!First(S) = First(S)
  BY DEF Register!Named, Named, Register!Replacement, Replacement, Register!First, First
<1>7. \A o, c : Register!Refuses(o, c) = Refuses(o, c)
  BY <1>6 DEF Register!Refuses, Refuses
<1>8. \A o, c : Register!Result(o, c) = Result(o, c)
  BY <1>6 DEF Register!Result, Result, Register!RemoveAt, RemoveAt
<1> QED BY <1>1, <1>2, <1>3, <1>4, <1>5, <1>7, <1>8

\* An error is a refusal of the register.
LEMMA StepRefuses ==
    ASSUME StoreInv, NEW r \in Requests, pc[r] \in {"locked", "loaded", "save", "fill", "rename"},
           Refuse(r), UNCHANGED conf
    PROVE  Register!Refuse(r)
<1> USE DEF StoreInv, StoreTypeOK, Standing, reloading
<1>1. Register!Open(r) BY DEF Register!Open, Status
<1>2. Status' = [Status EXCEPT ![r] = "refused"] BY DEF Status, Refuse
<1> QED BY <1>1, <1>2 DEF Register!Refuse, Refuse

LEMMA StepRefines ==
    ASSUME StoreInv, StoreInv', [Next]_vars
    PROVE  [Register!Next]_(Register!registerVars)
<1> USE DEF StoreInv, StoreTypeOK, service, reloading
<1>1. CASE InitStat
  <2>1. Status' = Status BY <1>1 DEF InitStat, Status
  <2>2. CASE file \notin {Absent, Empty}
    BY <1>1, <2>1, <2>2 DEF InitStat, Register!registerVars
  <2>3. CASE file \in {Absent, Empty}
    <3>1. Register!Seed BY <1>1, <2>1, <2>3, SameDocuments DEF InitStat, Register!Seed, CutShort
    <3> QED BY <3>1 DEF Register!Next
  <2> QED BY <2>2, <2>3
<1>2. CASE InitWrite
  <2>1. Status' = Status BY <1>2 DEF InitWrite, Status
  <2>2. Register!Seed BY <1>2, <2>1 DEF InitWrite, Register!Seed, Standing
  <2> QED BY <2>2 DEF Register!Next
<1>3. CASE Crash
  <2>1. CASE phase = "create"
    <3>1. \A r \in Requests : Status'[r] = Status[r]
      BY <1>3, <2>1 DEF Crash, Status, Standing
    <3>2. Status' = Status BY <3>1 DEF Status
    <3>3. Register!Seed BY <1>3, <2>1, <3>2, SameDocuments DEF Crash, Register!Seed, Standing
    <3> QED BY <3>3 DEF Register!Next
  <2>2. CASE phase # "create"
    <3>1. ASSUME NEW r \in Requests
          PROVE  Status'[r] = IF Register!Open(r) \/ Status[r] = "written"
                              THEN "lost" ELSE Status[r]
      BY <1>3 DEF Crash, Status, Standing, Register!Open
    <3>2. Status' = [r \in Requests |-> IF Register!Open(r) \/ Status[r] = "written"
                                        THEN "lost" ELSE Status[r]]
      BY <3>1 DEF Status
    <3>3. Register!End BY <1>3, <2>2, <3>2 DEF Crash, Register!End
    <3> QED BY <3>3 DEF Register!Next
  <2> QED BY <2>1, <2>2
<1>4. ASSUME NEW r \in Requests, Begin(r) PROVE Register!Next
  <2>1. PICK o \in Operations :
           /\ asked' = [asked EXCEPT ![r] = o]
           /\ pc' = [pc EXCEPT ![r] = IF BadArgument(o) THEN "done" ELSE "queued"]
           /\ outcome' = IF BadArgument(o) THEN [outcome EXCEPT ![r] = "refused"] ELSE outcome
    BY <1>4 DEF Begin
  <2>2. Status' = IF BadArgument(o) THEN [Status EXCEPT ![r] = "refused"] ELSE Status
    BY <1>4, <2>1 DEF Begin, Status
  <2>3. asked[r] = None BY <1>4 DEF Begin, Standing
  <2>4. Register!Ask(r) BY <1>4, <2>1, <2>2, <2>3, SameDocuments DEF Begin, Register!Ask
  <2> QED BY <2>4 DEF Register!Next
<1>5. ASSUME NEW r \in Requests,
             Enter(r) \/ CreateTemp(r) \/ FillTemp(r) \/ ReloadLoads(r)
      PROVE  UNCHANGED Register!registerVars
  <2>1. Status' = Status
    BY <1>5 DEF Enter, CreateTemp, FillTemp, ReloadLoads, Status
  <2> QED
    BY <1>5, <2>1 DEF Enter, CreateTemp, FillTemp, ReloadLoads, Register!registerVars
<1>6. ASSUME NEW r \in Requests, Load(r) \/ Modify(r) \/ Replace(r)
      PROVE  Register!Next \/ UNCHANGED Register!registerVars
  <2>1. CASE Refuse(r) /\ UNCHANGED conf
    BY <1>6, <2>1, StepRefuses DEF Load, Modify, Replace, Register!Next
  <2>2. CASE ~(Refuse(r) /\ UNCHANGED conf)
    <3>1. Status' = Status /\ UNCHANGED <<file, asked, raced>>
      BY <1>6, <2>2 DEF Load, Modify, Replace, Status
    <3> QED BY <3>1 DEF Register!registerVars
  <2> QED BY <2>1, <2>2
<1>7. ASSUME NEW r \in Requests, Rename(r) PROVE Register!Next
  <2>1. Register!Open(r) BY <1>7 DEF Rename, Register!Open, Status, Standing
  <2>2. Status' = [Status EXCEPT ![r] = "written"] BY <1>7 DEF Rename, Status
  <2>3. file' = conf[r] /\ conf[r] \in Config /\ Valid(conf[r])
    BY <1>7 DEF Rename, Prepared
  <2>4. \/ ~Modifies(asked[r]) /\ file' = asked[r].conf
        \/ /\ Modifies(asked[r]) /\ Readable(file) /\ ~Refuses(asked[r], Parse(file))
           /\ file' = Result(asked[r], Parse(file))
        \/ Modifies(asked[r]) /\ r \in raced
    BY <1>7, <2>3 DEF Rename, Prepared
  <2>5. Register!Write(r)
    BY <1>7, <2>1, <2>2, <2>3, <2>4, SameDocuments DEF Rename, Register!Write
  <2> QED BY <2>5 DEF Register!Next
<1>8. ASSUME NEW r \in Requests, SaveFails(r) PROVE Register!Next
  <2>1. UNCHANGED conf BY <1>8 DEF SaveFails, Refuse
  <2> QED BY <1>8, <2>1, StepRefuses DEF SaveFails, Register!Next
<1>9. ASSUME NEW w \in Requests \cup {Menu}, ReloadEnds(w)
      PROVE  Register!Next \/ UNCHANGED Register!registerVars
  <2>1. CASE w = Menu
    <3>1. Status' = Status BY <1>9, <2>1 DEF ReloadEnds, Status
    <3> QED BY <1>9, <3>1 DEF ReloadEnds, Register!registerVars
  <2>2. CASE w # Menu
    <3>1. w \in Requests /\ pc[w] = "reloading" BY <1>9, <2>2 DEF ReloadEnds, Standing
    <3>2. PICK answer \in {"ok", "saved"} : outcome' = [outcome EXCEPT ![w] = answer]
      BY <1>9, <2>2 DEF ReloadEnds
    <3>3. Status[w] = "written" /\ Status' = [Status EXCEPT ![w] = answer]
      <4>1. pc' = [pc EXCEPT ![w] = "done"] BY <1>9, <2>2 DEF ReloadEnds
      <4>2. Status[w] = "written" BY <3>1 DEF Status
      <4>3. \A r \in Requests : Status'[r] = [Status EXCEPT ![w] = answer][r]
        BY <3>1, <3>2, <4>1 DEF Status
      <4>4. Status' = [Status EXCEPT ![w] = answer] BY <4>3 DEF Status
      <4> QED BY <4>2, <4>4
    <3>4. UNCHANGED <<file, asked, raced>> BY <1>9 DEF ReloadEnds
    <3>5. Register!Answer(w) BY <3>2, <3>3, <3>4 DEF Register!Answer
    <3> QED BY <3>1, <3>5 DEF Register!Next
  <2> QED BY <2>1, <2>2
<1>10. ASSUME ReloadLoads(Menu) PROVE UNCHANGED Register!registerVars
  BY <1>10 DEF ReloadLoads, Status, Register!registerVars
<1>11. ASSUME NEW d \in Edits, Edit(d) PROVE Register!Next
  <2>1. Status' = Status BY <1>11 DEF Edit, Status
  <2>2. \A r \in raced' \ raced : Register!Open(r)
    BY <1>11 DEF Edit, Register!Open, Status, Standing
  <2>3. Register!Edit BY <1>11, <2>1, <2>2 DEF Edit, Register!Edit
  <2> QED BY <2>3 DEF Register!Next
<1>12. CASE UNCHANGED vars BY <1>12 DEF vars, Status, Register!registerVars
<1> QED
  BY <1>1, <1>2, <1>3, <1>4, <1>5, <1>6, <1>7, <1>8, <1>9, <1>10, <1>11, <1>12
  DEF Next, Handle

\* The service implements the register with atomic calls that ConfigRegister
\* is, whatever is asked, edited by hand or cut short (configs.go:53-98,
\* 254-272, store.go:39-100).
THEOREM RegisterTheorem == Spec => ImplementsRegister
<1>1. StoreInit => Register!Init
  BY DEF StoreInit, Register!Init, Status
<1>2. StoreInv /\ StoreInv' /\ [Next]_vars => [Register!Next]_(Register!registerVars)
  BY StepRefines
<1> QED BY <1>1, <1>2, StoreInvariant, PTL DEF Spec, Register!Spec, ImplementsRegister
=============================================================================
