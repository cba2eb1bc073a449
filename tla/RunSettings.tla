------------------------------ MODULE RunSettings ------------------------------
(***************************************************************************)
(* What a run is sent with: the base URL, the values of the channel        *)
(* headers, the collection variables and the additional headers.  Every    *)
(* scenario has its own in the database and in the list; the browser has   *)
(* defaults that the run dialogs share.                                    *)
(*                                                                         *)
(* A configuration is normalised wherever it is read: header variables     *)
(* that are missing get the values of the platform, an old configuration   *)
(* that has them among the collection variables is split, a literal in a   *)
(* header that belongs to the channel becomes the variable.                *)
(***************************************************************************)
EXTENDS Naturals, Sequences, SequencesExt

CONSTANTS
  Scenario,      \* scenarios of the collection
  First,         \* the first of them
  Stored,        \* configurations that may be in the database
  Plain, Srvc, TxDt, Staff,  \* keys of the channel; Srvc has no value of the platform
  Custom,        \* names of variables and headers of one's own
  ContentType,   \* the header every request has
  Typed,         \* values that are typed
  Std,           \* a value of the platform
  Legacy,        \* the staff of an older platform
  Token,         \* {{name}}
  Url,           \* base URLs
  Blank, None,
  Kinds,         \* the dialogs that are opened
  MaxEdits, MaxDay

VARIABLES
  day,     \* today
  db,      \* db[s]: what the database has for a scenario, or None
  item,    \* item[s]: what the list shows for a scenario
  shared,  \* finix.executionPostmanDefaults.v1, or None
  dialog,  \* the dialog that is open, or None
  sent,    \* the last requests: what was typed, shown and used
  own,     \* own[s]: the channel values its authors gave a scenario
  decl,    \* decl[s]: the collection variables its authors declared
  edits    \* edits so far

vars == <<day, db, item, shared, dialog, sent, own, decl, edits>>

HeaderKey == {Plain, Srvc, TxDt, Staff}
NoVars == [k \in {} |-> Blank]
Named(rows, k) == SelectSeq(rows, LAMBDA r : r.key = k)
Keys(rows) == {r.key : r \in ToSet(rows)}
Row(k, v) == [key |-> k, val |-> v, gen |-> FALSE]
DefaultHeaders == <<Row(ContentType, Std)>>

(* BXM_PLATFORM_VAR_DEFAULTS, with the date of today.                      *)
Default(k) == IF k = TxDt THEN day ELSE IF k = Srvc THEN Blank ELSE Std

(* ensureBxmHeaderVars                                                     *)
EnsureVars(hv) ==
  [k \in HeaderKey |->
     IF k \notin DOMAIN hv \/ (k = TxDt /\ hv[k] = Blank) \/ (k = Staff /\ hv[k] = Legacy)
     THEN Default(k) ELSE hv[k]]

(* dedupeStartVars: the first of a name.                                   *)
FirstOf(rows) ==
  FoldLeft(LAMBDA out, r : IF r.key = Blank \/ r.key \in Keys(out) THEN out ELSE Append(out, r),
           <<>>, rows)

(* An old configuration: no header variables, but start variables with     *)
(* their names.                                                            *)
Flat(c) == c.hv = NoVars /\ Keys(c.sv) \cap HeaderKey # {}

(* splitLegacyFlatStartVars: the last of a name.                           *)
SplitVars(rows) ==
  EnsureVars([k \in Keys(rows) \cap HeaderKey |-> Last(Named(rows, k)).val])

Literals(rows, k) == SelectSeq(Named(rows, k), LAMBDA r : r.val \notin {Blank, Token})

WithContentType(rows) ==
  IF ContentType \in Keys(rows) THEN rows ELSE DefaultHeaders \o rows

(* ensureDefaultHeaders: a date among the headers is the one of today.     *)
SomeHeaders(rows) ==
  IF rows = <<>> THEN DefaultHeaders
  ELSE [i \in DOMAIN rows |-> IF rows[i].key = TxDt THEN Row(TxDt, day) ELSE rows[i]]

(* normalizePostmanConfigWithMeta                                          *)
Normal(c) ==
  LET hv == IF Flat(c) THEN SplitVars(c.sv) ELSE EnsureVars(c.hv)
  IN [c EXCEPT
        !.hv = EnsureVars([k \in HeaderKey |-> IF Literals(c.dh, k) = <<>> THEN hv[k]
                                               ELSE Last(Literals(c.dh, k)).val]),
        !.sv = FirstOf(IF Flat(c) THEN SelectSeq(c.sv, LAMBDA r : r.key \notin HeaderKey)
                                  ELSE c.sv),
        !.dh = WithContentType(SomeHeaders(SelectSeq(c.dh, LAMBDA r : r.key \notin HeaderKey)))]

Empty == [base |-> Blank, hv |-> EnsureVars(NoVars), sv |-> <<>>, dh |-> DefaultHeaders]

(* migrateLegacyPostmanHeaders: rows of an older template are given up.    *)
Migrated(rows) ==
  IF \E r \in ToSet(rows) : r.key \in HeaderKey \ {Srvc} /\ r.val = Token
  THEN DefaultHeaders ELSE rows

Ensure(c) == Normal([c EXCEPT !.dh = Migrated(SomeHeaders(c.dh))])

(* postmanConfigFromApi, postmanConfigToApi                                *)
FromApi(r) == IF r = None THEN Empty ELSE Normal([r EXCEPT !.dh = SomeHeaders(r.dh)])
ToApi(c) ==
  [Normal(c) EXCEPT
     !.sv = [i \in DOMAIN @ |-> IF @[i].gen THEN [@[i] EXCEPT !.val = Blank] ELSE @[i]],
     !.dh = SelectSeq(@, LAMBDA r : r.key # Blank)]

(* toExecutionDefaults                                                     *)
ToDefaults(c) == Ensure([c EXCEPT !.sv = <<>>])
LoadShared == IF shared = None THEN Empty ELSE ToDefaults(Ensure(shared))

(* mergeWithExecutionDefaults                                              *)
Merge(c) ==
  LET s == Ensure(c)
      d == LoadShared
  IN Normal([base |-> IF s.base # Blank THEN s.base ELSE d.base,
             hv |-> [k \in HeaderKey |-> IF s.hv[k] # Blank THEN s.hv[k] ELSE d.hv[k]],
             sv |-> s.sv,
             dh |-> s.dh])

(* mergeExportPostmanConfig, pickInitialExportBaseUrl                      *)
WithBase(c, base) == [Ensure(c) EXCEPT !.base = IF base = Blank THEN @ ELSE base]
FirstBase == IF item[First].base # Blank THEN item[First].base
             ELSE IF \E s \in Scenario : item[s].base # Blank
                  THEN item[CHOOSE s \in Scenario : item[s].base # Blank].base ELSE Blank

-----------------------------------------------------------------------------
(* What the authors of a stored configuration gave the channel.            *)
Given(r) ==
  IF r = None THEN NoVars
  ELSE LET Ks == {k \in HeaderKey \ {TxDt} :
                    \/ k \in DOMAIN r.hv /\ r.hv[k] # Blank
                    \/ Literals(r.dh, k) # <<>>
                    \/ Flat(r) /\ k \in Keys(r.sv)}
       IN [k \in Ks |-> IF Literals(r.dh, k) # <<>> THEN Last(Literals(r.dh, k)).val
                        ELSE IF k \in DOMAIN r.hv THEN r.hv[k] ELSE Last(Named(r.sv, k)).val]

Declared(r) ==
  IF r = None THEN <<>>
  ELSE IF Flat(r) THEN SelectSeq(r.sv, LAMBDA x : x.key \notin HeaderKey) ELSE r.sv

Init ==
  /\ day = 1
  /\ db \in [Scenario -> Stored \cup {None}]
  /\ item = [s \in Scenario |-> FromApi(db[s])]
  /\ shared = None /\ dialog = None /\ sent = None /\ edits = 0
  /\ own = [s \in Scenario |-> Given(db[s])]
  /\ decl = [s \in Scenario |-> Declared(db[s])]

Opened(kind, s, draft) ==
  /\ dialog = None /\ kind \in Kinds
  /\ dialog' = [kind |-> kind, scn |-> s, draft |-> draft, settings |-> FALSE, typed |-> NoVars,
               decl |-> decl[s]]
  /\ UNCHANGED <<day, db, item, shared, sent, own, decl, edits>>

OpenScenarioRun(s) == Opened("scenario", s, Merge(Ensure(item[s])))
OpenCollectionRun == Opened("collection", First, Merge([Empty EXCEPT !.base = FirstBase]))
OpenPageRun(s) == Opened("page", s, Merge(Ensure(FromApi(db[s]))))
OpenCaseRun == Opened("case", First, LoadShared)
OpenExport(s) == Opened("export", s, Ensure(item[s]))
OpenEdit(s) == Opened("edit", s, Ensure(item[s]))

Edit(draft, typed) ==
  /\ edits < MaxEdits /\ edits' = edits + 1
  /\ dialog' = [dialog EXCEPT !.draft = draft, !.typed = typed]
  /\ UNCHANGED <<day, db, item, shared, sent, own, decl>>

TypeBase(u) ==
  /\ dialog # None /\ ~dialog.settings /\ dialog.kind # "edit" /\ u # dialog.draft.base
  /\ Edit([dialog.draft EXCEPT !.base = u], dialog.typed)

(* ScenarioCollectionVarsDialog: a configuration with headers of the       *)
(* channel is put in order.                                                *)
OpenSettings ==
  /\ dialog # None /\ dialog.kind # "export" /\ ~dialog.settings
  /\ dialog' = [dialog EXCEPT
                  !.settings = TRUE,
                  !.draft = IF Keys(@.dh) \cap HeaderKey = {} THEN @ ELSE Normal(@)]
  /\ UNCHANGED <<day, db, item, shared, sent, own, decl, edits>>

InSettings == dialog # None /\ dialog.settings

(* updateHeaderVarValue                                                    *)
TypeVar(k, v) ==
  /\ InSettings /\ v # dialog.draft.hv[k]
  /\ Edit([dialog.draft EXCEPT !.hv = EnsureVars([@ EXCEPT ![k] = v])],
          [x \in DOMAIN dialog.typed \cup {k} |-> IF x = k THEN v ELSE dialog.typed[x]])

AddHeader ==
  InSettings /\ Edit([dialog.draft EXCEPT !.dh = Append(@, Row(Blank, Blank))], dialog.typed)

(* updateRowKey: a name of the channel is refused.                         *)
NameHeader(i, k) ==
  /\ InSettings /\ i \in DOMAIN dialog.draft.dh /\ k \notin HeaderKey
  /\ dialog.draft.dh[i].key # k
  /\ Edit([dialog.draft EXCEPT !.dh[i].key = k], dialog.typed)

RemoveHeader(i) ==
  /\ InSettings /\ i \in DOMAIN dialog.draft.dh /\ dialog.draft.dh[i].key # ContentType
  /\ Edit([dialog.draft EXCEPT !.dh = RemoveAt(@, i)], dialog.typed)

(* Only the run dialogs share what is set; the editor of a scenario does   *)
(* not.                                                                    *)
CloseSettings ==
  /\ InSettings
  /\ dialog' = [dialog EXCEPT !.settings = FALSE]
  /\ shared' = IF dialog.kind = "edit" THEN shared ELSE ToDefaults(dialog.draft)
  /\ UNCHANGED <<day, db, item, sent, own, decl, edits>>

(* upsertCustomStartVar, removeCustomStartVar                              *)
Upsert(c, k, v, g) ==
  LET row == [key |-> k, val |-> IF g THEN Blank ELSE v, gen |-> g]
  IN [c EXCEPT !.hv = EnsureVars(@),
               !.sv = FirstOf(IF k \in Keys(@)
                              THEN [i \in DOMAIN @ |-> IF @[i].key = k THEN row ELSE @[i]]
                              ELSE Append(@, row))]

Without(c, k) ==
  [c EXCEPT !.hv = EnsureVars(@), !.sv = SelectSeq(FirstOf(@), LAMBDA r : r.key # k)]

Declares(c, sv) ==
  /\ dialog # None /\ dialog.kind = "edit" /\ ~dialog.settings
  /\ edits < MaxEdits /\ edits' = edits + 1
  /\ dialog' = [dialog EXCEPT !.draft = c, !.decl = sv]
  /\ UNCHANGED <<day, db, item, shared, sent, own, decl>>

DeclareVar(k, v, g) ==
  /\ dialog # None
  /\ Declares(Upsert(dialog.draft, k, v, g),
              Append(SelectSeq(dialog.decl, LAMBDA r : r.key # k),
                     [key |-> k, val |-> IF g THEN Blank ELSE v, gen |-> g]))

RemoveVar(k) ==
  /\ dialog # None /\ k \in Keys(dialog.draft.sv)
  /\ Declares(Without(dialog.draft, k),
              SelectSeq(dialog.decl, LAMBDA r : r.key # k))

(* A dialog that is given up keeps nothing but the settings it shared.     *)
Cancel ==
  /\ dialog # None /\ ~dialog.settings
  /\ dialog' = None
  /\ UNCHANGED <<day, db, item, shared, sent, own, decl, edits>>

(* What the author types in the settings of a scenario is given; after a   *)
(* run that failed the list and the database differ about it.              *)
Gives(s, ok) ==
  own' = [own EXCEPT ![s] =
    [k \in (DOMAIN @ \ DOMAIN dialog.typed) \cup {x \in DOMAIN dialog.typed \ {TxDt} : ok} |->
       IF k \in DOMAIN dialog.typed THEN dialog.typed[k] ELSE @[k]]]

SaveEdit ==
  /\ dialog # None /\ dialog.kind = "edit" /\ ~dialog.settings
  /\ item' = [item EXCEPT ![dialog.scn] = Ensure(dialog.draft)]
  /\ db' = [db EXCEPT ![dialog.scn] = ToApi(Ensure(dialog.draft))]
  /\ Gives(dialog.scn, TRUE)
  /\ decl' = [decl EXCEPT ![dialog.scn] = dialog.decl]
  /\ dialog' = None
  /\ UNCHANGED <<day, shared, sent, edits>>

Export ==
  /\ dialog # None /\ dialog.kind = "export"
  /\ db' = [db EXCEPT ![dialog.scn] = ToApi(Ensure(dialog.draft))]
  /\ item' = [item EXCEPT ![dialog.scn] = dialog.draft]
  /\ dialog' = None
  /\ UNCHANGED <<day, shared, sent, own, decl, edits>>

Sends(cfg) ==
  sent' = [kind |-> dialog.kind, scn |-> dialog.scn, typed |-> dialog.typed,
           cfg |-> cfg, day |-> day, own |-> own[dialog.scn], decl |-> dialog.decl]

Confirms(kind) ==
  /\ dialog # None /\ dialog.kind = kind /\ ~dialog.settings /\ dialog.draft.base # Blank
  /\ shared' = ToDefaults(dialog.draft)
  /\ UNCHANGED <<day, decl, edits>>

(* runRegistryScenario: the scenario is saved with what the dialog shows,  *)
(* and the server runs what is saved.  A run that fails leaves the list.   *)
RunScenario(ok) ==
  /\ Confirms("scenario")
  /\ db' = [db EXCEPT ![dialog.scn] = ToApi(Ensure(dialog.draft))]
  /\ item' = IF ok THEN [item EXCEPT ![dialog.scn] = dialog.draft] ELSE item
  /\ Sends(db'[dialog.scn]) /\ Gives(dialog.scn, ok)
  /\ dialog' = IF ok THEN None ELSE dialog

(* runRegistryCollectionScenarios: only the base URL of the dialog.        *)
RunCollection ==
  /\ Confirms("collection")
  /\ db' = [s \in Scenario |-> ToApi(Ensure(WithBase(item[s], dialog.draft.base)))]
  /\ item' = [s \in Scenario |-> WithBase(item[s], dialog.draft.base)]
  /\ Sends(db'[First]) /\ own' = own
  /\ dialog' = None

(* The page of the testcases runs the scenario as it is in the database,   *)
(* with the base URL of the dialog.                                        *)
RunPage ==
  /\ Confirms("page")
  /\ Sends([FromApi(db[dialog.scn]) EXCEPT !.base = dialog.draft.base])
  /\ dialog' = None /\ UNCHANGED <<db, item, own>>

RunCase ==
  /\ Confirms("case")
  /\ Sends(ToApi(dialog.draft))
  /\ dialog' = None /\ UNCHANGED <<db, item, own>>

NextDay ==
  /\ day < MaxDay /\ day' = day + 1
  /\ UNCHANGED <<db, item, shared, dialog, sent, own, decl, edits>>

Next ==
  \/ \E s \in Scenario : OpenScenarioRun(s) \/ OpenPageRun(s) \/ OpenExport(s) \/ OpenEdit(s)
  \/ OpenCollectionRun \/ OpenCaseRun
  \/ \E u \in Url \cup {Blank} : TypeBase(u)
  \/ OpenSettings \/ CloseSettings \/ AddHeader \/ Cancel
  \/ \E k \in HeaderKey, v \in Typed : TypeVar(k, v)
  \/ \E i \in 1..3 : RemoveHeader(i) \/ \E k \in Custom \cup {Blank} : NameHeader(i, k)
  \/ \E k \in Custom \cup {Plain}, v \in {Std}, g \in BOOLEAN : DeclareVar(k, v, g)
  \/ \E k \in Custom \cup {Plain} : RemoveVar(k)
  \/ SaveEdit \/ Export \/ RunCollection \/ RunPage \/ RunCase \/ NextDay
  \/ \E ok \in BOOLEAN : RunScenario(ok)

Spec == Init /\ [][Next]_vars

-----------------------------------------------------------------------------
(* The settings of the list and of the run dialogs are normalised, those   *)
(* that are shared have no variables of a scenario.                        *)
TypeOK ==
  /\ \A s \in Scenario : item[s].hv \in [HeaderKey -> Typed \cup {Std, Blank} \cup 1..MaxDay]
  /\ shared # None => shared.sv = <<>> /\ DOMAIN shared.hv = HeaderKey
  /\ dialog # None => DOMAIN dialog.draft.hv = HeaderKey
  /\ day \in 1..MaxDay /\ edits \in 0..MaxEdits

(* A request has the header of its content, none of the channel among the  *)
(* additional ones, and a date, whatever was stored and typed before.      *)
SentIsComplete ==
  sent # None =>
    /\ ContentType \in Keys(sent.cfg.dh) /\ Keys(sent.cfg.dh) \cap HeaderKey = {}
    /\ sent.cfg.hv[TxDt] # Blank

(* What is typed in the settings of a run is what it is sent with.         *)
TypedIsSent ==
  sent # None => \A k \in DOMAIN sent.typed : sent.cfg.hv[k] = sent.typed[k]

(* The channel values its authors gave a scenario are those of its runs,   *)
(* and neither the shared defaults nor the runs of others replace them.    *)
GivenIsSent ==
  sent # None /\ sent.kind \in {"scenario", "page"} =>
    \A k \in DOMAIN sent.own \ DOMAIN sent.typed : sent.cfg.hv[k] = sent.own[k]

(* Runs, exports and settings change no declaration: the database has the  *)
(* collection variables that were declared last, also those that have the  *)
(* name of a channel header.                                               *)
DeclaredIsKept ==
  \A s \in Scenario : ToSet(FromApi(db[s]).sv) = ToSet(decl[s])

(* A run of one testcase is sent without collection variables, and a run   *)
(* of a scenario with its own.                                             *)
OwnVarsAreSent ==
  sent # None => IF sent.kind = "case" THEN sent.cfg.sv = <<>>
                 ELSE ToSet(sent.cfg.sv) = ToSet(sent.decl)
=============================================================================
