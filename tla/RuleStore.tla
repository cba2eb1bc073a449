----------------------------- MODULE RuleStore -----------------------------
(***************************************************************************)
(* The rule store of FINIX for one service: drafts, confirmation,          *)
(* deactivation, history and restore of rule cases, and the testcases      *)
(* materialised from them.  Each action is one request of the API, which   *)
(* runs in one database transaction (db/session.py): it commits whole or,  *)
(* when a guard raises, not at all.                                        *)
(*                                                                         *)
(* The same rules are stored twice and written twice by every request: as  *)
(* rows of the case table (cases, caseHist) and as one document per        *)
(* institution, the facade (doc, docHist).  What has to hold is that the   *)
(* two, and the testcases, never tell different stories.                   *)
(***************************************************************************)
EXTENDS PoolRows

LOCAL INSTANCE SequencesExt

CONSTANTS
  Inst,         \* institutions
  DefaultInst,  \* DEFAULT_INST_CD, used where a caller passes no institution
  Authored,     \* Authored[i]: the rule contents that institution i writes
  FileRules,    \* the rules file shipped for the service; EmptyDoc: none
  PoolCase,     \* case ids of promoted samples (POOL-n), never those of rules
  Deleted,      \* a document history entry that was deleted
  MaxCaseHist,  \* bounds, for model checking only
  MaxTcHist,
  MaxDocHist

VARIABLES
  cases,     \* cases[i][c]: fnx_rule_case
  caseHist,  \* caseHist[i][c]: fnx_rule_case_hist, in order of version
  doc,       \* doc[i]: fnx_rule_doc_current, the facade; EmptyDoc: no text
  docHist,   \* fnx_rule_doc_hist of all institutions; an entry's position
             \* is its id
  pool,      \* pool[i][c]: fnx_testcase
  tcHist     \* tcHist[i][c]: fnx_testcase_hist, in order of version

ruleVars == <<cases, caseHist>>
docVars  == <<doc, docHist>>
poolVars == <<pool, tcHist>>
vars     == <<cases, caseHist, doc, docHist, pool, tcHist>>

Facade  == [applied : Doc, draft : Doc]
DocSnap == [inst : Inst, doc : Doc]

ASSUME RuleStoreAssumption ==
  /\ DefaultInst \in Inst
  /\ Authored \in [Inst -> SUBSET Input]
  /\ FileRules \in Doc
  /\ PoolCase \subseteq Case
  /\ Deleted \notin DocSnap
  /\ MaxCaseHist \in Nat /\ MaxTcHist \in Nat /\ MaxDocHist \in Nat

NoDoc == [applied |-> EmptyDoc, draft |-> EmptyDoc]

Init ==
  /\ cases = [i \in Inst |-> [c \in Case |-> NoRow]]
  /\ caseHist = [i \in Inst |-> [c \in Case |-> << >>]]
  /\ doc = [i \in Inst |-> NoDoc]
  /\ docHist = << >>
  /\ pool = [i \in Inst |-> EmptyPool]
  /\ tcHist = [i \in Inst |-> [c \in Case |-> << >>]]

-----------------------------------------------------------------------------
(* Documents. *)

(* What institution i can send: validated documents, hence not empty ones. *)
AuthoredDocs ==
  [i \in Inst |->
    {d \in Doc : /\ d # EmptyDoc
                 /\ \A c \in Case : d[c] # NoRule => /\ d[c].input \in Authored[i]
                                                     /\ c \notin PoolCase}]

(* What a facade row stands for when a testcase is built from it. *)
FacadeRules(f) == IF f.draft # EmptyDoc THEN f.draft ELSE f.applied

(* The rules found without naming a facade row: get_active_bundle is asked  *)
(* without an institution; the rules file serves where it finds none.       *)
DefaultBundle ==
  IF doc[DefaultInst].applied # EmptyDoc THEN FacadeRules(doc[DefaultInst])
                                         ELSE FileRules

(* ... naming the facade row of institution j, if there is one: bundle_id   *)
(* is any number and only the service of the row it finds is looked at.     *)
NamedBundle(j) == IF doc[j] # NoDoc THEN FacadeRules(doc[j]) ELSE DefaultBundle

(* What a request of institution i can build testcases from. *)
Bundles(i) ==
  AuthoredDocs[i] \cup {DefaultBundle} \cup {NamedBundle(j) : j \in Inst}

(* Rebuilds the draft from the drafts alone. *)
MutSyncedFacade(rows) ==
  [applied |-> AppliedDoc(rows), draft |-> EmptyDoc]

(* The facade rebuilt from the case table. *)
SyncedFacade(rows) ==
  [applied |-> AppliedDoc(rows),
   draft   |-> IF \E c \in Case : HasDraft(rows, c) THEN EditorDoc(rows)
                                                    ELSE EmptyDoc]

-----------------------------------------------------------------------------
(* Requests on rules. *)

(* Saving document d as the working draft. *)
UpsertDraft(i, d) ==
  LET rows == SavedRows(cases[i], d) IN
  /\ cases' = [cases EXCEPT ![i] = rows]
  /\ caseHist' = [caseHist EXCEPT ![i] = Cascaded(@, rows)]
  /\ doc' = [doc EXCEPT ![i].draft = d]
  /\ UNCHANGED <<docHist, pool, tcHist>>

(* Every drafted case has a testcase. *)
DraftsMaterialised(i, p) ==
  \A c \in Case : HasDraft(cases[i], c) => p[c] # NoTc

(* apply_draft on rows and versions that earlier steps of the transaction   *)
(* may already have changed.                                                *)
Applied(i, rows, hist) ==
  LET draft == DraftDoc(rows) IN
  /\ cases' = [cases EXCEPT ![i] = ClearedDrafts(PublishedRows(rows, draft), Case)]
  /\ caseHist' = [caseHist EXCEPT ![i] = PublishedHist(hist, rows, draft)]
  /\ doc' = [doc EXCEPT ![i] = [applied |-> doc[i].draft, draft |-> EmptyDoc]]
  /\ docHist' = Append(docHist, [inst |-> i, doc |-> doc[i].draft])

MutApplyDraft(i) ==
  /\ doc[i].draft # EmptyDoc
  /\ Applied(i, cases[i], caseHist[i])
  /\ UNCHANGED poolVars

(* Confirming the whole draft. *)
ApplyDraft(i) ==
  /\ doc[i].draft # EmptyDoc
  /\ DraftsMaterialised(i, pool[i])
  /\ Applied(i, cases[i], caseHist[i])
  /\ UNCHANGED poolVars

(* Confirming the draft of one case; the facade is rebuilt from the rows. *)
ApplyDraftCase(i, c) ==
  LET draft == Only(DraftDoc(cases[i]), {c})
      rows  == ClearedDrafts(PublishedRows(cases[i], draft), {c}) IN
  /\ HasDraft(cases[i], c)
  /\ pool[i][c] # NoTc
  /\ cases' = [cases EXCEPT ![i] = rows]
  /\ caseHist' = [caseHist EXCEPT ![i] = PublishedHist(@, cases[i], draft)]
  /\ doc' = [doc EXCEPT ![i] = SyncedFacade(rows)]
  /\ UNCHANGED <<docHist, pool, tcHist>>

(* Taking a confirmed case out of service. *)
DeactivateCase(i, c) ==
  LET rows == [cases[i] EXCEPT ![c] = DeactivatedRow(@)] IN
  /\ IsLive(cases[i], c)
  /\ cases' = [cases EXCEPT ![i] = rows]
  /\ doc' = [doc EXCEPT ![i] = SyncedFacade(rows)]
  /\ UNCHANGED <<caseHist, docHist, pool, tcHist>>

(* Leaves the rows that the restored document does not hold. *)
MutRestoredRows(rows, d) ==
  ClearedDrafts(PublishedRows(rows, d), {c \in Case : d[c] # NoRule})

(* Exactly the rules of d, confirmed, without drafts. *)
RestoredRows(rows, d) ==
  [c \in Case |-> IF d[c] = NoRule THEN NoRow
                  ELSE [PublishedRows(rows, d)[c] EXCEPT !.draft = NoRule]]

(* Restores the history of any institution. *)
MutRestore(i, id) ==
  LET d    == docHist[id].doc
      rows == RestoredRows(cases[i], d) IN
  /\ docHist[id] # Deleted
  /\ docHist' = docHist
  /\ doc' = [doc EXCEPT ![i] = [applied |-> d, draft |-> EmptyDoc]]
  /\ cases' = [cases EXCEPT ![i] = rows]
  /\ caseHist' = [caseHist EXCEPT
                    ![i] = Cascaded(PublishedHist(@, cases[i], d), rows)]
  /\ UNCHANGED poolVars

(* Restoring a document of the history; the one it replaces is kept there. *)
Restore(i, id) ==
  LET d    == docHist[id].doc
      rows == RestoredRows(cases[i], d) IN
  /\ docHist[id] # Deleted
  /\ docHist[id].inst = i
  /\ docHist' = IF doc[i].applied = EmptyDoc THEN docHist
                ELSE Append(docHist, [inst |-> i, doc |-> doc[i].applied])
  /\ doc' = [doc EXCEPT ![i] = [applied |-> d, draft |-> EmptyDoc]]
  /\ cases' = [cases EXCEPT ![i] = rows]
  /\ caseHist' = [caseHist EXCEPT
                    ![i] = Cascaded(PublishedHist(@, cases[i], d), rows)]
  /\ UNCHANGED poolVars

DeleteHistory(id) ==
  /\ docHist[id] # Deleted
  /\ docHist' = [docHist EXCEPT ![id] = Deleted]
  /\ UNCHANGED <<cases, caseHist, doc, pool, tcHist>>
-----------------------------------------------------------------------------
(* Requests on testcases. *)

(* The live rules of what is materialised. *)
Synced(i, d) == Only(d, {c \in Case : IsLive(cases[i], c)})

(* Materialising document d in institution i, from a pool p with versions h: *)
(* the testcases are upserted and the confirmed rules among them refreshed.  *)
Materialised(i, p, h, d) ==
  /\ pool' = [pool EXCEPT ![i] = Upserted(p, Bodies(d))]
  /\ tcHist' = [tcHist EXCEPT ![i] = UpsertedHist(h, p, Bodies(d))]
  /\ cases' = [cases EXCEPT ![i] = PublishedRows(@, Synced(i, d))]
  /\ caseHist' = [caseHist EXCEPT ![i] = PublishedHist(@, cases[i], Synced(i, d))]

(* Only the rules of a bundle that have a row are materialised. *)
Mapped(i, b) == Only(b, {c \in Case : cases[i][c] # NoRow})

(* Materialising bundle b into the pool, which is emptied first or not. *)
MaterializePool(i, b, replace) ==
  /\ Mapped(i, b) # EmptyDoc
  /\ IF replace
     THEN Materialised(i, EmptyPool, CascadedPool(tcHist[i]), Mapped(i, b))
     ELSE Materialised(i, pool[i], tcHist[i], Mapped(i, b))
  /\ UNCHANGED docVars

(* The rule of case c in bundle b, else in its own row: draft first. *)
RuleFor(i, c, b) ==
  CASE b[c] # NoRule -> b[c]
    [] b[c] = NoRule /\ HasDraft(cases[i], c) -> DraftRule(cases[i][c])
    [] OTHER -> AppliedDoc(cases[i])[c]

MaterializeOne(i, c, b) ==
  LET d == [EmptyDoc EXCEPT ![c] = RuleFor(i, c, b)] IN
  /\ RuleFor(i, c, b) # NoRule
  /\ Materialised(i, pool[i], tcHist[i], d)
  /\ UNCHANGED docVars

(* Confirming the draft after materialising what it has no testcase for. *)
ActivateBundle(i) ==
  LET d == [c \in Case |->
              IF HasDraft(cases[i], c) /\ pool[i][c] = NoTc
              THEN RuleFor(i, c, DefaultBundle) ELSE NoRule] IN
  /\ doc[i].draft # EmptyDoc
  /\ ~ DraftsMaterialised(i, pool[i])
  /\ pool' = [pool EXCEPT ![i] = Upserted(@, Bodies(d))]
  /\ tcHist' = [tcHist EXCEPT ![i] = UpsertedHist(@, pool[i], Bodies(d))]
  /\ Applied(i, PublishedRows(cases[i], Synced(i, d)),
                PublishedHist(caseHist[i], cases[i], Synced(i, d)))

(* Listing the testcases that scenarios may use materialises, whatever the  *)
(* pool held, every confirmed rule.                                          *)
ListEligible(i) ==
  LET new == Bodies(AppliedDoc(cases[i])) IN
  /\ \E c \in Case : IsLive(cases[i], c)
  /\ pool' = [pool EXCEPT ![i] = Upserted(@, new)]
  /\ tcHist' = [tcHist EXCEPT ![i] = UpsertedHist(@, pool[i], new)]
  /\ UNCHANGED <<ruleVars, docVars>>

(* Writing body b into the testcase of case c. *)
PutTestcase(i, c, b) ==
  LET new == [EmptyPool EXCEPT ![c] = b] IN
  /\ pool' = [pool EXCEPT ![i] = Upserted(@, new)]
  /\ tcHist' = [tcHist EXCEPT ![i] = UpsertedHist(@, pool[i], new)]
  /\ UNCHANGED <<ruleVars, docVars>>

(* Editing a testcase by hand. *)
PatchTestcase(i, c, b) ==
  /\ pool[i][c] # NoTc
  /\ b \in Authored[i]
  /\ PutTestcase(i, c, b)

(* Promoting the sample that case c stands for; promoting it again leaves   *)
(* its testcase as it is unless it is to be replaced.                       *)
PromoteSample(i, c, b, replace) ==
  /\ c \in PoolCase
  /\ pool[i][c] = NoTc \/ replace
  /\ PutTestcase(i, c, b)

-----------------------------------------------------------------------------
WithinBounds ==
  /\ \A i \in Inst, c \in Case : /\ Len(caseHist[i][c]) <= MaxCaseHist
                                  /\ Len(tcHist[i][c]) <= MaxTcHist
  /\ Len(docHist) <= MaxDocHist

RuleStep(i) ==
  \/ \E d \in AuthoredDocs[i] : UpsertDraft(i, d)
  \/ ApplyDraft(i)
  \/ ActivateBundle(i)
  \/ \E c \in Case : ApplyDraftCase(i, c) \/ DeactivateCase(i, c)
  \/ \E id \in DOMAIN docHist : Restore(i, id)

PoolStep(i) ==
  \/ \E b \in Bundles(i), replace \in BOOLEAN : MaterializePool(i, b, replace)
  \/ \E b \in Bundles(i), c \in Case : MaterializeOne(i, c, b)
  \/ ListEligible(i)
  \/ \E c \in Case, b \in Input : PatchTestcase(i, c, b)
  \/ \E c \in Case, b \in Input, replace \in BOOLEAN : PromoteSample(i, c, b, replace)

Next ==
  /\ \/ \E i \in Inst : RuleStep(i) \/ PoolStep(i)
     \/ \E id \in DOMAIN docHist : DeleteHistory(id)
  /\ WithinBounds'

Spec == Init /\ [][Next]_vars
-----------------------------------------------------------------------------
(* Properties. *)

(* The types of the variables. *)
TypeOK ==
  /\ cases \in [Inst -> [Case -> Row \cup {NoRow}]]
  /\ caseHist \in [Inst -> [Case -> Seq(Rule)]]
  /\ doc \in [Inst -> Facade]
  /\ docHist \in Seq(DocSnap \cup {Deleted})
  /\ pool \in [Inst -> Pool]
  /\ tcHist \in [Inst -> TcHist]

(* The two answers to "is there a working draft" agree: the one read from   *)
(* the case table (has_working_draft, case confirmation) and the one read   *)
(* from the facade (has_draft, which whole confirmation tests).             *)
DraftFlagsAgree ==
  \A i \in Inst : doc[i].draft # EmptyDoc <=> \E c \in Case : HasDraft(cases[i], c)

(* A drafted case is in the facade's draft with the same required fields,   *)
(* and the facade's draft names only cases that are drafted or confirmed:   *)
(* confirming the one confirms what the other shows.                        *)
DraftTextCoversDrafts ==
  \A i \in Inst, c \in Case :
    /\ HasDraft(cases[i], c) =>
         /\ doc[i].draft[c] # NoRule
         /\ doc[i].draft[c].input = cases[i][c].draft.input
    /\ doc[i].draft[c] # NoRule => HasDraft(cases[i], c) \/ IsLive(cases[i], c)

(* "Are there confirmed rules" has one answer too, and the facade never     *)
(* shows as applied a case that scenarios may not use.                      *)
AppliedTextIsLive ==
  \A i \in Inst :
    /\ doc[i].applied # EmptyDoc <=> \E c \in Case : IsLive(cases[i], c)
    /\ \A c \in Case : doc[i].applied[c] # NoRule => IsLive(cases[i], c)

(* What a confirmed case runs with is the latest version of its history:    *)
(* no confirmation, refresh or restore changes it without recording it.     *)
LiveIsLatestVersion ==
  \A i \in Inst, c \in Case :
    IsLive(cases[i], c) => /\ caseHist[i][c] # << >>
                           /\ caseHist[i][c][Len(caseHist[i][c])] = cases[i][c].rule

(* A row is confirmed or has a draft: none is left that no screen shows and *)
(* no request can delete.                                                   *)
NoGhostRows ==
  \A i \in Inst, c \in Case :
    cases[i][c] # NoRow => IsLive(cases[i], c) \/ HasDraft(cases[i], c)

(* The latest version of a testcase is its current body, so the version     *)
(* that a scenario step pins is the body that was looked at                 *)
(* (ensure_latest_hist_version never has to repair it).                     *)
TestcaseIsLatestVersion ==
  \A i \in Inst, c \in Case :
    pool[i][c] # NoTc => /\ tcHist[i][c] # << >>
                         /\ tcHist[i][c][Len(tcHist[i][c])] = pool[i][c]

(* Where foreign keys are enforced no version survives its row; a case that *)
(* is created again starts from version 1.                                  *)
NoOrphanVersions ==
  Cascades => \A i \in Inst, c \in Case :
                /\ cases[i][c] = NoRow => caseHist[i][c] = << >>
                /\ pool[i][c] = NoTc => tcHist[i][c] = << >>

(* Versions are never rewritten: they only grow, unless the row they belong *)
(* to is deleted (or deleted and created again).                            *)
VersionsOnlyGrow ==
  [][\A i \in Inst, c \in Case :
       /\ \/ Cascades /\ cases'[i][c] = NoRow
          \/ IsPrefix(caseHist[i][c], caseHist'[i][c])
       /\ \/ Cascades /\ \E b \in Bundles(i) : MaterializePool(i, b, TRUE)
          \/ IsPrefix(tcHist[i][c], tcHist'[i][c])]_vars

(* Outside a restore, a case becomes usable in scenarios only by            *)
(* confirming its draft, and then it has a testcase to run.                 *)
ConfirmedWithTestcase ==
  [][\A i \in Inst, c \in Case :
       (~ IsLive(cases[i], c) /\ IsLive(cases'[i], c))
         => \/ HasDraft(cases[i], c) /\ pool'[i][c] # NoTc
            \/ \E id \in DOMAIN docHist : Restore(i, id)]_vars

(* A restore gives back exactly the restored document: these rules are      *)
(* confirmed, no other is, and the editor shows them without a draft.       *)
RestoreIsExact ==
  [][\A i \in Inst : \A id \in DOMAIN docHist :
       Restore(i, id) => /\ AppliedDoc(cases'[i]) = docHist[id].doc
                         /\ EditorDoc(cases'[i]) = docHist[id].doc]_vars

(* A draft disappears only by being confirmed or by a request that replaces *)
(* all drafts (a save or a restore); no request on testcases loses one.     *)
DraftsAreNotLost ==
  [][\A i \in Inst, c \in Case :
       HasDraft(cases[i], c) =>
         \/ HasDraft(cases'[i], c)
         \/ cases'[i][c] # NoRow /\ cases'[i][c].rule.input = cases[i][c].draft.input
                                 /\ IsLive(cases'[i], c)
         \/ \E d \in AuthoredDocs[i] : UpsertDraft(i, d)
         \/ \E id \in DOMAIN docHist : Restore(i, id)]_vars

(* What the rows, testcases and history stand for in RuleLife.               *)
CurrentRules == [i \in Inst |-> AppliedDoc(cases[i])]
DraftRules ==
  [i \in Inst |-> [c \in Case |-> IF HasDraft(cases[i], c) THEN cases[i][c].draft
                                                           ELSE NoRule]]
ReadyCases == [i \in Inst |-> {c \in Case : pool[i][c] # NoTc}]
KeptDocs ==
  [i \in Inst |->
    {docHist[id].doc : id \in {k \in DOMAIN docHist : docHist[k] # Deleted /\ docHist[k].inst = i}}]

(* The contents of a document, and all that institution i holds: in its     *)
(* rows, its facade, its history and, but for promoted samples, its         *)
(* testcases.                                                               *)
Contents(d) == {d[c].input : c \in {e \in Case : d[e] # NoRule}}

Held(i) ==
  LET docs == {AppliedDoc(cases[i]), DraftRules[i], doc[i].applied, doc[i].draft} \cup KeptDocs[i]
  IN  (UNION {Contents(d) : d \in docs})
        \cup {pool[i][c] : c \in {e \in Case \ PoolCase : pool[i][e] # NoTc}}

(* The request of institution i builds testcases from bundle b. *)
BuiltFrom(i, b) ==
  \/ \E replace \in BOOLEAN : MaterializePool(i, b, replace)
  \/ \E c \in Case : MaterializeOne(i, c, b)
  \/ ActivateBundle(i) /\ b = DefaultBundle

(* Contents of another institution enter by one door only, the bundle that  *)
(* a request builds testcases from (_load_rule_bundle does not ask whose it *)
(* is): no save, confirmation, deactivation, restore or edit of any         *)
(* institution brings i what it neither held nor wrote.                     *)
ContentsEnterByBundle ==
  [][\A i \in Inst :
       \A x \in Held(i)' \ (Held(i) \cup Authored[i]) :
         \E b \in Bundles(i) : x \in Contents(b) /\ BuiltFrom(i, b)]_vars

Life == INSTANCE RuleLife WITH
          current <- CurrentRules, draft <- DraftRules, ready <- ReadyCases, kept <- KeptDocs

(* However many copies a request writes, the rules live as RuleLife promises: *)
(* through drafts, confirmations, refreshes, deactivations and restores no    *)
(* request changes more than its own cases, and what comes back was kept      *)
(* (service_rules_service.py).                                                *)
LivesAsPromised == Life!Spec

-----------------------------------------------------------------------------
(* What the repository says and the code does not do. *)

(* "DEFAULT_INST_CD is never an API default": the testcases that an          *)
(* activation adds come from what the institution holds or writes.           *)
ActivationIsOwn ==
  [][\A i \in Inst : ActivateBundle(i) => Held(i)' \subseteq Held(i) \cup Authored[i]]_vars
=============================================================================
