-------------------------- MODULE RuleStoreProofs --------------------------
(***************************************************************************)
(* Theorems about RuleStore, for every value of its constants: what always *)
(* holds, what a step may do and whose contents end up where, and that it  *)
(* implements RuleLife.                                                    *)
(***************************************************************************)
EXTENDS RuleStore, RuleRowsProofs

LOCAL INSTANCE SequencesExt

Hists == [Case -> Seq(Rule)]

(* The inductive invariant for types. *)
TypeInv == TypeOK /\ cases \in [Inst -> Rows]

-----------------------------------------------------------------------------
(* What the operators of RuleStore and PoolRows return. *)

(* Documents read from the rows are documents. *)
LEMMA DocTypes ==
  ASSUME NEW rows \in Rows
  PROVE  /\ EmptyDoc \in Doc
         /\ DraftDoc(rows) \in Doc
         /\ AppliedDoc(rows) \in Doc
         /\ EditorDoc(rows) \in Doc
         /\ SyncedFacade(rows) \in Facade
BY ReadTypes DEF SyncedFacade, Facade

(* Restoring returns rows, as all writing does. *)
LEMMA RowsTypes ==
  ASSUME NEW rows \in Rows, NEW d \in Doc
  PROVE  /\ SavedRows(rows, d) \in Rows
         /\ PublishedRows(rows, d) \in Rows
         /\ \A S : ClearedDrafts(rows, S) \in Rows
         /\ RestoredRows(rows, d) \in Rows
<1>1. PublishedRows(rows, d) \in Rows
  BY WriteTypes
<1>2. \A c \in Case : d[c] # NoRule => PublishedRows(rows, d)[c] \in GoodRow
  <2>1. \A c \in Case : d[c] # NoRule => d[c] \in Rule
    BY DEF Doc
  <2>2. ASSUME NEW r \in GoodRow, NEW x \in Rule
        PROVE  [r EXCEPT !.rule = x, !.live = TRUE] \in GoodRow
    BY DEF GoodRow, Row
  <2> QED BY <2>1, <2>2, RowAtType DEF PublishedRows
<1>3. ASSUME NEW r \in GoodRow
      PROVE  [r EXCEPT !.draft = NoRule] \in GoodRow
  BY DEF GoodRow, Row
<1>4. RestoredRows(rows, d) \in Rows
  BY <1>2, <1>3 DEF RestoredRows, Rows
<1> QED BY <1>1, <1>4, WriteTypes

(* Histories are sequences of rules. *)
LEMMA HistTypes ==
  ASSUME NEW hist \in Hists, NEW rows \in Rows, NEW d \in Doc
  PROVE  /\ PublishedHist(hist, rows, d) \in Hists
         /\ Cascaded(hist, rows) \in Hists
<1>1. \A c \in Case : d[c] # NoRule => Append(hist[c], d[c]) \in Seq(Rule)
  BY DEF Doc, Hists
<1>2. \A c \in Case : hist[c] \in Seq(Rule)
  BY DEF Hists
<1>3. PublishedHist(hist, rows, d) \in Hists
  BY <1>1, <1>2 DEF PublishedHist, Hists
<1>4. << >> \in Seq(Rule)
  OBVIOUS
<1> QED BY <1>2, <1>3, <1>4 DEF Cascaded, Hists

(* The pool and its versions. *)
LEMMA PoolTypes ==
  ASSUME NEW p \in Pool, NEW h \in TcHist, NEW new \in Pool
  PROVE  /\ EmptyPool \in Pool
         /\ Upserted(p, new) \in Pool
         /\ UpsertedHist(h, p, new) \in TcHist
         /\ CascadedPool(h) \in TcHist
<1>1. EmptyPool \in Pool
  BY DEF EmptyPool, Pool
<1>2. Upserted(p, new) \in Pool
  BY DEF Upserted, Pool
<1>3. \A c \in Case : new[c] # NoTc => Append(h[c], new[c]) \in Seq(Input)
  BY DEF Pool, TcHist
<1>4. UpsertedHist(h, p, new) \in TcHist
  BY <1>3 DEF UpsertedHist, TcHist
<1>5. << >> \in Seq(Input)
  OBVIOUS
<1> QED BY <1>1, <1>2, <1>4, <1>5 DEF CascadedPool, TcHist

(* What rules materialise to, and what a part of a document is. *)
LEMMA BodiesType ==
  ASSUME NEW d \in Doc
  PROVE  Bodies(d) \in Pool /\ \A S : Only(d, S) \in Doc
BY DEF Bodies, Pool, Doc, Rule, Only
-----------------------------------------------------------------------------
(* Type correctness. *)

(* Every bundle a testcase is built from is a document, and a rule found    *)
(* for a case is a rule.                                                    *)
LEMMA BundleTypes ==
  ASSUME TypeInv, NEW i \in Inst
  PROVE  /\ Bundles(i) \subseteq Doc
         /\ DefaultBundle \in Doc
         /\ \A b \in Doc, c \in Case : RuleFor(i, c, b) \in Rule \cup {NoRule}
<1>1. \A f \in Facade : FacadeRules(f) \in Doc
  BY DEF FacadeRules, Facade
<1>2. DefaultBundle \in Doc
  BY <1>1, RuleStoreAssumption DEF DefaultBundle, TypeInv, TypeOK
<1>3. \A j \in Inst : NamedBundle(j) \in Doc
  BY <1>1, <1>2 DEF NamedBundle, TypeInv, TypeOK
<1>4. AuthoredDocs[i] \subseteq Doc
  BY DEF AuthoredDocs
<1>5. cases[i] \in Rows
  BY DEF TypeInv
<1>6. \A c \in Case : HasDraft(cases[i], c) => DraftRule(cases[i][c]) \in Rule
  BY <1>5, DraftRuleType DEF HasDraft, Rows
<1>7. AppliedDoc(cases[i]) \in Doc
  BY <1>5, DocTypes
<1>8. \A b \in Doc, c \in Case : RuleFor(i, c, b) \in Rule \cup {NoRule}
  BY <1>6, <1>7 DEF RuleFor, Doc
<1> QED BY <1>2, <1>3, <1>4, <1>8 DEF Bundles

(* What a materialisation writes has the right types. *)
LEMMA MaterialisedType ==
  ASSUME TypeInv, NEW i \in Inst, NEW p \in Pool, NEW h \in TcHist, NEW d \in Doc
  PROVE  /\ Upserted(p, Bodies(d)) \in Pool
         /\ UpsertedHist(h, p, Bodies(d)) \in TcHist
         /\ PublishedRows(cases[i], Synced(i, d)) \in Rows
         /\ PublishedHist(caseHist[i], cases[i], Synced(i, d)) \in Hists
<1>1. Bodies(d) \in Pool /\ Synced(i, d) \in Doc
  BY BodiesType DEF Synced
<1>2. cases[i] \in Rows /\ caseHist[i] \in Hists
  BY DEF TypeInv, TypeOK, Hists
<1> QED BY <1>1, <1>2, PoolTypes, RowsTypes, HistTypes

(* What a confirmation writes has the right types. *)
LEMMA AppliedType ==
  ASSUME TypeInv, NEW i \in Inst, NEW rows \in Rows, NEW hist \in Hists,
         Applied(i, rows, hist)
  PROVE  /\ cases' \in [Inst -> Rows]
         /\ caseHist' \in [Inst -> Hists]
         /\ doc' \in [Inst -> Facade]
         /\ docHist' \in Seq(DocSnap \cup {Deleted})
<1>1. DraftDoc(rows) \in Doc
  BY DocTypes
<1>2. ClearedDrafts(PublishedRows(rows, DraftDoc(rows)), Case) \in Rows
  BY <1>1, RowsTypes
<1>3. PublishedHist(hist, rows, DraftDoc(rows)) \in Hists
  BY <1>1, HistTypes
<1>4. doc[i].draft \in Doc /\ EmptyDoc \in Doc
  BY DocTypes DEF TypeInv, TypeOK, Facade
<1>5. cases' \in [Inst -> Rows]
  BY <1>2 DEF Applied, TypeInv
<1>6. caseHist' \in [Inst -> Hists]
  BY <1>3 DEF Applied, TypeInv, TypeOK, Hists
<1>7. doc' \in [Inst -> Facade]
  BY <1>4 DEF Applied, TypeInv, TypeOK, Facade
<1>8. [inst |-> i, doc |-> doc[i].draft] \in DocSnap
  BY <1>4 DEF DocSnap
<1>9. docHist' \in Seq(DocSnap \cup {Deleted})
  BY <1>8 DEF Applied, TypeInv, TypeOK
<1> QED BY <1>5, <1>6, <1>7, <1>9

(* TypeInv from its parts. *)
LEMMA TypeInvParts ==
  ASSUME cases \in [Inst -> Rows], caseHist \in [Inst -> Hists],
         doc \in [Inst -> Facade], docHist \in Seq(DocSnap \cup {Deleted}),
         pool \in [Inst -> Pool], tcHist \in [Inst -> TcHist]
  PROVE  TypeInv
<1>1. Rows \subseteq [Case -> Row \cup {NoRow}]
  BY DEF Rows, GoodRow
<1> QED BY <1>1 DEF TypeInv, TypeOK, Hists

LEMMA TypeInvPartsNext ==
  ASSUME cases' \in [Inst -> Rows], caseHist' \in [Inst -> Hists],
         doc' \in [Inst -> Facade], docHist' \in Seq(DocSnap \cup {Deleted}),
         pool' \in [Inst -> Pool], tcHist' \in [Inst -> TcHist]
  PROVE  TypeInv'
<1>1. Rows \subseteq [Case -> Row \cup {NoRow}]
  BY DEF Rows, GoodRow
<1> QED BY <1>1 DEF TypeInv, TypeOK, Hists

LEMMA TypeInvInit == Init => TypeInv
<1> SUFFICES ASSUME Init PROVE TypeInv
  OBVIOUS
<1>1. EmptyDoc \in Doc
  BY DEF EmptyDoc, Doc
<1>2. cases \in [Inst -> Rows]
  BY DEF Init, Rows
<1>3. caseHist \in [Inst -> Hists] /\ tcHist \in [Inst -> TcHist]
  BY DEF Init, Hists, TcHist
<1>4. doc \in [Inst -> Facade] /\ docHist \in Seq(DocSnap \cup {Deleted})
  BY <1>1 DEF Init, NoDoc, Facade
<1>5. pool \in [Inst -> Pool]
  BY DEF Init, Pool, EmptyPool
<1> QED BY <1>2, <1>3, <1>4, <1>5, TypeInvParts

(* Every step preserves the types, action by action. *)
LEMMA TypeInvStep == TypeInv /\ [Next]_vars => TypeInv'
<1> SUFFICES ASSUME TypeInv, [Next]_vars PROVE TypeInv'
  OBVIOUS
<1> USE DEF ruleVars, docVars, poolVars
<1>t. /\ cases \in [Inst -> Rows] /\ caseHist \in [Inst -> Hists]
      /\ doc \in [Inst -> Facade] /\ docHist \in Seq(DocSnap \cup {Deleted})
      /\ pool \in [Inst -> Pool] /\ tcHist \in [Inst -> TcHist]
  BY DEF TypeInv, TypeOK, Hists
<1>e. EmptyDoc \in Doc
  BY DEF EmptyDoc, Doc
<1>1. ASSUME NEW i \in Inst, NEW d \in AuthoredDocs[i], UpsertDraft(i, d)
      PROVE  TypeInv'
  <2>1. d \in Doc
    BY <1>1 DEF AuthoredDocs
  <2>2. SavedRows(cases[i], d) \in Rows
    BY <1>t, <2>1, RowsTypes
  <2>3. Cascaded(caseHist[i], SavedRows(cases[i], d)) \in Hists
    BY <1>t, <2>1, <2>2, HistTypes
  <2>4. cases' \in [Inst -> Rows] /\ caseHist' \in [Inst -> Hists]
    BY <1>1, <1>t, <2>2, <2>3 DEF UpsertDraft
  <2>5. doc' \in [Inst -> Facade]
    BY <1>1, <1>t, <2>1 DEF UpsertDraft, Facade
  <2> QED BY <1>1, <1>t, <2>4, <2>5, TypeInvPartsNext DEF UpsertDraft
<1>2. ASSUME NEW i \in Inst, ApplyDraft(i)
      PROVE  TypeInv'
  <2>1. cases[i] \in Rows /\ caseHist[i] \in Hists
    BY <1>t
  <2> QED BY <1>2, <1>t, <2>1, AppliedType, TypeInvPartsNext DEF ApplyDraft
<1>3. ASSUME NEW i \in Inst, ActivateBundle(i)
      PROVE  TypeInv'
  <2> DEFINE d == [c \in Case |->
                     IF HasDraft(cases[i], c) /\ pool[i][c] = NoTc
                     THEN RuleFor(i, c, DefaultBundle) ELSE NoRule]
  <2>1. d \in Doc
    BY BundleTypes DEF Doc
  <2>2. /\ Upserted(pool[i], Bodies(d)) \in Pool
        /\ UpsertedHist(tcHist[i], pool[i], Bodies(d)) \in TcHist
        /\ PublishedRows(cases[i], Synced(i, d)) \in Rows
        /\ PublishedHist(caseHist[i], cases[i], Synced(i, d)) \in Hists
    BY <1>t, <2>1, MaterialisedType
  <2>3. /\ pool' = [pool EXCEPT ![i] = Upserted(pool[i], Bodies(d))]
        /\ tcHist' = [tcHist EXCEPT ![i] = UpsertedHist(tcHist[i], pool[i], Bodies(d))]
        /\ Applied(i, PublishedRows(cases[i], Synced(i, d)),
                      PublishedHist(caseHist[i], cases[i], Synced(i, d)))
    BY <1>3, <1>t DEF ActivateBundle
  <2>4. pool' \in [Inst -> Pool] /\ tcHist' \in [Inst -> TcHist]
    BY <1>t, <2>2, <2>3
  <2> HIDE DEF d
  <2> QED BY <2>2, <2>3, <2>4, AppliedType, TypeInvPartsNext
<1>4. ASSUME NEW i \in Inst, NEW c \in Case, ApplyDraftCase(i, c)
      PROVE  TypeInv'
  <2> DEFINE draft == Only(DraftDoc(cases[i]), {c})
             rows  == ClearedDrafts(PublishedRows(cases[i], draft), {c})
  <2>1. draft \in Doc
    BY <1>t, DocTypes, BodiesType
  <2>2. rows \in Rows
    BY <1>t, <2>1, RowsTypes
  <2>3. PublishedHist(caseHist[i], cases[i], draft) \in Hists
    BY <1>t, <2>1, HistTypes
  <2>4. SyncedFacade(rows) \in Facade
    BY <2>2, DocTypes
  <2>5. cases' \in [Inst -> Rows] /\ caseHist' \in [Inst -> Hists]
    BY <1>4, <1>t, <2>2, <2>3 DEF ApplyDraftCase
  <2>6. doc' \in [Inst -> Facade]
    BY <1>4, <1>t, <2>4 DEF ApplyDraftCase
  <2> QED BY <1>4, <1>t, <2>5, <2>6, TypeInvPartsNext DEF ApplyDraftCase
<1>5. ASSUME NEW i \in Inst, NEW c \in Case, DeactivateCase(i, c)
      PROVE  TypeInv'
  <2> DEFINE rows == [cases[i] EXCEPT ![c] = DeactivatedRow(@)]
  <2>1. rows \in Rows
    BY <1>5, <1>t, DeactivatedType DEF DeactivateCase
  <2>2. SyncedFacade(rows) \in Facade
    BY <2>1, DocTypes
  <2>3. cases' \in [Inst -> Rows] /\ doc' \in [Inst -> Facade]
    BY <1>5, <1>t, <2>1, <2>2 DEF DeactivateCase
  <2> QED BY <1>5, <1>t, <2>3, TypeInvPartsNext DEF DeactivateCase
<1>6. ASSUME NEW i \in Inst, NEW id \in DOMAIN docHist, Restore(i, id)
      PROVE  TypeInv'
  <2> DEFINE d == docHist[id].doc
             rows == RestoredRows(cases[i], d)
  <2>1. d \in Doc
    BY <1>6, <1>t DEF Restore, DocSnap
  <2>2. rows \in Rows
    BY <1>t, <2>1, RowsTypes
  <2>3. Cascaded(PublishedHist(caseHist[i], cases[i], d), rows) \in Hists
    BY <1>t, <2>1, <2>2, HistTypes
  <2>4. cases' \in [Inst -> Rows] /\ caseHist' \in [Inst -> Hists]
    BY <1>6, <1>t, <2>2, <2>3 DEF Restore
  <2>5. doc' \in [Inst -> Facade]
    BY <1>6, <1>t, <1>e, <2>1 DEF Restore, Facade
  <2>6. [inst |-> i, doc |-> doc[i].applied] \in DocSnap
    BY <1>t DEF DocSnap, Facade
  <2>7. docHist' \in Seq(DocSnap \cup {Deleted})
    BY <1>6, <1>t, <2>6 DEF Restore
  <2> QED BY <1>6, <1>t, <2>4, <2>5, <2>7, TypeInvPartsNext DEF Restore
<1>7. ASSUME NEW i \in Inst, NEW b \in Bundles(i), NEW replace \in BOOLEAN,
             MaterializePool(i, b, replace)
      PROVE  TypeInv'
  <2> DEFINE d == Mapped(i, b)
  <2>1. d \in Doc
    BY BundleTypes, BodiesType DEF Mapped
  <2>2. PICK p \in Pool, h \in TcHist : Materialised(i, p, h, d)
    <3>1. EmptyPool \in Pool /\ CascadedPool(tcHist[i]) \in TcHist
      BY <1>t, PoolTypes
    <3> QED BY <1>7, <1>t, <3>1 DEF MaterializePool
  <2>3. /\ Upserted(p, Bodies(d)) \in Pool
        /\ UpsertedHist(h, p, Bodies(d)) \in TcHist
        /\ PublishedRows(cases[i], Synced(i, d)) \in Rows
        /\ PublishedHist(caseHist[i], cases[i], Synced(i, d)) \in Hists
    BY <2>1, MaterialisedType
  <2> HIDE DEF d
  <2>4. /\ cases' \in [Inst -> Rows] /\ caseHist' \in [Inst -> Hists]
        /\ pool' \in [Inst -> Pool] /\ tcHist' \in [Inst -> TcHist]
    BY <1>t, <2>2, <2>3 DEF Materialised
  <2>5. doc' = doc /\ docHist' = docHist
    BY <1>7 DEF MaterializePool
  <2> QED BY <1>t, <2>4, <2>5, TypeInvPartsNext
<1>8. ASSUME NEW i \in Inst, NEW b \in Bundles(i), NEW c \in Case,
             MaterializeOne(i, c, b)
      PROVE  TypeInv'
  <2> DEFINE d == [EmptyDoc EXCEPT ![c] = RuleFor(i, c, b)]
  <2>1. d \in Doc
    BY <1>e, BundleTypes DEF Doc
  <2>2. /\ Upserted(pool[i], Bodies(d)) \in Pool
        /\ UpsertedHist(tcHist[i], pool[i], Bodies(d)) \in TcHist
        /\ PublishedRows(cases[i], Synced(i, d)) \in Rows
        /\ PublishedHist(caseHist[i], cases[i], Synced(i, d)) \in Hists
    BY <1>t, <2>1, MaterialisedType
  <2>3. Materialised(i, pool[i], tcHist[i], d) /\ doc' = doc /\ docHist' = docHist
    BY <1>8 DEF MaterializeOne
  <2> HIDE DEF d
  <2>4. /\ cases' \in [Inst -> Rows] /\ caseHist' \in [Inst -> Hists]
        /\ pool' \in [Inst -> Pool] /\ tcHist' \in [Inst -> TcHist]
    BY <1>t, <2>2, <2>3 DEF Materialised
  <2> QED BY <1>t, <2>3, <2>4, TypeInvPartsNext
<1>9. ASSUME NEW i \in Inst, NEW new \in Pool,
             pool' = [pool EXCEPT ![i] = Upserted(@, new)],
             tcHist' = [tcHist EXCEPT ![i] = UpsertedHist(@, pool[i], new)],
             UNCHANGED <<ruleVars, docVars>>
      PROVE  TypeInv'
  <2>1. Upserted(pool[i], new) \in Pool /\ UpsertedHist(tcHist[i], pool[i], new) \in TcHist
    BY <1>t, PoolTypes
  <2>2. pool' \in [Inst -> Pool] /\ tcHist' \in [Inst -> TcHist]
    BY <1>9, <1>t, <2>1
  <2> QED BY <1>9, <1>t, <2>2, TypeInvPartsNext
<1>10. ASSUME NEW i \in Inst, ListEligible(i)
       PROVE  TypeInv'
  <2>1. Bodies(AppliedDoc(cases[i])) \in Pool
    BY <1>t, DocTypes, BodiesType
  <2> QED BY <1>9, <1>10, <2>1 DEF ListEligible
<1>11. ASSUME NEW i \in Inst, NEW c \in Case, NEW b \in Input, PutTestcase(i, c, b)
       PROVE  TypeInv'
  <2>1. [EmptyPool EXCEPT ![c] = b] \in Pool
    BY DEF EmptyPool, Pool
  <2> QED BY <1>9, <1>11, <2>1 DEF PutTestcase
<1>12. ASSUME NEW id \in DOMAIN docHist, DeleteHistory(id)
       PROVE  TypeInv'
  <2>1. docHist' \in Seq(DocSnap \cup {Deleted})
    BY <1>12, <1>t DEF DeleteHistory
  <2> QED BY <1>12, <1>t, <2>1, TypeInvPartsNext DEF DeleteHistory
<1>13. ASSUME UNCHANGED vars
       PROVE  TypeInv'
  BY <1>13, <1>t, TypeInvPartsNext DEF vars
<1> QED BY <1>1, <1>2, <1>3, <1>4, <1>5, <1>6, <1>7, <1>8, <1>10, <1>11, <1>12, <1>13
        DEF Next, RuleStep, PoolStep, PatchTestcase, PromoteSample

(***************************************************************************)
(* The variables keep their types: in particular no history, document or   *)
(* testcase ever holds the blank contents of a row that was never applied. *)
(***************************************************************************)
THEOREM TypeCorrect == Spec => []TypeOK
<1>1. TypeInv => TypeOK
  BY DEF TypeInv
<1> QED BY <1>1, TypeInvInit, TypeInvStep, PTL DEF Spec
-----------------------------------------------------------------------------
(* The invariants, as predicates on the state of one institution. *)

(* The facade f tells the same story as the rows. *)
Coherent(rows, f) ==
  /\ f.draft # EmptyDoc <=> \E c \in Case : HasDraft(rows, c)
  /\ f.applied # EmptyDoc <=> \E c \in Case : IsLive(rows, c)
  /\ \A c \in Case :
       /\ HasDraft(rows, c) => /\ f.draft[c] # NoRule
                               /\ f.draft[c].input = rows[c].draft.input
       /\ f.draft[c] # NoRule => HasDraft(rows, c) \/ IsLive(rows, c)
       /\ f.applied[c] # NoRule => IsLive(rows, c)

(* No row is neither confirmed nor drafted. *)
Shown(rows) == \A c \in Case : rows[c] # NoRow => IsLive(rows, c) \/ HasDraft(rows, c)

(* Confirmed rules are the latest versions of their histories. *)
Latest(rows, hist) ==
  \A c \in Case : IsLive(rows, c) => /\ hist[c] # << >>
                                     /\ hist[c][Len(hist[c])] = rows[c].rule

(* Testcases are the latest versions of theirs. *)
PoolLatest(p, h) ==
  \A c \in Case : p[c] # NoTc => /\ h[c] # << >>
                                 /\ h[c][Len(h[c])] = p[c]

(* The inductive invariant: each named property needs the types, and the    *)
(* facade's applied half needs what its draft half says (see CoherentApply).*)
IInv ==
  /\ TypeInv
  /\ \A i \in Inst : /\ Coherent(cases[i], doc[i])
                      /\ Shown(cases[i])
                      /\ Latest(cases[i], caseHist[i])
                      /\ PoolLatest(pool[i], tcHist[i])

(* Which rows the operators confirm and draft, row by row. *)
LEMMA SavedFacts ==
  ASSUME NEW rows \in Rows, NEW d \in Doc, NEW c \in Case
  PROVE  /\ HasDraft(SavedRows(rows, d), c) <=> d[c] # NoRule
         /\ IsLive(SavedRows(rows, d), c) <=> IsLive(rows, c)
         /\ d[c] # NoRule => SavedRows(rows, d)[c].draft = d[c]
         /\ IsLive(rows, c) => SavedRows(rows, d)[c].rule = rows[c].rule
<1> DEFINE new == SavedRows(rows, d)
<1>1. NoRow \notin GoodRow
  BY RuleRowsAssumption DEF GoodRow
<1>2. CASE d[c] # NoRule
  <2>1. RowAt(rows, c) \in GoodRow
    BY RowAtType
  <2>2. new[c] = [RowAt(rows, c) EXCEPT !.draft = d[c]]
    BY <1>2 DEF SavedRows
  <2>3. new \in Rows
    BY RowsTypes
  <2>4. new[c] # NoRow /\ new[c].draft = d[c] /\ new[c].live = RowAt(rows, c).live
        /\ new[c].rule = RowAt(rows, c).rule
    <3>1. [RowAt(rows, c) EXCEPT !.draft = d[c]] \in GoodRow
      BY <2>1, <1>2 DEF GoodRow, Row, Doc
    <3> QED BY <2>1, <2>2, <3>1, <1>1 DEF GoodRow, Row
  <2>5. RowAt(rows, c).live <=> IsLive(rows, c)
    BY DEF RowAt, IsLive, FreshRow
  <2>6. IsLive(rows, c) => RowAt(rows, c) = rows[c]
    BY DEF RowAt, IsLive
  <2> QED BY <1>2, <2>4, <2>5, <2>6 DEF HasDraft, IsLive
<1>3. CASE d[c] = NoRule /\ IsLive(rows, c)
  <2>1. rows[c] \in GoodRow
    BY <1>3 DEF IsLive, Rows
  <2>2. new[c] = [rows[c] EXCEPT !.draft = NoRule]
    BY <1>3 DEF SavedRows
  <2>3. [rows[c] EXCEPT !.draft = NoRule] \in GoodRow
    BY <2>1 DEF GoodRow, Row
  <2>4. new[c] # NoRow /\ new[c].draft = NoRule /\ new[c].live = rows[c].live
        /\ new[c].rule = rows[c].rule
    BY <2>1, <2>2, <2>3, <1>1 DEF GoodRow, Row
  <2> QED BY <1>3, <2>4 DEF HasDraft, IsLive
<1>4. CASE d[c] = NoRule /\ ~ IsLive(rows, c)
  <2>1. new[c] = NoRow
    BY <1>4 DEF SavedRows
  <2> QED BY <1>4, <2>1 DEF HasDraft, IsLive
<1> QED BY <1>2, <1>3, <1>4

LEMMA PublishedFacts ==
  ASSUME NEW rows \in Rows, NEW d \in Doc, NEW c \in Case
  PROVE  /\ d[c] # NoRule => /\ IsLive(PublishedRows(rows, d), c)
                             /\ PublishedRows(rows, d)[c].rule = d[c]
                             /\ PublishedRows(rows, d)[c].draft = RowAt(rows, c).draft
         /\ d[c] = NoRule => PublishedRows(rows, d)[c] = rows[c]
<1>1. NoRow \notin GoodRow
  BY RuleRowsAssumption DEF GoodRow
<1>2. CASE d[c] # NoRule
  <2>1. RowAt(rows, c) \in GoodRow
    BY RowAtType
  <2>2. PublishedRows(rows, d)[c] = [RowAt(rows, c) EXCEPT !.rule = d[c], !.live = TRUE]
    BY <1>2 DEF PublishedRows
  <2>3. [RowAt(rows, c) EXCEPT !.rule = d[c], !.live = TRUE] \in GoodRow
    BY <1>2, <2>1 DEF GoodRow, Row, Doc
  <2> QED BY <1>1, <1>2, <2>1, <2>2, <2>3 DEF IsLive, GoodRow, Row
<1>3. CASE d[c] = NoRule
  BY <1>3 DEF PublishedRows
<1> QED BY <1>2, <1>3

LEMMA ClearedFacts ==
  ASSUME NEW rows \in Rows, NEW S, NEW c \in Case
  PROVE  /\ IsLive(ClearedDrafts(rows, S), c) <=> IsLive(rows, c)
         /\ IsLive(rows, c) => ClearedDrafts(rows, S)[c].rule = rows[c].rule
         /\ HasDraft(ClearedDrafts(rows, S), c) <=> HasDraft(rows, c) /\ c \notin S
         /\ ClearedDrafts(rows, S)[c] = NoRow <=> rows[c] = NoRow
<1>1. NoRow \notin GoodRow
  BY RuleRowsAssumption DEF GoodRow
<1>2. CASE c \in S /\ rows[c] # NoRow
  <2>1. rows[c] \in GoodRow
    BY <1>2 DEF Rows
  <2>2. ClearedDrafts(rows, S)[c] = [rows[c] EXCEPT !.draft = NoRule]
    BY <1>2 DEF ClearedDrafts
  <2>3. [rows[c] EXCEPT !.draft = NoRule] \in GoodRow
    BY <2>1 DEF GoodRow, Row
  <2> QED BY <1>1, <1>2, <2>1, <2>2, <2>3 DEF IsLive, HasDraft, GoodRow, Row
<1>3. CASE ~ (c \in S /\ rows[c] # NoRow)
  <2>1. ClearedDrafts(rows, S)[c] = rows[c]
    BY <1>3 DEF ClearedDrafts
  <2> QED BY <1>3, <2>1 DEF IsLive, HasDraft
<1> QED BY <1>2, <1>3
LEMMA DeactivatedFacts ==
  ASSUME NEW rows \in Rows, NEW e \in Case, IsLive(rows, e), NEW c \in Case
  PROVE  LET new == [rows EXCEPT ![e] = DeactivatedRow(@)] IN
         /\ c # e => new[c] = rows[c]
         /\ HasDraft(new, e) /\ ~ IsLive(new, e)
<1> DEFINE new == [rows EXCEPT ![e] = DeactivatedRow(@)]
<1>1. rows[e] \in GoodRow /\ rows[e].rule \in Rule
  BY DEF IsLive, Rows, GoodRow
<1>2. new[e] = DeactivatedRow(rows[e]) /\ (c # e => new[c] = rows[c])
  BY DEF Rows
<1>3. /\ DeactivatedRow(rows[e]) \in GoodRow
      /\ DeactivatedRow(rows[e]).live = FALSE
      /\ DeactivatedRow(rows[e]).draft # NoRule
  BY <1>1, RuleRowsAssumption DEF DeactivatedRow, GoodRow, Row
<1>4. NoRow \notin GoodRow
  BY RuleRowsAssumption DEF GoodRow
<1> QED BY <1>2, <1>3, <1>4 DEF HasDraft, IsLive

LEMMA RestoredFacts ==
  ASSUME NEW rows \in Rows, NEW d \in Doc, NEW c \in Case
  PROVE  /\ d[c] # NoRule => /\ IsLive(RestoredRows(rows, d), c)
                             /\ RestoredRows(rows, d)[c].rule = d[c]
         /\ d[c] = NoRule => RestoredRows(rows, d)[c] = NoRow
         /\ ~ HasDraft(RestoredRows(rows, d), c)
<1>1. NoRow \notin GoodRow
  BY RuleRowsAssumption DEF GoodRow
<1>2. CASE d[c] # NoRule
  <2> DEFINE r == PublishedRows(rows, d)[c]
  <2>1. IsLive(PublishedRows(rows, d), c) /\ r.rule = d[c]
    BY <1>2, PublishedFacts
  <2>2. r \in GoodRow /\ r.live
    BY <2>1, RowsTypes DEF Rows, IsLive
  <2>3. RestoredRows(rows, d)[c] = [r EXCEPT !.draft = NoRule]
    BY <1>2 DEF RestoredRows
  <2>4. [r EXCEPT !.draft = NoRule] \in GoodRow
    BY <2>2 DEF GoodRow, Row
  <2> HIDE DEF r
  <2>5. /\ [r EXCEPT !.draft = NoRule].draft = NoRule
        /\ [r EXCEPT !.draft = NoRule].live = r.live
        /\ [r EXCEPT !.draft = NoRule].rule = r.rule
    BY <2>2 DEF GoodRow, Row
  <2>6. r.rule = d[c]
    BY <2>1 DEF r
  <2> QED BY <1>1, <1>2, <2>2, <2>3, <2>4, <2>5, <2>6 DEF IsLive, HasDraft
<1>3. CASE d[c] = NoRule
  <2>1. RestoredRows(rows, d)[c] = NoRow
    BY <1>3 DEF RestoredRows
  <2> QED BY <1>3, <2>1 DEF HasDraft
<1> QED BY <1>2, <1>3

-----------------------------------------------------------------------------
(* Shown: every operator leaves rows that are confirmed or drafted. *)

LEMMA ShownLemma ==
  ASSUME NEW rows \in Rows, Shown(rows), NEW d \in Doc
  PROVE  /\ Shown(SavedRows(rows, d))
         /\ Shown(PublishedRows(rows, d))
         /\ Shown(RestoredRows(rows, d))
         /\ \A S : Shown(ClearedDrafts(PublishedRows(rows, Only(DraftDoc(rows), S)), S))
         /\ \A c \in Case : IsLive(rows, c) => Shown([rows EXCEPT ![c] = DeactivatedRow(@)])
<1>1. Shown(SavedRows(rows, d))
  <2>1. \A c \in Case :
          SavedRows(rows, d)[c] # NoRow => d[c] # NoRule \/ IsLive(rows, c)
    BY DEF SavedRows
  <2> QED BY <2>1, SavedFacts DEF Shown
<1>2. Shown(PublishedRows(rows, d))
  BY PublishedFacts DEF Shown, IsLive, HasDraft
<1>3. Shown(RestoredRows(rows, d))
  BY RestoredFacts DEF Shown
<1>4. ASSUME NEW S
      PROVE  Shown(ClearedDrafts(PublishedRows(rows, Only(DraftDoc(rows), S)), S))
  <2> DEFINE e == Only(DraftDoc(rows), S)
             pub == PublishedRows(rows, e)
  <2>1. e \in Doc /\ pub \in Rows
    BY DocTypes, BodiesType, RowsTypes
  <2>2. \A c \in Case : e[c] # NoRule <=> c \in S /\ HasDraft(rows, c)
    <3>1. \A c \in Case : HasDraft(rows, c) => DraftRule(rows[c]) # NoRule
      BY DraftRuleType, RuleRowsAssumption DEF HasDraft, Rows
    <3> QED BY <3>1 DEF Only, DraftDoc
  <2>3. SUFFICES ASSUME NEW c \in Case, ClearedDrafts(pub, S)[c] # NoRow
                 PROVE  IsLive(ClearedDrafts(pub, S), c) \/ HasDraft(ClearedDrafts(pub, S), c)
    BY DEF Shown
  <2> HIDE DEF e
  <2>4. CASE e[c] # NoRule
    BY <2>1, <2>4, PublishedFacts, ClearedFacts
  <2>5. CASE e[c] = NoRule
    <3>1. pub[c] = rows[c] /\ (c \notin S \/ ~ HasDraft(rows, c))
      BY <2>1, <2>2, <2>5, PublishedFacts
    <3>2. rows[c] # NoRow
      BY <2>1, <2>3, <3>1, ClearedFacts
    <3>3. IsLive(rows, c) \/ HasDraft(rows, c)
      BY <3>2 DEF Shown
    <3>4. (IsLive(pub, c) <=> IsLive(rows, c)) /\ (HasDraft(pub, c) <=> HasDraft(rows, c))
      BY <3>1 DEF IsLive, HasDraft
    <3> QED BY <2>1, <3>1, <3>3, <3>4, ClearedFacts
  <2> QED BY <2>4, <2>5
<1>5. ASSUME NEW e \in Case, IsLive(rows, e)
      PROVE  Shown([rows EXCEPT ![e] = DeactivatedRow(@)])
  BY <1>5, DeactivatedFacts DEF Shown, IsLive, HasDraft
<1> QED BY <1>1, <1>2, <1>3, <1>4, <1>5

-----------------------------------------------------------------------------
(* Latest: every operator that changes a confirmed rule appends it. *)

LEMMA LatestPublished ==
  ASSUME NEW rows \in Rows, NEW hist \in Hists, NEW d \in Doc, Latest(rows, hist)
  PROVE  Latest(PublishedRows(rows, d), PublishedHist(hist, rows, d))
<1> DEFINE new == PublishedRows(rows, d)
           nh  == PublishedHist(hist, rows, d)
<1> SUFFICES ASSUME NEW c \in Case, IsLive(new, c)
             PROVE  nh[c] # << >> /\ nh[c][Len(nh[c])] = new[c].rule
  BY DEF Latest
<1>1. CASE d[c] # NoRule /\ ~ (IsLive(rows, c) /\ rows[c].rule = d[c])
  <2>1. nh[c] = Append(hist[c], d[c])
    BY <1>1 DEF PublishedHist
  <2>2. hist[c] \in Seq(Rule)
    BY DEF Hists
  <2>3. Len(nh[c]) = Len(hist[c]) + 1 /\ nh[c][Len(nh[c])] = d[c]
    BY <2>1, <2>2
  <2>4. nh[c] # << >>
    BY <2>1, <2>2, <2>3
  <2> QED BY <1>1, <2>3, <2>4, PublishedFacts
<1>2. CASE d[c] # NoRule /\ IsLive(rows, c) /\ rows[c].rule = d[c]
  <2>1. nh[c] = hist[c]
    BY <1>2 DEF PublishedHist
  <2> QED BY <1>2, <2>1, PublishedFacts DEF Latest
<1>3. CASE d[c] = NoRule
  <2>1. nh[c] = hist[c] /\ new[c] = rows[c]
    BY <1>3, PublishedFacts DEF PublishedHist
  <2> QED BY <2>1 DEF Latest, IsLive
<1> QED BY <1>1, <1>2, <1>3

LEMMA LatestOthers ==
  ASSUME NEW rows \in Rows, NEW hist \in Hists, NEW d \in Doc, Latest(rows, hist)
  PROVE  /\ Latest(SavedRows(rows, d), Cascaded(hist, SavedRows(rows, d)))
         /\ \A S : Latest(ClearedDrafts(rows, S), hist)
         /\ Latest(RestoredRows(rows, d),
                   Cascaded(PublishedHist(hist, rows, d), RestoredRows(rows, d)))
         /\ \A e \in Case : IsLive(rows, e) =>
              Latest([rows EXCEPT ![e] = DeactivatedRow(@)], hist)
<1>1. Latest(SavedRows(rows, d), Cascaded(hist, SavedRows(rows, d)))
  <2> SUFFICES ASSUME NEW c \in Case, IsLive(SavedRows(rows, d), c)
               PROVE  LET h == Cascaded(hist, SavedRows(rows, d)) IN
                      h[c] # << >> /\ h[c][Len(h[c])] = SavedRows(rows, d)[c].rule
    BY DEF Latest
  <2>1. Cascaded(hist, SavedRows(rows, d))[c] = hist[c]
    BY DEF Cascaded, IsLive
  <2> QED BY <2>1, SavedFacts DEF Latest
<1>2. \A S : Latest(ClearedDrafts(rows, S), hist)
  BY ClearedFacts DEF Latest
<1>3. Latest(RestoredRows(rows, d),
             Cascaded(PublishedHist(hist, rows, d), RestoredRows(rows, d)))
  <2> DEFINE nh == PublishedHist(hist, rows, d)
             new == RestoredRows(rows, d)
  <2>1. SUFFICES ASSUME NEW c \in Case, IsLive(new, c)
                 PROVE  Cascaded(nh, new)[c] # << >>
                        /\ Cascaded(nh, new)[c][Len(Cascaded(nh, new)[c])] = new[c].rule
    BY DEF Latest
  <2>2. Cascaded(nh, new)[c] = nh[c]
    BY <2>1 DEF Cascaded, IsLive
  <2>3. d[c] # NoRule
    BY <2>1, RestoredFacts DEF IsLive
  <2>4. IsLive(PublishedRows(rows, d), c) /\ PublishedRows(rows, d)[c].rule = new[c].rule
    BY <2>3, PublishedFacts, RestoredFacts
  <2>5. Latest(PublishedRows(rows, d), nh)
    BY LatestPublished
  <2>6. nh[c] # << >> /\ nh[c][Len(nh[c])] = new[c].rule
    BY <2>4, <2>5 DEF Latest
  <2> QED BY <2>2, <2>6
<1>4. ASSUME NEW e \in Case, IsLive(rows, e)
      PROVE  Latest([rows EXCEPT ![e] = DeactivatedRow(@)], hist)
  <2> DEFINE new == [rows EXCEPT ![e] = DeactivatedRow(@)]
  <2>1. SUFFICES ASSUME NEW c \in Case, IsLive(new, c)
                 PROVE  hist[c] # << >> /\ hist[c][Len(hist[c])] = new[c].rule
    BY DEF Latest
  <2>2. c # e /\ new[c] = rows[c]
    BY <1>4, <2>1, DeactivatedFacts
  <2> QED BY <2>1, <2>2 DEF Latest, IsLive
<1> QED BY <1>1, <1>2, <1>3, <1>4

(* PoolLatest: an upsert appends the body it writes. *)
LEMMA PoolLatestUpserted ==
  ASSUME NEW p \in Pool, NEW h \in TcHist, NEW new \in Pool, PoolLatest(p, h)
  PROVE  PoolLatest(Upserted(p, new), UpsertedHist(h, p, new))
<1> DEFINE q == Upserted(p, new)
           k == UpsertedHist(h, p, new)
<1> SUFFICES ASSUME NEW c \in Case, q[c] # NoTc
             PROVE  k[c] # << >> /\ k[c][Len(k[c])] = q[c]
  BY DEF PoolLatest
<1>1. CASE new[c] = NoTc \/ new[c] = p[c]
  <2>1. k[c] = h[c] /\ q[c] = p[c]
    BY <1>1 DEF Upserted, UpsertedHist
  <2> QED BY <2>1 DEF PoolLatest
<1>2. CASE new[c] # NoTc /\ new[c] # p[c]
  <2>1. k[c] = Append(h[c], new[c]) /\ q[c] = new[c]
    BY <1>2 DEF Upserted, UpsertedHist
  <2>2. h[c] \in Seq(Input)
    BY DEF TcHist
  <2>3. Len(k[c]) = Len(h[c]) + 1 /\ k[c][Len(k[c])] = new[c] /\ k[c] # << >>
    BY <2>1, <2>2
  <2> QED BY <2>1, <2>3
<1> QED BY <1>1, <1>2
-----------------------------------------------------------------------------
(* Coherent: every request that writes rows writes the matching facade. *)

(* A document is empty exactly when it holds no rule. *)
LEMMA EmptyDocFact ==
  ASSUME NEW d \in Doc
  PROVE  d # EmptyDoc <=> \E c \in Case : d[c] # NoRule
BY DEF EmptyDoc, Doc

LEMMA CoherentSave ==
  ASSUME NEW rows \in Rows, NEW f \in Facade, Coherent(rows, f),
         NEW d \in Doc
  PROVE  Coherent(SavedRows(rows, d), [f EXCEPT !.draft = d])
<1> DEFINE g == [f EXCEPT !.draft = d]
<1>1. g.draft = d /\ g.applied = f.applied
  BY DEF Facade
<1>2. \A c \in Case :
        /\ HasDraft(SavedRows(rows, d), c) <=> d[c] # NoRule
        /\ IsLive(SavedRows(rows, d), c) <=> IsLive(rows, c)
        /\ d[c] # NoRule => SavedRows(rows, d)[c].draft = d[c]
  BY SavedFacts
<1>3. d # EmptyDoc <=> \E c \in Case : d[c] # NoRule
  BY EmptyDocFact
<1> HIDE DEF g
<1> QED BY <1>1, <1>2, <1>3 DEF Coherent

(* The facade rebuilt from the rows. *)
LEMMA CoherentSync ==
  ASSUME NEW rows \in Rows
  PROVE  Coherent(rows, SyncedFacade(rows))
<1> DEFINE f == SyncedFacade(rows)
<1>1. \A c \in Case : HasDraft(rows, c) => /\ DraftRule(rows[c]) # NoRule
                                           /\ DraftRule(rows[c]).input = rows[c].draft.input
  <2>1. \A c \in Case : HasDraft(rows, c) => DraftRule(rows[c]) \in Rule
    BY DraftRuleType DEF HasDraft, Rows
  <2> QED BY <2>1, RuleRowsAssumption DEF DraftRule
<1>2. \A c \in Case : AppliedDoc(rows)[c] # NoRule <=> IsLive(rows, c)
  <2>1. \A c \in Case : IsLive(rows, c) => rows[c].rule \in Rule
    BY DEF IsLive, Rows, GoodRow
  <2> QED BY <2>1, RuleRowsAssumption DEF AppliedDoc
<1>3. \A c \in Case : EditorDoc(rows)[c] = IF HasDraft(rows, c) THEN DraftRule(rows[c])
                                                            ELSE AppliedDoc(rows)[c]
  BY DEF EditorDoc
<1>4. AppliedDoc(rows) # EmptyDoc <=> \E c \in Case : IsLive(rows, c)
  BY <1>2, DocTypes, EmptyDocFact
<1>5. EditorDoc(rows) # EmptyDoc <=> \E c \in Case : EditorDoc(rows)[c] # NoRule
  BY DocTypes, EmptyDocFact
<1>6. \A c \in Case : EmptyDoc[c] = NoRule
  BY DEF EmptyDoc
<1>7. f.applied = AppliedDoc(rows)
  BY DEF SyncedFacade
<1>8. ASSUME \E c \in Case : HasDraft(rows, c)
      PROVE  Coherent(rows, f)
  <2>1. f.draft = EditorDoc(rows)
    BY <1>8 DEF SyncedFacade
  <2> HIDE DEF f
  <2> QED BY <1>1, <1>2, <1>3, <1>4, <1>5, <1>7, <1>8, <2>1 DEF Coherent
<1>9. ASSUME ~ \E c \in Case : HasDraft(rows, c)
      PROVE  Coherent(rows, f)
  <2>1. f.draft = EmptyDoc
    BY <1>9 DEF SyncedFacade
  <2> HIDE DEF f
  <2> QED BY <1>2, <1>4, <1>6, <1>7, <1>9, <2>1 DEF Coherent
<1> QED BY <1>8, <1>9

(* Whole confirmation copies the draft text; that it names only cases that  *)
(* the rows then confirm rests on what Coherent says of the draft.          *)
LEMMA CoherentApply ==
  ASSUME NEW rows \in Rows, NEW f \in Facade, Coherent(rows, f), f.draft # EmptyDoc
  PROVE  Coherent(ClearedDrafts(PublishedRows(rows, DraftDoc(rows)), Case),
                  [applied |-> f.draft, draft |-> EmptyDoc])
<1> DEFINE d   == DraftDoc(rows)
           pub == PublishedRows(rows, d)
           new == ClearedDrafts(pub, Case)
           g   == [applied |-> f.draft, draft |-> EmptyDoc]
<1>1. d \in Doc /\ pub \in Rows
  BY DocTypes, RowsTypes
<1>2. \A c \in Case : HasDraft(rows, c) => d[c] # NoRule
  <2>1. \A c \in Case : HasDraft(rows, c) => DraftRule(rows[c]) \in Rule
    BY DraftRuleType DEF HasDraft, Rows
  <2> QED BY <2>1, RuleRowsAssumption DEF DraftDoc
<1>3. \A c \in Case : d[c] # NoRule => IsLive(pub, c)
  BY <1>1, PublishedFacts
<1>4. \A c \in Case : d[c] = NoRule => (IsLive(pub, c) <=> IsLive(rows, c))
  BY <1>1, PublishedFacts DEF IsLive
<1>5. \A c \in Case : /\ ~ HasDraft(new, c)
                      /\ IsLive(new, c) <=> IsLive(pub, c)
  BY <1>1, ClearedFacts
<1>6. \A c \in Case : f.draft[c] # NoRule => IsLive(new, c)
  BY <1>2, <1>3, <1>4, <1>5 DEF Coherent
<1>7. \E c \in Case : IsLive(new, c)
  <2>1. f.draft \in Doc
    BY DEF Facade
  <2> QED BY <1>6, <2>1, EmptyDocFact
<1>8. \A c \in Case : EmptyDoc[c] = NoRule
  BY DEF EmptyDoc
<1>9. g.applied = f.draft /\ g.draft = EmptyDoc
  OBVIOUS
<1> HIDE DEF new, g
<1>10. Coherent(new, g)
  BY <1>5, <1>6, <1>7, <1>8, <1>9 DEF Coherent
<1> QED BY <1>10 DEF new, g

LEMMA CoherentRestore ==
  ASSUME NEW rows \in Rows, NEW d \in Doc
  PROVE  Coherent(RestoredRows(rows, d), [applied |-> d, draft |-> EmptyDoc])
<1> DEFINE new == RestoredRows(rows, d)
           g   == [applied |-> d, draft |-> EmptyDoc]
<1>1. \A c \in Case : ~ HasDraft(new, c) /\ (IsLive(new, c) <=> d[c] # NoRule)
  BY RestoredFacts DEF IsLive
<1>2. d # EmptyDoc <=> \E c \in Case : d[c] # NoRule
  BY EmptyDocFact
<1>3. \A c \in Case : EmptyDoc[c] = NoRule
  BY DEF EmptyDoc
<1>4. g.applied = d /\ g.draft = EmptyDoc
  OBVIOUS
<1> HIDE DEF new, g
<1>5. Coherent(new, g)
  BY <1>1, <1>2, <1>3, <1>4 DEF Coherent
<1> QED BY <1>5 DEF new, g

(* Refreshing confirmed rules changes neither what is drafted nor what is   *)
(* confirmed, so the facade may stay as it is.                              *)
LEMMA CoherentRefresh ==
  ASSUME NEW rows \in Rows, NEW f, Coherent(rows, f), NEW d \in Doc,
         \A c \in Case : d[c] # NoRule => IsLive(rows, c)
  PROVE  Coherent(PublishedRows(rows, d), f)
<1> DEFINE new == PublishedRows(rows, d)
<1>1. \A c \in Case : /\ HasDraft(new, c) <=> HasDraft(rows, c)
                      /\ IsLive(new, c) <=> IsLive(rows, c)
                      /\ HasDraft(rows, c) => new[c].draft = rows[c].draft
  <2> TAKE c \in Case
  <2>1. CASE d[c] # NoRule
    <3>1. IsLive(rows, c) /\ RowAt(rows, c) = rows[c]
      BY <2>1 DEF RowAt, IsLive
    <3>2. IsLive(new, c) /\ new[c].draft = rows[c].draft
      BY <2>1, <3>1, PublishedFacts
    <3> QED BY <3>1, <3>2 DEF HasDraft, IsLive
  <2>2. CASE d[c] = NoRule
    <3>1. new[c] = rows[c]
      BY <2>2, PublishedFacts
    <3> QED BY <3>1 DEF HasDraft, IsLive
  <2> QED BY <2>1, <2>2
<1> HIDE DEF new
<1>2. Coherent(new, f)
  BY <1>1 DEF Coherent
<1> QED BY <1>2 DEF new
-----------------------------------------------------------------------------
(* The inductive invariant. *)

LEMMA IInvInit == Init => IInv
<1> SUFFICES ASSUME Init PROVE IInv
  OBVIOUS
<1>1. \A c \in Case : EmptyDoc[c] = NoRule
  BY DEF EmptyDoc
<1>2. \A i \in Inst : /\ doc[i].draft = EmptyDoc /\ doc[i].applied = EmptyDoc
                      /\ \A c \in Case : cases[i][c] = NoRow /\ pool[i][c] = NoTc
  BY DEF Init, NoDoc, EmptyPool
<1>3. \A i \in Inst : /\ Coherent(cases[i], doc[i])
                      /\ Shown(cases[i])
                      /\ Latest(cases[i], caseHist[i])
                      /\ PoolLatest(pool[i], tcHist[i])
  BY <1>1, <1>2 DEF Coherent, Shown, Latest, PoolLatest, HasDraft, IsLive
<1> QED BY <1>3, TypeInvInit DEF IInv

(* A request writes one institution: the invariant has to be shown there.   *)
LEMMA OneInstitution ==
  ASSUME IInv, TypeInv', NEW i \in Inst,
         \A j \in Inst \ {i} :
           /\ cases'[j] = cases[j] /\ caseHist'[j] = caseHist[j]
           /\ doc'[j] = doc[j] /\ pool'[j] = pool[j] /\ tcHist'[j] = tcHist[j],
         Coherent(cases'[i], doc'[i]),
         Shown(cases'[i]),
         Latest(cases'[i], caseHist'[i]),
         PoolLatest(pool'[i], tcHist'[i])
  PROVE  IInv'
<1>1. ASSUME NEW j \in Inst
      PROVE  /\ Coherent(cases'[j], doc'[j])
             /\ Shown(cases'[j])
             /\ Latest(cases'[j], caseHist'[j])
             /\ PoolLatest(pool'[j], tcHist'[j])
  <2>1. CASE j = i
    BY <2>1
  <2>2. CASE j # i
    BY <2>2 DEF IInv
  <2> QED BY <2>1, <2>2
<1> QED BY <1>1 DEF IInv

(* Refreshing the confirmed rules of a document, as a materialisation does. *)
LEMMA Refreshed ==
  ASSUME IInv, NEW i \in Inst, NEW d \in Doc
  PROVE  LET rows == PublishedRows(cases[i], Synced(i, d))
             hist == PublishedHist(caseHist[i], cases[i], Synced(i, d))
         IN  /\ rows \in Rows /\ hist \in Hists
             /\ Coherent(rows, doc[i])
             /\ Shown(rows)
             /\ Latest(rows, hist)
<1>1. Synced(i, d) \in Doc
  BY BodiesType DEF Synced
<1>2. \A c \in Case : Synced(i, d)[c] # NoRule => IsLive(cases[i], c)
  BY DEF Synced, Only
<1>3. cases[i] \in Rows /\ caseHist[i] \in Hists
  BY DEF IInv, TypeInv, TypeOK, Hists
<1>4. /\ Coherent(cases[i], doc[i]) /\ Shown(cases[i])
      /\ Latest(cases[i], caseHist[i])
  BY DEF IInv
<1> QED BY <1>1, <1>2, <1>3, <1>4, RowsTypes, HistTypes, CoherentRefresh,
           ShownLemma, LatestPublished

(* A whole confirmation, from rows and versions that satisfy the invariant. *)
LEMMA Confirmed ==
  ASSUME IInv, NEW i \in Inst, NEW rows \in Rows, NEW hist \in Hists,
         Coherent(rows, doc[i]), Shown(rows), Latest(rows, hist),
         doc[i].draft # EmptyDoc, Applied(i, rows, hist)
  PROVE  /\ \A j \in Inst \ {i} : /\ cases'[j] = cases[j]
                                  /\ caseHist'[j] = caseHist[j]
                                  /\ doc'[j] = doc[j]
         /\ Coherent(cases'[i], doc'[i])
         /\ Shown(cases'[i])
         /\ Latest(cases'[i], caseHist'[i])
<1> DEFINE d   == DraftDoc(rows)
           pub == PublishedRows(rows, d)
           new == ClearedDrafts(pub, Case)
<1>t. /\ cases \in [Inst -> Rows] /\ caseHist \in [Inst -> Hists]
      /\ doc \in [Inst -> Facade]
  BY DEF IInv, TypeInv, TypeOK, Hists
<1>1. d \in Doc /\ pub \in Rows
  BY DocTypes, RowsTypes
<1>2. /\ cases'[i] = new /\ caseHist'[i] = PublishedHist(hist, rows, d)
      /\ doc'[i] = [applied |-> doc[i].draft, draft |-> EmptyDoc]
      /\ \A j \in Inst \ {i} : /\ cases'[j] = cases[j]
                               /\ caseHist'[j] = caseHist[j]
                               /\ doc'[j] = doc[j]
  BY <1>t DEF Applied
<1>3. Coherent(new, [applied |-> doc[i].draft, draft |-> EmptyDoc])
  BY <1>t, CoherentApply
<1>4. Shown(new)
  <2>1. Only(d, Case) = d
    BY <1>1 DEF Only, Doc
  <2>2. Shown(ClearedDrafts(PublishedRows(rows, Only(DraftDoc(rows), Case)), Case))
    BY <1>1, ShownLemma
  <2> QED BY <2>1, <2>2
<1>5. Latest(new, PublishedHist(hist, rows, d))
  <2>1. Latest(pub, PublishedHist(hist, rows, d)) /\ PublishedHist(hist, rows, d) \in Hists
    BY <1>1, LatestPublished, HistTypes
  <2> HIDE DEF pub
  <2> QED BY <1>1, <2>1, LatestOthers
<1> HIDE DEF new
<1> QED BY <1>2, <1>3, <1>4, <1>5

(* A materialisation, into the pool as it was or into an emptied one. *)
LEMMA MaterialisedStep ==
  ASSUME IInv, TypeInv', NEW i \in Inst, NEW p \in Pool, NEW h \in TcHist,
         PoolLatest(p, h), NEW d \in Doc, Materialised(i, p, h, d), doc' = doc
  PROVE  IInv'
<1> DEFINE rows == PublishedRows(cases[i], Synced(i, d))
           hist == PublishedHist(caseHist[i], cases[i], Synced(i, d))
           q    == Upserted(p, Bodies(d))
           k    == UpsertedHist(h, p, Bodies(d))
<1>1. Coherent(rows, doc[i]) /\ Shown(rows) /\ Latest(rows, hist)
  BY Refreshed
<1>2. PoolLatest(q, k)
  BY BodiesType, PoolLatestUpserted
<1>3. /\ cases' = [cases EXCEPT ![i] = rows]
      /\ caseHist' = [caseHist EXCEPT ![i] = hist]
      /\ pool' = [pool EXCEPT ![i] = q]
      /\ tcHist' = [tcHist EXCEPT ![i] = k]
  BY DEF Materialised
<1> HIDE DEF rows, hist, q, k
<1>t. /\ cases \in [Inst -> Rows] /\ caseHist \in [Inst -> Hists]
      /\ pool \in [Inst -> Pool] /\ tcHist \in [Inst -> TcHist]
  BY DEF IInv, TypeInv, TypeOK, Hists
<1>4. /\ cases'[i] = rows /\ caseHist'[i] = hist /\ pool'[i] = q /\ tcHist'[i] = k
      /\ \A j \in Inst \ {i} : /\ cases'[j] = cases[j] /\ caseHist'[j] = caseHist[j]
                               /\ pool'[j] = pool[j] /\ tcHist'[j] = tcHist[j]
  BY <1>3, <1>t
<1> QED BY <1>1, <1>2, <1>4, OneInstitution

(* A write to testcases alone. *)
LEMMA UpsertStep ==
  ASSUME IInv, TypeInv', NEW i \in Inst, NEW new \in Pool,
         pool' = [pool EXCEPT ![i] = Upserted(pool[i], new)],
         tcHist' = [tcHist EXCEPT ![i] = UpsertedHist(tcHist[i], pool[i], new)],
         cases' = cases, caseHist' = caseHist, doc' = doc
  PROVE  IInv'
<1>t. /\ pool \in [Inst -> Pool] /\ tcHist \in [Inst -> TcHist]
  BY DEF IInv, TypeInv, TypeOK
<1>1. PoolLatest(Upserted(pool[i], new), UpsertedHist(tcHist[i], pool[i], new))
  BY <1>t, PoolLatestUpserted DEF IInv
<1>2. /\ pool'[i] = Upserted(pool[i], new)
      /\ tcHist'[i] = UpsertedHist(tcHist[i], pool[i], new)
      /\ \A j \in Inst \ {i} : pool'[j] = pool[j] /\ tcHist'[j] = tcHist[j]
  BY <1>t
<1>3. /\ Coherent(cases'[i], doc'[i]) /\ Shown(cases'[i])
      /\ Latest(cases'[i], caseHist'[i])
  BY DEF IInv
<1> QED BY <1>1, <1>2, <1>3, OneInstitution

(* Every step preserves the invariant, action by action. *)
LEMMA IInvStep == IInv /\ [Next]_vars => IInv'
<1> SUFFICES ASSUME IInv, [Next]_vars PROVE IInv'
  OBVIOUS
<1> USE DEF ruleVars, docVars, poolVars
<1>t. /\ cases \in [Inst -> Rows] /\ caseHist \in [Inst -> Hists]
      /\ doc \in [Inst -> Facade] /\ docHist \in Seq(DocSnap \cup {Deleted})
      /\ pool \in [Inst -> Pool] /\ tcHist \in [Inst -> TcHist]
  BY DEF IInv, TypeInv, TypeOK, Hists
<1>e. EmptyDoc \in Doc
  BY DocTypes, <1>t DEF EmptyDoc, Doc
<1>p. TypeInv'
  BY TypeInvStep DEF IInv
<1>i. \A i \in Inst : /\ Coherent(cases[i], doc[i])
                      /\ Shown(cases[i])
                      /\ Latest(cases[i], caseHist[i])
                      /\ PoolLatest(pool[i], tcHist[i])
  BY DEF IInv
<1>1. ASSUME NEW i \in Inst, NEW d \in AuthoredDocs[i], UpsertDraft(i, d)
      PROVE  IInv'
  <2> DEFINE new  == SavedRows(cases[i], d)
             hist == Cascaded(caseHist[i], new)
             f    == [doc[i] EXCEPT !.draft = d]
  <2>1. d \in Doc
    BY <1>1 DEF AuthoredDocs
  <2>2. Coherent(new, f)
    BY <1>t, <1>i, <2>1, CoherentSave
  <2>3. Shown(new)
    BY <1>t, <1>i, <2>1, ShownLemma
  <2>4. Latest(new, hist)
    BY <1>t, <1>i, <2>1, LatestOthers
  <2>5. /\ cases' = [cases EXCEPT ![i] = new]
        /\ caseHist' = [caseHist EXCEPT ![i] = hist]
        /\ doc' = [doc EXCEPT ![i] = f]
        /\ pool' = pool /\ tcHist' = tcHist
    BY <1>1 DEF UpsertDraft
  <2> HIDE DEF new, hist, f
  <2> QED BY <1>p, <1>i, <1>t, <2>2, <2>3, <2>4, <2>5, OneInstitution
<1>2. ASSUME NEW i \in Inst, ApplyDraft(i)
      PROVE  IInv'
  <2>1. /\ Applied(i, cases[i], caseHist[i]) /\ doc[i].draft # EmptyDoc
        /\ pool' = pool /\ tcHist' = tcHist
    BY <1>2 DEF ApplyDraft
  <2>2. cases[i] \in Rows /\ caseHist[i] \in Hists
    BY <1>t
  <2> QED BY <1>p, <1>i, <2>1, <2>2, Confirmed, OneInstitution
<1>3. ASSUME NEW i \in Inst, ActivateBundle(i)
      PROVE  IInv'
  <2> DEFINE d == [c \in Case |->
                     IF HasDraft(cases[i], c) /\ pool[i][c] = NoTc
                     THEN RuleFor(i, c, DefaultBundle) ELSE NoRule]
             rows == PublishedRows(cases[i], Synced(i, d))
             hist == PublishedHist(caseHist[i], cases[i], Synced(i, d))
             q    == Upserted(pool[i], Bodies(d))
             k    == UpsertedHist(tcHist[i], pool[i], Bodies(d))
  <2>1. d \in Doc
    BY BundleTypes DEF Doc, IInv
  <2>2. /\ pool' = [pool EXCEPT ![i] = q]
        /\ tcHist' = [tcHist EXCEPT ![i] = k]
        /\ Applied(i, rows, hist)
        /\ doc[i].draft # EmptyDoc
    BY <1>3 DEF ActivateBundle
  <2> HIDE DEF d
  <2>3. /\ rows \in Rows /\ hist \in Hists /\ Coherent(rows, doc[i])
        /\ Shown(rows) /\ Latest(rows, hist)
    BY <2>1, Refreshed
  <2>4. PoolLatest(q, k)
    BY <1>t, <1>i, <2>1, BodiesType, PoolLatestUpserted
  <2> HIDE DEF rows, hist, q, k
  <2>5. /\ pool'[i] = q /\ tcHist'[i] = k
        /\ \A j \in Inst \ {i} : pool'[j] = pool[j] /\ tcHist'[j] = tcHist[j]
    BY <1>t, <2>2
  <2>6. /\ \A j \in Inst \ {i} : /\ cases'[j] = cases[j]
                                 /\ caseHist'[j] = caseHist[j]
                                 /\ doc'[j] = doc[j]
        /\ Coherent(cases'[i], doc'[i])
        /\ Shown(cases'[i])
        /\ Latest(cases'[i], caseHist'[i])
    BY <2>2, <2>3, Confirmed
  <2> QED BY <1>p, <2>4, <2>5, <2>6, OneInstitution
<1>4. ASSUME NEW i \in Inst, NEW c \in Case, ApplyDraftCase(i, c)
      PROVE  IInv'
  <2> DEFINE draft == Only(DraftDoc(cases[i]), {c})
             pub   == PublishedRows(cases[i], draft)
             new   == ClearedDrafts(pub, {c})
             hist  == PublishedHist(caseHist[i], cases[i], draft)
  <2>1. draft \in Doc
    BY <1>t, DocTypes, BodiesType
  <2>2. pub \in Rows /\ hist \in Hists
    BY <1>t, <2>1, RowsTypes, HistTypes
  <2>3. new \in Rows
    BY <2>1, <2>2, RowsTypes
  <2>4. Shown(new)
    BY <1>t, <1>i, <2>1, ShownLemma
  <2>5. Latest(pub, hist)
    BY <1>t, <1>i, <2>1, LatestPublished
  <2>6. /\ cases' = [cases EXCEPT ![i] = new]
        /\ caseHist' = [caseHist EXCEPT ![i] = hist]
        /\ doc' = [doc EXCEPT ![i] = SyncedFacade(new)]
        /\ pool' = pool /\ tcHist' = tcHist
    BY <1>4 DEF ApplyDraftCase
  <2> HIDE DEF draft, pub, hist
  <2>7. Latest(new, hist)
    BY <2>1, <2>2, <2>5, LatestOthers
  <2> HIDE DEF new
  <2>8. Coherent(new, SyncedFacade(new))
    BY <2>3, CoherentSync
  <2> QED BY <1>p, <1>i, <1>t, <2>4, <2>6, <2>7, <2>8, OneInstitution
<1>5. ASSUME NEW i \in Inst, NEW c \in Case, DeactivateCase(i, c)
      PROVE  IInv'
  <2> DEFINE new == [cases[i] EXCEPT ![c] = DeactivatedRow(@)]
  <2>1. /\ cases' = [cases EXCEPT ![i] = new]
        /\ caseHist' = caseHist
        /\ doc' = [doc EXCEPT ![i] = SyncedFacade(new)]
        /\ pool' = pool /\ tcHist' = tcHist
        /\ IsLive(cases[i], c)
    BY <1>5 DEF DeactivateCase
  <2>2. new \in Rows
    BY <1>t, <2>1, DeactivatedType
  <2>3. Shown(new)
    BY <1>t, <1>e, <1>i, <2>1, ShownLemma
  <2>4. Latest(new, caseHist[i])
    BY <1>t, <1>e, <1>i, <2>1, LatestOthers
  <2> HIDE DEF new
  <2>5. Coherent(new, SyncedFacade(new))
    BY <2>2, CoherentSync
  <2> QED BY <1>p, <1>i, <1>t, <2>1, <2>3, <2>4, <2>5, OneInstitution
<1>6. ASSUME NEW i \in Inst, NEW id \in DOMAIN docHist, Restore(i, id)
      PROVE  IInv'
  <2> DEFINE d    == docHist[id].doc
             new  == RestoredRows(cases[i], d)
             hist == Cascaded(PublishedHist(caseHist[i], cases[i], d), new)
             f    == [applied |-> d, draft |-> EmptyDoc]
  <2>1. d \in Doc
    BY <1>6, <1>t DEF Restore, DocSnap
  <2>2. Shown(new)
    BY <1>t, <1>i, <2>1, ShownLemma
  <2>3. Latest(new, hist)
    BY <1>t, <1>i, <2>1, LatestOthers
  <2>4. Coherent(new, f)
    BY <1>t, <2>1, CoherentRestore
  <2>5. /\ cases' = [cases EXCEPT ![i] = new]
        /\ caseHist' = [caseHist EXCEPT ![i] = hist]
        /\ doc' = [doc EXCEPT ![i] = f]
        /\ pool' = pool /\ tcHist' = tcHist
    BY <1>6 DEF Restore
  <2> HIDE DEF new, hist, f
  <2> QED BY <1>p, <1>i, <1>t, <2>2, <2>3, <2>4, <2>5, OneInstitution
<1>7. ASSUME NEW i \in Inst, NEW b \in Bundles(i), NEW replace \in BOOLEAN,
             MaterializePool(i, b, replace)
      PROVE  IInv'
  <2> DEFINE d == Mapped(i, b)
  <2>1. d \in Doc
    BY BundleTypes, BodiesType DEF Mapped, IInv
  <2>2. EmptyPool \in Pool /\ CascadedPool(tcHist[i]) \in TcHist
    BY <1>t, PoolTypes
  <2>3. PoolLatest(EmptyPool, CascadedPool(tcHist[i]))
    BY DEF PoolLatest, EmptyPool
  <2> HIDE DEF d
  <2>4. PICK p \in Pool, h \in TcHist : PoolLatest(p, h) /\ Materialised(i, p, h, d)
    <3>1. CASE replace
      BY <1>7, <2>2, <2>3, <3>1 DEF MaterializePool, d
    <3>2. CASE ~ replace
      <4>1. Materialised(i, pool[i], tcHist[i], d)
        BY <1>7, <3>2 DEF MaterializePool, d
      <4> QED BY <1>t, <1>i, <4>1
    <3> QED BY <3>1, <3>2
  <2>5. doc' = doc
    BY <1>7 DEF MaterializePool
  <2> QED BY <1>p, <2>1, <2>4, <2>5, MaterialisedStep
<1>8. ASSUME NEW i \in Inst, NEW b \in Bundles(i), NEW c \in Case,
             MaterializeOne(i, c, b)
      PROVE  IInv'
  <2> DEFINE d == [EmptyDoc EXCEPT ![c] = RuleFor(i, c, b)]
  <2>1. d \in Doc
    BY <1>e, BundleTypes DEF Doc, IInv
  <2>2. Materialised(i, pool[i], tcHist[i], d) /\ doc' = doc
    BY <1>8 DEF MaterializeOne
  <2> HIDE DEF d
  <2> QED BY <1>p, <1>i, <1>t, <2>1, <2>2, MaterialisedStep
<1>9. ASSUME NEW i \in Inst, ListEligible(i)
      PROVE  IInv'
  <2>1. Bodies(AppliedDoc(cases[i])) \in Pool
    BY <1>t, DocTypes, BodiesType
  <2> QED BY <1>p, <1>9, <2>1, UpsertStep DEF ListEligible
<1>10. ASSUME NEW i \in Inst, NEW c \in Case, NEW b \in Input, PutTestcase(i, c, b)
       PROVE  IInv'
  <2>1. [EmptyPool EXCEPT ![c] = b] \in Pool
    BY DEF EmptyPool, Pool
  <2> QED BY <1>p, <1>10, <2>1, UpsertStep DEF PutTestcase
<1>11. ASSUME NEW id \in DOMAIN docHist, DeleteHistory(id)
       PROVE  IInv'
  BY <1>p, <1>i, <1>11 DEF DeleteHistory, IInv
<1>12. ASSUME UNCHANGED vars
       PROVE  IInv'
  BY <1>p, <1>i, <1>12 DEF vars, IInv
<1> QED BY <1>1, <1>2, <1>3, <1>4, <1>5, <1>6, <1>7, <1>8, <1>9, <1>10, <1>11, <1>12
        DEF Next, RuleStep, PoolStep, PatchTestcase, PromoteSample

(* The invariant holds in every reachable state. *)
THEOREM InvariantCorrect == Spec => []IInv
BY IInvInit, IInvStep, PTL DEF Spec

-----------------------------------------------------------------------------
(* The properties that the runs check, for every value of the constants. *)

(* The case table and the facade never disagree on whether a service has a  *)
(* working draft: the guards that read one and those that read the other    *)
(* let the same requests through.                                           *)
THEOREM DraftFlagsCorrect == Spec => []DraftFlagsAgree
<1>1. IInv => DraftFlagsAgree
  BY DEF IInv, Coherent, DraftFlagsAgree
<1> QED BY <1>1, InvariantCorrect, PTL

(* The draft that the facade shows holds every drafted case, with the       *)
(* required fields that confirming the case publishes.                      *)
THEOREM DraftTextCorrect == Spec => []DraftTextCoversDrafts
<1>1. IInv => DraftTextCoversDrafts
  BY DEF IInv, Coherent, DraftTextCoversDrafts
<1> QED BY <1>1, InvariantCorrect, PTL

(* Nor do they disagree on whether it has confirmed rules; what the facade  *)
(* shows as applied, scenarios may use.                                     *)
THEOREM AppliedTextCorrect == Spec => []AppliedTextIsLive
<1>1. IInv => AppliedTextIsLive
  BY DEF IInv, Coherent, AppliedTextIsLive
<1> QED BY <1>1, InvariantCorrect, PTL

(* Every change of a confirmed rule is recorded as its latest version.      *)
THEOREM LatestVersionCorrect == Spec => []LiveIsLatestVersion
<1>1. IInv => LiveIsLatestVersion
  BY DEF IInv, Latest, LiveIsLatestVersion
<1> QED BY <1>1, InvariantCorrect, PTL

(* No request leaves a row that is neither confirmed nor drafted.           *)
THEOREM NoGhostRowsCorrect == Spec => []NoGhostRows
<1>1. IInv => NoGhostRows
  BY DEF IInv, Shown, NoGhostRows
<1> QED BY <1>1, InvariantCorrect, PTL

(* A testcase is the latest of its versions, whichever request wrote it.    *)
THEOREM TestcaseVersionCorrect == Spec => []TestcaseIsLatestVersion
<1>1. IInv => TestcaseIsLatestVersion
  BY DEF IInv, PoolLatest, TestcaseIsLatestVersion
<1> QED BY <1>1, InvariantCorrect, PTL

(* Restoring a document confirms exactly its rules, and the editor shows    *)
(* them without a draft, from whatever rows the request found.              *)
THEOREM RestoreCorrect == Spec => RestoreIsExact
<1>1. ASSUME TypeInv, NEW i \in Inst, NEW id \in DOMAIN docHist, Restore(i, id)
      PROVE  /\ AppliedDoc(cases'[i]) = docHist[id].doc
             /\ EditorDoc(cases'[i]) = docHist[id].doc
  <2> DEFINE d   == docHist[id].doc
             new == RestoredRows(cases[i], d)
  <2>1. cases \in [Inst -> Rows] /\ docHist \in Seq(DocSnap \cup {Deleted})
    BY <1>1 DEF TypeInv, TypeOK
  <2>2. d \in Doc
    BY <1>1, <2>1 DEF Restore, DocSnap
  <2>3. cases'[i] = new
    BY <1>1, <2>1 DEF Restore
  <2>4. \A c \in Case : /\ IsLive(new, c) <=> d[c] # NoRule
                        /\ IsLive(new, c) => new[c].rule = d[c]
                        /\ ~ HasDraft(new, c)
    BY <2>1, <2>2, RestoredFacts DEF IsLive
  <2>5. d = [c \in Case |-> d[c]]
    BY <2>2 DEF Doc
  <2> HIDE DEF d, new
  <2>6. \A c \in Case : AppliedDoc(new)[c] = d[c] /\ EditorDoc(new)[c] = d[c]
    BY <2>4 DEF AppliedDoc, EditorDoc
  <2>7. AppliedDoc(new) = d /\ EditorDoc(new) = d
    BY <2>5, <2>6 DEF AppliedDoc, EditorDoc
  <2> QED BY <2>3, <2>7 DEF d
<1>2. TypeInv => \A i \in Inst : \A id \in DOMAIN docHist :
        Restore(i, id) => /\ AppliedDoc(cases'[i]) = docHist[id].doc
                          /\ EditorDoc(cases'[i]) = docHist[id].doc
  BY <1>1
<1> QED BY <1>2, TypeInvInit, TypeInvStep, PTL DEF Spec, RestoreIsExact

-----------------------------------------------------------------------------
(***************************************************************************)
(* What a step may do to one institution, in a few forms, and the theorems *)
(* that follow from the forms: what becomes of versions and drafts, how a  *)
(* case is confirmed and whose contents an institution uses.               *)
(***************************************************************************)

(* The forms. *)

(* Every rule of d was looked up for a testcase of institution i, in the     *)
(* bundle that the request builds from.                                      *)
Given(i, d) ==
  \A c \in Case :
    d[c] # NoRule => \E b \in Bundles(i) : BuiltFrom(i, b) /\ d[c] = RuleFor(i, c, b)

(* Where the body x of the testcase of case c may come from. *)
GivenBody(i, c, x) ==
  \/ c \in PoolCase \/ x \in Authored[i]
  \/ IsLive(cases[i], c) /\ x = cases[i][c].rule.input
  \/ \E b \in Bundles(i) : /\ BuiltFrom(i, b)
                           /\ RuleFor(i, c, b) # NoRule /\ x = RuleFor(i, c, b).input

(* A document that refreshes confirmed rules, and no others. *)
Refreshing(i, d) ==
  Given(i, d) /\ \A c \in Case : d[c] # NoRule => IsLive(cases[i], c)

Refreshes(i, d) ==
  /\ cases'[i] = PublishedRows(cases[i], d)
  /\ caseHist'[i] = PublishedHist(caseHist[i], cases[i], d)

(* The drafts of the cases S are confirmed after a refresh. *)
Confirms(i, d, S) ==
  LET rows  == PublishedRows(cases[i], d)
      draft == Only(DraftDoc(rows), S) IN
  /\ cases'[i] = ClearedDrafts(PublishedRows(rows, draft), S)
  /\ caseHist'[i] = PublishedHist(PublishedHist(caseHist[i], cases[i], d), rows, draft)
  /\ \A c \in S : HasDraft(cases[i], c) => pool'[i][c] # NoTc

RuleForms(i) ==
  \/ cases'[i] = cases[i] /\ caseHist'[i] = caseHist[i]
  \/ \E d \in AuthoredDocs[i] : UpsertDraft(i, d)
  \/ \E id \in DOMAIN docHist : Restore(i, id)
  \/ \E c \in Case : DeactivateCase(i, c)
  \/ \E d \in Doc : Refreshing(i, d) /\ Refreshes(i, d)
  \/ \E d \in Doc, S \in SUBSET Case : Refreshing(i, d) /\ Confirms(i, d, S)

(* Testcases are upserted, into the pool or into an emptied one. *)
PoolForms(i) ==
  \/ pool'[i] = pool[i] /\ tcHist'[i] = tcHist[i]
  \/ \E new \in Pool :
       /\ \A c \in Case : new[c] # NoTc => GivenBody(i, c, new[c])
       /\ \/ /\ pool'[i] = Upserted(pool[i], new)
             /\ tcHist'[i] = UpsertedHist(tcHist[i], pool[i], new)
          \/ /\ \E b \in Bundles(i) : MaterializePool(i, b, TRUE)
             /\ pool'[i] = Upserted(EmptyPool, new)
             /\ tcHist'[i] = UpsertedHist(CascadedPool(tcHist[i]), EmptyPool, new)

DocForms(i) ==
  \/ doc'[i] = doc[i]
  \/ \E d \in AuthoredDocs[i] : doc'[i] = [doc[i] EXCEPT !.draft = d]
  \/ doc'[i] = [applied |-> doc[i].draft, draft |-> EmptyDoc]
  \/ \E id \in DOMAIN docHist :
       /\ docHist[id] # Deleted /\ docHist[id].inst = i
       /\ doc'[i] = [applied |-> docHist[id].doc, draft |-> EmptyDoc]
  \/ doc'[i] = SyncedFacade(cases'[i])

(* An entry of the document history is old, deleted or one of the documents *)
(* of its institution.                                                      *)
HistForms ==
  \A id \in DOMAIN docHist' :
    \/ id \in DOMAIN docHist /\ docHist'[id] = docHist[id]
    \/ docHist'[id] = Deleted
    \/ \E i \in Inst : docHist'[id] \in {[inst |-> i, doc |-> doc[i].draft],
                                         [inst |-> i, doc |-> doc[i].applied]}

Forms == HistForms /\ \A i \in Inst : RuleForms(i) /\ PoolForms(i) /\ DocForms(i)

-----------------------------------------------------------------------------
(* Every step has these forms. *)

(* Publishing no rule changes nothing. *)
LEMMA PublishedNothing ==
  ASSUME NEW rows \in Rows, NEW hist \in Hists
  PROVE  PublishedRows(rows, EmptyDoc) = rows /\ PublishedHist(hist, rows, EmptyDoc) = hist
BY DEF PublishedRows, PublishedHist, EmptyDoc, Rows, Hists

(* An institution that a step does not touch. *)
LEMMA Untouched ==
  ASSUME NEW j \in Inst, cases'[j] = cases[j], caseHist'[j] = caseHist[j],
         doc'[j] = doc[j], pool'[j] = pool[j], tcHist'[j] = tcHist[j]
  PROVE  RuleForms(j) /\ PoolForms(j) /\ DocForms(j)
BY DEF RuleForms, PoolForms, DocForms

(* A step of institution i has the forms if it has them there. *)
LEMMA FormsOf ==
  ASSUME NEW i \in Inst, RuleForms(i), PoolForms(i), DocForms(i), HistForms,
         \A j \in Inst \ {i} :
           /\ cases'[j] = cases[j] /\ caseHist'[j] = caseHist[j]
           /\ doc'[j] = doc[j] /\ pool'[j] = pool[j] /\ tcHist'[j] = tcHist[j]
  PROVE  Forms
<1>1. ASSUME NEW j \in Inst
      PROVE  RuleForms(j) /\ PoolForms(j) /\ DocForms(j)
  <2>1. CASE j = i
    BY <2>1
  <2>2. CASE j # i
    BY <2>2, Untouched
  <2> QED BY <2>1, <2>2
<1> QED BY <1>1 DEF Forms

(* What a document of looked up rules refreshes and materialises to. *)
LEMMA GivenFacts ==
  ASSUME TypeInv, NEW i \in Inst, NEW d \in Doc, Given(i, d)
  PROVE  /\ Synced(i, d) \in Doc /\ Refreshing(i, Synced(i, d))
         /\ Bodies(d) \in Pool
         /\ \A c \in Case : Bodies(d)[c] # NoTc => GivenBody(i, c, Bodies(d)[c])
<1>1. Synced(i, d) \in Doc /\ Bodies(d) \in Pool
  BY BodiesType DEF Synced
<1>2. Refreshing(i, Synced(i, d))
  BY DEF Refreshing, Given, Synced, Only
<1>3. ASSUME NEW c \in Case, Bodies(d)[c] # NoTc
      PROVE  GivenBody(i, c, Bodies(d)[c])
  <2>1. d[c] # NoRule /\ Bodies(d)[c] = d[c].input
    BY <1>3 DEF Bodies
  <2>2. PICK b \in Bundles(i) : BuiltFrom(i, b) /\ d[c] = RuleFor(i, c, b)
    BY <2>1 DEF Given
  <2> QED BY <2>1, <2>2 DEF GivenBody
<1> QED BY <1>1, <1>2, <1>3

(* A materialisation, into a pool and versions that are kept or emptied. *)
LEMMA MaterialisedForms ==
  ASSUME TypeInv, NEW i \in Inst, NEW d \in Doc, Given(i, d), UNCHANGED docVars,
         \/ Materialised(i, pool[i], tcHist[i], d)
         \/ /\ \E b \in Bundles(i) : MaterializePool(i, b, TRUE)
            /\ Materialised(i, EmptyPool, CascadedPool(tcHist[i]), d)
  PROVE  Forms
<1>t. /\ cases \in [Inst -> Rows] /\ caseHist \in [Inst -> Hists]
      /\ pool \in [Inst -> Pool] /\ tcHist \in [Inst -> TcHist]
  BY DEF TypeInv, TypeOK, Hists
<1> DEFINE e == Synced(i, d)
           new == Bodies(d)
<1>1. /\ e \in Doc /\ Refreshing(i, e) /\ new \in Pool
      /\ \A c \in Case : new[c] # NoTc => GivenBody(i, c, new[c])
  BY GivenFacts
<1>2. /\ cases' = [cases EXCEPT ![i] = PublishedRows(cases[i], e)]
      /\ caseHist' = [caseHist EXCEPT ![i] = PublishedHist(caseHist[i], cases[i], e)]
  BY <1>t DEF Materialised
<1>3. \/ /\ pool' = [pool EXCEPT ![i] = Upserted(pool[i], new)]
         /\ tcHist' = [tcHist EXCEPT ![i] = UpsertedHist(tcHist[i], pool[i], new)]
      \/ /\ \E b \in Bundles(i) : MaterializePool(i, b, TRUE)
         /\ pool' = [pool EXCEPT ![i] = Upserted(EmptyPool, new)]
         /\ tcHist' = [tcHist EXCEPT
                         ![i] = UpsertedHist(CascadedPool(tcHist[i]), EmptyPool, new)]
  BY DEF Materialised
<1> HIDE DEF e, new
<1>4. RuleForms(i)
  BY <1>t, <1>1, <1>2 DEF RuleForms, Refreshes
<1>5. PoolForms(i)
  BY <1>t, <1>1, <1>3 DEF PoolForms
<1>6. doc' = doc /\ docHist' = docHist
  BY DEF docVars
<1>7. DocForms(i) /\ HistForms
  BY <1>6 DEF DocForms, HistForms
<1>8. \A j \in Inst \ {i} : /\ cases'[j] = cases[j] /\ caseHist'[j] = caseHist[j]
                            /\ doc'[j] = doc[j]
                            /\ pool'[j] = pool[j] /\ tcHist'[j] = tcHist[j]
  BY <1>t, <1>2, <1>3, <1>6
<1> QED BY <1>4, <1>5, <1>7, <1>8, FormsOf

(* A write to testcases alone. *)
LEMMA UpsertForms ==
  ASSUME TypeInv, NEW i \in Inst, NEW new \in Pool,
         \A c \in Case : new[c] # NoTc => GivenBody(i, c, new[c]),
         pool' = [pool EXCEPT ![i] = Upserted(pool[i], new)],
         tcHist' = [tcHist EXCEPT ![i] = UpsertedHist(tcHist[i], pool[i], new)],
         cases' = cases, caseHist' = caseHist, doc' = doc, docHist' = docHist
  PROVE  Forms
<1>t. pool \in [Inst -> Pool] /\ tcHist \in [Inst -> TcHist]
  BY DEF TypeInv, TypeOK
<1>1. /\ pool'[i] = Upserted(pool[i], new)
      /\ tcHist'[i] = UpsertedHist(tcHist[i], pool[i], new)
      /\ \A j \in Inst \ {i} : pool'[j] = pool[j] /\ tcHist'[j] = tcHist[j]
  BY <1>t
<1>2. PoolForms(i)
  BY <1>1 DEF PoolForms
<1>3. RuleForms(i) /\ DocForms(i) /\ HistForms
  BY DEF RuleForms, DocForms, HistForms
<1> QED BY <1>1, <1>2, <1>3, FormsOf

(* The document history keeps its entries when one of the institution's two *)
(* documents is added.                                                      *)
LEMMA HistFormsAppend ==
  ASSUME docHist \in Seq(DocSnap \cup {Deleted}), doc \in [Inst -> Facade],
         NEW i \in Inst, NEW d \in {doc[i].draft, doc[i].applied},
         docHist' = Append(docHist, [inst |-> i, doc |-> d])
  PROVE  HistForms
<1> DEFINE x == [inst |-> i, doc |-> d]
<1>1. x \in DocSnap
  BY DEF DocSnap, Facade
<1>2. x \in {[inst |-> i, doc |-> doc[i].draft], [inst |-> i, doc |-> doc[i].applied]}
  OBVIOUS
<1> HIDE DEF x
<1>3. ASSUME NEW id \in DOMAIN docHist'
      PROVE  (id \in DOMAIN docHist /\ docHist'[id] = docHist[id]) \/ docHist'[id] = x
  <2>1. docHist' = Append(docHist, x)
    BY DEF x
  <2> QED BY <1>1, <1>3, <2>1
<1> QED BY <1>2, <1>3 DEF HistForms

(* A whole confirmation, after a refresh or not. *)
LEMMA AppliedForms ==
  ASSUME TypeInv, NEW i \in Inst, NEW d \in Doc, Refreshing(i, d),
         Applied(i, PublishedRows(cases[i], d), PublishedHist(caseHist[i], cases[i], d)),
         \A c \in Case : HasDraft(cases[i], c) => pool'[i][c] # NoTc,
         PoolForms(i),
         \A j \in Inst \ {i} : pool'[j] = pool[j] /\ tcHist'[j] = tcHist[j]
  PROVE  Forms
<1>t. /\ cases \in [Inst -> Rows] /\ caseHist \in [Inst -> Hists]
      /\ doc \in [Inst -> Facade] /\ docHist \in Seq(DocSnap \cup {Deleted})
  BY DEF TypeInv, TypeOK, Hists
<1> DEFINE rows  == PublishedRows(cases[i], d)
           hist  == PublishedHist(caseHist[i], cases[i], d)
           draft == DraftDoc(rows)
<1>1. rows \in Rows /\ draft \in Doc
  BY <1>t, RowsTypes, DocTypes
<1>2. draft = Only(draft, Case)
  BY <1>1 DEF Only, Doc
<1>3. /\ cases' = [cases EXCEPT ![i] = ClearedDrafts(PublishedRows(rows, draft), Case)]
      /\ caseHist' = [caseHist EXCEPT ![i] = PublishedHist(hist, rows, draft)]
      /\ doc' = [doc EXCEPT ![i] = [applied |-> doc[i].draft, draft |-> EmptyDoc]]
      /\ docHist' = Append(docHist, [inst |-> i, doc |-> doc[i].draft])
  BY DEF Applied
<1> HIDE DEF rows, hist, draft
<1>4. /\ cases'[i] = ClearedDrafts(PublishedRows(rows, Only(draft, Case)), Case)
      /\ caseHist'[i] = PublishedHist(hist, rows, Only(draft, Case))
  BY <1>t, <1>2, <1>3
<1>5. Confirms(i, d, Case)
  BY <1>4 DEF Confirms, rows, hist, draft
<1>6. RuleForms(i)
  BY <1>5 DEF RuleForms
<1>7. DocForms(i)
  BY <1>t, <1>3 DEF DocForms
<1>8. HistForms
  BY <1>t, <1>3, HistFormsAppend
<1>9. \A j \in Inst \ {i} : /\ cases'[j] = cases[j] /\ caseHist'[j] = caseHist[j]
                            /\ doc'[j] = doc[j]
  BY <1>t, <1>3
<1> QED BY <1>6, <1>7, <1>8, <1>9, FormsOf

(* Every step has the forms, action by action. *)
LEMMA StepForms == TypeInv /\ Next => Forms
<1> SUFFICES ASSUME TypeInv, Next PROVE Forms
  OBVIOUS
<1> USE DEF ruleVars, docVars, poolVars
<1>t. /\ cases \in [Inst -> Rows] /\ caseHist \in [Inst -> Hists]
      /\ doc \in [Inst -> Facade] /\ docHist \in Seq(DocSnap \cup {Deleted})
      /\ pool \in [Inst -> Pool] /\ tcHist \in [Inst -> TcHist]
  BY DEF TypeInv, TypeOK, Hists
<1>d. \A i \in Inst : DefaultBundle \in Bundles(i) /\ Bundles(i) \subseteq Doc
  BY BundleTypes DEF Bundles
<1>e. \A i \in Inst : EmptyDoc \in Doc /\ Refreshing(i, EmptyDoc)
  BY DEF EmptyDoc, Doc, Refreshing, Given
<1>n. \A i \in Inst : /\ PublishedRows(cases[i], EmptyDoc) = cases[i]
                      /\ PublishedHist(caseHist[i], cases[i], EmptyDoc) = caseHist[i]
  BY <1>t, PublishedNothing
<1>1. ASSUME NEW i \in Inst, NEW d \in AuthoredDocs[i], UpsertDraft(i, d)
      PROVE  Forms
  <2>1. RuleForms(i)
    BY <1>1 DEF RuleForms
  <2>2. /\ doc' = [doc EXCEPT ![i] = [doc[i] EXCEPT !.draft = d]]
        /\ docHist' = docHist /\ pool' = pool /\ tcHist' = tcHist
    BY <1>1 DEF UpsertDraft
  <2>3. DocForms(i) /\ HistForms /\ PoolForms(i)
    BY <1>t, <2>2 DEF DocForms, HistForms, PoolForms
  <2>4. \A j \in Inst \ {i} : /\ cases'[j] = cases[j] /\ caseHist'[j] = caseHist[j]
                              /\ doc'[j] = doc[j]
    BY <1>1, <1>t, <2>2 DEF UpsertDraft
  <2> QED BY <2>1, <2>2, <2>3, <2>4, FormsOf
<1>2. ASSUME NEW i \in Inst, ApplyDraft(i)
      PROVE  Forms
  <2>1. /\ Applied(i, cases[i], caseHist[i]) /\ pool' = pool /\ tcHist' = tcHist
        /\ \A c \in Case : HasDraft(cases[i], c) => pool[i][c] # NoTc
    BY <1>2 DEF ApplyDraft, DraftsMaterialised
  <2>2. PoolForms(i)
    BY <2>1 DEF PoolForms
  <2>3. Applied(i, PublishedRows(cases[i], EmptyDoc),
                   PublishedHist(caseHist[i], cases[i], EmptyDoc))
    BY <1>n, <2>1
  <2> QED BY <1>e, <2>1, <2>2, <2>3, AppliedForms
<1>3. ASSUME NEW i \in Inst, ActivateBundle(i)
      PROVE  Forms
  <2> DEFINE d == [c \in Case |->
                     IF HasDraft(cases[i], c) /\ pool[i][c] = NoTc
                     THEN RuleFor(i, c, DefaultBundle) ELSE NoRule]
             e == Synced(i, d)
             new == Bodies(d)
  <2>1. d \in Doc
    BY BundleTypes DEF Doc
  <2>2. Given(i, d)
    BY <1>3, <1>d DEF Given, BuiltFrom
  <2>3. \A c \in Case : HasDraft(cases[i], c) /\ pool[i][c] = NoTc => new[c] # NoTc
    <3> SUFFICES ASSUME NEW c \in Case, HasDraft(cases[i], c), pool[i][c] = NoTc
                 PROVE  new[c] # NoTc
      OBVIOUS
    <3>1. DraftRule(cases[i][c]) \in Rule
      BY <1>t, DraftRuleType DEF HasDraft, Rows
    <3>2. RuleFor(i, c, DefaultBundle) # NoRule
      BY <3>1, RuleRowsAssumption DEF RuleFor
    <3>3. d[c] = RuleFor(i, c, DefaultBundle) /\ d[c] \in Rule
      BY <2>1, <3>2 DEF Doc
    <3>4. new[c] = d[c].input
      BY <3>2, <3>3 DEF Bodies
    <3> QED BY <3>3, <3>4, PoolRowsAssumption DEF Rule
  <2>4. /\ pool' = [pool EXCEPT ![i] = Upserted(pool[i], new)]
        /\ tcHist' = [tcHist EXCEPT ![i] = UpsertedHist(tcHist[i], pool[i], new)]
        /\ Applied(i, PublishedRows(cases[i], e), PublishedHist(caseHist[i], cases[i], e))
    BY <1>3, <1>t DEF ActivateBundle
  <2> HIDE DEF d
  <2>5. /\ e \in Doc /\ Refreshing(i, e) /\ new \in Pool
        /\ \A c \in Case : new[c] # NoTc => GivenBody(i, c, new[c])
    BY <2>1, <2>2, GivenFacts
  <2> HIDE DEF e, new
  <2>6. PoolForms(i)
    BY <1>t, <2>4, <2>5 DEF PoolForms
  <2>7. \A c \in Case : HasDraft(cases[i], c) => pool'[i][c] # NoTc
    BY <1>t, <2>3, <2>4 DEF Upserted
  <2>8. \A j \in Inst \ {i} : pool'[j] = pool[j] /\ tcHist'[j] = tcHist[j]
    BY <1>t, <2>4
  <2> QED BY <2>4, <2>5, <2>6, <2>7, <2>8, AppliedForms
<1>4. ASSUME NEW i \in Inst, NEW c \in Case, ApplyDraftCase(i, c)
      PROVE  Forms
  <2> DEFINE draft == Only(DraftDoc(cases[i]), {c})
             rows  == ClearedDrafts(PublishedRows(cases[i], draft), {c})
             hist  == PublishedHist(caseHist[i], cases[i], draft)
  <2>1. /\ cases' = [cases EXCEPT ![i] = rows]
        /\ caseHist' = [caseHist EXCEPT ![i] = hist]
        /\ doc' = [doc EXCEPT ![i] = SyncedFacade(rows)]
        /\ docHist' = docHist /\ pool' = pool /\ tcHist' = tcHist
        /\ pool[i][c] # NoTc
    BY <1>4, <1>t DEF ApplyDraftCase
  <2>2. Confirms(i, EmptyDoc, {c})
    BY <1>n, <1>t, <2>1 DEF Confirms
  <2>3. RuleForms(i)
    BY <1>e, <2>2 DEF RuleForms
  <2> HIDE DEF rows, hist
  <2>4. PoolForms(i) /\ DocForms(i) /\ HistForms
    BY <1>t, <2>1 DEF PoolForms, DocForms, HistForms
  <2>5. \A j \in Inst \ {i} : /\ cases'[j] = cases[j] /\ caseHist'[j] = caseHist[j]
                              /\ doc'[j] = doc[j]
    BY <1>t, <2>1
  <2> QED BY <2>1, <2>3, <2>4, <2>5, FormsOf
<1>5. ASSUME NEW i \in Inst, NEW c \in Case, DeactivateCase(i, c)
      PROVE  Forms
  <2> DEFINE rows == [cases[i] EXCEPT ![c] = DeactivatedRow(@)]
  <2>1. /\ cases' = [cases EXCEPT ![i] = rows]
        /\ doc' = [doc EXCEPT ![i] = SyncedFacade(rows)]
        /\ caseHist' = caseHist /\ docHist' = docHist /\ pool' = pool /\ tcHist' = tcHist
    BY <1>5, <1>t DEF DeactivateCase
  <2>2. RuleForms(i)
    BY <1>5 DEF RuleForms
  <2> HIDE DEF rows
  <2>3. PoolForms(i) /\ DocForms(i) /\ HistForms
    BY <1>t, <2>1 DEF PoolForms, DocForms, HistForms
  <2>4. \A j \in Inst \ {i} : /\ cases'[j] = cases[j] /\ doc'[j] = doc[j]
    BY <1>t, <2>1
  <2> QED BY <2>1, <2>2, <2>3, <2>4, FormsOf
<1>6. ASSUME NEW i \in Inst, NEW id \in DOMAIN docHist, Restore(i, id)
      PROVE  Forms
  <2>1. RuleForms(i)
    BY <1>6 DEF RuleForms
  <2>2. /\ docHist[id] # Deleted /\ docHist[id].inst = i
        /\ doc' = [doc EXCEPT ![i] = [applied |-> docHist[id].doc, draft |-> EmptyDoc]]
        /\ \/ docHist' = docHist
           \/ docHist' = Append(docHist, [inst |-> i, doc |-> doc[i].applied])
        /\ pool' = pool /\ tcHist' = tcHist
    BY <1>6 DEF Restore
  <2>3. DocForms(i)
    BY <1>t, <2>2 DEF DocForms
  <2>4. HistForms
    <3>1. CASE docHist' = docHist
      BY <3>1 DEF HistForms
    <3> QED BY <1>t, <2>2, <3>1, HistFormsAppend
  <2>5. PoolForms(i)
    BY <2>2 DEF PoolForms
  <2>6. \A j \in Inst \ {i} : /\ cases'[j] = cases[j] /\ caseHist'[j] = caseHist[j]
                              /\ doc'[j] = doc[j]
    BY <1>6, <1>t DEF Restore
  <2> QED BY <2>1, <2>2, <2>3, <2>4, <2>5, <2>6, FormsOf
<1>7. ASSUME NEW i \in Inst, NEW b \in Bundles(i), NEW replace \in BOOLEAN,
             MaterializePool(i, b, replace)
      PROVE  Forms
  <2>1. Mapped(i, b) \in Doc
    BY <1>d, BodiesType DEF Mapped
  <2>2. Given(i, Mapped(i, b))
    <3>1. BuiltFrom(i, b)
      BY <1>7 DEF BuiltFrom
    <3> QED BY <3>1 DEF Given, Mapped, Only, RuleFor
  <2>3. \/ Materialised(i, pool[i], tcHist[i], Mapped(i, b))
        \/ /\ \E x \in Bundles(i) : MaterializePool(i, x, TRUE)
           /\ Materialised(i, EmptyPool, CascadedPool(tcHist[i]), Mapped(i, b))
    <3>1. CASE replace
      BY <1>7, <3>1 DEF MaterializePool
    <3>2. CASE ~ replace
      BY <1>7, <3>2 DEF MaterializePool
    <3> QED BY <3>1, <3>2
  <2>4. UNCHANGED docVars
    BY <1>7 DEF MaterializePool
  <2> QED BY <2>1, <2>2, <2>3, <2>4, MaterialisedForms
<1>8. ASSUME NEW i \in Inst, NEW b \in Bundles(i), NEW c \in Case,
             MaterializeOne(i, c, b)
      PROVE  Forms
  <2> DEFINE d == [EmptyDoc EXCEPT ![c] = RuleFor(i, c, b)]
  <2>1. d \in Doc
    BY <1>d, <1>e, BundleTypes DEF Doc
  <2>2. Given(i, d)
    <3>1. BuiltFrom(i, b)
      BY <1>8 DEF BuiltFrom
    <3> QED BY <3>1 DEF Given, EmptyDoc
  <2>3. Materialised(i, pool[i], tcHist[i], d) /\ UNCHANGED docVars
    BY <1>8 DEF MaterializeOne
  <2> HIDE DEF d
  <2> QED BY <2>1, <2>2, <2>3, MaterialisedForms
<1>9. ASSUME NEW i \in Inst, ListEligible(i)
      PROVE  Forms
  <2> DEFINE new == Bodies(AppliedDoc(cases[i]))
  <2>1. new \in Pool
    BY <1>t, DocTypes, BodiesType
  <2>2. \A c \in Case : new[c] # NoTc => GivenBody(i, c, new[c])
    BY DEF Bodies, AppliedDoc, GivenBody
  <2> QED BY <1>9, <2>1, <2>2, UpsertForms DEF ListEligible
<1>10. ASSUME NEW i \in Inst, NEW c \in Case, NEW b \in Input, PutTestcase(i, c, b),
              c \in PoolCase \/ b \in Authored[i]
       PROVE  Forms
  <2> DEFINE new == [EmptyPool EXCEPT ![c] = b]
  <2>1. new \in Pool
    BY DEF EmptyPool, Pool
  <2>2. \A e \in Case : new[e] # NoTc => GivenBody(i, e, new[e])
    BY <1>10 DEF EmptyPool, GivenBody
  <2> QED BY <1>10, <2>1, <2>2, UpsertForms DEF PutTestcase
<1>11. ASSUME NEW id \in DOMAIN docHist, DeleteHistory(id)
       PROVE  Forms
  <2>1. HistForms
    BY <1>11, <1>t DEF HistForms, DeleteHistory
  <2> QED BY <1>11, <2>1, Untouched DEF DeleteHistory, Forms
<1> QED BY <1>1, <1>2, <1>3, <1>4, <1>5, <1>6, <1>7, <1>8, <1>9, <1>10, <1>11
        DEF Next, RuleStep, PoolStep, PatchTestcase, PromoteSample

-----------------------------------------------------------------------------
(* Drafts and confirmed rules. *)

(* A refresh keeps what is drafted and what is confirmed. *)
LEMMA RefreshFacts ==
  ASSUME NEW rows \in Rows, NEW d \in Doc, NEW c \in Case,
         d[c] # NoRule => IsLive(rows, c)
  PROVE  LET new == PublishedRows(rows, d) IN
         /\ HasDraft(new, c) <=> HasDraft(rows, c)
         /\ HasDraft(rows, c) => new[c].draft = rows[c].draft
         /\ IsLive(new, c) <=> IsLive(rows, c)
         /\ new[c] = NoRow <=> rows[c] = NoRow
<1>1. CASE d[c] # NoRule
  <2>1. IsLive(rows, c) /\ RowAt(rows, c) = rows[c]
    BY <1>1 DEF RowAt, IsLive
  <2>2. IsLive(PublishedRows(rows, d), c) /\ PublishedRows(rows, d)[c].draft = rows[c].draft
    BY <1>1, <2>1, PublishedFacts
  <2> QED BY <2>1, <2>2 DEF HasDraft, IsLive
<1>2. CASE d[c] = NoRule
  <2>1. PublishedRows(rows, d)[c] = rows[c]
    BY <1>2, PublishedFacts
  <2> QED BY <2>1 DEF HasDraft, IsLive
<1> QED BY <1>1, <1>2

(* Confirming the drafts of the cases S confirms these, with the contents   *)
(* that were drafted, and leaves the others as they are.                    *)
LEMMA ConfirmFacts ==
  ASSUME NEW rows \in Rows, NEW S \in SUBSET Case, NEW c \in Case
  PROVE  LET draft == Only(DraftDoc(rows), S)
             new   == ClearedDrafts(PublishedRows(rows, draft), S) IN
         /\ IsLive(new, c) <=> IsLive(rows, c) \/ (c \in S /\ HasDraft(rows, c))
         /\ c \in S /\ HasDraft(rows, c) => new[c].rule = DraftRule(rows[c])
         /\ ~ (c \in S /\ HasDraft(rows, c)) /\ IsLive(rows, c) => new[c].rule = rows[c].rule
         /\ HasDraft(new, c) <=> HasDraft(rows, c) /\ c \notin S
         /\ HasDraft(new, c) => new[c].draft = rows[c].draft
         /\ new[c] = NoRow <=> rows[c] = NoRow
         /\ draft[c] # NoRule => c \in S /\ HasDraft(rows, c)
<1> DEFINE draft == Only(DraftDoc(rows), S)
           pub   == PublishedRows(rows, draft)
           new   == ClearedDrafts(pub, S)
<1>1. draft \in Doc /\ pub \in Rows
  BY DocTypes, BodiesType, RowsTypes
<1>2. HasDraft(rows, c) => DraftRule(rows[c]) # NoRule
  BY DraftRuleType, RuleRowsAssumption DEF HasDraft, Rows
<1>3. /\ draft[c] # NoRule <=> c \in S /\ HasDraft(rows, c)
      /\ c \in S /\ HasDraft(rows, c) => draft[c] = DraftRule(rows[c])
  BY <1>2 DEF Only, DraftDoc
<1>4. /\ IsLive(new, c) <=> IsLive(pub, c)
      /\ IsLive(pub, c) => new[c].rule = pub[c].rule
      /\ HasDraft(new, c) <=> HasDraft(pub, c) /\ c \notin S
      /\ new[c] = NoRow <=> pub[c] = NoRow
  BY <1>1, ClearedFacts
<1>5. c \notin S => new[c] = pub[c]
  BY DEF ClearedDrafts
<1> HIDE DEF draft, new
<1>6. CASE draft[c] # NoRule
  <2>1. IsLive(pub, c) /\ pub[c].rule = draft[c]
    BY <1>1, <1>6, PublishedFacts
  <2> QED BY <1>3, <1>4, <1>5, <1>6, <2>1 DEF draft, new, IsLive, HasDraft
<1>7. CASE draft[c] = NoRule
  <2>1. pub[c] = rows[c]
    BY <1>1, <1>7, PublishedFacts
  <2>2. (IsLive(pub, c) <=> IsLive(rows, c)) /\ (HasDraft(pub, c) <=> HasDraft(rows, c))
    BY <2>1 DEF IsLive, HasDraft
  <2> QED BY <1>3, <1>4, <1>5, <1>7, <2>1, <2>2 DEF draft, new
<1> QED BY <1>6, <1>7

(* A case that was not confirmed is confirmed by a restore or by confirming *)
(* its draft, which then has a testcase.                                    *)
LEMMA ConfirmedStep ==
  ASSUME TypeInv, NEW i \in Inst, NEW c \in Case, RuleForms(i),
         ~ IsLive(cases[i], c), IsLive(cases'[i], c)
  PROVE  \/ HasDraft(cases[i], c) /\ pool'[i][c] # NoTc
         \/ \E id \in DOMAIN docHist : Restore(i, id)
<1>t. cases \in [Inst -> Rows] /\ cases[i] \in Rows
  BY DEF TypeInv
<1>1. CASE cases'[i] = cases[i]
  BY <1>1
<1>2. ASSUME NEW d \in AuthoredDocs[i], UpsertDraft(i, d)
      PROVE  FALSE
  <2>1. cases'[i] = SavedRows(cases[i], d) /\ d \in Doc
    BY <1>2, <1>t DEF UpsertDraft, AuthoredDocs
  <2> QED BY <1>t, <2>1, SavedFacts
<1>3. ASSUME NEW e \in Case, DeactivateCase(i, e)
      PROVE  FALSE
  <2>1. cases'[i] = [cases[i] EXCEPT ![e] = DeactivatedRow(@)] /\ IsLive(cases[i], e)
    BY <1>3, <1>t DEF DeactivateCase
  <2> QED BY <1>t, <2>1, DeactivatedFacts DEF IsLive
<1>4. ASSUME NEW d \in Doc, Refreshing(i, d), Refreshes(i, d)
      PROVE  FALSE
  BY <1>4, <1>t, RefreshFacts DEF Refreshing, Refreshes
<1>5. ASSUME NEW d \in Doc, NEW S \in SUBSET Case, Refreshing(i, d), Confirms(i, d, S)
      PROVE  HasDraft(cases[i], c) /\ pool'[i][c] # NoTc
  <2> DEFINE rows == PublishedRows(cases[i], d)
  <2>1. rows \in Rows
    BY <1>t, RowsTypes
  <2>2. /\ IsLive(rows, c) <=> IsLive(cases[i], c)
        /\ HasDraft(rows, c) <=> HasDraft(cases[i], c)
    BY <1>5, <1>t, RefreshFacts DEF Refreshing
  <2>3. cases'[i] = ClearedDrafts(PublishedRows(rows, Only(DraftDoc(rows), S)), S)
    BY <1>5 DEF Confirms
  <2> HIDE DEF rows
  <2>4. c \in S /\ HasDraft(rows, c)
    BY <2>1, <2>2, <2>3, ConfirmFacts
  <2> QED BY <1>5, <2>2, <2>4 DEF Confirms
<1> QED BY <1>1, <1>2, <1>3, <1>4, <1>5 DEF RuleForms

(***************************************************************************)
(* Outside a restore a case becomes usable in scenarios only by confirming *)
(* its draft, and then it has a testcase to run: also where activating     *)
(* materialises and refreshes before it confirms.                          *)
(***************************************************************************)
THEOREM ConfirmedCorrect == Spec => ConfirmedWithTestcase
<1>1. ASSUME TypeInv, Next
      PROVE  \A i \in Inst, c \in Case :
               (~ IsLive(cases[i], c) /\ IsLive(cases'[i], c))
                 => \/ HasDraft(cases[i], c) /\ pool'[i][c] # NoTc
                    \/ \E id \in DOMAIN docHist : Restore(i, id)
  BY <1>1, StepForms, ConfirmedStep DEF Forms
<1> QED BY <1>1, TypeInvInit, TypeInvStep, PTL DEF Spec, ConfirmedWithTestcase

(* What becomes of a draft. *)
LEMMA DraftStep ==
  ASSUME TypeInv, NEW i \in Inst, NEW c \in Case, RuleForms(i), HasDraft(cases[i], c)
  PROVE  \/ HasDraft(cases'[i], c)
         \/ cases'[i][c] # NoRow /\ cases'[i][c].rule.input = cases[i][c].draft.input
                                 /\ IsLive(cases'[i], c)
         \/ \E d \in AuthoredDocs[i] : UpsertDraft(i, d)
         \/ \E id \in DOMAIN docHist : Restore(i, id)
<1>t. cases \in [Inst -> Rows] /\ cases[i] \in Rows
  BY DEF TypeInv
<1>1. CASE cases'[i] = cases[i]
  BY <1>1
<1>2. ASSUME NEW e \in Case, DeactivateCase(i, e)
      PROVE  HasDraft(cases'[i], c)
  <2>1. cases'[i] = [cases[i] EXCEPT ![e] = DeactivatedRow(@)] /\ IsLive(cases[i], e)
    BY <1>2, <1>t DEF DeactivateCase
  <2> QED BY <1>t, <2>1, DeactivatedFacts DEF HasDraft
<1>3. ASSUME NEW d \in Doc, Refreshing(i, d), Refreshes(i, d)
      PROVE  HasDraft(cases'[i], c)
  BY <1>3, <1>t, RefreshFacts DEF Refreshing, Refreshes
<1>4. ASSUME NEW d \in Doc, NEW S \in SUBSET Case, Refreshing(i, d), Confirms(i, d, S)
      PROVE  \/ HasDraft(cases'[i], c)
             \/ IsLive(cases'[i], c) /\ cases'[i][c].rule.input = cases[i][c].draft.input
  <2> DEFINE rows == PublishedRows(cases[i], d)
  <2>1. rows \in Rows
    BY <1>t, RowsTypes
  <2>2. HasDraft(rows, c) /\ rows[c].draft = cases[i][c].draft
    BY <1>4, <1>t, RefreshFacts DEF Refreshing
  <2>3. cases'[i] = ClearedDrafts(PublishedRows(rows, Only(DraftDoc(rows), S)), S)
    BY <1>4 DEF Confirms
  <2> HIDE DEF rows
  <2>4. CASE c \in S
    <3>1. IsLive(cases'[i], c) /\ cases'[i][c].rule = DraftRule(rows[c])
      BY <2>1, <2>2, <2>3, <2>4, ConfirmFacts
    <3> QED BY <2>2, <3>1 DEF DraftRule
  <2>5. CASE c \notin S
    BY <2>1, <2>2, <2>3, <2>5, ConfirmFacts
  <2> QED BY <2>4, <2>5
<1> QED BY <1>1, <1>2, <1>3, <1>4 DEF RuleForms, IsLive

(***************************************************************************)
(* No draft is lost: it stays, is confirmed with its contents, or a save   *)
(* or a restore replaces all drafts.                                       *)
(***************************************************************************)
THEOREM DraftsCorrect == Spec => DraftsAreNotLost
<1>1. ASSUME TypeInv, Next
      PROVE  \A i \in Inst, c \in Case :
               HasDraft(cases[i], c) =>
                 \/ HasDraft(cases'[i], c)
                 \/ cases'[i][c] # NoRow /\ cases'[i][c].rule.input = cases[i][c].draft.input
                                         /\ IsLive(cases'[i], c)
                 \/ \E d \in AuthoredDocs[i] : UpsertDraft(i, d)
                 \/ \E id \in DOMAIN docHist : Restore(i, id)
  BY <1>1, StepForms, DraftStep DEF Forms
<1>2. UNCHANGED vars => \A i \in Inst, c \in Case :
        HasDraft(cases[i], c) => HasDraft(cases'[i], c)
  BY DEF vars
<1> QED BY <1>1, <1>2, TypeInvInit, TypeInvStep, PTL DEF Spec, DraftsAreNotLost

-----------------------------------------------------------------------------
(* Versions. *)

(* A sequence is a prefix of itself and of itself with one more element. *)
LEMMA PrefixAppend ==
  ASSUME NEW S, NEW s \in Seq(S), NEW x \in S
  PROVE  IsPrefix(s, s) /\ IsPrefix(s, Append(s, x))
BY DEF IsPrefix

(* Publishing appends at most one version. *)
LEMMA PublishedAppends ==
  ASSUME NEW hist \in Hists, NEW d \in Doc, NEW rows, NEW c \in Case
  PROVE  IsPrefix(hist[c], PublishedHist(hist, rows, d)[c])
<1>1. hist[c] \in Seq(Rule) /\ d[c] \in Rule \cup {NoRule}
  BY DEF Hists, Doc
<1>2. CASE PublishedHist(hist, rows, d)[c] = hist[c]
  BY <1>1, <1>2 DEF IsPrefix
<1>3. CASE d[c] # NoRule /\ PublishedHist(hist, rows, d)[c] = Append(hist[c], d[c])
  <2>1. d[c] \in Rule
    BY <1>1, <1>3
  <2> QED BY <1>1, <1>3, <2>1, PrefixAppend
<1> QED BY <1>2, <1>3 DEF PublishedHist

(* So does upserting. *)
LEMMA UpsertedAppends ==
  ASSUME NEW h \in TcHist, NEW p, NEW new \in Pool, NEW c \in Case
  PROVE  IsPrefix(h[c], UpsertedHist(h, p, new)[c])
<1>1. h[c] \in Seq(Input) /\ new[c] \in Input \cup {NoTc}
  BY DEF TcHist, Pool
<1>2. CASE UpsertedHist(h, p, new)[c] = h[c]
  BY <1>1, <1>2 DEF IsPrefix
<1>3. CASE new[c] # NoTc /\ UpsertedHist(h, p, new)[c] = Append(h[c], new[c])
  <2>1. new[c] \in Input
    BY <1>1, <1>3
  <2> QED BY <1>1, <1>3, <2>1, PrefixAppend
<1> QED BY <1>2, <1>3 DEF UpsertedHist

(* Being a prefix is transitive. *)
LEMMA PrefixTransitive ==
  ASSUME NEW S, NEW s \in Seq(S), NEW t \in Seq(S), NEW u \in Seq(S),
         IsPrefix(s, t), IsPrefix(t, u)
  PROVE  IsPrefix(s, u)
<1>1. /\ Len(s) <= Len(t) /\ SubSeq(s, 1, Len(s)) = SubSeq(t, 1, Len(s))
      /\ Len(t) <= Len(u) /\ SubSeq(t, 1, Len(t)) = SubSeq(u, 1, Len(t))
  BY DEF IsPrefix
<1>2. /\ \A k \in 1..Len(s) : s[k] = SubSeq(s, 1, Len(s))[k] /\ t[k] = SubSeq(t, 1, Len(s))[k]
      /\ \A k \in 1..Len(t) : t[k] = SubSeq(t, 1, Len(t))[k] /\ u[k] = SubSeq(u, 1, Len(t))[k]
  BY <1>1
<1>3. \A k \in 1..Len(s) : k \in 1..Len(t) /\ s[k] = u[k]
  BY <1>1, <1>2
<1>4. SubSeq(s, 1, Len(s)) = SubSeq(u, 1, Len(s))
  BY <1>1, <1>3
<1> QED BY <1>1, <1>4 DEF IsPrefix

(* What becomes of the versions of a rule. *)
LEMMA RuleVersionsStep ==
  ASSUME TypeInv, NEW i \in Inst, NEW c \in Case, RuleForms(i)
  PROVE  \/ Cascades /\ cases'[i][c] = NoRow
         \/ IsPrefix(caseHist[i][c], caseHist'[i][c])
<1>t. /\ cases \in [Inst -> Rows] /\ cases[i] \in Rows
      /\ caseHist \in [Inst -> Hists] /\ caseHist[i] \in Hists
      /\ caseHist[i][c] \in Seq(Rule)
      /\ docHist \in Seq(DocSnap \cup {Deleted})
  BY DEF TypeInv, TypeOK, Hists
<1>k. IsPrefix(caseHist[i][c], caseHist[i][c])
  BY <1>t DEF IsPrefix
<1>1. CASE caseHist'[i] = caseHist[i]
  BY <1>1, <1>k
<1>2. ASSUME NEW d \in AuthoredDocs[i], UpsertDraft(i, d)
      PROVE  \/ Cascades /\ cases'[i][c] = NoRow
             \/ caseHist'[i][c] = caseHist[i][c]
  BY <1>2, <1>t DEF UpsertDraft, Cascaded
<1>3. ASSUME NEW id \in DOMAIN docHist, Restore(i, id)
      PROVE  \/ Cascades /\ cases'[i][c] = NoRow
             \/ IsPrefix(caseHist[i][c], caseHist'[i][c])
  <2> DEFINE d    == docHist[id].doc
             rows == RestoredRows(cases[i], d)
             hist == PublishedHist(caseHist[i], cases[i], d)
  <2>1. d \in Doc
    BY <1>3, <1>t DEF Restore, DocSnap
  <2>2. cases'[i] = rows /\ caseHist'[i] = Cascaded(hist, rows)
    BY <1>3, <1>t DEF Restore
  <2>3. IsPrefix(caseHist[i][c], hist[c])
    BY <1>t, <2>1, PublishedAppends
  <2> HIDE DEF rows, hist
  <2>4. caseHist'[i][c] = IF Cascades /\ rows[c] = NoRow THEN << >> ELSE hist[c]
    BY <2>2 DEF Cascaded
  <2> QED BY <2>2, <2>3, <2>4
<1>4. ASSUME NEW e \in Case, DeactivateCase(i, e)
      PROVE  caseHist'[i] = caseHist[i]
  BY <1>4 DEF DeactivateCase
<1>5. ASSUME NEW d \in Doc, Refreshes(i, d)
      PROVE  IsPrefix(caseHist[i][c], caseHist'[i][c])
  BY <1>5, <1>t, PublishedAppends DEF Refreshes
<1>6. ASSUME NEW d \in Doc, NEW S \in SUBSET Case, Confirms(i, d, S)
      PROVE  IsPrefix(caseHist[i][c], caseHist'[i][c])
  <2> DEFINE rows  == PublishedRows(cases[i], d)
             draft == Only(DraftDoc(rows), S)
             hist  == PublishedHist(caseHist[i], cases[i], d)
             last  == PublishedHist(hist, rows, draft)
  <2>1. rows \in Rows /\ hist \in Hists
    BY <1>t, RowsTypes, HistTypes
  <2>2. draft \in Doc
    BY <2>1, DocTypes, BodiesType
  <2> HIDE DEF rows, draft
  <2>3. IsPrefix(caseHist[i][c], hist[c])
    BY <1>t, PublishedAppends
  <2> HIDE DEF hist
  <2>4. IsPrefix(hist[c], last[c])
    BY <2>1, <2>2, PublishedAppends
  <2>5. last \in Hists
    BY <2>1, <2>2, HistTypes
  <2>6. caseHist'[i] = last
    BY <1>6 DEF Confirms, rows, draft, hist
  <2> HIDE DEF last
  <2>7. hist[c] \in Seq(Rule) /\ last[c] \in Seq(Rule)
    BY <2>1, <2>5 DEF Hists
  <2> QED BY <1>t, <2>3, <2>4, <2>6, <2>7, PrefixTransitive
<1> QED BY <1>1, <1>2, <1>3, <1>4, <1>5, <1>6, <1>k DEF RuleForms

(* ... and of a testcase. *)
LEMMA PoolVersionsStep ==
  ASSUME TypeInv, NEW i \in Inst, NEW c \in Case, PoolForms(i)
  PROVE  \/ Cascades /\ \E b \in Bundles(i) : MaterializePool(i, b, TRUE)
         \/ IsPrefix(tcHist[i][c], tcHist'[i][c])
<1>t. /\ tcHist[i] \in TcHist /\ tcHist[i][c] \in Seq(Input)
      /\ pool[i] \in Pool /\ EmptyPool \in Pool
  BY DEF TypeInv, TypeOK, TcHist, EmptyPool, Pool
<1>1. CASE tcHist'[i] = tcHist[i]
  BY <1>1, <1>t DEF IsPrefix
<1>2. ASSUME NEW new \in Pool, tcHist'[i] = UpsertedHist(tcHist[i], pool[i], new)
      PROVE  IsPrefix(tcHist[i][c], tcHist'[i][c])
  BY <1>2, <1>t, UpsertedAppends
<1>3. ASSUME NEW new \in Pool, ~ Cascades,
             tcHist'[i] = UpsertedHist(CascadedPool(tcHist[i]), EmptyPool, new)
      PROVE  IsPrefix(tcHist[i][c], tcHist'[i][c])
  <2>1. CascadedPool(tcHist[i]) = tcHist[i]
    BY <1>3 DEF CascadedPool
  <2> QED BY <1>3, <1>t, <2>1, UpsertedAppends
<1> QED BY <1>1, <1>2, <1>3 DEF PoolForms

(***************************************************************************)
(* Versions are never rewritten: those of a rule are extended unless its   *)
(* row is deleted, those of a testcase unless the pool is emptied, and     *)
(* where foreign keys are not enforced always.                             *)
(***************************************************************************)
THEOREM VersionsCorrect == Spec => VersionsOnlyGrow
<1>1. ASSUME TypeInv, Next
      PROVE  \A i \in Inst, c \in Case :
               /\ \/ Cascades /\ cases'[i][c] = NoRow
                  \/ IsPrefix(caseHist[i][c], caseHist'[i][c])
               /\ \/ Cascades /\ \E b \in Bundles(i) : MaterializePool(i, b, TRUE)
                  \/ IsPrefix(tcHist[i][c], tcHist'[i][c])
  BY <1>1, StepForms, RuleVersionsStep, PoolVersionsStep DEF Forms
<1> QED BY <1>1, TypeInvInit, TypeInvStep, PTL DEF Spec, VersionsOnlyGrow

(* A row that is not there has no versions, where foreign keys are enforced. *)
LEMMA NoOrphanStep ==
  ASSUME TypeInv, NoOrphanVersions, Cascades, NEW i \in Inst, NEW c \in Case,
         RuleForms(i), PoolForms(i)
  PROVE  /\ cases'[i][c] = NoRow => caseHist'[i][c] = << >>
         /\ pool'[i][c] = NoTc => tcHist'[i][c] = << >>
<1>t. /\ cases \in [Inst -> Rows] /\ cases[i] \in Rows
      /\ caseHist \in [Inst -> Hists] /\ caseHist[i] \in Hists
      /\ docHist \in Seq(DocSnap \cup {Deleted})
      /\ tcHist[i] \in TcHist /\ pool[i] \in Pool
  BY DEF TypeInv, TypeOK, Hists
<1>o. /\ cases[i][c] = NoRow => caseHist[i][c] = << >>
      /\ pool[i][c] = NoTc => tcHist[i][c] = << >>
  BY DEF NoOrphanVersions
<1>1. ASSUME cases'[i][c] = NoRow
      PROVE  caseHist'[i][c] = << >>
  <2>1. CASE cases'[i] = cases[i] /\ caseHist'[i] = caseHist[i]
    BY <1>1, <1>o, <2>1
  <2>2. ASSUME NEW d \in AuthoredDocs[i], UpsertDraft(i, d)
        PROVE  caseHist'[i][c] = << >>
    <3>1. cases'[i] = SavedRows(cases[i], d)
          /\ caseHist'[i] = Cascaded(caseHist[i], SavedRows(cases[i], d))
      BY <1>t, <2>2 DEF UpsertDraft
    <3> QED BY <1>1, <3>1 DEF Cascaded
  <2>3. ASSUME NEW id \in DOMAIN docHist, Restore(i, id)
        PROVE  caseHist'[i][c] = << >>
    <3> DEFINE rows == RestoredRows(cases[i], docHist[id].doc)
               hist == PublishedHist(caseHist[i], cases[i], docHist[id].doc)
    <3>1. cases'[i] = rows /\ caseHist'[i] = Cascaded(hist, rows)
      BY <1>t, <2>3 DEF Restore
    <3> HIDE DEF rows, hist
    <3> QED BY <1>1, <3>1 DEF Cascaded
  <2>4. ASSUME NEW e \in Case, DeactivateCase(i, e)
        PROVE  caseHist'[i][c] = << >>
    <3>1. /\ cases'[i] = [cases[i] EXCEPT ![e] = DeactivatedRow(@)]
          /\ IsLive(cases[i], e) /\ caseHist'[i] = caseHist[i]
      BY <1>t, <2>4 DEF DeactivateCase
    <3>2. c # e
      BY <1>1, <1>t, <3>1, DeactivatedFacts DEF HasDraft
    <3>3. cases[i][c] = NoRow
      BY <1>1, <1>t, <3>1, <3>2
    <3> QED BY <1>o, <3>1, <3>3
  <2>5. ASSUME NEW d \in Doc, Refreshing(i, d), Refreshes(i, d)
        PROVE  caseHist'[i][c] = << >>
    <3>1. cases[i][c] = NoRow
      BY <1>1, <1>t, <2>5, RefreshFacts DEF Refreshing, Refreshes
    <3>2. d[c] = NoRule
      BY <2>5, <3>1 DEF Refreshing, IsLive
    <3> QED BY <1>o, <2>5, <3>1, <3>2 DEF Refreshes, PublishedHist
  <2>6. ASSUME NEW d \in Doc, NEW S \in SUBSET Case, Refreshing(i, d), Confirms(i, d, S)
        PROVE  caseHist'[i][c] = << >>
    <3> DEFINE rows  == PublishedRows(cases[i], d)
               draft == Only(DraftDoc(rows), S)
               hist  == PublishedHist(caseHist[i], cases[i], d)
    <3>1. /\ cases'[i] = ClearedDrafts(PublishedRows(rows, draft), S)
          /\ caseHist'[i] = PublishedHist(hist, rows, draft)
      BY <2>6 DEF Confirms
    <3>2. rows \in Rows
      BY <1>t, RowsTypes
    <3>3. rows[c] = NoRow <=> cases[i][c] = NoRow
      BY <1>t, <2>6, RefreshFacts DEF Refreshing
    <3>4. cases[i][c] = NoRow => d[c] = NoRule
      BY <2>6 DEF Refreshing, IsLive
    <3>5. cases[i][c] = NoRow => hist[c] = << >>
      BY <1>o, <3>4 DEF PublishedHist
    <3> HIDE DEF rows, hist
    <3>6. rows[c] = NoRow
      BY <1>1, <3>1, <3>2, ConfirmFacts
    <3>7. draft[c] = NoRule
      BY <3>6 DEF Only, DraftDoc, HasDraft
    <3> HIDE DEF draft
    <3> QED BY <3>1, <3>3, <3>5, <3>6, <3>7 DEF PublishedHist
  <2> QED BY <2>1, <2>2, <2>3, <2>4, <2>5, <2>6 DEF RuleForms
<1>2. ASSUME pool'[i][c] = NoTc
      PROVE  tcHist'[i][c] = << >>
  <2>1. CASE pool'[i] = pool[i] /\ tcHist'[i] = tcHist[i]
    BY <1>2, <1>o, <2>1
  <2>2. ASSUME NEW new \in Pool, pool'[i] = Upserted(pool[i], new),
               tcHist'[i] = UpsertedHist(tcHist[i], pool[i], new)
        PROVE  tcHist'[i][c] = << >>
    BY <1>2, <1>o, <2>2 DEF Upserted, UpsertedHist
  <2>3. ASSUME NEW new \in Pool, pool'[i] = Upserted(EmptyPool, new),
               tcHist'[i] = UpsertedHist(CascadedPool(tcHist[i]), EmptyPool, new)
        PROVE  tcHist'[i][c] = << >>
    BY <1>2, <2>3 DEF Upserted, UpsertedHist, CascadedPool
  <2> QED BY <2>1, <2>2, <2>3 DEF PoolForms
<1> QED BY <1>1, <1>2

(***************************************************************************)
(* Where foreign keys are enforced no version outlives its row, so a case  *)
(* that is created again starts from version 1.                            *)
(***************************************************************************)
THEOREM NoOrphansCorrect == Spec => []NoOrphanVersions
<1>1. Init => NoOrphanVersions
  BY DEF Init, NoOrphanVersions
<1>2. TypeInv /\ NoOrphanVersions /\ [Next]_vars => NoOrphanVersions'
  <2>1. ASSUME TypeInv, NoOrphanVersions, Next
        PROVE  NoOrphanVersions'
    BY <2>1, StepForms, NoOrphanStep DEF Forms, NoOrphanVersions
  <2>2. ASSUME NoOrphanVersions, UNCHANGED vars
        PROVE  NoOrphanVersions'
    BY <2>2 DEF NoOrphanVersions, vars
  <2> QED BY <2>1, <2>2
<1> QED BY <1>1, <1>2, TypeInvInit, TypeInvStep, PTL DEF Spec

-----------------------------------------------------------------------------
(* Contents. *)

(* The contents of a document, and of rows, are in K. *)
DocIn(K, d) == \A c \in Case : d[c] # NoRule => d[c].input \in K

RowsIn(K, rows) ==
  \A c \in Case : /\ IsLive(rows, c) => rows[c].rule.input \in K
                  /\ HasDraft(rows, c) => rows[c].draft.input \in K

(* All that institution i holds is in K. *)
HeldIn(K, i) ==
  /\ RowsIn(K, cases[i])
  /\ DocIn(K, doc[i].applied)
  /\ DocIn(K, doc[i].draft)
  /\ \A c \in Case \ PoolCase : pool[i][c] # NoTc => pool[i][c] \in K
  /\ \A id \in DOMAIN docHist :
       docHist[id] # Deleted /\ docHist[id].inst = i => DocIn(K, docHist[id].doc)

(* ... and so is all that it writes or that the request builds from. *)
BroughtIn(K, i) ==
  /\ Authored[i] \subseteq K
  /\ \A b \in Bundles(i) : BuiltFrom(i, b) => DocIn(K, b)

(* Reading rows whose contents are in K. *)
LEMMA ReadIn ==
  ASSUME NEW K, NEW rows \in Rows, RowsIn(K, rows)
  PROVE  /\ DocIn(K, AppliedDoc(rows)) /\ DocIn(K, DraftDoc(rows))
         /\ DocIn(K, EditorDoc(rows)) /\ DocIn(K, EmptyDoc)
         /\ DocIn(K, SyncedFacade(rows).applied) /\ DocIn(K, SyncedFacade(rows).draft)
<1>1. DocIn(K, AppliedDoc(rows)) /\ DocIn(K, DraftDoc(rows)) /\ DocIn(K, EmptyDoc)
  BY DEF DocIn, RowsIn, AppliedDoc, DraftDoc, DraftRule, EmptyDoc
<1>2. DocIn(K, EditorDoc(rows))
  BY <1>1 DEF DocIn, RowsIn, EditorDoc, DraftRule
<1> QED BY <1>1, <1>2 DEF SyncedFacade

(* Publishing a document of such contents, and clearing drafts. *)
LEMMA PublishedIn ==
  ASSUME NEW K, NEW rows \in Rows, RowsIn(K, rows), NEW d \in Doc, DocIn(K, d)
  PROVE  RowsIn(K, PublishedRows(rows, d))
<1> DEFINE new == PublishedRows(rows, d)
<1> SUFFICES ASSUME NEW c \in Case
             PROVE  /\ IsLive(new, c) => new[c].rule.input \in K
                    /\ HasDraft(new, c) => new[c].draft.input \in K
  BY DEF RowsIn
<1>1. CASE d[c] # NoRule
  <2>1. new[c].rule = d[c] /\ new[c].draft = RowAt(rows, c).draft
    BY <1>1, PublishedFacts
  <2>2. RowAt(rows, c).draft # NoRule => HasDraft(rows, c) /\ RowAt(rows, c) = rows[c]
    BY DEF RowAt, FreshRow, HasDraft
  <2> HIDE DEF new
  <2> QED BY <1>1, <2>1, <2>2 DEF DocIn, RowsIn, HasDraft
<1>2. CASE d[c] = NoRule
  <2>1. new[c] = rows[c]
    BY <1>2, PublishedFacts
  <2> HIDE DEF new
  <2> QED BY <2>1 DEF RowsIn, IsLive, HasDraft
<1> QED BY <1>1, <1>2

LEMMA ClearedIn ==
  ASSUME NEW K, NEW rows \in Rows, RowsIn(K, rows), NEW S
  PROVE  RowsIn(K, ClearedDrafts(rows, S))
<1> DEFINE new == ClearedDrafts(rows, S)
<1> SUFFICES ASSUME NEW c \in Case
             PROVE  /\ IsLive(new, c) => new[c].rule.input \in K
                    /\ HasDraft(new, c) => new[c].draft.input \in K
  BY DEF RowsIn
<1>1. /\ IsLive(new, c) <=> IsLive(rows, c)
      /\ IsLive(rows, c) => new[c].rule = rows[c].rule
      /\ HasDraft(new, c) => HasDraft(rows, c) /\ c \notin S
  BY ClearedFacts
<1>2. c \notin S => new[c] = rows[c]
  BY DEF ClearedDrafts
<1> HIDE DEF new
<1> QED BY <1>1, <1>2 DEF RowsIn

LEMMA OthersIn ==
  ASSUME NEW K, NEW rows \in Rows, RowsIn(K, rows), NEW d \in Doc, DocIn(K, d)
  PROVE  /\ RowsIn(K, SavedRows(rows, d))
         /\ RowsIn(K, RestoredRows(rows, d))
<1>1. RowsIn(K, SavedRows(rows, d))
  <2> DEFINE new == SavedRows(rows, d)
  <2> SUFFICES ASSUME NEW c \in Case
               PROVE  /\ IsLive(new, c) => new[c].rule.input \in K
                      /\ HasDraft(new, c) => new[c].draft.input \in K
    BY DEF RowsIn
  <2>1. /\ HasDraft(new, c) => d[c] # NoRule /\ new[c].draft = d[c]
        /\ IsLive(new, c) => IsLive(rows, c) /\ new[c].rule = rows[c].rule
    BY SavedFacts
  <2> HIDE DEF new
  <2> QED BY <2>1 DEF RowsIn, DocIn
<1>2. RowsIn(K, RestoredRows(rows, d))
  <2> DEFINE new == RestoredRows(rows, d)
  <2> SUFFICES ASSUME NEW c \in Case
               PROVE  /\ IsLive(new, c) => new[c].rule.input \in K
                      /\ HasDraft(new, c) => new[c].draft.input \in K
    BY DEF RowsIn
  <2>1. /\ ~ HasDraft(new, c)
        /\ IsLive(new, c) => d[c] # NoRule /\ new[c].rule = d[c]
    BY RestoredFacts DEF IsLive
  <2> HIDE DEF new
  <2> QED BY <2>1 DEF DocIn
<1> QED BY <1>1, <1>2

(* Taking a case out of service keeps its contents, as a draft. *)
LEMMA DeactivatedIn ==
  ASSUME NEW K, NEW rows \in Rows, RowsIn(K, rows), NEW e \in Case, IsLive(rows, e)
  PROVE  RowsIn(K, [rows EXCEPT ![e] = DeactivatedRow(@)])
<1> DEFINE new == [rows EXCEPT ![e] = DeactivatedRow(@)]
<1> SUFFICES ASSUME NEW c \in Case
             PROVE  /\ IsLive(new, c) => new[c].rule.input \in K
                    /\ HasDraft(new, c) => new[c].draft.input \in K
  BY DEF RowsIn
<1>1. CASE c # e
  <2>1. new[c] = rows[c]
    BY <1>1, DeactivatedFacts
  <2> HIDE DEF new
  <2> QED BY <2>1 DEF RowsIn, IsLive, HasDraft
<1>2. CASE c = e
  <2>1. ~ IsLive(new, c)
    BY <1>2, DeactivatedFacts
  <2>2. rows[e] \in Row /\ rows[e] # NoRow /\ rows[e].live
    BY DEF Rows, GoodRow, IsLive
  <2>3. new[c] = DeactivatedRow(rows[e])
    BY <1>2 DEF Rows
  <2>4. new[c].draft = IF rows[e].draft = NoRule THEN rows[e].rule ELSE rows[e].draft
    BY <2>2, <2>3 DEF DeactivatedRow, Row
  <2>5. HasDraft(rows, e) <=> rows[e].draft # NoRule
    BY <2>2 DEF HasDraft
  <2> HIDE DEF new
  <2> QED BY <2>1, <2>4, <2>5 DEF RowsIn
<1> QED BY <1>1, <1>2

(* What a request of institution i builds its testcases from is in K. *)
LEMMA BundlesIn ==
  ASSUME TypeInv, NEW K, NEW i \in Inst, HeldIn(K, i), BroughtIn(K, i)
  PROVE  /\ \A d \in AuthoredDocs[i] : DocIn(K, d)
         /\ \A b \in Bundles(i), c \in Case :
              BuiltFrom(i, b) /\ RuleFor(i, c, b) # NoRule => RuleFor(i, c, b).input \in K
<1>1. \A d \in AuthoredDocs[i] : DocIn(K, d)
  BY DEF AuthoredDocs, DocIn, BroughtIn
<1>2. ASSUME NEW b \in Bundles(i), NEW c \in Case, BuiltFrom(i, b), RuleFor(i, c, b) # NoRule
      PROVE  RuleFor(i, c, b).input \in K
  <2>1. CASE b[c] # NoRule
    BY <1>2, <2>1 DEF RuleFor, DocIn, BroughtIn
  <2>2. CASE b[c] = NoRule /\ HasDraft(cases[i], c)
    <3>1. RuleFor(i, c, b) = DraftRule(cases[i][c])
      BY <2>2 DEF RuleFor
    <3>2. cases[i][c].draft.input \in K
      BY <2>2 DEF HeldIn, RowsIn
    <3> QED BY <3>1, <3>2 DEF DraftRule
  <2>3. CASE b[c] = NoRule /\ ~ HasDraft(cases[i], c)
    <3>1. RuleFor(i, c, b) = AppliedDoc(cases[i])[c]
      BY <2>3 DEF RuleFor
    <3>2. IsLive(cases[i], c) /\ RuleFor(i, c, b) = cases[i][c].rule
      BY <1>2, <3>1 DEF AppliedDoc
    <3> QED BY <3>2 DEF HeldIn, RowsIn
  <2> QED BY <2>1, <2>2, <2>3
<1> QED BY <1>1, <1>2

(* The rows of an institution hold contents of K after a step. *)
LEMMA RowsStayIn ==
  ASSUME TypeInv, NEW K, NEW i \in Inst, HeldIn(K, i), BroughtIn(K, i), RuleForms(i)
  PROVE  RowsIn(K, cases'[i])
<1>t. /\ cases \in [Inst -> Rows] /\ cases[i] \in Rows
      /\ docHist \in Seq(DocSnap \cup {Deleted})
  BY DEF TypeInv, TypeOK
<1>k. RowsIn(K, cases[i]) /\ EmptyDoc \in Doc /\ DocIn(K, EmptyDoc)
  BY <1>t, ReadIn, DocTypes DEF HeldIn
<1>r. ASSUME NEW d \in Doc, Refreshing(i, d)
      PROVE  DocIn(K, d)
  BY <1>r, BundlesIn DEF Refreshing, Given, DocIn
<1>1. CASE cases'[i] = cases[i]
  BY <1>1, <1>k
<1>2. ASSUME NEW d \in AuthoredDocs[i], UpsertDraft(i, d)
      PROVE  RowsIn(K, cases'[i])
  <2>1. cases'[i] = SavedRows(cases[i], d) /\ d \in Doc
    BY <1>2, <1>t DEF UpsertDraft, AuthoredDocs
  <2> QED BY <1>k, <1>t, <2>1, BundlesIn, OthersIn
<1>3. ASSUME NEW id \in DOMAIN docHist, Restore(i, id)
      PROVE  RowsIn(K, cases'[i])
  <2>1. /\ docHist[id] # Deleted /\ docHist[id].inst = i
        /\ cases'[i] = RestoredRows(cases[i], docHist[id].doc)
    BY <1>3, <1>t DEF Restore
  <2>2. docHist[id].doc \in Doc /\ DocIn(K, docHist[id].doc)
    BY <1>t, <2>1 DEF HeldIn, DocSnap
  <2> QED BY <1>k, <1>t, <2>1, <2>2, OthersIn
<1>4. ASSUME NEW c \in Case, DeactivateCase(i, c)
      PROVE  RowsIn(K, cases'[i])
  <2> DEFINE new == [cases[i] EXCEPT ![c] = DeactivatedRow(@)]
  <2>1. cases'[i] = new /\ IsLive(cases[i], c)
    BY <1>4, <1>t DEF DeactivateCase
  <2>2. RowsIn(K, new)
    BY <1>k, <1>t, <2>1, DeactivatedIn
  <2> HIDE DEF new
  <2> QED BY <2>1, <2>2
<1>5. ASSUME NEW d \in Doc, Refreshing(i, d)
      PROVE  PublishedRows(cases[i], d) \in Rows /\ RowsIn(K, PublishedRows(cases[i], d))
  BY <1>5, <1>k, <1>r, <1>t, PublishedIn, RowsTypes
<1>6. ASSUME NEW d \in Doc, NEW S \in SUBSET Case, Refreshing(i, d), Confirms(i, d, S)
      PROVE  RowsIn(K, cases'[i])
  <2> DEFINE rows  == PublishedRows(cases[i], d)
             draft == Only(DraftDoc(rows), S)
  <2>1. rows \in Rows /\ RowsIn(K, rows)
    BY <1>5, <1>6
  <2>2. cases'[i] = ClearedDrafts(PublishedRows(rows, draft), S)
    BY <1>6 DEF Confirms
  <2> HIDE DEF rows
  <2>3. draft \in Doc /\ DocIn(K, draft)
    <3>1. DocIn(K, DraftDoc(rows))
      BY <2>1, ReadIn
    <3>2. DocIn(K, draft)
      BY <3>1 DEF DocIn, Only
    <3>3. draft \in Doc
      BY <2>1, DocTypes, BodiesType
    <3> QED BY <3>2, <3>3
  <2> HIDE DEF draft
  <2>4. RowsIn(K, PublishedRows(rows, draft)) /\ PublishedRows(rows, draft) \in Rows
    BY <2>1, <2>3, PublishedIn, RowsTypes
  <2> QED BY <2>2, <2>4, ClearedIn
<1> QED BY <1>1, <1>2, <1>3, <1>4, <1>5, <1>6 DEF RuleForms, Refreshes

LEMMA ContentStep ==
  ASSUME TypeInv, TypeInv', Forms, NEW K, NEW i \in Inst, HeldIn(K, i), BroughtIn(K, i)
  PROVE  HeldIn(K, i)'
<1>t. /\ doc \in [Inst -> Facade] /\ docHist \in Seq(DocSnap \cup {Deleted})
      /\ cases' \in [Inst -> Rows] /\ pool \in [Inst -> Pool]
  BY DEF TypeInv, TypeOK
<1>1. RowsIn(K, cases'[i])
  BY RowsStayIn DEF Forms
<1>2. DocIn(K, doc'[i].applied) /\ DocIn(K, doc'[i].draft)
  <2>1. /\ DocIn(K, doc[i].applied) /\ DocIn(K, doc[i].draft)
        /\ DocIn(K, EmptyDoc)
    BY DEF HeldIn, DocIn, EmptyDoc
  <2>2. CASE doc'[i] = doc[i]
    BY <2>1, <2>2
  <2>3. ASSUME NEW d \in AuthoredDocs[i], doc'[i] = [doc[i] EXCEPT !.draft = d]
        PROVE  DocIn(K, doc'[i].applied) /\ DocIn(K, doc'[i].draft)
    <3>1. doc'[i].applied = doc[i].applied /\ doc'[i].draft = d
      BY <1>t, <2>3 DEF Facade
    <3> QED BY <2>1, <3>1, BundlesIn
  <2>4. CASE doc'[i] = [applied |-> doc[i].draft, draft |-> EmptyDoc]
    BY <2>1, <2>4
  <2>5. ASSUME NEW id \in DOMAIN docHist, docHist[id] # Deleted, docHist[id].inst = i,
               doc'[i] = [applied |-> docHist[id].doc, draft |-> EmptyDoc]
        PROVE  DocIn(K, doc'[i].applied) /\ DocIn(K, doc'[i].draft)
    BY <2>1, <2>5 DEF HeldIn
  <2>6. CASE doc'[i] = SyncedFacade(cases'[i])
    BY <1>1, <1>t, <2>6, ReadIn
  <2> QED BY <2>2, <2>3, <2>4, <2>5, <2>6 DEF Forms, DocForms
<1>3. ASSUME NEW c \in Case \ PoolCase, pool'[i][c] # NoTc
      PROVE  pool'[i][c] \in K
  <2>1. pool[i][c] # NoTc => pool[i][c] \in K
    BY DEF HeldIn
  <2>2. ASSUME NEW x, GivenBody(i, c, x)
        PROVE  x \in K
    <3>1. Authored[i] \subseteq K
      BY DEF BroughtIn
    <3>2. IsLive(cases[i], c) => cases[i][c].rule.input \in K
      BY DEF HeldIn, RowsIn
    <3> QED BY <2>2, <3>1, <3>2, BundlesIn DEF GivenBody
  <2>3. CASE pool'[i] = pool[i]
    BY <1>3, <2>1, <2>3
  <2>4. ASSUME NEW new \in Pool, \A e \in Case : new[e] # NoTc => GivenBody(i, e, new[e]),
               NEW p \in {pool[i], EmptyPool}, pool'[i] = Upserted(p, new)
        PROVE  pool'[i][c] \in K
    <3>1. new[c] # NoTc => new[c] \in K
      BY <2>2, <2>4
    <3>2. EmptyPool[c] = NoTc
      BY DEF EmptyPool
    <3>3. pool'[i][c] = IF new[c] = NoTc THEN p[c] ELSE new[c]
      BY <2>4 DEF Upserted
    <3> QED BY <1>3, <2>1, <3>1, <3>2, <3>3
  <2> QED BY <2>3, <2>4 DEF Forms, PoolForms
<1>4. ASSUME NEW id \in DOMAIN docHist', docHist'[id] # Deleted, docHist'[id].inst = i
      PROVE  DocIn(K, docHist'[id].doc)
  <2>1. CASE id \in DOMAIN docHist /\ docHist'[id] = docHist[id]
    BY <1>4, <2>1 DEF HeldIn
  <2>2. ASSUME NEW j \in Inst, docHist'[id] \in {[inst |-> j, doc |-> doc[j].draft],
                                                 [inst |-> j, doc |-> doc[j].applied]}
        PROVE  DocIn(K, docHist'[id].doc)
    BY <1>4, <2>2 DEF HeldIn
  <2> QED BY <1>4, <2>1, <2>2 DEF Forms, HistForms
<1> QED BY <1>1, <1>2, <1>3, <1>4 DEF HeldIn

(* The set Held and the parts that HeldIn looks at, before and after a step. *)
LEMMA ContentsAre ==
  ASSUME NEW K, NEW d
  PROVE  Contents(d) \subseteq K <=> DocIn(K, d)
BY DEF Contents, DocIn

LEMMA HeldParts ==
  ASSUME TypeInv, NEW i \in Inst, NEW K, Held(i) \subseteq K
  PROVE  HeldIn(K, i)
<1> DEFINE docs == {AppliedDoc(cases[i]), DraftRules[i], doc[i].applied, doc[i].draft}
                     \cup KeptDocs[i]
<1>d. /\ AppliedDoc(cases[i]) \in docs /\ DraftRules[i] \in docs
      /\ doc[i].applied \in docs /\ doc[i].draft \in docs
      /\ KeptDocs[i] \subseteq docs
  OBVIOUS
<1>h. /\ UNION {Contents(d) : d \in docs} \subseteq K
      /\ {pool[i][c] : c \in {e \in Case \ PoolCase : pool[i][e] # NoTc}} \subseteq K
  BY DEF Held
<1> HIDE DEF docs
<1>1. ASSUME NEW d \in docs
      PROVE  DocIn(K, d)
  <2>1. Contents(d) \in {Contents(e) : e \in docs}
    OBVIOUS
  <2>2. Contents(d) \subseteq K
    BY <1>h, <2>1
  <2> QED BY <2>2, ContentsAre
<1>2. RowsIn(K, cases[i])
  <2>1. ASSUME NEW c \in Case, IsLive(cases[i], c)
        PROVE  cases[i][c].rule.input \in K
    <3>1. DocIn(K, AppliedDoc(cases[i]))
      BY <1>1, <1>d
    <3>2. AppliedDoc(cases[i])[c] = cases[i][c].rule
      BY <2>1 DEF AppliedDoc
    <3>3. cases[i][c].rule # NoRule
      BY <2>1, RuleRowsAssumption DEF TypeInv, TypeOK, Rows, Row, IsLive
    <3> QED BY <3>1, <3>2, <3>3 DEF DocIn
  <2>2. ASSUME NEW c \in Case, HasDraft(cases[i], c)
        PROVE  cases[i][c].draft.input \in K
    <3>1. DocIn(K, DraftRules[i])
      BY <1>1, <1>d
    <3>2. DraftRules[i][c] = cases[i][c].draft
      BY <2>2 DEF DraftRules
    <3>3. cases[i][c].draft # NoRule
      BY <2>2 DEF HasDraft
    <3> QED BY <3>1, <3>2, <3>3 DEF DocIn
  <2> QED BY <2>1, <2>2 DEF RowsIn
<1>3. DocIn(K, doc[i].applied) /\ DocIn(K, doc[i].draft)
  BY <1>1, <1>d
<1>4. ASSUME NEW c \in Case \ PoolCase, pool[i][c] # NoTc
      PROVE  pool[i][c] \in K
  <2>1. c \in {e \in Case \ PoolCase : pool[i][e] # NoTc}
    BY <1>4
  <2> QED BY <1>h, <2>1
<1>5. ASSUME NEW id \in DOMAIN docHist, docHist[id] # Deleted, docHist[id].inst = i
      PROVE  DocIn(K, docHist[id].doc)
  <2>1. docHist[id].doc \in KeptDocs[i]
    BY <1>5 DEF KeptDocs
  <2> QED BY <1>1, <1>d, <2>1
<1> QED BY <1>2, <1>3, <1>4, <1>5 DEF HeldIn

LEMMA HeldAfter ==
  ASSUME NEW i \in Inst, NEW K, HeldIn(K, i)'
  PROVE  Held(i)' \subseteq K
<1> DEFINE docs == {AppliedDoc(cases'[i]), DraftRules'[i], doc'[i].applied, doc'[i].draft}
                     \cup KeptDocs'[i]
<1>1. DocIn(K, AppliedDoc(cases'[i])) /\ DocIn(K, DraftRules'[i])
  BY DEF HeldIn, RowsIn, DocIn, AppliedDoc, DraftRules
<1>2. \A d \in KeptDocs'[i] : DocIn(K, d)
  BY DEF KeptDocs, HeldIn
<1>3. DocIn(K, doc'[i].applied) /\ DocIn(K, doc'[i].draft)
  BY DEF HeldIn
<1>4. \A d \in docs : DocIn(K, d)
  BY <1>1, <1>2, <1>3
<1>5. \A c \in Case \ PoolCase : pool'[i][c] # NoTc => pool'[i][c] \in K
  BY DEF HeldIn
<1>6. Held(i)' = (UNION {Contents(d) : d \in docs})
                   \cup {pool'[i][c] : c \in {e \in Case \ PoolCase : pool'[i][e] # NoTc}}
  BY DEF Held, Contents
<1> HIDE DEF docs
<1>7. \A d \in docs : Contents(d) \subseteq K
  BY <1>4, ContentsAre
<1>8. UNION {Contents(d) : d \in docs} \subseteq K
  BY <1>7
<1> QED BY <1>5, <1>6, <1>8

(***************************************************************************)
(* Contents of another institution enter by one door only, the bundle that *)
(* a request builds testcases from: what an institution holds after a step *)
(* it held before, it wrote, or that bundle has it.                        *)
(***************************************************************************)
THEOREM ContentsCorrect == Spec => ContentsEnterByBundle
<1> DEFINE Enters(i, x) == \E b \in Bundles(i) : x \in Contents(b) /\ BuiltFrom(i, b)
<1>1. TypeInv /\ TypeInv' /\ Next =>
        \A i \in Inst : \A x \in Held(i)' \ (Held(i) \cup Authored[i]) : Enters(i, x)
  <2> SUFFICES ASSUME TypeInv, TypeInv', Next, NEW i \in Inst,
                      NEW x, x \in Held(i)', x \notin Held(i) \cup Authored[i]
               PROVE  Enters(i, x)
    OBVIOUS
  <2> DEFINE K == Held(i) \cup Authored[i]
                    \cup UNION {Contents(b) : b \in {y \in Bundles(i) : BuiltFrom(i, y)}}
  <2>1. Held(i) \subseteq K /\ Authored[i] \subseteq K
    OBVIOUS
  <2>2. ASSUME NEW b \in Bundles(i), BuiltFrom(i, b)
        PROVE  DocIn(K, b)
    BY <2>2 DEF DocIn, Contents
  <2>3. BroughtIn(K, i)
    BY <2>1, <2>2 DEF BroughtIn
  <2>4. x \in K => Enters(i, x)
    OBVIOUS
  <2> HIDE DEF K, Enters
  <2>5. PICK S : S = K
    OBVIOUS
  <2>6. HeldIn(S, i) /\ BroughtIn(S, i)
    BY <2>1, <2>3, <2>5, HeldParts
  <2>7. HeldIn(S, i)'
    BY <2>6, StepForms, ContentStep
  <2>8. Held(i)' \subseteq S
    BY <2>7, HeldAfter
  <2> QED BY <2>4, <2>5, <2>8
<1>2. UNCHANGED vars => \A i \in Inst : Held(i)' = Held(i)
  BY DEF vars, Held, DraftRules, KeptDocs
<1>3. TypeInv /\ TypeInv' /\ [Next]_vars =>
        [\A i \in Inst : \A x \in Held(i)' \ (Held(i) \cup Authored[i]) :
           \E b \in Bundles(i) : x \in Contents(b) /\ BuiltFrom(i, b)]_vars
  BY <1>1
<1> QED BY <1>3, TypeInvInit, TypeInvStep, PTL DEF Spec, ContentsEnterByBundle

-----------------------------------------------------------------------------
(***************************************************************************)
(* The rule store implements RuleLife.                                     *)
(***************************************************************************)

(* The drafts in rows, and the cases of a pool that have a testcase.        *)
DraftsOf(rows) == [c \in Case |-> IF HasDraft(rows, c) THEN rows[c].draft ELSE NoRule]
ReadyOf(p) == {c \in Case : p[c] # NoTc}
Drafted(rows) == {c \in Case : HasDraft(rows, c)}

(* What RuleLife sees of a write to the rows or the pool of an institution. *)
LEMMA LifeRows ==
  ASSUME cases \in [Inst -> Rows], NEW i \in Inst, NEW rows,
         cases' = [cases EXCEPT ![i] = rows]
  PROVE  /\ CurrentRules' = [CurrentRules EXCEPT ![i] = AppliedDoc(rows)]
         /\ DraftRules' = [DraftRules EXCEPT ![i] = DraftsOf(rows)]
<1>1. cases'[i] = rows /\ \A k \in Inst \ {i} : cases'[k] = cases[k]
  OBVIOUS
<1>2. CurrentRules' = [k \in Inst |-> AppliedDoc(cases'[k])]
  BY DEF CurrentRules, AppliedDoc, IsLive
<1>3. DraftRules' = [k \in Inst |-> DraftsOf(cases'[k])]
  BY DEF DraftRules, DraftsOf, HasDraft
<1>4. DraftRules = [k \in Inst |-> DraftsOf(cases[k])]
  BY DEF DraftRules, DraftsOf
<1>5. CurrentRules = [k \in Inst |-> AppliedDoc(cases[k])]
  BY DEF CurrentRules
<1> QED BY <1>1, <1>2, <1>3, <1>4, <1>5

LEMMA LifePool ==
  ASSUME pool \in [Inst -> Pool], NEW i \in Inst, NEW p,
         pool' = [pool EXCEPT ![i] = p]
  PROVE  ReadyCases' = [ReadyCases EXCEPT ![i] = ReadyOf(p)]
<1>1. pool'[i] = p /\ \A k \in Inst \ {i} : pool'[k] = pool[k]
  OBVIOUS
<1>2. ReadyCases' = [k \in Inst |-> ReadyOf(pool'[k])]
  BY DEF ReadyCases, ReadyOf
<1>3. ReadyCases = [k \in Inst |-> ReadyOf(pool[k])]
  BY DEF ReadyCases, ReadyOf
<1> QED BY <1>1, <1>2, <1>3

LEMMA LifeSame ==
  /\ cases' = cases => CurrentRules' = CurrentRules /\ DraftRules' = DraftRules
  /\ pool' = pool => ReadyCases' = ReadyCases
  /\ docHist' = docHist => KeptDocs' = KeptDocs
BY DEF CurrentRules, DraftRules, ReadyCases, KeptDocs, AppliedDoc, IsLive, HasDraft

(* The documents of an institution in a history, and what an entry more or  *)
(* less means to them.                                                      *)
DocsIn(h, i) ==
  {h[id].doc : id \in {k \in DOMAIN h : h[k] # Deleted /\ h[k].inst = i}}

LEMMA LifeKept ==
  /\ KeptDocs = [i \in Inst |-> DocsIn(docHist, i)]
  /\ KeptDocs' = [i \in Inst |-> DocsIn(docHist', i)]
BY DEF KeptDocs, DocsIn

LEMMA LifeKeeps ==
  ASSUME docHist \in Seq(DocSnap \cup {Deleted}), NEW i \in Inst, NEW d \in Doc,
         docHist' = Append(docHist, [inst |-> i, doc |-> d])
  PROVE  Life!Keeps(i, d)
<1> DEFINE x == [inst |-> i, doc |-> d]
<1>1. x # Deleted /\ x.inst = i /\ x.doc = d
  BY RuleStoreAssumption DEF DocSnap
<1>2. docHist' = Append(docHist, x)
  OBVIOUS
<1> HIDE DEF x
<1>3. /\ DOMAIN docHist' = DOMAIN docHist \cup {Len(docHist) + 1}
      /\ \A k \in DOMAIN docHist : docHist'[k] = docHist[k]
      /\ docHist'[Len(docHist) + 1] = x
  BY <1>2
<1>4. ASSUME NEW k \in Inst
      PROVE  DocsIn(docHist', k) = DocsIn(docHist, k) \cup (IF k = i THEN {d} ELSE {})
  BY <1>1, <1>3 DEF DocsIn
<1>5. DocsIn(docHist', i) = DocsIn(docHist, i) \cup {d}
  BY <1>4
<1>6. ASSUME NEW k \in Inst \ {i}
      PROVE  DocsIn(docHist', k) = DocsIn(docHist, k)
  BY <1>4, <1>6
<1>7. KeptDocs' = [KeptDocs EXCEPT ![i] = @ \cup {d}]
  BY <1>5, <1>6, LifeKept
<1> QED BY <1>7 DEF Life!Keeps

LEMMA LifeForget ==
  ASSUME docHist \in Seq(DocSnap \cup {Deleted}), NEW id \in DOMAIN docHist, DeleteHistory(id)
  PROVE  \/ UNCHANGED Life!vars
         \/ \E i \in Inst, d \in Doc : Life!Forget(i, d)
<1>1. /\ docHist[id] # Deleted /\ docHist' = [docHist EXCEPT ![id] = Deleted]
      /\ cases' = cases /\ pool' = pool
  BY DEF DeleteHistory
<1>2. docHist[id] \in DocSnap
  BY <1>1
<1>3. PICK i \in Inst : docHist[id].inst = i
  BY <1>2 DEF DocSnap
<1>4. PICK d \in Doc : docHist[id].doc = d
  BY <1>2 DEF DocSnap
<1>5. DOMAIN docHist' = DOMAIN docHist /\ docHist'[id] = Deleted
      /\ \A k \in DOMAIN docHist \ {id} : docHist'[k] = docHist[k]
  BY <1>1
<1>6. \A k \in Inst \ {i} : DocsIn(docHist', k) = DocsIn(docHist, k)
  BY <1>3, <1>5 DEF DocsIn
<1>7. d \in DocsIn(docHist, i)
  BY <1>1, <1>3, <1>4 DEF DocsIn
<1>8. DocsIn(docHist', i) = DocsIn(docHist, i) \/ DocsIn(docHist', i) = DocsIn(docHist, i) \ {d}
  BY <1>1, <1>3, <1>4, <1>5 DEF DocsIn
<1>9. CurrentRules' = CurrentRules /\ DraftRules' = DraftRules /\ ReadyCases' = ReadyCases
  BY <1>1, LifeSame
<1>10. CASE DocsIn(docHist', i) = DocsIn(docHist, i)
  <2>1. KeptDocs' = KeptDocs
    BY <1>6, <1>10, LifeKept
  <2> QED BY <1>9, <2>1 DEF Life!vars
<1>11. CASE DocsIn(docHist', i) = DocsIn(docHist, i) \ {d}
  <2>1. KeptDocs' = [KeptDocs EXCEPT ![i] = @ \ {d}]
    BY <1>6, <1>11, LifeKept
  <2>2. d \in KeptDocs[i]
    BY <1>7, LifeKept
  <2> QED BY <1>9, <2>1, <2>2 DEF Life!Forget
<1> QED BY <1>8, <1>10, <1>11

(* What RuleLife sees of an institution.                                    *)
LEMMA LifeAt ==
  ASSUME TypeInv, NEW i \in Inst
  PROVE  /\ CurrentRules[i] = AppliedDoc(cases[i]) /\ AppliedDoc(cases[i]) \in Doc
         /\ DraftRules[i] = DraftsOf(cases[i]) /\ DraftsOf(cases[i]) \in Doc
         /\ ReadyCases[i] = ReadyOf(pool[i])
         /\ Life!CasesOf(DraftRules[i]) = Drafted(cases[i])
         /\ Life!Doc = Doc /\ Life!Nothing = EmptyDoc
         /\ CurrentRules = [CurrentRules EXCEPT ![i] = AppliedDoc(cases[i])]
         /\ DraftRules = [DraftRules EXCEPT ![i] = DraftsOf(cases[i])]
         /\ ReadyCases = [ReadyCases EXCEPT ![i] = ReadyOf(pool[i])]
<1>1. cases[i] \in Rows
  BY DEF TypeInv
<1>2. AppliedDoc(cases[i]) \in Doc
  BY <1>1, DocTypes
<1>3. CurrentRules[i] = AppliedDoc(cases[i]) /\ DraftRules[i] = DraftsOf(cases[i])
      /\ ReadyCases[i] = ReadyOf(pool[i])
  BY DEF CurrentRules, DraftRules, ReadyCases, DraftsOf, ReadyOf
<1>4. \A c \in Case : HasDraft(cases[i], c) => cases[i][c].draft \in Rule
  BY <1>1 DEF Rows, HasDraft, GoodRow, Row
<1>5. DraftsOf(cases[i]) \in Doc
  BY <1>4 DEF DraftsOf, Doc
<1>6. Life!CasesOf(DraftsOf(cases[i])) = Drafted(cases[i])
  BY DEF Life!CasesOf, DraftsOf, Drafted, HasDraft
<1>7. Life!Doc = Doc /\ Life!Nothing = EmptyDoc
  BY DEF Life!Doc, Doc, Life!Nothing, EmptyDoc
<1>8. /\ CurrentRules = [CurrentRules EXCEPT ![i] = AppliedDoc(cases[i])]
      /\ DraftRules = [DraftRules EXCEPT ![i] = DraftsOf(cases[i])]
      /\ ReadyCases = [ReadyCases EXCEPT ![i] = ReadyOf(pool[i])]
  BY DEF CurrentRules, DraftRules, ReadyCases, DraftsOf, ReadyOf
<1>9. Life!CasesOf(DraftRules[i]) = Drafted(cases[i])
  BY <1>3, <1>6
<1> QED BY <1>2, <1>3, <1>5, <1>7, <1>8, <1>9, Zenon

(* The cases of the confirmed rules are those of the rows that are live.    *)
LEMMA LifeCases ==
  ASSUME NEW r \in Rows
  PROVE  Life!CasesOf(AppliedDoc(r)) = {c \in Case : IsLive(r, c)}
<1>1. ASSUME NEW c \in Case
      PROVE  AppliedDoc(r)[c] # NoRule <=> IsLive(r, c)
  <2>1. IsLive(r, c) => r[c].rule \in Rule
    BY DEF IsLive, Rows, GoodRow
  <2> QED BY <2>1, RuleRowsAssumption DEF AppliedDoc
<1> QED BY <1>1 DEF Life!CasesOf

(* A save takes the place of all drafts and leaves what is confirmed.       *)
LEMMA LifeSave ==
  ASSUME TypeInv, NEW i \in Inst, NEW d \in AuthoredDocs[i], UpsertDraft(i, d)
  PROVE  d \in Life!Doc /\ Life!Save(i, d)
<1>t. cases \in [Inst -> Rows] /\ cases[i] \in Rows
  BY DEF TypeInv
<1>1. d \in Doc /\ d # EmptyDoc
  BY DEF AuthoredDocs
<1>2. cases' = [cases EXCEPT ![i] = SavedRows(cases[i], d)] /\ pool' = pool
  BY DEF UpsertDraft
<1>3. AppliedDoc(SavedRows(cases[i], d)) = AppliedDoc(cases[i])
  BY <1>t, <1>1, SavedKeepsApplied
<1>4. \A c \in Case : DraftsOf(SavedRows(cases[i], d))[c] = d[c]
  BY <1>t, <1>1, SavedFacts DEF DraftsOf
<1>5. DraftsOf(SavedRows(cases[i], d)) = d
  BY <1>1, <1>4 DEF DraftsOf, Doc
<1>6. CurrentRules' = CurrentRules /\ DraftRules' = [DraftRules EXCEPT ![i] = d]
  <2>1. /\ CurrentRules' = [CurrentRules EXCEPT ![i] = AppliedDoc(SavedRows(cases[i], d))]
        /\ DraftRules' = [DraftRules EXCEPT ![i] = DraftsOf(SavedRows(cases[i], d))]
    BY <1>t, <1>2, LifeRows
  <2>2. CurrentRules = [CurrentRules EXCEPT ![i] = AppliedDoc(cases[i])]
    BY LifeAt
  <2> QED BY <1>3, <1>5, <2>1, <2>2, Zenon
<1>7. ReadyCases' = ReadyCases /\ KeptDocs' = KeptDocs
  BY <1>2, LifeSame DEF UpsertDraft
<1> QED BY <1>1, <1>6, <1>7, LifeAt DEF Life!Save

(* The drafts of the cases S are confirmed, also after a refresh of some of *)
(* them.                                                                    *)
LEMMA LifeConfirm ==
  ASSUME TypeInv, NEW i \in Inst, NEW e \in Doc, NEW S \in SUBSET Case,
         \A c \in Case : e[c] # NoRule => IsLive(cases[i], c) /\ c \in S \cap Drafted(cases[i]),
         S \cap Drafted(cases[i]) # {},
         LET rows == PublishedRows(cases[i], e) IN
           cases' = [cases EXCEPT ![i] =
                       ClearedDrafts(PublishedRows(rows, Only(DraftDoc(rows), S)), S)]
  PROVE  Life!Confirm(i, S \cap Drafted(cases[i]))
<1> DEFINE old  == cases[i]
           rows == PublishedRows(old, e)
           new  == ClearedDrafts(PublishedRows(rows, Only(DraftDoc(rows), S)), S)
           T    == S \cap Drafted(old)
<1>t. cases \in [Inst -> Rows] /\ old \in Rows
  BY DEF TypeInv
<1>1. rows \in Rows /\ new \in Rows
  BY <1>t, RowsTypes, DocTypes, BodiesType
<1>2. cases' = [cases EXCEPT ![i] = new]
  OBVIOUS
<1>3. ASSUME NEW c \in Case
      PROVE  /\ HasDraft(rows, c) <=> HasDraft(old, c)
             /\ HasDraft(old, c) => rows[c].draft = old[c].draft
             /\ IsLive(rows, c) <=> IsLive(old, c)
             /\ c \notin T => rows[c] = old[c]
  <2>1. e[c] # NoRule => IsLive(old, c)
    OBVIOUS
  <2>2. /\ HasDraft(rows, c) <=> HasDraft(old, c)
        /\ HasDraft(old, c) => rows[c].draft = old[c].draft
        /\ IsLive(rows, c) <=> IsLive(old, c)
    BY <1>t, <2>1, RefreshFacts
  <2>3. c \notin T => e[c] = NoRule
    OBVIOUS
  <2> QED BY <1>t, <2>2, <2>3, PublishedFacts
<1>4. ASSUME NEW c \in Case
      PROVE  /\ IsLive(new, c) <=> IsLive(rows, c) \/ (c \in S /\ HasDraft(rows, c))
             /\ c \in S /\ HasDraft(rows, c) => new[c].rule = DraftRule(rows[c])
             /\ ~ (c \in S /\ HasDraft(rows, c)) /\ IsLive(rows, c) => new[c].rule = rows[c].rule
             /\ HasDraft(new, c) <=> HasDraft(rows, c) /\ c \notin S
             /\ HasDraft(new, c) => new[c].draft = rows[c].draft
  BY <1>1, ConfirmFacts
<1>5. \A c \in Case : c \in T <=> c \in S /\ HasDraft(old, c)
  BY DEF Drafted
<1> HIDE DEF old, rows, new, T
<1>6. ASSUME NEW c \in T
      PROVE  Life!Confirms(AppliedDoc(new)[c], DraftsOf(old)[c])
  <2>0. c \in Case
    BY DEF T, Drafted
  <2>1. c \in S /\ HasDraft(old, c) /\ HasDraft(rows, c) /\ rows[c].draft = old[c].draft
    BY <1>3, <1>5, <2>0
  <2>2. AppliedDoc(new)[c] = DraftRule(rows[c]) /\ DraftsOf(old)[c] = rows[c].draft
    BY <1>4, <2>0, <2>1 DEF AppliedDoc, DraftsOf
  <2>3. rows[c] \in GoodRow /\ rows[c].draft # NoRule
    BY <1>1, <2>0, <2>1 DEF Rows, HasDraft
  <2>4. DraftRule(rows[c]) \in Rule
    BY <2>3, DraftRuleType
  <2>5. /\ DraftRule(rows[c]).input = rows[c].draft.input
        /\ rows[c].draft.extra \in {NoExtra, DraftRule(rows[c]).extra}
    BY DEF DraftRule
  <2> QED BY <2>2, <2>4, <2>5 DEF Life!Confirms
<1>7. ASSUME NEW c \in Case \ T
      PROVE  AppliedDoc(new)[c] = AppliedDoc(old)[c]
  <2>1. ~ (c \in S /\ HasDraft(rows, c)) /\ rows[c] = old[c]
    BY <1>3, <1>5
  <2>2. (IsLive(new, c) <=> IsLive(old, c)) /\ (IsLive(old, c) => new[c].rule = old[c].rule)
    BY <1>3, <1>4, <2>1
  <2> QED BY <2>2 DEF AppliedDoc
<1>8. DraftsOf(new) = [c \in Case |-> IF c \in T THEN NoRule ELSE DraftsOf(old)[c]]
  <2>1. ASSUME NEW c \in Case
        PROVE  DraftsOf(new)[c] = IF c \in T THEN NoRule ELSE DraftsOf(old)[c]
    BY <1>3, <1>4, <1>5 DEF DraftsOf
  <2> QED BY <2>1 DEF DraftsOf
<1>9. AppliedDoc(new) \in Doc
  BY <1>1, DocTypes
<1>10. /\ CurrentRules' = [CurrentRules EXCEPT ![i] = AppliedDoc(new)]
       /\ DraftRules' = [DraftRules EXCEPT ![i] = DraftsOf(new)]
  BY <1>t, <1>2, LifeRows
<1>11. /\ CurrentRules[i] = AppliedDoc(old) /\ DraftRules[i] = DraftsOf(old)
       /\ Life!CasesOf(DraftRules[i]) = Drafted(old) /\ Life!Doc = Doc
  BY LifeAt DEF old
<1>12. T # {} /\ T \subseteq Life!CasesOf(DraftRules[i])
  BY <1>11 DEF T, old
<1>13. DraftRules' = [DraftRules EXCEPT ![i] = [c \in Case |-> IF c \in T THEN NoRule ELSE @[c]]]
  BY <1>8, <1>10, <1>11
<1>14. \E d \in Life!Doc :
         /\ CurrentRules' = [CurrentRules EXCEPT ![i] = d]
         /\ \A c \in T : Life!Confirms(d[c], DraftRules[i][c])
         /\ \A c \in Case \ T : d[c] = CurrentRules[i][c]
  BY <1>6, <1>7, <1>9, <1>10, <1>11
<1>15. Life!Confirm(i, T)
  BY <1>12, <1>13, <1>14 DEF Life!Confirm
<1> QED BY <1>15 DEF T, old

(* A whole confirmation, with or without testcases that are made for it.    *)
LEMMA LifeConfirmAll ==
  ASSUME TypeInv, NEW i \in Inst, NEW e \in Doc,
         \A c \in Case : e[c] # NoRule => IsLive(cases[i], c) /\ HasDraft(cases[i], c),
         \E c \in Case : HasDraft(cases[i], c), Coherent(cases[i], doc[i]),
         Applied(i, PublishedRows(cases[i], e), PublishedHist(caseHist[i], cases[i], e)),
         ReadyCases' = [ReadyCases EXCEPT ![i] = @ \cup Drafted(cases[i])]
  PROVE  Life!ConfirmAll(i)
<1>1. cases[i] \in Rows
  BY DEF TypeInv
<1> DEFINE rows == PublishedRows(cases[i], e)
<1>2. rows \in Rows /\ DraftDoc(rows) \in Doc
  BY <1>1, RowsTypes, DocTypes
<1>3. Only(DraftDoc(rows), Case) = DraftDoc(rows)
  BY <1>2 DEF Only, Doc
<1>4. cases' = [cases EXCEPT ![i] =
                  ClearedDrafts(PublishedRows(rows, Only(DraftDoc(rows), Case)), Case)]
  BY <1>3, Zenon DEF Applied
<1>5. Case \cap Drafted(cases[i]) = Drafted(cases[i]) /\ Drafted(cases[i]) # {}
  BY DEF Drafted
<1>6. \A c \in Case : e[c] # NoRule => IsLive(cases[i], c) /\ c \in Case \cap Drafted(cases[i])
  BY DEF Drafted
<1>7. Life!Confirm(i, Case \cap Drafted(cases[i]))
  BY <1>4, <1>5, <1>6, LifeConfirm
<1>8. doc[i].draft \in Doc /\ docHist \in Seq(DocSnap \cup {Deleted})
  BY DEF TypeInv, TypeOK, Facade
<1>9. PICK d \in Doc : d = doc[i].draft
  BY <1>8
<1>10. Life!Keeps(i, d)
  BY <1>8, <1>9, LifeKeeps DEF Applied
<1>11. Life!Covers(d, i)
  <2>1. /\ CurrentRules[i] = AppliedDoc(cases[i]) /\ DraftRules[i] = DraftsOf(cases[i])
        /\ Life!CasesOf(DraftRules[i]) = Drafted(cases[i])
    BY LifeAt
  <2>2. Life!CasesOf(CurrentRules[i]) = {c \in Case : IsLive(cases[i], c)}
    BY <1>1, <2>1, LifeCases
  <2>3. \A c \in Drafted(cases[i]) : d[c] # NoRule /\ d[c].input = DraftRules[i][c].input
    BY <1>9, <2>1 DEF Coherent, Drafted, DraftsOf
  <2>4. Life!CasesOf(d) \subseteq Drafted(cases[i]) \cup Life!CasesOf(CurrentRules[i])
    <3>1. \A c \in Life!CasesOf(d) : c \in Case /\ d[c] # NoRule
      BY DEF Life!CasesOf
    <3> QED BY <1>9, <2>2, <3>1 DEF Coherent, Drafted
  <2> QED BY <2>1, <2>3, <2>4 DEF Life!Covers
<1> QED BY <1>5, <1>7, <1>10, <1>11, LifeAt DEF Life!ConfirmAll

(* What is taken out of service stays as a draft.                           *)
LEMMA LifeTakeOut ==
  ASSUME TypeInv, NEW i \in Inst, NEW e \in Case, DeactivateCase(i, e)
  PROVE  Life!TakeOut(i, e)
<1> DEFINE old == cases[i]
           new == [old EXCEPT ![e] = DeactivatedRow(@)]
<1>t. cases \in [Inst -> Rows] /\ old \in Rows
  BY DEF TypeInv
<1>1. IsLive(old, e) /\ cases' = [cases EXCEPT ![i] = new] /\ pool' = pool
  BY DEF DeactivateCase
<1>2. /\ HasDraft(new, e) /\ ~ IsLive(new, e)
      /\ \A c \in Case : c # e => new[c] = old[c]
  <2>1. ASSUME NEW c \in Case
        PROVE  /\ c # e => new[c] = old[c]
               /\ HasDraft(new, e) /\ ~ IsLive(new, e)
    BY <1>t, <1>1, DeactivatedFacts
  <2> QED BY <2>1
<1>3. old[e] \in GoodRow /\ old[e] # NoRow
  BY <1>t, <1>1 DEF Rows, IsLive
<1>4. new[e].draft = IF old[e].draft = NoRule THEN old[e].rule ELSE old[e].draft
  BY <1>t, <1>3 DEF Rows, DeactivatedRow, GoodRow, Row
<1>5. AppliedDoc(old)[e] = old[e].rule /\ old[e].rule \in Rule
  BY <1>1, <1>3 DEF AppliedDoc, IsLive, GoodRow
<1> HIDE DEF old, new
<1>6. AppliedDoc(new) = [AppliedDoc(old) EXCEPT ![e] = NoRule]
  BY <1>2 DEF AppliedDoc, IsLive
<1>7. DraftsOf(new)[e] = IF DraftsOf(old)[e] = NoRule THEN AppliedDoc(old)[e] ELSE DraftsOf(old)[e]
  BY <1>2, <1>3, <1>4, <1>5 DEF DraftsOf, HasDraft
<1>8. \A c \in Case : c # e => DraftsOf(new)[c] = DraftsOf(old)[c]
  BY <1>2 DEF DraftsOf, HasDraft
<1>9. DraftsOf(new) = [DraftsOf(old) EXCEPT ![e] = IF @ = NoRule THEN AppliedDoc(old)[e] ELSE @]
  BY <1>7, <1>8 DEF DraftsOf
<1>10. /\ CurrentRules' = [CurrentRules EXCEPT ![i] = AppliedDoc(new)]
       /\ DraftRules' = [DraftRules EXCEPT ![i] = DraftsOf(new)]
       /\ ReadyCases' = ReadyCases /\ KeptDocs' = KeptDocs
  BY <1>t, <1>1, LifeRows, LifeSame DEF DeactivateCase
<1>11. CurrentRules[i] = AppliedDoc(old) /\ DraftRules[i] = DraftsOf(old)
  BY LifeAt DEF old
<1>12. CurrentRules[i][e] # NoRule
  BY <1>5, <1>11, RuleRowsAssumption
<1>13. CurrentRules' = [CurrentRules EXCEPT ![i][e] = NoRule]
  BY <1>6, <1>10, <1>11
<1>14. DraftRules' = [DraftRules EXCEPT ![i][e] = IF @ = NoRule THEN CurrentRules[i][e] ELSE @]
  BY <1>9, <1>10, <1>11
<1> QED BY <1>10, <1>12, <1>13, <1>14 DEF Life!TakeOut

(* A restore confirms the rules of its document and nothing else.           *)
LEMMA LifeRestore ==
  ASSUME TypeInv, NEW i \in Inst, NEW id \in DOMAIN docHist, Coherent(cases[i], doc[i]),
         Restore(i, id)
  PROVE  docHist[id].doc \in Life!Doc /\ Life!Restore(i, docHist[id].doc)
<1> DEFINE d   == docHist[id].doc
           new == RestoredRows(cases[i], d)
<1>1. /\ cases \in [Inst -> Rows] /\ docHist \in Seq(DocSnap \cup {Deleted})
      /\ cases[i] \in Rows
  BY DEF TypeInv, TypeOK
<1>2. d \in Doc
  BY <1>1 DEF Restore, DocSnap
<1>3. cases' = [cases EXCEPT ![i] = new] /\ pool' = pool
  BY DEF Restore, poolVars
<1>4. \A c \in Case : /\ IsLive(new, c) <=> d[c] # NoRule
                      /\ IsLive(new, c) => new[c].rule = d[c]
                      /\ ~ HasDraft(new, c)
  BY <1>1, <1>2, RestoredFacts DEF IsLive
<1>5. d = [c \in Case |-> d[c]]
  BY <1>2 DEF Doc
<1> HIDE DEF d, new
<1>6. AppliedDoc(new) = d /\ DraftsOf(new) = EmptyDoc
  BY <1>4, <1>5 DEF AppliedDoc, DraftsOf, EmptyDoc
<1>7. /\ CurrentRules' = [CurrentRules EXCEPT ![i] = d]
      /\ DraftRules' = [DraftRules EXCEPT ![i] = EmptyDoc]
      /\ ReadyCases' = ReadyCases
  BY <1>1, <1>3, <1>6, LifeRows, LifeSame
<1>8. d \in KeptDocs[i]
  <2>1. docHist[id] # Deleted /\ docHist[id].inst = i
    BY DEF Restore
  <2> QED BY <2>1, LifeKept DEF DocsIn, d
<1>9. /\ CurrentRules[i] = AppliedDoc(cases[i]) /\ Life!Nothing = EmptyDoc /\ Life!Doc = Doc
      /\ Life!CasesOf(AppliedDoc(cases[i])) = {c \in Case : IsLive(cases[i], c)}
  BY <1>1, LifeAt, LifeCases
<1>10. AppliedDoc(cases[i]) = EmptyDoc <=> doc[i].applied = EmptyDoc
  <2>1. doc[i].applied = EmptyDoc <=> Life!CasesOf(AppliedDoc(cases[i])) = {}
    BY <1>9 DEF Coherent
  <2>2. AppliedDoc(cases[i]) \in Doc
    BY LifeAt
  <2> QED BY <2>1, <2>2 DEF Life!CasesOf, Doc, EmptyDoc
<1>11. CASE doc[i].applied = EmptyDoc
  <2>1. CurrentRules[i] = Life!Nothing /\ KeptDocs' = KeptDocs
    BY <1>9, <1>10, <1>11, LifeSame DEF Restore
  <2> QED BY <1>2, <1>7, <1>8, <1>9, <2>1 DEF Life!Restore, d
<1>12. CASE doc[i].applied # EmptyDoc
  <2>1. doc[i].applied \in Doc
    BY DEF TypeInv, TypeOK, Facade
  <2>2. PICK e \in Doc : e = doc[i].applied
    BY <2>1
  <2>3. Life!Keeps(i, e)
    BY <1>1, <1>12, <2>2, LifeKeeps DEF Restore
  <2>4. Life!CasesOf(e) \subseteq Life!CasesOf(CurrentRules[i])
    <3>1. \A c \in Life!CasesOf(e) : c \in Case /\ e[c] # NoRule
      BY DEF Life!CasesOf
    <3> QED BY <1>9, <2>2, <3>1 DEF Coherent
  <2>5. CurrentRules[i] # Life!Nothing /\ e \in Life!Doc \ {Life!Nothing}
    BY <1>9, <1>10, <1>12, <2>2
  <2> QED BY <1>2, <1>7, <1>8, <1>9, <2>3, <2>4, <2>5 DEF Life!Restore, d
<1> QED BY <1>11, <1>12 DEF d

(* A materialisation confirms nothing and takes nothing out of service.     *)
LEMMA LifeMaterialise ==
  ASSUME TypeInv, NEW i \in Inst, NEW p, NEW e \in Doc,
         \A c \in Case : e[c] # NoRule => IsLive(cases[i], c),
         cases' = [cases EXCEPT ![i] = PublishedRows(cases[i], e)],
         pool' = [pool EXCEPT ![i] = p], docHist' = docHist
  PROVE  \E d \in Life!Doc, R \in SUBSET Case : Life!Materialise(i, d, R)
<1> DEFINE new == PublishedRows(cases[i], e)
<1>1. cases \in [Inst -> Rows] /\ cases[i] \in Rows /\ pool \in [Inst -> Pool] /\ new \in Rows
  BY RowsTypes DEF TypeInv, TypeOK
<1>2. \A c \in Case : /\ HasDraft(new, c) <=> HasDraft(cases[i], c)
                      /\ HasDraft(cases[i], c) => new[c].draft = cases[i][c].draft
                      /\ IsLive(new, c) <=> IsLive(cases[i], c)
  BY <1>1, RefreshFacts
<1>3. \A r \in Rows : Life!CasesOf(AppliedDoc(r)) = {c \in Case : IsLive(r, c)}
  BY LifeCases
<1>4. cases' = [cases EXCEPT ![i] = new]
  OBVIOUS
<1> HIDE DEF new
<1>5. DraftsOf(new) = DraftsOf(cases[i])
  BY <1>2 DEF DraftsOf
<1>6. Life!CasesOf(AppliedDoc(new)) = Life!CasesOf(AppliedDoc(cases[i]))
  BY <1>1, <1>2, <1>3
<1>7. /\ CurrentRules' = [CurrentRules EXCEPT ![i] = AppliedDoc(new)]
      /\ DraftRules' = [DraftRules EXCEPT ![i] = DraftsOf(cases[i])]
      /\ ReadyCases' = [ReadyCases EXCEPT ![i] = ReadyOf(p)]
  <2>1. /\ CurrentRules' = [CurrentRules EXCEPT ![i] = AppliedDoc(new)]
        /\ DraftRules' = [DraftRules EXCEPT ![i] = DraftsOf(new)]
    BY <1>1, <1>4, LifeRows
  <2>2. ReadyCases' = [ReadyCases EXCEPT ![i] = ReadyOf(p)]
    BY <1>1, LifePool
  <2> QED BY <1>5, <2>1, <2>2, Zenon
<1>8. AppliedDoc(new) \in Doc /\ ReadyOf(p) \in SUBSET Case
  BY <1>1, DocTypes DEF ReadyOf
<1>9. Life!Materialise(i, AppliedDoc(new), ReadyOf(p))
  BY <1>6, <1>7, LifeAt, LifeSame DEF Life!Materialise
<1> QED BY <1>8, <1>9, LifeAt

(* Every step is a step of RuleLife or changes nothing that it sees.        *)
LEMMA LifeStep ==
  ASSUME IInv, Next
  PROVE  Life!Next \/ UNCHANGED Life!vars
<1> USE DEF ruleVars, docVars, poolVars
<1>t. /\ TypeInv /\ cases \in [Inst -> Rows] /\ pool \in [Inst -> Pool]
      /\ docHist \in Seq(DocSnap \cup {Deleted})
      /\ \A i \in Inst : cases[i] \in Rows /\ Coherent(cases[i], doc[i])
  BY DEF IInv, TypeInv, TypeOK
<1>n. \A i \in Inst : /\ EmptyDoc \in Doc /\ caseHist[i] \in Hists
                      /\ PublishedRows(cases[i], EmptyDoc) = cases[i]
                      /\ PublishedHist(caseHist[i], cases[i], EmptyDoc) = caseHist[i]
  BY <1>t, PublishedNothing, DocTypes DEF TypeInv, TypeOK, Hists
<1>e. \A c \in Case : EmptyDoc[c] = NoRule
  BY DEF EmptyDoc
<1>s. \A i \in Inst : cases = [cases EXCEPT ![i] = cases[i]]
  BY <1>t
<1>1. ASSUME NEW i \in Inst, NEW d \in AuthoredDocs[i], UpsertDraft(i, d)
      PROVE  Life!Next
  BY <1>t, <1>1, LifeSave DEF Life!Next
<1>2. ASSUME NEW i \in Inst, ApplyDraft(i)
      PROVE  Life!Next
  <2>1. \E c \in Case : HasDraft(cases[i], c)
    BY <1>2 DEF ApplyDraft, IInv, Coherent
  <2>2. Drafted(cases[i]) \subseteq ReadyOf(pool[i]) /\ pool' = pool
    BY <1>2 DEF ApplyDraft, DraftsMaterialised, Drafted, ReadyOf
  <2>3. ReadyCases' = ReadyCases /\ ReadyCases[i] \cup Drafted(cases[i]) = ReadyCases[i]
    BY <1>t, <2>2, LifeSame, LifeAt
  <2>4. ReadyCases' = [ReadyCases EXCEPT ![i] = @ \cup Drafted(cases[i])]
    BY <2>3 DEF ReadyCases
  <2>5. Applied(i, PublishedRows(cases[i], EmptyDoc),
                   PublishedHist(caseHist[i], cases[i], EmptyDoc))
    BY <1>2, <1>n DEF ApplyDraft
  <2>6. Life!ConfirmAll(i)
    BY <1>t, <1>n, <1>e, <2>1, <2>4, <2>5, LifeConfirmAll
  <2> QED BY <2>6 DEF Life!Next
<1>3. ASSUME NEW i \in Inst, ActivateBundle(i)
      PROVE  Life!Next
  <2> DEFINE d == [c \in Case |->
                     IF HasDraft(cases[i], c) /\ pool[i][c] = NoTc
                     THEN RuleFor(i, c, DefaultBundle) ELSE NoRule]
             e == Synced(i, d)
             new == Bodies(d)
  <2>1. d \in Doc
    BY <1>t, BundleTypes DEF Doc
  <2>2. e \in Doc /\ \A c \in Case : e[c] # NoRule => IsLive(cases[i], c) /\ HasDraft(cases[i], c)
    BY <2>1, BodiesType DEF Synced, Only
  <2>3. \A c \in Case : new[c] # NoTc <=> HasDraft(cases[i], c) /\ pool[i][c] = NoTc
    <3> SUFFICES ASSUME NEW c \in Case
                 PROVE  new[c] # NoTc <=> HasDraft(cases[i], c) /\ pool[i][c] = NoTc
      OBVIOUS
    <3>1. HasDraft(cases[i], c) => DraftRule(cases[i][c]) \in Rule
      BY <1>t, DraftRuleType DEF HasDraft, Rows
    <3>2. HasDraft(cases[i], c) => RuleFor(i, c, DefaultBundle) # NoRule
      BY <3>1, RuleRowsAssumption DEF RuleFor
    <3>3. d[c] # NoRule <=> HasDraft(cases[i], c) /\ pool[i][c] = NoTc
      BY <3>2
    <3>4. d[c] # NoRule => d[c].input # NoTc
      BY <2>1, PoolRowsAssumption DEF Doc, Rule
    <3> HIDE DEF d
    <3> QED BY <3>3, <3>4 DEF Bodies
  <2>4. /\ pool' = [pool EXCEPT ![i] = Upserted(pool[i], new)]
        /\ Applied(i, PublishedRows(cases[i], e), PublishedHist(caseHist[i], cases[i], e))
        /\ \E c \in Case : HasDraft(cases[i], c)
    BY <1>3, <1>t DEF ActivateBundle, DraftsMaterialised
  <2> HIDE DEF d, e, new
  <2>5. ReadyOf(Upserted(pool[i], new)) = ReadyOf(pool[i]) \cup Drafted(cases[i])
    BY <2>3 DEF ReadyOf, Upserted, Drafted
  <2>6. ReadyCases' = [ReadyCases EXCEPT ![i] = @ \cup Drafted(cases[i])]
    <3>1. ReadyCases' = [ReadyCases EXCEPT ![i] = ReadyOf(Upserted(pool[i], new))]
      BY <1>t, <2>4, LifePool
    <3>2. ReadyCases[i] = ReadyOf(pool[i])
      BY <1>t, LifeAt
    <3> QED BY <2>5, <3>1, <3>2
  <2>7. Life!ConfirmAll(i)
    BY <1>t, <2>2, <2>4, <2>6, LifeConfirmAll
  <2> QED BY <2>7 DEF Life!Next
<1>4. ASSUME NEW i \in Inst, NEW c \in Case, ApplyDraftCase(i, c)
      PROVE  Life!Next
  <2>1. /\ cases' = [cases EXCEPT ![i] = ClearedDrafts(
                       PublishedRows(cases[i], Only(DraftDoc(cases[i]), {c})), {c})]
        /\ pool' = pool /\ pool[i][c] # NoTc /\ HasDraft(cases[i], c)
    BY <1>4 DEF ApplyDraftCase
  <2>2. {c} \cap Drafted(cases[i]) = {c}
    BY <2>1 DEF Drafted
  <2>3. Life!Confirm(i, {c} \cap Drafted(cases[i]))
    BY <1>t, <1>n, <1>e, <2>1, <2>2, LifeConfirm
  <2>4. c \in ReadyCases[i] /\ ReadyCases' = ReadyCases /\ KeptDocs' = KeptDocs
    BY <1>4, <1>t, <2>1, LifeSame, LifeAt DEF ReadyOf, ApplyDraftCase
  <2>5. Life!ConfirmCase(i, c)
    BY <2>2, <2>3, <2>4 DEF Life!ConfirmCase
  <2> QED BY <2>5 DEF Life!Next
<1>5. ASSUME NEW i \in Inst, NEW c \in Case, DeactivateCase(i, c)
      PROVE  Life!Next
  BY <1>t, <1>5, LifeTakeOut DEF Life!Next
<1>6. ASSUME NEW i \in Inst, NEW id \in DOMAIN docHist, Restore(i, id)
      PROVE  Life!Next
  BY <1>t, <1>6, LifeRestore DEF Life!Next
<1>7. ASSUME NEW i \in Inst, NEW p \in Pool, NEW h \in TcHist, NEW d \in Doc,
             Materialised(i, p, h, d), docHist' = docHist
      PROVE  Life!Next
  <2>1. Synced(i, d) \in Doc /\ \A c \in Case : Synced(i, d)[c] # NoRule => IsLive(cases[i], c)
    BY BodiesType DEF Synced, Only
  <2>2. \E x \in Life!Doc, R \in SUBSET Case : Life!Materialise(i, x, R)
    BY <1>t, <1>7, <2>1, LifeMaterialise DEF Materialised
  <2> QED BY <2>2 DEF Life!Next
<1>8. ASSUME NEW i \in Inst, NEW b \in Bundles(i), NEW replace \in BOOLEAN,
             MaterializePool(i, b, replace)
      PROVE  Life!Next
  <2>1. Mapped(i, b) \in Doc
    BY <1>t, BundleTypes, BodiesType DEF Mapped
  <2>2. /\ EmptyPool \in Pool /\ pool[i] \in Pool
        /\ tcHist[i] \in TcHist /\ CascadedPool(tcHist[i]) \in TcHist
    BY <1>t, PoolTypes DEF TypeInv, TypeOK
  <2> QED BY <1>7, <1>8, <2>1, <2>2 DEF MaterializePool
<1>9. ASSUME NEW i \in Inst, NEW b \in Bundles(i), NEW c \in Case, MaterializeOne(i, c, b)
      PROVE  Life!Next
  <2>1. b \in Doc /\ RuleFor(i, c, b) \in Rule \cup {NoRule}
    BY <1>t, BundleTypes
  <2>2. [EmptyDoc EXCEPT ![c] = RuleFor(i, c, b)] \in Doc
    BY <2>1 DEF EmptyDoc, Doc
  <2>3. pool[i] \in Pool /\ tcHist[i] \in TcHist
    BY <1>t DEF TypeInv, TypeOK
  <2> QED BY <1>7, <1>9, <2>2, <2>3 DEF MaterializeOne
<1>10. ASSUME NEW i \in Inst, NEW p, cases' = cases, docHist' = docHist,
              pool' = [pool EXCEPT ![i] = p]
       PROVE  Life!Next
  <2>1. cases' = [cases EXCEPT ![i] = PublishedRows(cases[i], EmptyDoc)]
    BY <1>n, <1>s, <1>10
  <2>2. \E x \in Life!Doc, R \in SUBSET Case : Life!Materialise(i, x, R)
    BY <1>t, <1>n, <1>e, <1>10, <2>1, LifeMaterialise
  <2> QED BY <2>2 DEF Life!Next
<1>11. ASSUME NEW i \in Inst, PoolStep(i)
       PROVE  Life!Next
  BY <1>8, <1>9, <1>10, <1>11
     DEF PoolStep, ListEligible, PatchTestcase, PromoteSample, PutTestcase
<1>12. ASSUME NEW id \in DOMAIN docHist, DeleteHistory(id)
       PROVE  Life!Next \/ UNCHANGED Life!vars
  <2>1. Life!Doc = Doc
    BY DEF Life!Doc, Doc
  <2> QED BY <1>t, <1>12, <2>1, LifeForget DEF Life!Next
<1>13. ASSUME NEW i \in Inst, RuleStep(i)
       PROVE  Life!Next
  BY <1>1, <1>2, <1>3, <1>4, <1>5, <1>6, <1>13 DEF RuleStep
<1> QED BY <1>11, <1>12, <1>13 DEF Next

(* The rule store implements RuleLife, for any institutions, cases and rules, *)
(* with and without enforced foreign keys: each request, in all the copies    *)
(* that it writes, is one step of a rule's life or shows in none.             *)
THEOREM LifeCorrect == Spec => LivesAsPromised
<1>1. Init => Life!Init
  <2> SUFFICES ASSUME Init PROVE Life!Init
    OBVIOUS
  <2>1. \A i \in Inst, c \in Case : ~ IsLive(cases[i], c) /\ ~ HasDraft(cases[i], c)
    BY DEF Init, IsLive, HasDraft
  <2>2. CurrentRules = [i \in Inst |-> EmptyDoc] /\ DraftRules = [i \in Inst |-> EmptyDoc]
    BY <2>1 DEF CurrentRules, DraftRules, AppliedDoc, EmptyDoc
  <2>3. ReadyCases = [i \in Inst |-> {}]
    BY DEF Init, ReadyCases, EmptyPool
  <2>4. KeptDocs = [i \in Inst |-> {}]
    BY DEF Init, KeptDocs
  <2> QED BY <2>2, <2>3, <2>4 DEF Life!Init, Life!Nothing, EmptyDoc
<1>2. IInv /\ [Next]_vars => [Life!Next]_(Life!vars)
  <2>1. CASE UNCHANGED vars
    BY <2>1, LifeSame DEF vars, Life!vars
  <2> QED BY <2>1, LifeStep
<1> QED BY <1>1, <1>2, IInvInit, IInvStep, PTL
        DEF Spec, LivesAsPromised, Life!Spec
=============================================================================
