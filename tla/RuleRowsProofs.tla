--------------------------- MODULE RuleRowsProofs ---------------------------
(* What the operators of RuleRows return, for every value of its constants. *)
EXTENDS RuleRows, TLAPS

(***************************************************************************)
(* Rows whose confirmed rules are rules: a row that was never applied      *)
(* (BlankRule) is not confirmed.                                           *)
(***************************************************************************)
GoodRow == {r \in Row : r.live => r.rule \in Rule}
Rows    == [Case -> GoodRow \cup {NoRow}]

-----------------------------------------------------------------------------
(* Reading and writing rows. *)

(* A freshly inserted or existing row is a row that is no NoRow. *)
LEMMA RowAtType ==
  ASSUME NEW rows \in Rows, NEW c \in Case
  PROVE  RowAt(rows, c) \in GoodRow /\ RowAt(rows, c) # NoRow
<1>1. FreshRow \in GoodRow
  BY DEF FreshRow, GoodRow, Row, BlankRule
<1>2. rows[c] \in GoodRow \cup {NoRow}
  BY DEF Rows
<1>3. NoRow \notin GoodRow
  BY RuleRowsAssumption DEF GoodRow
<1> QED BY <1>1, <1>2, <1>3 DEF RowAt

(* The rule that a draft is read back as is a rule. *)
LEMMA DraftRuleType ==
  ASSUME NEW row \in GoodRow, row.draft # NoRule
  PROVE  DraftRule(row) \in Rule
<1>1. row.draft \in Rule
  BY DEF GoodRow, Row
<1>2. row.rule.extra \in Extra \cup {NoExtra}
  BY DEF GoodRow, Row, Rule, BlankRule
<1> QED BY <1>1, <1>2 DEF DraftRule, Rule

(* Documents read from the rows are documents. *)
LEMMA ReadTypes ==
  ASSUME NEW rows \in Rows
  PROVE  /\ EmptyDoc \in Doc
         /\ DraftDoc(rows) \in Doc
         /\ AppliedDoc(rows) \in Doc
         /\ EditorDoc(rows) \in Doc
<1>1. EmptyDoc \in Doc
  BY DEF EmptyDoc, Doc
<1>2. \A c \in Case : HasDraft(rows, c) => DraftRule(rows[c]) \in Rule
  BY DraftRuleType DEF HasDraft, Rows
<1>3. \A c \in Case : IsLive(rows, c) => rows[c].rule \in Rule
  BY DEF IsLive, Rows, GoodRow
<1>4. DraftDoc(rows) \in Doc
  BY <1>2 DEF DraftDoc, Doc
<1>5. AppliedDoc(rows) \in Doc
  BY <1>3 DEF AppliedDoc, Doc
<1>6. EditorDoc(rows) \in Doc
  BY <1>2, <1>5 DEF EditorDoc, Doc
<1> QED BY <1>1, <1>4, <1>5, <1>6

(* Saving, publishing and clearing return rows. *)
LEMMA WriteTypes ==
  ASSUME NEW rows \in Rows, NEW d \in Doc
  PROVE  /\ SavedRows(rows, d) \in Rows
         /\ PublishedRows(rows, d) \in Rows
         /\ \A S : ClearedDrafts(rows, S) \in Rows
<1>1. \A c \in Case : d[c] # NoRule => d[c] \in Rule
  BY DEF Doc
<1>2. ASSUME NEW r \in GoodRow, NEW x \in Rule
      PROVE  /\ [r EXCEPT !.draft = x] \in GoodRow
             /\ [r EXCEPT !.draft = NoRule] \in GoodRow
             /\ [r EXCEPT !.rule = x, !.live = TRUE] \in GoodRow
  BY DEF GoodRow, Row
<1>3. ASSUME NEW r \in GoodRow
      PROVE  [r EXCEPT !.draft = NoRule] \in GoodRow
  BY DEF GoodRow, Row
<1>4. \A c \in Case : rows[c] \in GoodRow \cup {NoRow}
  BY DEF Rows
<1>5. SavedRows(rows, d) \in Rows
  BY <1>1, <1>2, <1>3, <1>4, RowAtType DEF SavedRows, Rows, IsLive
<1>6. PublishedRows(rows, d) \in Rows
  BY <1>1, <1>2, <1>4, RowAtType DEF PublishedRows, Rows
<1>7. \A S : ClearedDrafts(rows, S) \in Rows
  BY <1>3, <1>4 DEF ClearedDrafts, Rows
<1> QED BY <1>5, <1>6, <1>7

(* A confirmed row that is taken out of service is still a row. *)
LEMMA DeactivatedType ==
  ASSUME NEW rows \in Rows, NEW c \in Case, IsLive(rows, c)
  PROVE  [rows EXCEPT ![c] = DeactivatedRow(@)] \in Rows
<1>1. rows[c] \in GoodRow /\ rows[c].rule \in Rule
  BY DEF Rows, IsLive, GoodRow
<1>2. DeactivatedRow(rows[c]) \in GoodRow
  BY <1>1 DEF DeactivatedRow, GoodRow, Row
<1> QED BY <1>2 DEF Rows

(* A part of a document is a document. *)
LEMMA OnlyType ==
  ASSUME NEW d \in Doc
  PROVE  \A S : Only(d, S) \in Doc
BY DEF Doc, Only

(* Saving a draft confirms nothing and changes nothing that is confirmed.   *)
LEMMA SavedKeepsApplied ==
  ASSUME NEW rows \in Rows, NEW d \in Doc
  PROVE  AppliedDoc(SavedRows(rows, d)) = AppliedDoc(rows)
<1> SUFFICES ASSUME NEW c \in Case
             PROVE  AppliedDoc(SavedRows(rows, d))[c] = AppliedDoc(rows)[c]
  BY DEF AppliedDoc
<1> DEFINE saved == SavedRows(rows, d)
<1>1. RowAt(rows, c) \in Row /\ RowAt(rows, c) # NoRow
  BY RowAtType DEF GoodRow
<1>2. CASE d[c] # NoRule
  <2>1. saved[c] = [RowAt(rows, c) EXCEPT !.draft = d[c]]
    BY <1>2 DEF SavedRows
  <2>2. /\ saved[c].live = RowAt(rows, c).live
        /\ saved[c].rule = RowAt(rows, c).rule
    BY <1>1, <2>1 DEF Row
  <2>3. saved[c] \in Row
    BY <1>1, <1>2, <2>1 DEF Row, Doc
  <2>4. saved[c] # NoRow
    BY <2>3, RuleRowsAssumption
  <2>5. IsLive(saved, c) <=> IsLive(rows, c)
    BY <2>2, <2>4 DEF IsLive, RowAt, FreshRow
  <2>6. IsLive(rows, c) => saved[c].rule = rows[c].rule
    BY <2>2 DEF IsLive, RowAt
  <2> HIDE DEF saved
  <2> QED BY <2>5, <2>6 DEF AppliedDoc, saved
<1>3. CASE d[c] = NoRule /\ IsLive(rows, c)
  <2>1. saved[c] = [rows[c] EXCEPT !.draft = NoRule]
    BY <1>3 DEF SavedRows
  <2>2. rows[c] \in Row
    BY <1>3 DEF Rows, GoodRow, IsLive
  <2>3. saved[c] \in Row /\ saved[c].live = rows[c].live /\ saved[c].rule = rows[c].rule
    BY <2>1, <2>2 DEF Row
  <2>4. saved[c] # NoRow
    BY <2>3, RuleRowsAssumption
  <2> HIDE DEF saved
  <2> QED BY <1>3, <2>3, <2>4 DEF AppliedDoc, IsLive, saved
<1>4. CASE d[c] = NoRule /\ ~ IsLive(rows, c)
  <2>1. saved[c] = NoRow
    BY <1>4 DEF SavedRows
  <2> QED BY <1>4, <2>1 DEF AppliedDoc, IsLive
<1> QED BY <1>2, <1>3, <1>4

(* Saving for a case of the editor a rule that is as optional as the        *)
(* editor's keeps the case and its optional fields in the editor.           *)
LEMMA SavedKeepsCase ==
  ASSUME NEW rows \in Rows, NEW d \in Doc, NEW c \in Case,
         EditorDoc(rows)[c] # NoRule, d[c] # NoRule,
         d[c].extra = EditorDoc(rows)[c].extra
  PROVE  /\ EditorDoc(SavedRows(rows, d))[c] # NoRule
         /\ EditorDoc(SavedRows(rows, d))[c].extra = EditorDoc(rows)[c].extra
<1> DEFINE row == RowAt(rows, c)
           saved == SavedRows(rows, d)
<1>1. row \in GoodRow /\ row # NoRow /\ row \in Row
  BY RowAtType DEF GoodRow
<1>2. rows[c] # NoRow /\ row = rows[c]
  BY DEF EditorDoc, AppliedDoc, HasDraft, IsLive, RowAt
<1>3. saved[c] = [row EXCEPT !.draft = d[c]]
  BY DEF SavedRows
<1>4. d[c] \in Rule
  BY DEF Doc
<1>5. /\ saved[c] \in Row /\ saved[c].draft = d[c] /\ saved[c].rule = row.rule
      /\ saved[c] \in GoodRow
  BY <1>1, <1>3, <1>4 DEF Row, GoodRow
<1>6. HasDraft(saved, c)
  BY <1>5, RuleRowsAssumption DEF HasDraft
<1>7. EditorDoc(saved)[c] = DraftRule(saved[c])
  BY <1>6 DEF EditorDoc
<1>8. DraftRule(saved[c]) \in Rule
  BY <1>5, DraftRuleType
<1>9. EditorDoc(saved)[c] # NoRule
  BY <1>7, <1>8, RuleRowsAssumption
<1>10. DraftRule(saved[c]).extra = IF d[c].extra = NoExtra THEN row.rule.extra ELSE d[c].extra
  BY <1>5 DEF DraftRule
<1>11. EditorDoc(rows)[c].extra = NoExtra => row.rule.extra = NoExtra
  BY <1>2 DEF EditorDoc, AppliedDoc, DraftRule
<1> HIDE DEF row, saved
<1> QED BY <1>7, <1>9, <1>10, <1>11 DEF saved
=============================================================================
