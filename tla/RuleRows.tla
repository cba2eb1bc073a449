------------------------------ MODULE RuleRows ------------------------------
(***************************************************************************)
(* The rows of one institution's rules for one service, as pure functions: *)
(* the case table (fnx_rule_case), its version history                     *)
(* (fnx_rule_case_hist) and the rule documents assembled from it.          *)
(*                                                                         *)
(* A rule is abstracted to two fields.  `input` stands for everything the  *)
(* validator requires (title, description, input, expect, assertions,      *)
(* tags, evidence): a draft always carries its own.  `extra` stands for    *)
(* the optional fields (folder, extract, use): a draft that leaves them    *)
(* out stores NULL and is read back with the applied column's value.       *)
(* Checksums are injective in the model: two rules have the same checksum  *)
(* exactly when they are equal.                                            *)
(***************************************************************************)
EXTENDS Naturals, Sequences

CONSTANTS
  Case,      \* case ids of the service
  Input,     \* contents of the required fields of a rule
  Extra,     \* contents of the optional fields of a rule
  NoExtra,   \* the optional fields are absent (NULL columns)
  NoInput,   \* the required columns of a row that was never applied
  NoRule,    \* a case that a document or a draft column does not hold
  NoRow,     \* no fnx_rule_case row
  Cascades   \* TRUE: foreign keys are enforced (PostgreSQL), so deleting a
             \* row deletes its history; FALSE: they are not (SQLite without
             \* the foreign_keys pragma), so the history outlives the row

Rule == [input : Input, extra : Extra \cup {NoExtra}]

(* The applied columns of a freshly inserted row. *)
BlankRule == [input |-> NoInput, extra |-> NoExtra]

Row == [rule  : Rule \cup {BlankRule},   \* applied columns
        live  : BOOLEAN,                 \* checksum # "" (confirmed)
        draft : Rule \cup {NoRule}]      \* draft columns

Doc == [Case -> Rule \cup {NoRule}]

EmptyDoc == [c \in Case |-> NoRule]

ASSUME RuleRowsAssumption ==
  /\ NoExtra \notin Extra
  /\ NoInput \notin Input
  /\ NoRule \notin Rule \cup {BlankRule}
  /\ NoRow \notin Row
  /\ Cascades \in BOOLEAN

-----------------------------------------------------------------------------
(* Reading a row. *)

FreshRow == [rule |-> BlankRule, live |-> FALSE, draft |-> NoRule]

RowAt(rows, c) == IF rows[c] = NoRow THEN FreshRow ELSE rows[c]

IsLive(rows, c) == rows[c] # NoRow /\ rows[c].live

HasDraft(rows, c) == rows[c] # NoRow /\ rows[c].draft # NoRule

(* Without the fallback to the applied optional fields. *)
MutDraftRule(row) == [input |-> row.rule.input, extra |-> row.draft.extra]

(* A draft is read back with the applied optional fields where it has none. *)
DraftRule(row) ==
  [input |-> row.draft.input,
   extra |-> IF row.draft.extra = NoExtra THEN row.rule.extra
                                          ELSE row.draft.extra]

DraftDoc(rows) ==
  [c \in Case |-> IF HasDraft(rows, c) THEN DraftRule(rows[c]) ELSE NoRule]

AppliedDoc(rows) ==
  [c \in Case |-> IF IsLive(rows, c) THEN rows[c].rule ELSE NoRule]

(* What the editor and every merge start from: drafts first, else applied. *)
EditorDoc(rows) ==
  [c \in Case |-> IF HasDraft(rows, c) THEN DraftRule(rows[c])
                                       ELSE AppliedDoc(rows)[c]]

-----------------------------------------------------------------------------
(* Writing rows. *)

(* Deletes confirmed rows too: the checksum test forgotten. *)
MutSavedRows(rows, d) ==
  [c \in Case |-> IF d[c] # NoRule THEN [RowAt(rows, c) EXCEPT !.draft = d[c]]
                                   ELSE NoRow]

(* Keeps the drafts of the rules that the document dropped. *)
MutSavedRowsKeep(rows, d) ==
  [c \in Case |->
     CASE d[c] # NoRule -> [RowAt(rows, c) EXCEPT !.draft = d[c]]
       [] d[c] = NoRule /\ IsLive(rows, c) -> rows[c]
       [] OTHER -> NoRow]

(* Saving document d as the draft: its rules become drafts; of the others a *)
(* confirmed row only loses its draft and an unconfirmed row is deleted.    *)
SavedRows(rows, d) ==
  [c \in Case |->
     CASE d[c] # NoRule -> [RowAt(rows, c) EXCEPT !.draft = d[c]]
       [] d[c] = NoRule /\ IsLive(rows, c) -> [rows[c] EXCEPT !.draft = NoRule]
       [] OTHER -> NoRow]

(* Drops the draft of what it refreshes. *)
MutPublishedRows(rows, d) ==
  [c \in Case |->
     IF d[c] = NoRule THEN rows[c]
     ELSE [RowAt(rows, c) EXCEPT !.rule = d[c], !.live = TRUE, !.draft = NoRule]]

(* Publishing the rules of document d into the applied columns. *)
PublishedRows(rows, d) ==
  [c \in Case |->
     IF d[c] = NoRule THEN rows[c]
     ELSE [RowAt(rows, c) EXCEPT !.rule = d[c], !.live = TRUE]]

(* Records the rule that is replaced instead of the one that replaces it. *)
MutPublishedHist(hist, rows, d) ==
  [c \in Case |->
     IF d[c] = NoRule \/ (IsLive(rows, c) /\ rows[c].rule = d[c])
     THEN hist[c] ELSE Append(hist[c], RowAt(rows, c).rule)]

(* ... and appending to the history what was not live before as it is now. *)
PublishedHist(hist, rows, d) ==
  [c \in Case |->
     IF d[c] = NoRule \/ (IsLive(rows, c) /\ rows[c].rule = d[c])
     THEN hist[c] ELSE Append(hist[c], d[c])]

ClearedDrafts(rows, S) ==
  [c \in Case |-> IF c \in S /\ rows[c] # NoRow
                  THEN [rows[c] EXCEPT !.draft = NoRule] ELSE rows[c]]

(* Forgets to keep a draft of what it takes out of service. *)
MutDeactivatedRow(row) == [row EXCEPT !.live = FALSE]

(* Taking a case out of service: what was applied stays as its draft. *)
DeactivatedRow(row) ==
  [row EXCEPT !.live = FALSE,
              !.draft = IF @ = NoRule THEN row.rule ELSE @]

(* No cascade. *)
MutCascadedNone(hist, rows) == hist

(* What is left of the history of the rows that are gone. *)
Cascaded(hist, rows) ==
  [c \in Case |-> IF Cascades /\ rows[c] = NoRow THEN << >> ELSE hist[c]]

(* The part of document d whose cases satisfy a set S. *)
Only(d, S) == [c \in Case |-> IF c \in S THEN d[c] ELSE NoRule]
=============================================================================
