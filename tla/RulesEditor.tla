----------------------------- MODULE RulesEditor -----------------------------
(***************************************************************************)
(* The sheet in which the rules of one service are edited: the document    *)
(* that was loaded, what the user types into it, and the requests that     *)
(* save it, confirm it, or take it to the pool.  A request is not          *)
(* cancelled when the sheet is closed or shows another service.            *)
(*                                                                         *)
(* A service has one case here, so its document is one text.  A handler    *)
(* that waits for several requests in a row is a call that goes through    *)
(* the stages "req" (the request it is about), "list" (the registry, read  *)
(* again) and "meta" (the state of the cases).  A request is served, and   *)
(* answered, in actions of their own; it may fail, and its answer may get  *)
(* lost after it took effect.                                              *)
(***************************************************************************)
EXTENDS Naturals, FiniteSets

CONSTANTS
  Svc,      \* services of the registry
  Text,     \* documents
  Blank,    \* no document
  TextOf,   \* TextOf[s]: the documents one may write for service s
  None,     \* no service
  Failed,   \* the answer of a request that failed
  Uses,     \* the kinds of calls that the user makes
  MaxCalls  \* bound on calls that are under way

VARIABLES
  srv,      \* srv[s]: what the server holds for the case of service s
  selected, \* the row the sheet is open for, or None
  text,     \* yamlText
  baseline, \* baselineYamlText
  meta,     \* caseMeta: of the case, or None
  loading,  \* editLoading
  saving,   \* editSaving
  toggling, \* togglingCaseId # null
  pooling,  \* materializingCaseId # null
  dialog,   \* the confirmation that is open
  calls,    \* the calls that are under way
  had       \* history: the documents that the server held

shown == <<text, baseline, meta>>
busy  == <<loading, saving, toggling, pooling>>
vars  == <<srv, selected, shown, busy, dialog, calls, had>>

Server == [text : Text, draft : BOOLEAN, live : BOOLEAN, pool : BOOLEAN]
Kind == {"load", "save", "activate", "toggle", "materialize"}
Call == [kind : Kind, svc : Svc, text : Text, close : BOOLEAN,
         live : BOOLEAN, at : {"req", "list", "meta"},
         got : Server \cup {None, Failed}]

Init ==
  /\ srv \in [Svc -> Server]
  /\ \A s \in Svc : /\ srv[s].text \in TextOf[s]
                    /\ srv[s].draft \/ srv[s].live
  /\ selected = None
  /\ text = Blank /\ baseline = Blank /\ meta = None
  /\ loading = FALSE /\ saving = FALSE /\ toggling = FALSE /\ pooling = FALSE
  /\ dialog = "none" /\ calls = {}
  /\ had = {srv[s].text : s \in Svc}

IsOpen == selected # None
Dirty == text # baseline

-----------------------------------------------------------------------------
(* Calls. *)

Starts(kind, s, t, close, live) ==
  /\ kind \in Uses /\ Cardinality(calls) < MaxCalls
  /\ calls' = calls \cup {[kind |-> kind, svc |-> s, text |-> t, close |-> close,
                           live |-> live, at |-> "req", got |-> None]}

Ends(c) == calls' = calls \ {c}

GoesOn(c, stage) == calls' = (calls \ {c}) \cup {[c EXCEPT !.at = stage, !.got = None]}

-----------------------------------------------------------------------------
(* The sheet. *)

(* A row of the list; what the list says of a draft may be old.             *)
OpenEdit(s) ==
  /\ ~IsOpen
  /\ \E d \in BOOLEAN : selected' = [svc |-> s, draft |-> d]
  /\ text' = Blank
  /\ loading' = TRUE
  /\ Starts("load", s, Blank, FALSE, FALSE)
  /\ UNCHANGED <<srv, had, baseline, meta, saving, toggling, pooling, dialog>>

(* closePanel leaves the two flags of requests under way as they are.       *)
Closed ==
  /\ selected' = None
  /\ text' = Blank /\ baseline' = Blank /\ meta' = None
  /\ toggling' = FALSE /\ pooling' = FALSE
  /\ dialog' = "none"

(* Closes although something was edited.                                    *)
MutRequestClose ==
  /\ IsOpen /\ ~saving /\ dialog = "none"
  /\ Closed
  /\ UNCHANGED <<srv, had, loading, saving, calls>>

RequestClose ==
  /\ IsOpen /\ ~saving /\ dialog = "none"
  /\ IF Dirty THEN dialog' = "close"
                   /\ UNCHANGED <<selected, shown, toggling, pooling>>
     ELSE Closed
  /\ UNCHANGED <<srv, had, loading, saving, calls>>

(* The services a document is written for. *)
OwnersOf(t) == {s \in Svc : t \in TextOf[s]}

(* A document is edited into another one of the service it was written for. *)
EditsOf(t) ==
  IF t = Blank THEN TextOf[selected.svc] ELSE UNION {TextOf[s] : s \in OwnersOf(t)}

Type(t) ==
  /\ IsOpen /\ ~loading /\ ~saving /\ dialog = "none"
  /\ t \in EditsOf(text) \ {text}
  /\ text' = t
  /\ UNCHANGED <<srv, had, selected, baseline, meta, busy, dialog, calls>>

Cancel ==
  /\ dialog # "none"
  /\ (dialog = "materialize" => ~pooling)
  /\ (dialog # "materialize" => ~saving)
  /\ dialog' = "none"
  /\ UNCHANGED <<srv, had, selected, shown, busy, calls>>

Discard ==
  /\ dialog = "close" /\ ~saving
  /\ Closed
  /\ UNCHANGED <<srv, had, loading, saving, calls>>

-----------------------------------------------------------------------------
(* Saving and confirming. *)

SaveDraft(close) ==
  /\ saving' = TRUE
  /\ Starts("save", selected.svc, text, close, FALSE)
  /\ dialog' = "none"
  /\ UNCHANGED <<srv, had, selected, shown, loading, toggling, pooling>>

(* getSaveDraftDisabledReason *)
Save ==
  /\ IsOpen /\ dialog = "none"
  /\ ~saving /\ ~loading /\ Dirty
  /\ SaveDraft(FALSE)

SaveAndClose ==
  /\ IsOpen /\ dialog = "close"
  /\ ~saving /\ ~loading /\ Dirty
  /\ SaveDraft(TRUE)

Ask(what) ==
  /\ IsOpen /\ dialog = "none"
  /\ dialog' = what
  /\ UNCHANGED <<srv, had, selected, shown, busy, calls>>

AskActivate == ~saving /\ ~loading /\ selected # None /\ selected.draft
               /\ ~Dirty /\ Ask("activate")

RunActivate ==
  /\ dialog = "activate" /\ ~saving
  /\ dialog' = "none"
  /\ saving' = TRUE
  /\ Starts("activate", selected.svc, text, FALSE, FALSE)
  /\ UNCHANGED <<srv, had, selected, shown, loading, toggling, pooling>>

(* The buttons of a case that the document names.                           *)
CaseButtons == IsOpen /\ text # Blank /\ ~loading /\ ~saving /\ ~pooling

CanToggle ==
  /\ CaseButtons /\ ~toggling
  /\ meta # None /\ OwnersOf(text) = OwnersOf(meta.text)
  /\ meta.live \/ (~Dirty /\ meta.draft /\ meta.pool)

(* The check mark of the case: it confirms the draft, or takes it back.     *)
ToggleCaseApplied ==
  /\ CanToggle /\ dialog = "none"
  /\ toggling' = TRUE
  /\ Starts("toggle", selected.svc, text, FALSE, meta.live)
  /\ UNCHANGED <<srv, had, selected, shown, loading, saving, pooling, dialog>>

AskMaterialize == CaseButtons /\ Ask("materialize")

MaterializeOneCase ==
  /\ dialog = "materialize" /\ ~pooling
  /\ dialog' = "none"
  /\ pooling' = TRUE
  /\ Starts("materialize", selected.svc, text, FALSE, FALSE)
  /\ UNCHANGED <<srv, had, selected, shown, loading, saving, toggling>>

-----------------------------------------------------------------------------
(* The server. *)

(* The service has the case that the document is about.                     *)
Known(c) == c.svc \in OwnersOf(c.text)

(* What a request makes of the case it is about, if it is not refused.  The *)
(* body that goes to the pool also becomes the confirmed rule.              *)
Effect(c) ==
  LET row == srv[c.svc] IN
  IF c.at # "req" THEN row ELSE
  CASE c.kind = "load" -> row
    [] c.kind = "save" -> [row EXCEPT !.text = c.text, !.draft = TRUE]
    [] c.kind = "activate" -> [row EXCEPT !.draft = FALSE, !.live = TRUE,
                                          !.pool = @ \/ row.draft]
    [] c.kind = "materialize" ->
         [row EXCEPT !.pool = @ \/ Known(c), !.text = IF Known(c) /\ row.live /\ ~row.draft
                                                THEN c.text ELSE @]
    [] c.kind = "toggle" ->
         IF c.live THEN [row EXCEPT !.live = FALSE, !.draft = TRUE]
         ELSE [row EXCEPT !.live = TRUE, !.draft = FALSE]

Refused(c) ==
  /\ c.at = "req"
  /\ \/ c.kind = "save" /\ c.text = Blank
     \/ c.kind = "activate" /\ ~srv[c.svc].draft
     \/ c.kind = "toggle" /\ ~Known(c)
     \/ c.kind = "toggle" /\ ~c.live /\ ~(srv[c.svc].draft /\ srv[c.svc].pool)

(* The server does what it is asked, or not; its answer may be lost.         *)
Serve(c) ==
  /\ c \in calls /\ c.got = None
  /\ \/ /\ ~Refused(c)
        /\ srv' = [srv EXCEPT ![c.svc] = Effect(c)]
        /\ \E got \in {srv'[c.svc], Failed} :
             calls' = (calls \ {c}) \cup {[c EXCEPT !.got = got]}
        /\ had' = had \cup {srv'[c.svc].text}
     \/ /\ calls' = (calls \ {c}) \cup {[c EXCEPT !.got = Failed]}
        /\ UNCHANGED <<srv, had>>
  /\ UNCHANGED <<selected, shown, busy, dialog>>

-----------------------------------------------------------------------------
(* Answers. *)

(* The texts go into the sheet, for whichever service it is open.           *)
Shows(row) ==
  /\ text' = row.text /\ baseline' = row.text
  /\ meta' = row

Answered(c, stage) == c \in calls /\ c.got # None /\ c.got # Failed /\ c.at = stage

LoadEditor(c) ==
  /\ c \in calls /\ c.kind = "load" /\ c.got # None
  /\ IF c.got = Failed THEN UNCHANGED <<shown, selected>>
     ELSE /\ Shows(c.got)
          /\ selected' = IF IsOpen /\ selected.svc = c.svc
                         THEN [selected EXCEPT !.draft = c.got.draft] ELSE selected
  /\ loading' = FALSE
  /\ Ends(c)
  /\ UNCHANGED <<srv, had, saving, toggling, pooling, dialog>>

(* syncEditorCases *)
ToggleAnswer(c) ==
  /\ c.kind = "toggle" /\ Answered(c, "req")
  /\ Shows(c.got)
  /\ selected' = IF IsOpen THEN [selected EXCEPT !.draft = c.got.draft] ELSE None
  /\ GoesOn(c, "list")
  /\ UNCHANGED <<srv, had, busy, dialog>>

(* The other requests show nothing before the list is read again.           *)
RequestAnswer(c) ==
  /\ \/ c.kind \in {"save", "activate"} /\ Answered(c, "req") /\ GoesOn(c, "list")
     \/ c.kind = "materialize" /\ Answered(c, "req") /\ GoesOn(c, "meta")
  /\ UNCHANGED <<srv, had, selected, shown, busy, dialog>>

(* mergeSelectedWithBundle: the row of the sheet after a save or a          *)
(* confirmation.                                                            *)
Merged(row, kind) == [row EXCEPT !.draft = (kind = "save")]

(* applySavedBundle, and the row of the list after a toggle.  When the list *)
(* cannot be read, the handler goes on without it.                          *)
ListAnswer(c) ==
  /\ c \in calls /\ c.at = "list" /\ c.got # None
  /\ selected' =
       IF ~IsOpen THEN None
       ELSE IF c.kind = "toggle"
            THEN IF c.got = Failed THEN selected
                 ELSE [svc |-> c.svc, draft |-> c.got.draft]
            ELSE Merged(selected, c.kind)
  /\ IF c.kind = "toggle" THEN Ends(c) /\ toggling' = FALSE /\ UNCHANGED baseline
     ELSE GoesOn(c, "meta") /\ baseline' = c.text /\ UNCHANGED toggling
  /\ UNCHANGED <<srv, had, text, meta, loading, saving, pooling, dialog>>

Finally(c) ==
  /\ saving' = IF c.kind \in {"save", "activate"} THEN FALSE ELSE saving
  /\ toggling' = IF c.kind = "toggle" THEN FALSE ELSE toggling
  /\ pooling' = IF c.kind = "materialize" THEN FALSE ELSE pooling

(* A request failed: nothing is shown but a message.                        *)
FailAnswer(c) ==
  /\ c \in calls /\ c.got = Failed /\ c.kind # "load" /\ c.at # "list"
  /\ Finally(c)
  /\ Ends(c)
  /\ UNCHANGED <<srv, had, selected, shown, loading, dialog>>

(* The last answer; a save that was asked to closes the sheet.              *)
MetaAnswer(c) ==
  /\ Answered(c, "meta")
  /\ Ends(c)
  /\ IF c.close
     THEN Closed /\ saving' = FALSE
     ELSE meta' = c.got /\ Finally(c) /\ UNCHANGED <<selected, text, baseline, dialog>>
  /\ UNCHANGED <<srv, had, loading>>

Answer(c) == LoadEditor(c) \/ ToggleAnswer(c) \/ RequestAnswer(c)
             \/ ListAnswer(c) \/ FailAnswer(c) \/ MetaAnswer(c)

(* The requests of one kind go on. *)
Proceeds(kind) == \E c \in calls : c.kind = kind /\ (Serve(c) \/ Answer(c))

Next ==
  \/ \E s \in Svc : OpenEdit(s)
  \/ RequestClose
  \/ \E t \in Text : Type(t)
  \/ Cancel \/ Discard \/ Save \/ SaveAndClose
  \/ AskActivate \/ RunActivate
  \/ ToggleCaseApplied
  \/ AskMaterialize \/ MaterializeOneCase
  \/ \E kind \in Kind : Proceeds(kind)

Spec == Init /\ [][Next]_vars

-----------------------------------------------------------------------------
(* Types of the variables; nothing of a sheet that was closed is left open   *)
(* or marked as under way (closePanel).                                      *)
TypeOK ==
  /\ srv \in [Svc -> Server]
  /\ selected \in [svc : Svc, draft : BOOLEAN] \cup {None}
  /\ text \in Text /\ baseline \in Text /\ meta \in Server \cup {None}
  /\ {loading, saving, toggling, pooling} \subseteq BOOLEAN
  /\ dialog \in {"none", "close", "activate", "materialize"}
  /\ calls \subseteq Call
  /\ dialog # "none" \/ toggling \/ pooling => IsOpen
  /\ had \subseteq Text

(* A save and a confirmation of all drafts never run at once, and the flag  *)
(* that keeps the sheet from being closed tells whether one runs (saveDraft, *)
(* runActivate, and every way out of them).                                 *)
OneWriter ==
  Cardinality({c \in calls : c.kind \in {"save", "activate"}}) =
    IF saving THEN 1 ELSE 0

(* A document that the server never held, of this service or of another one  *)
(* that a late load brought into the sheet, does not go away with the sheet  *)
(* unless the user is asked (requestClosePanel, applySavedBundle); and what  *)
(* the sheet takes for unedited is such a document, although the baseline is *)
(* set after the list was awaited.  Nothing is said of an open sheet: the    *)
(* answer of a toggle or of a late load replaces its text unasked, and a     *)
(* save then stores that text for the service the sheet is open for.         *)
NoSilentLoss ==
  /\ IsOpen /\ selected' = None /\ dialog # "close" => text \in had \cup {Blank}
  /\ ~Dirty' => text' \in had' \cup {Blank}
=============================================================================
