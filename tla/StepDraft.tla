------------------------------- MODULE StepDraft -------------------------------
(***************************************************************************)
(* The Input tab of a step: the request body as text, kept as a draft, put *)
(* into the bindings of the step a quarter of a second after the last key, *)
(* or when the scenario is saved.                                          *)
(*                                                                         *)
(* A body is a function from some of the fields to values: a value of its  *)
(* own, or a variable.  What differs from the body of the testcase becomes *)
(* an override or an inject; the text shows the body with both applied.    *)
(***************************************************************************)
EXTENDS Naturals, FiniteSets, Functions

CONSTANTS
  Step,     \* steps of the scenario
  First,    \* the first of them
  Own,      \* the steps whose pick carries its body; others wait for a preview
  Field,    \* fields of a request
  Given,    \* the value a field has in the testcase
  Fixed,    \* values that are typed
  Token,    \* variables that are typed, as {{name}}
  Cut,      \* a text that is not complete
  Wrong,    \* a complete text that is not a JSON object
  None

VARIABLES
  page,   \* scenarioWizardStep
  sel,    \* the step of the panel
  bind,   \* bind[s]: overrides and injects of a step
  known,  \* the steps whose body is known
  draft,  \* jsonDraft
  dirty,  \* jsonDirty
  error,  \* jsonError
  timer,  \* whether an automatic apply is scheduled
  snap,   \* revertSnapshotRef, or None
  focus,  \* whether the text has the focus
  saved,  \* the bindings that were saved last, or None
  typed   \* typed[s]: the last body that was typed for a step, or None

text  == <<draft, dirty, error, timer, snap, focus>>
vars  == <<page, sel, bind, known, text, saved, typed>>

Value == {Given} \cup Fixed \cup Token
Body == UNION {[fields -> Value] : fields \in SUBSET Field}
Cfg == [ovr : UNION {[fields -> Value] : fields \in SUBSET Field},
        inj : UNION {[fields -> Token] : fields \in SUBSET Field}]
Empty == [ovr |-> [f \in {} |-> Given], inj |-> [f \in {} |-> Given]]

(* Every field of the second body, and the others of the first.            *)
Over(t, d) == [f \in DOMAIN t \cup DOMAIN d |-> IF f \in DOMAIN d THEN d[f] ELSE t[f]]

BodyOf(s, of) == [f \in (IF s \in of THEN Field ELSE {}) |-> Given]
SampleOf(s) == BodyOf(s, known)

(* bodyForPostmanEditor: overrides first, then injects.                    *)
EditorBody(t, cfg) == Over(Over(t, cfg.ovr), cfg.inj)

(* parsePostmanBody: what differs from the testcase.                       *)
ParseBody(t, d) ==
  [ovr |-> Restrict(d, {f \in DOMAIN d : d[f] \notin Token /\ (f \in DOMAIN t => d[f] # t[f])}),
   inj |-> Restrict(d, {f \in DOMAIN d : d[f] \in Token})]

Mounted == page = 2

Fresh(s, b, t) ==
  /\ draft' = EditorBody(t, b) /\ dirty' = FALSE /\ error' = FALSE
  /\ timer' = FALSE /\ snap' = None /\ focus' = FALSE

(* The text follows the body unless it is being worked on.                 *)
Synced(cfg, t, focused) == IF focused THEN draft ELSE EditorBody(t, cfg)

-----------------------------------------------------------------------------
Init ==
  /\ page = 2 /\ sel = First /\ known = Own
  /\ bind = [s \in Step |-> Empty]
  /\ draft = EditorBody(SampleOf(sel), Empty) /\ dirty = FALSE /\ error = FALSE
  /\ timer = FALSE /\ snap = None /\ focus = FALSE
  /\ saved = None /\ typed = [s \in Step |-> None]

(* updateDraft: a key, or a variable put in at the cursor.                 *)
Type(d) ==
  /\ Mounted /\ d # draft
  /\ snap' = IF snap = None THEN bind[sel] ELSE snap
  /\ draft' = d /\ dirty' = TRUE /\ error' = FALSE /\ timer' = TRUE /\ focus' = TRUE
  /\ typed' = [typed EXCEPT ![sel] = IF d \in {Cut, Wrong} THEN @ ELSE d]
  /\ UNCHANGED <<page, sel, bind, known, saved>>

Blur ==
  /\ Mounted /\ focus /\ focus' = FALSE
  /\ UNCHANGED <<page, sel, bind, known, draft, dirty, error, timer, snap, saved, typed>>

(* commitDraft                                                             *)
Commits(cfg, focused) ==
  /\ bind' = [bind EXCEPT ![sel] = cfg]
  /\ dirty' = FALSE /\ error' = FALSE
  /\ draft' = Synced(cfg, SampleOf(sel), focused)

(* scheduleAutoApply: a text that is not complete is left alone.           *)
AutoApply ==
  /\ Mounted /\ timer /\ timer' = FALSE
  /\ IF draft \in {Cut, Wrong}
     THEN error' = (error \/ draft = Wrong) /\ UNCHANGED <<bind, draft, dirty>>
     ELSE Commits(ParseBody(SampleOf(sel), draft), focus)
  /\ UNCHANGED <<page, sel, known, snap, focus, saved, typed>>

(* Back to the bindings the step had before the first key.                 *)
Revert ==
  /\ Mounted /\ snap # None
  /\ bind' = [bind EXCEPT ![sel] = snap] /\ Fresh(sel, snap, SampleOf(sel))
  /\ typed' = [typed EXCEPT ![sel] = None]
  /\ UNCHANGED <<page, sel, known, saved>>

(* Leaves the timer of the text running for the next step.                 *)
MutSelectStep(s) ==
  /\ Mounted /\ s # sel /\ sel' = s
  /\ draft' = EditorBody(SampleOf(s), bind[s]) /\ dirty' = FALSE /\ error' = FALSE
  /\ snap' = None /\ focus' = FALSE
  /\ UNCHANGED <<page, bind, known, timer, saved, typed>>

(* Another step: the timer is cleared and the draft given up.              *)
SelectStep(s) ==
  /\ Mounted /\ s # sel /\ sel' = s
  /\ Fresh(s, bind[s], SampleOf(s))
  /\ UNCHANGED <<page, bind, known, saved, typed>>

(* The panel is unmounted on the other pages, and mounted anew with the    *)
(* first step and without a preview.                                       *)
NextPage ==
  /\ page = 2 /\ page' = 3
  /\ sel' = First /\ known' = Own
  /\ Fresh(First, bind[First], BodyOf(First, Own))
  /\ UNCHANGED <<bind, saved, typed>>

PreviousPage ==
  /\ page = 3 /\ page' = 2
  /\ UNCHANGED <<sel, bind, known, text, saved, typed>>

(* The preview of the run tells the body of a testcase.                    *)
PreviewAnswer(s) ==
  /\ Mounted /\ s \notin known /\ known' = known \cup {s}
  /\ draft' = IF s # sel \/ dirty THEN draft
              ELSE Synced(bind[sel], BodyOf(sel, known'), focus)
  /\ error' = (error /\ (s # sel \/ dirty))
  /\ UNCHANGED <<page, sel, bind, dirty, timer, snap, focus, saved, typed>>

(* All links are cleared from the footer of the wizard.                    *)
ClearLinks ==
  /\ Mounted /\ (\E s \in Step : DOMAIN bind[s].inj # {})
  /\ bind' = [s \in Step |-> [bind[s] EXCEPT !.inj = Empty.inj]]
  /\ focus' = FALSE
  /\ draft' = IF dirty THEN draft ELSE Synced(bind'[sel], SampleOf(sel), FALSE)
  /\ typed' = [s \in Step |-> None]
  /\ UNCHANGED <<page, sel, known, dirty, error, timer, snap, saved>>

(* Saves what is bound and applies the draft after it.                     *)
MutSave ==
  /\ page \in {2, 3} /\ timer' = FALSE /\ focus' = FALSE
  /\ saved' = bind
  /\ IF dirty /\ draft \notin {Cut, Wrong}
     THEN Commits(ParseBody(SampleOf(sel), draft), FALSE)
     ELSE UNCHANGED <<bind, draft, dirty, error>>
  /\ UNCHANGED <<page, sel, known, snap, typed>>

(* persistWizard: the draft goes first; a text that cannot be read keeps   *)
(* the wizard from saving.  The buttons take the focus.                    *)
Save ==
  /\ page \in {2, 3} /\ timer' = FALSE /\ focus' = FALSE
  /\ CASE dirty /\ draft \in {Cut, Wrong} -> error' = TRUE /\ UNCHANGED <<bind, draft, dirty, saved>>
       [] dirty /\ draft \notin {Cut, Wrong} -> Commits(ParseBody(SampleOf(sel), draft), FALSE) /\ saved' = bind'
       [] ~dirty -> saved' = bind /\ UNCHANGED <<bind, draft, dirty, error>>
  /\ UNCHANGED <<page, sel, known, snap, typed>>

Next ==
  \/ \E d \in Body \cup {Cut, Wrong} : Type(d)
  \/ Blur \/ AutoApply \/ Revert \/ ClearLinks \/ NextPage \/ PreviousPage \/ Save
  \/ \E s \in Step : SelectStep(s) \/ PreviewAnswer(s)

Spec == Init /\ [][Next]_vars

-----------------------------------------------------------------------------
(* Types of the variables. *)
TypeOK ==
  /\ page \in {2, 3} /\ sel \in Step /\ known \subseteq Step /\ Own \subseteq known
  /\ bind \in [Step -> Cfg] /\ snap \in Cfg \cup {None}
  /\ draft \in Body \cup {Cut, Wrong} /\ typed \in [Step -> Body \cup {None}]
  /\ dirty \in BOOLEAN /\ error \in BOOLEAN /\ focus \in BOOLEAN /\ timer \in BOOLEAN
  /\ timer => dirty
  /\ draft \in {Cut, Wrong} => dirty
  /\ dirty => snap # None /\ Mounted

(* What is saved from the page is what its text says, whatever was applied *)
(* before, cleared, or became known about the testcase in between: the     *)
(* fields that stand there, and the others as in the testcase.             *)
SavesShown ==
  Save /\ page = 2 /\ ~dirty'
     => EditorBody(SampleOf(sel), saved'[sel]) = Over(SampleOf(sel), draft)

(* A text that is applied by itself shows again what was typed: overrides  *)
(* and injects of a field never stand in the way of one another.           *)
AppliesTyped ==
  AutoApply /\ ~dirty'
     => EditorBody(SampleOf(sel), bind'[sel]) = Over(SampleOf(sel), draft)

(* Nor is the text left as typed although nothing will apply it.           *)
NothingWaits == dirty /\ draft \notin {Cut, Wrong} => timer
=============================================================================
