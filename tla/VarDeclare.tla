------------------------------ MODULE VarDeclare ------------------------------
(***************************************************************************)
(* The dialog that declares collection variables: the panel on the right   *)
(* chooses where a value comes from, the left shows what it would be and   *)
(* adds the variable.  Generators are built in or shared with everyone;    *)
(* shared ones are made with the AI, edited and deleted here.              *)
(*                                                                         *)
(* The panel hands every choice to the dialog together with its list of    *)
(* generators; the dialog edits its own copy of that list.  An effect asks *)
(* for a preview whenever the generator or the copy changes.  The server   *)
(* answers a preview with a key from what is stored, one without a key     *)
(* from the source it is sent.                                             *)
(***************************************************************************)
EXTENDS Naturals, FiniteSets

CONSTANTS
  Shared,    \* keys of shared generators
  Builtin,   \* generators that are built in, without the Korean name
  Name,      \* the Korean name, of which a part can be chosen
  Parts,     \* the parts of the name; Full is one
  Full, Middle,
  Literal,   \* the choice of a fixed value
  Var,       \* names of variables
  Here,      \* the step whose body is edited
  Users,     \* the steps whose bodies use the variables
  Kinds,     \* what is done besides choosing
  MaxSource, \* the sources of a shared generator
  MaxSteps,  \* requests and panels
  None

VARIABLES
  store,   \* store[g]: the source of a shared generator, or None
  panel,   \* the panel: [mode, part, cat, ai, loading]
  dialog,  \* the dialog: [open, sel, preview, busy, req, saving, deleting]
  maker,   \* the AI form of the panel, or None
  asks,    \* requests without an answer
  decl,    \* decl[v]: where the value of a variable comes from, or None
  drop,    \* the variable whose removal is to be confirmed, or None
  steps    \* requests and panels so far

vars == <<store, panel, dialog, maker, asks, decl, drop, steps>>

NoShared == [g \in Shared |-> None]

(* encodeGeneratorRef: a choice that is no generator is None.              *)
Encode(m, p) == IF m = Literal THEN None ELSE [g |-> m, part |-> IF m = Name THEN p ELSE Full]

(* What a generator gives: the source or the part it comes from.           *)
Value(g, x) == [of |-> g, x |-> x]

(* resolveCollectionVarGenerator: the browser knows the built-in ones, and *)
(* the middle name is empty.                                               *)
Local(r) ==
  IF r.g \in Shared \/ r.part = Middle THEN None ELSE Value(r.g, r.part)

Selection(p) == [mode |-> p.mode, part |-> p.part, cat |-> p.cat, ai |-> p.ai # 0]

Gen(d) == IF d.sel = None THEN None ELSE Encode(d.sel.mode, d.sel.part)
Ai(d) == d.sel # None /\ d.sel.ai
Cat(d) == IF d.sel = None THEN NoShared ELSE d.sel.cat

(* What the server answers to a preview with a key.                        *)
Served(r, cat) ==
  IF r.g \notin Shared THEN Value(r.g, Full)
  ELSE IF store[r.g] = None THEN None ELSE Value(r.g, store[r.g])

(* loadPreviewForKey: a part of the name is resolved here, anything else   *)
(* is asked for.                                                           *)
Asked(d, r) ==
  IF r.g = Name /\ r.part # Full THEN {}
  ELSE {[kind |-> "preview", id |-> d.req + 1, of |-> r, val |-> Served(r, Cat(d)),
         ends |-> FALSE]}

Loading(d, r) ==
  [d EXCEPT !.req = @ + 1,
            !.preview = IF Local(r) = None THEN @ ELSE Local(r),
            !.busy = ~(r.g = Name /\ r.part # Full)]

(* The effect on the generator, the list and the AI form.                  *)
Runs(d, fresh) ==
  /\ d.open /\ ~Ai(d)
  /\ fresh \/ ~dialog.open \/ Gen(d) # Gen(dialog) \/ Ai(d) # Ai(dialog) \/ Cat(d) # Cat(dialog)

Effect(d, fresh, others) ==
  IF ~Runs(d, fresh) THEN dialog' = d /\ asks' = others
  ELSE IF Gen(d) = None THEN dialog' = [d EXCEPT !.preview = None] /\ asks' = others
  ELSE dialog' = Loading(d, Gen(d)) /\ asks' = others \cup Asked(d, Gen(d))

(* The panel hands its choice over when a part of it changes.              *)
Emits(p, d, fresh, others) ==
  LET changed == \/ fresh \/ p.mode # panel.mode \/ p.part # panel.part
                 \/ p.cat # panel.cat \/ p.ai # panel.ai
  IN panel' = p /\ Effect(IF changed THEN [d EXCEPT !.sel = Selection(p)] ELSE d, fresh, others)

ListAsk(then) == [kind |-> "list", inst |-> panel.id, n |-> steps, cat |-> store, then |-> then]

Step == steps < MaxSteps /\ steps' = steps + 1

Closed == [id |-> 0, mode |-> Literal, part |-> Full, cat |-> NoShared, ai |-> 0,
           loading |-> FALSE]

Init ==
  /\ store \in [Shared -> {0, None}]
  /\ panel = Closed
  /\ dialog = [open |-> FALSE, sel |-> None, preview |-> None, busy |-> FALSE, req |-> 0,
               saving |-> FALSE, deleting |-> None]
  /\ maker = None /\ asks = {} /\ steps = 0
  /\ decl = [v \in Var |-> None] /\ drop = None

(* The effect on open: everything is reset, and the panel loads its list.  *)
Open ==
  /\ Step /\ ~dialog.open
  /\ panel' = [Closed EXCEPT !.id = steps + 1, !.loading = TRUE]
  /\ dialog' = [dialog EXCEPT !.open = TRUE, !.sel = None, !.preview = None, !.req = @ + 1]
  /\ asks' = asks \cup {[ListAsk(None) EXCEPT !.inst = steps + 1]}
  /\ UNCHANGED <<store, maker, decl, drop>>

Close ==
  /\ dialog.open
  /\ dialog' = [dialog EXCEPT !.open = FALSE]
  /\ panel' = Closed /\ maker' = None
  /\ UNCHANGED <<store, asks, decl, drop, steps>>

(* The rows of the list: hidden while it loads.                            *)
Rows == {Literal, Name} \cup Builtin \cup {g \in Shared : panel.cat[g] # None}
Listed == dialog.open /\ panel.ai = 0 /\ ~panel.loading

(* selectMode                                                              *)
Chosen(p, m) ==
  [p EXCEPT !.mode = m, !.ai = 0, !.part = IF m = Name THEN Full ELSE @]

Pick(m) ==
  /\ Listed /\ m \in Rows /\ m # panel.mode /\ Step
  /\ Emits(Chosen(panel, m), dialog, FALSE, asks)
  /\ UNCHANGED <<store, maker, decl, drop>>

PickPart(p) ==
  /\ dialog.open /\ panel.ai = 0 /\ panel.mode = Name /\ p # panel.part /\ Step
  /\ Emits([panel EXCEPT !.part = p], dialog, FALSE, asks)
  /\ UNCHANGED <<store, maker, decl, drop>>

NewMaker == [draft |-> None, ignore |-> FALSE, busy |-> FALSE]

ToggleAi ==
  /\ "ai" \in Kinds /\ dialog.open /\ Step
  /\ maker' = IF panel.ai = 0 THEN NewMaker ELSE None
  /\ Emits([panel EXCEPT !.ai = IF @ = 0 THEN steps + 1 ELSE 0], dialog, FALSE, asks)
  /\ UNCHANGED <<store, decl, drop>>

Refresh ==
  /\ dialog.open /\ Gen(dialog) # None /\ ~Ai(dialog) /\ ~dialog.busy /\ Step
  /\ dialog' = Loading(dialog, Gen(dialog))
  /\ asks' = asks \cup Asked(dialog, Gen(dialog))
  /\ UNCHANGED <<store, panel, maker, decl, drop>>

(* The generator shown is a shared one of the list.                        *)
OwnShared ==
  dialog.open /\ Gen(dialog) # None /\ ~Ai(dialog) /\ Gen(dialog).g \in Shared
    /\ Cat(dialog)[Gen(dialog).g] # None

(* A change of the source goes to the copy of the dialog and is previewed  *)
(* at once, by a request that is not numbered.                             *)
EditSource(x) ==
  /\ "source" \in Kinds /\ OwnShared /\ Step
  /\ LET g == Gen(dialog).g
     IN /\ x # Cat(dialog)[g]
        /\ Effect([dialog EXCEPT !.sel.cat[g] = x], FALSE,
                  asks \cup {[kind |-> "edited", n |-> steps, val |-> Value(g, x)]})
  /\ UNCHANGED <<store, panel, maker, decl, drop>>

SaveSource ==
  /\ "source" \in Kinds /\ OwnShared /\ ~dialog.saving /\ Step
  /\ dialog' = [dialog EXCEPT !.saving = TRUE]
  /\ asks' = asks \cup {[kind |-> "save", g |-> Gen(dialog).g, x |-> Cat(dialog)[Gen(dialog).g]]}
  /\ UNCHANGED <<store, panel, maker, decl, drop>>

(* saveSharedSource: the preview of what was saved is asked for before     *)
(* that of what is shown; the button waits for it.                         *)
Saved(a) ==
  /\ a.kind = "save" /\ store[a.g] # None
  /\ store' = [store EXCEPT ![a.g] = a.x]
  /\ LET r == [g |-> a.g, part |-> Full]
         d == [dialog EXCEPT !.req = @ + 1, !.busy = TRUE,
                             !.sel = IF @ = None \/ Cat(dialog)[a.g] = None THEN @
                                     ELSE [@ EXCEPT !.cat[a.g] = a.x]]
     IN Effect(d, dialog.sel # None,
               (asks \ {a}) \cup {[kind |-> "preview", id |-> d.req, of |-> r,
                                   val |-> Value(a.g, a.x), ends |-> TRUE]})
  /\ UNCHANGED <<panel, maker, decl, drop, steps>>

NotSaved(a) ==
  /\ a.kind = "save"
  /\ asks' = asks \ {a} /\ dialog' = [dialog EXCEPT !.saving = FALSE]
  /\ UNCHANGED <<store, panel, maker, decl, drop, steps>>

Previewed(a, ok) ==
  /\ a.kind = "preview" /\ asks' = asks \ {a}
  /\ LET v == IF ok /\ a.val # None THEN a.val ELSE Local(a.of)
         d == IF a.id # dialog.req THEN dialog ELSE [dialog EXCEPT !.preview = v, !.busy = FALSE]
     IN dialog' = [d EXCEPT !.saving = IF a.ends THEN FALSE ELSE @]
  /\ UNCHANGED <<store, panel, maker, decl, drop, steps>>

EditPreviewed(a) ==
  /\ a.kind = "edited" /\ asks' = asks \ {a}
  /\ dialog' = [dialog EXCEPT !.preview = a.val]
  /\ UNCHANGED <<store, panel, maker, decl, drop, steps>>

(* removeSharedGenerator                                                   *)
Remove ==
  /\ "delete" \in Kinds /\ OwnShared /\ dialog.deleting # Gen(dialog).g /\ Step
  /\ dialog' = [dialog EXCEPT !.deleting = Gen(dialog).g]
  /\ asks' = asks \cup {[kind |-> "delete", g |-> Gen(dialog).g]}
  /\ UNCHANGED <<store, panel, maker, decl, drop>>

(* The effect on resetToken: a fixed value, and the list is loaded again.  *)
Reset(d, others) ==
  Emits([panel EXCEPT !.mode = Literal, !.part = Full, !.ai = 0, !.loading = TRUE], d, FALSE,
        others \cup {ListAsk(None)})

Removed(a) ==
  /\ a.kind = "delete"
  /\ store' = [store EXCEPT ![a.g] = None]
  /\ IF dialog.open
     THEN Step /\ Reset([dialog EXCEPT !.preview = None, !.deleting = None], asks \ {a})
     ELSE /\ dialog' = [dialog EXCEPT !.preview = None, !.deleting = None]
          /\ asks' = asks \ {a} /\ UNCHANGED <<panel, steps>>
  /\ maker' = None /\ UNCHANGED <<decl, drop>>

NotRemoved(a) ==
  /\ a.kind = "delete" /\ asks' = asks \ {a} /\ dialog' = [dialog EXCEPT !.deleting = None]
  /\ UNCHANGED <<store, panel, maker, decl, drop, steps>>

(* submit: the generator of the dialog, or the value that was typed.       *)
Submit(v) ==
  /\ dialog.open /\ ~Ai(dialog) /\ Step
  /\ decl' = [decl EXCEPT ![v] = IF Gen(dialog) = None THEN Literal ELSE Gen(dialog)]
  /\ Reset(dialog, asks)
  /\ maker' = None /\ UNCHANGED <<store, drop>>

(* requestRemove: a removal is confirmed, with a warning when the body that *)
(* is edited uses the variable.                                            *)
RequestRemove(v) ==
  /\ "drop" \in Kinds /\ dialog.open /\ decl[v] # None
  /\ drop' = [v |-> v, warned |-> Here \in Users]
  /\ UNCHANGED <<store, panel, dialog, maker, asks, decl, steps>>

ConfirmRemove(yes) ==
  /\ drop # None /\ drop' = None
  /\ decl' = IF yes THEN [decl EXCEPT ![drop.v] = None] ELSE decl
  /\ UNCHANGED <<store, panel, dialog, maker, asks, steps>>

-----------------------------------------------------------------------------
(* The list arrives, also when it was asked for before a later one; a list *)
(* that fails is the built-in one.                                         *)
Listing(a, ok) ==
  /\ a.kind = "list"
  /\ LET p == [panel EXCEPT !.cat = IF ok THEN a.cat ELSE NoShared, !.loading = FALSE]
     IN IF panel.id # a.inst THEN asks' = asks \ {a} /\ UNCHANGED <<panel, dialog, maker>>
        ELSE /\ Emits(IF a.then = None THEN p ELSE Chosen(p, a.then), dialog, TRUE, asks \ {a})
             /\ maker' = IF a.then = None THEN maker ELSE None
  /\ UNCHANGED <<store, decl, drop, steps>>

Shows == maker.draft # None /\ maker.draft.rec # None /\ ~maker.ignore
ShowsNew == maker.draft # None /\ maker.draft.new # None /\ (maker.ignore \/ maker.draft.rec = None)

Making(kind, g) ==
  /\ maker # None /\ ~maker.busy /\ Step
  /\ maker' = [maker EXCEPT !.busy = TRUE, !.ignore = @ /\ kind # "draft"]
  /\ asks' = asks \cup {[kind |-> kind, inst |-> panel.ai, pane |-> panel.id, g |-> g]}
  /\ UNCHANGED <<store, panel, dialog, decl, drop>>

(* runAiDraft; startCreateNewInstead without a draft; saveAiDraft          *)
Draft == Making("draft", None)
CreateNew ==
  \/ maker # None /\ Shows /\ maker.draft.new = None /\ Making("new", None)
  \/ /\ maker # None /\ Shows /\ maker.draft.new # None /\ ~maker.busy
     /\ maker' = [maker EXCEPT !.ignore = TRUE]
     /\ UNCHANGED <<store, panel, dialog, asks, decl, drop, steps>>
SaveDraft == maker # None /\ ShowsNew /\ Making("create", maker.draft.new)

UseExisting ==
  /\ maker # None /\ Shows /\ Step
  /\ Emits(Chosen(panel, maker.draft.rec), dialog, FALSE, asks) /\ maker' = None
  /\ UNCHANGED <<store, decl, drop>>

(* A draft recommends a generator there is, or makes a new one, or both.   *)
Drafted(a, rec, new) ==
  /\ a.kind \in {"draft", "new"} /\ asks' = asks \ {a}
  /\ rec # None => rec \in Shared /\ store[rec] # None
  /\ new # None => store[new] = None
  /\ maker' = IF panel.ai # a.inst THEN maker
              ELSE [draft |-> [rec |-> rec, new |-> new], ignore |-> a.kind = "new",
                    busy |-> FALSE]
  /\ UNCHANGED <<store, panel, dialog, decl, drop, steps>>

(* onSaved loads the list and then chooses what was saved, whatever the    *)
(* panel has come to meanwhile.                                            *)
Created(a) ==
  /\ a.kind = "create" /\ store[a.g] = None
  /\ store' = [store EXCEPT ![a.g] = 0]
  /\ maker' = IF panel.ai = a.inst THEN NewMaker ELSE maker
  /\ panel' = IF panel.id = a.pane THEN [panel EXCEPT !.loading = TRUE] ELSE panel
  /\ Step /\ asks' = (asks \ {a}) \cup {[ListAsk(a.g) EXCEPT !.inst = a.pane, !.cat = store']}
  /\ UNCHANGED <<dialog, decl, drop>>

NotMade(a) ==
  /\ a.kind \in {"draft", "new", "create"} /\ asks' = asks \ {a}
  /\ maker' = IF panel.ai # a.inst THEN maker
              ELSE IF a.kind = "draft" THEN NewMaker ELSE [maker EXCEPT !.busy = FALSE]
  /\ UNCHANGED <<store, panel, dialog, decl, drop, steps>>

Answer(a) ==
  \/ Saved(a) \/ NotSaved(a) \/ EditPreviewed(a) \/ Removed(a) \/ NotRemoved(a)
  \/ Created(a) \/ NotMade(a)
  \/ \E ok \in BOOLEAN : Previewed(a, ok) \/ Listing(a, ok)
  \/ \E rec, new \in Shared \cup {None} : Drafted(a, rec, new)

Answered == \E a \in asks : Answer(a)
(* The requests of one kind are answered. *)
Proceeds(kind) == \E a \in asks : a.kind = kind /\ Answer(a)

(* The confirmation is modal.                                              *)
User ==
  /\ drop = None
  /\ \/ Open \/ Close \/ ToggleAi \/ Refresh \/ SaveSource \/ Remove
     \/ \E m \in {Literal, Name} \cup Builtin \cup Shared : Pick(m)
     \/ \E p \in Parts : PickPart(p)
     \/ \E x \in 0..MaxSource : EditSource(x)
     \/ \E v \in Var : Submit(v) \/ RequestRemove(v)
     \/ Draft \/ CreateNew \/ SaveDraft \/ UseExisting

Next == User \/ (\E yes \in BOOLEAN : ConfirmRemove(yes)) \/ Answered

Spec == Init /\ [][Next]_vars

-----------------------------------------------------------------------------
Shown == dialog.open /\ Gen(dialog) # None /\ ~Ai(dialog)

TypeOK ==
  /\ store \in [Shared -> 0..MaxSource \cup {None}]
  /\ panel.mode \in {Literal, Name} \cup Builtin \cup Shared /\ panel.part \in Parts \cup {Full}
  /\ (maker # None) = (panel.ai # 0)
  /\ Shown /\ dialog.busy => \E a \in asks : a.kind = "preview" /\ a.id = dialog.req

(* What a variable is added with is what the panel shows as chosen.        *)
AddedIsChosen ==
  dialog.open => Gen(dialog) = Encode(panel.mode, panel.part) /\ Ai(dialog) = (panel.ai # 0)

(* Once nothing is being fetched, the preview is one of the generator that *)
(* is chosen, from the source that is shown, or there is none.             *)
PreviewOfChosen ==
  Shown /\ ~dialog.busy =>
    \/ dialog.preview = None
    \/ LET r == Gen(dialog)
       IN dialog.preview \in {Local(r)} \cup
            (IF r.g \notin Shared THEN {Value(r.g, Full)}
             ELSE {Value(r.g, x) : x \in 0..MaxSource \cap {Cat(dialog)[r.g], store[r.g]}})

(* A part of the name is what the browser makes of it.                     *)
NamePartIsLocal ==
  Shown /\ Gen(dialog).g = Name /\ Gen(dialog).part # Full => dialog.preview = Local(Gen(dialog))
=============================================================================
