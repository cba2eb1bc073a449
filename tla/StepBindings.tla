----------------------------- MODULE StepBindings -----------------------------
(***************************************************************************)
(* The second page of the wizard of a scenario: the variables that carry a *)
(* field of the answer of one step into the request of a later one.        *)
(*                                                                         *)
(* A step has extracts (variable, path in the answer), injects (variable,  *)
(* path in the request) and overrides (fixed values in the request).  The  *)
(* bindings are keyed by pick; which extract an inject reads is decided by *)
(* the order of the steps: a start variable of the name, or else the       *)
(* nearest earlier step with an extract of the name.                       *)
(***************************************************************************)
EXTENDS Naturals, FiniteSets, Sequences, SequencesExt

CONSTANTS
  Pick,      \* picks, as <<code of the service, number>>
  Leaf,      \* names of fields
  Twins,     \* paths per leaf in an answer
  Req,       \* paths in a request
  StartName, \* names a start variable may have
  Uses,      \* kinds of operations
  MaxSteps,  \* bound on the steps of a scenario
  None, Template, Literal

VARIABLES
  steps,  \* wizardRunSteps: the picks in order
  bind,   \* stepBindingsByStepKey
  starts, \* names of the start variables
  page,   \* scenarioWizardStep, 1 or 2; 0 while the sheet is closed
  sel,    \* selectedStepIndex
  tab,    \* "input" or "output"
  links,  \* lastLinks
  source, \* the steps lastLinks were asked for
  call    \* the steps the suggestion under way was asked for, or None

vars == <<steps, bind, starts, page, sel, tab, links, source, call>>

Resp == Leaf \X (1..Twins)
Plain(l) == <<l, "", 0>>
Candidate(l, i, c) ==
  << <<l, "_TC", i>>, <<l, "TC_", i>>, <<l, "Step", i>>, <<l, "svc", c>>,
     <<l, "from", 0>>, <<l, "to", 0>>, <<l, "_", i>>, <<l, "src", 0>> >>
Name == {Plain(l) : l \in Leaf} \cup StartName
          \cup UNION {ToSet(Candidate(l, i, p[1])) : l \in Leaf, i \in 1..MaxSteps, p \in Pick}
Extract == [var : Name, path : Resp]
Inject  == [var : Name, path : Req]
Link == {k \in [from : 1..MaxSteps, to : 1..MaxSteps, resp : Resp, req : Req] : k.from < k.to}
Empty == [ext |-> <<>>, inj |-> <<>>, ovr |-> {}]
Orders == {s \in UNION {[1..n -> Pick] : n \in 1..MaxSteps} : IsInjective(s)}

Code(p) == p[1]
VarsOf(rows) == {r.var : r \in ToSet(rows)}
RowOf(rows, v) == rows[CHOOSE k \in DOMAIN rows : rows[k].var = v /\ \A j \in 1..(k - 1) : rows[j].var # v]
Without(rows, p) == SelectSeq(rows, LAMBDA r : r.path # p)

(* One row per variable name: a row with the name is replaced where it is. *)
UpsertRow(rows, v, p) ==
  IF v \in VarsOf(rows)
  THEN [k \in DOMAIN rows |-> IF rows[k] = RowOf(rows, v) THEN [var |-> v, path |-> p] ELSE rows[k]]
  ELSE Append(rows, [var |-> v, path |-> p])

SetExtract(b, p, path, v) == [b EXCEPT ![p].ext = UpsertRow(Without(@, path), v, path)]
RemoveByPath(b, p, path) == [b EXCEPT ![p].ext = Without(@, path)]

(* The bindings of the steps there are; new ones are empty.                *)
Ensure(s, b) == [p \in Pick |-> IF p \in ToSet(s) THEN b[p] ELSE Empty]

(* Bindings saved for services, before they were saved for picks.          *)
Migrate(s, legacy) == [p \in Pick |-> IF p \in ToSet(s) THEN legacy[Code(p)] ELSE Empty]

-----------------------------------------------------------------------------
(* Where an inject reads from. *)

Source(s, b, v, i) ==
  LET with == {j \in 1..(i - 1) : v \in VarsOf(b[s[j]].ext)} IN
  IF with = {} THEN 0 ELSE CHOOSE j \in with : \A k \in with : k <= j

Resolvable(s, b, st, v, i) == v \in st \/ Source(s, b, v, i) # 0

(* The lines of the canvas: an inject with the step and path it shows.     *)
Edges(s, b, st) ==
  UNION {{[from |-> IF r.var \in st THEN "start" ELSE IF Source(s, b, r.var, i) = 0 THEN "?" ELSE "step",
           step |-> IF r.var \in st \/ Source(s, b, r.var, i) = 0 THEN None ELSE s[Source(s, b, r.var, i)],
           resp |-> IF r.var \in st \/ Source(s, b, r.var, i) = 0 THEN None
                    ELSE RowOf(b[s[Source(s, b, r.var, i)]].ext, r.var).path,
           to |-> s[i], req |-> r.path] : r \in ToSet(b[s[i]].inj)} : i \in DOMAIN s}

StepEdges(s, b, st) == {e \in Edges(s, b, st) : e.from = "step"}

(* The variables a step offers: start variables and earlier extracts.      *)
Available(s, b, st, i) == st \cup UNION {VarsOf(b[s[j]].ext) : j \in 1..(i - 1)}

(* What a run gives an inject: the start variables, overwritten by every   *)
(* extract of the steps before, in order.                                  *)
RunGives(s, b, st, v, i) ==
  FoldLeft(LAMBDA got, j : FoldLeft(LAMBDA g, r : IF r.var = v THEN <<s[j], r.path>> ELSE g, got, b[s[j]].ext),
           IF v \in st THEN <<"start">> ELSE <<>>, [j \in 1..(i - 1) |-> j])

-----------------------------------------------------------------------------
(* Names of extracts: leaf_TCn at the n-th step, or an alternative that is *)
(* not taken by another extract.                                           *)

Taken(s, b, i, path) ==
  UNION {VarsOf(IF j = i THEN Without(b[s[j]].ext, path) ELSE b[s[j]].ext) : j \in DOMAIN s}

Allocate(s, b, i, path) ==
  LET free == SelectSeq(Candidate(path[1], i, Code(s[i])), LAMBDA v : v \notin Taken(s, b, i, path)) IN Head(free)

(* The injects that read the extract are renamed with it.                  *)
Rename(s, b, i, path, v) ==
  LET old  == SelectSeq(b[s[i]].ext, LAMBDA r : r.path = path)[1].var
      set  == SetExtract(b, s[i], path, v)
      follows(p) == \E k \in (i + 1)..Len(s) : s[k] = p /\ Source(s, b, old, k) = i
  IN [p \in Pick |->
        IF old # v /\ follows(p)
        THEN [set[p] EXCEPT !.inj = [n \in DOMAIN @ |-> IF @[n].var = old THEN [@[n] EXCEPT !.var = v] ELSE @[n]]]
        ELSE set[p]]

(* One pass of the effect of the Output panel over the extracts of a step. *)
Pass(s, b, i) ==
  FoldLeft(LAMBDA n, r : LET v == Allocate(s, n, i, r.path)
                         IN IF v = r.var THEN n ELSE Rename(s, n, i, r.path, v), b, b[s[i]].ext)

(* The effect runs again while it changes the extracts.                    *)
RECURSIVE Settled(_, _, _)
Settled(s, b, i) == LET n == Pass(s, b, i) IN IF n = b THEN b ELSE Settled(s, n, i)

OutputShown == page = 2 /\ steps # <<>> /\ tab = "output"

(* The effect follows a change of the extracts of the selected step.       *)
Changes(b) == bind' = IF OutputShown /\ b[steps[sel]].ext # bind[steps[sel]].ext
                      THEN Settled(steps, b, sel) ELSE b

-----------------------------------------------------------------------------
Init ==
  /\ steps = <<>> /\ bind = [p \in Pick |-> Empty] /\ starts = {}
  /\ page = 0 /\ sel = 1 /\ tab = "input"
  /\ links = <<>> /\ source = <<>> /\ call = None

(* startEdit: bindings by pick, or by service from the time before.        *)
OpenLegacy(s, c) ==
  /\ "legacy" \in Uses /\ page = 0
  /\ steps' = s /\ page' = 1
  /\ \E path \in Resp :
       bind' = Migrate(s, [k \in {Code(p) : p \in Pick} |->
                   IF k = c THEN [Empty EXCEPT !.ext = <<[var |-> Plain(path[1]), path |-> path]>>] ELSE Empty])
  /\ starts' \in SUBSET StartName
  /\ UNCHANGED <<sel, tab, links, source, call>>

OpenScenario(s) ==
  /\ page = 0
  /\ steps' = s /\ page' = 1
  /\ bind' = [p \in Pick |-> Empty]
  /\ starts' \in SUBSET StartName
  /\ UNCHANGED <<sel, tab, links, source, call>>

CloseSheet ==
  /\ page # 0 /\ "close" \in Uses
  /\ page' = 0 /\ steps' = <<>> /\ bind' = [p \in Pick |-> Empty] /\ starts' = {}
  /\ UNCHANGED <<sel, tab, links, source, call>>

(* Page 1: picks are added, removed and moved.                             *)
Arrange(s) ==
  /\ page = 1 /\ "arrange" \in Uses /\ s # steps
  /\ steps' = s /\ bind' = Ensure(s, bind)
  /\ UNCHANGED <<starts, page, sel, tab, links, source, call>>

(* Page 2 is mounted with the first step and the Input tab.                *)
NextPage ==
  /\ page = 1 /\ page' = 2 /\ sel' = 1 /\ tab' = "input"
  /\ UNCHANGED <<steps, bind, starts, links, source, call>>

PreviousPage ==
  /\ page = 2 /\ "arrange" \in Uses /\ page' = 1
  /\ UNCHANGED <<steps, bind, starts, sel, tab, links, source, call>>

(* A step, or the target of an edge: the panel goes back to Input, but the *)
(* Output panel is rendered with the new step once, and its effect runs.   *)
SelectStep(j) ==
  /\ page = 2 /\ j # sel
  /\ sel' = j /\ tab' = "input"
  /\ bind' = IF tab = "output" THEN Pass(steps, bind, j) ELSE bind
  /\ UNCHANGED <<steps, starts, page, links, source, call>>

OpenOutput ==
  /\ page = 2 /\ tab = "input"
  /\ tab' = "output" /\ bind' = Settled(steps, bind, sel)
  /\ UNCHANGED <<steps, starts, page, sel, links, source, call>>

OpenInput ==
  /\ page = 2 /\ tab = "output" /\ tab' = "input"
  /\ UNCHANGED <<steps, bind, starts, page, sel, links, source, call>>

(* A chip of an answer field: a variable for it, or none any more.         *)
AddExtract(path) ==
  /\ OutputShown /\ "extract" \in Uses
  /\ \A r \in ToSet(bind[steps[sel]].ext) : r.path # path
  /\ Changes(SetExtract(bind, steps[sel], path, Allocate(steps, bind, sel, path)))
  /\ UNCHANGED <<steps, starts, page, sel, tab, links, source, call>>

RemoveExtract(path) ==
  /\ OutputShown /\ "remove" \in Uses
  /\ \E r \in ToSet(bind[steps[sel]].ext) : r.path = path
  /\ Changes(RemoveByPath(bind, steps[sel], path))
  /\ UNCHANGED <<steps, starts, page, sel, tab, links, source, call>>

(* A field of the request body is given a variable, a value, or the value  *)
(* of the testcase again; the body is read back whole.                     *)
SetField(q, v) ==
  /\ page = 2 /\ tab = "input" /\ "body" \in Uses
  /\ v \in {Template, Literal} \/ v \in Available(steps, bind, starts, sel)
  /\ LET p    == steps[sel]
         last(x) == LET of == SelectSeq(bind[p].inj, LAMBDA r : r.path = x) IN of[Len(of)]
         kept == {last(r.path) : r \in ToSet(Without(bind[p].inj, q))}
         injs == IF v \in {Template, Literal} THEN kept ELSE kept \cup {[var |-> v, path |-> q]}
     IN bind' = [bind EXCEPT ![p].inj = SetToSeq(injs),
                             ![p].ovr = (IF v = Literal THEN @ \cup {q} ELSE @ \ {q}) \ {r.path : r \in injs}]
  /\ UNCHANGED <<steps, starts, page, sel, tab, links, source, call>>

(* Start variables: the dialog drops the injects without a source, the     *)
(* panel does not.                                                         *)
Prune(s, b, st) ==
  [p \in Pick |-> IF p \notin ToSet(s) THEN b[p] ELSE
     LET i == CHOOSE k \in DOMAIN s : s[k] = p
     IN [b[p] EXCEPT !.inj = SelectSeq(@, LAMBDA r : Resolvable(s, b, st, r.var, i))]]

ChangeVars(st) ==
  /\ page = 2 /\ "vars" \in Uses /\ st # starts
  /\ starts' = st /\ bind' = Prune(steps, bind, st)
  /\ UNCHANGED <<steps, page, sel, tab, links, source, call>>

PanelVars(st) ==
  /\ page = 2 /\ tab = "input" /\ "panel" \in Uses
  /\ Cardinality((st \ starts) \cup (starts \ st)) = 1
  /\ starts' = st
  /\ UNCHANGED <<steps, bind, page, sel, tab, links, source, call>>

ClearAll ==
  /\ page = 2 /\ "clear" \in Uses
  /\ \E i \in DOMAIN steps : bind[steps[i]].ext # <<>> \/ bind[steps[i]].inj # <<>>
  /\ bind' = [p \in Pick |-> IF p \in ToSet(steps) THEN [Empty EXCEPT !.ovr = bind[p].ovr] ELSE bind[p]]
  /\ UNCHANGED <<steps, starts, page, sel, tab, links, source, call>>

-----------------------------------------------------------------------------
(* Suggestions: links between positions of the steps they were asked for.  *)

Fetch ==
  /\ page = 2 /\ "fetch" \in Uses /\ Len(steps) >= 2 /\ call = None
  /\ call' = steps
  /\ UNCHANGED <<steps, bind, starts, page, sel, tab, links, source>>

(* The finally of the request: nothing is loading any more.                *)
Loaded == call' = None

Suggested(got) ==
  /\ call # None
  /\ \A k \in ToSet(got) : k.to <= Len(call)
  /\ links' = got /\ source' = call /\ Loaded
  /\ UNCHANGED <<steps, bind, starts, page, sel, tab>>

Failed ==
  /\ call # None
  /\ links' = <<>> /\ source' = <<>> /\ Loaded
  /\ UNCHANGED <<steps, bind, starts, page, sel, tab>>

(* bindingsFromSuggestionLinks                                             *)
FromLinks(s, chosen, b) ==
  FoldLeft(LAMBDA n, k :
    IF k.to > Len(s) THEN n
    ELSE LET v == Plain(k.resp[1])
             e == [n EXCEPT ![s[k.from]].ext = UpsertRow(@, v, k.resp)]
         IN [e EXCEPT ![s[k.to]].inj = UpsertRow(@, v, k.req)], b, chosen)

ApplyAll ==
  /\ page = 2 /\ "all" \in Uses /\ call = None /\ links # <<>> /\ Len(steps) >= 2
  /\ Changes(FromLinks(steps, links, [p \in Pick |-> Empty]))
  /\ UNCHANGED <<steps, starts, page, sel, tab, links, source, call>>

ApplySelected(chosen) ==
  /\ page = 2 /\ "selected" \in Uses /\ call = None /\ chosen # <<>> /\ Len(steps) >= 2
  /\ Changes(FromLinks(steps, chosen, Ensure(steps, bind)))
  /\ UNCHANGED <<steps, starts, page, sel, tab, links, source, call>>

Selections == {SelectSeq(links, LAMBDA k : k \in set) : set \in SUBSET ToSet(links)}

-----------------------------------------------------------------------------
Answers == UNION {[1..n -> Link] : n \in 1..2}

(* The suggestions arrive, or fail. *)
Proceeds == Failed \/ \E got \in Answers : Suggested(got)

Next ==
  \/ \E s \in Orders : OpenScenario(s) \/ Arrange(s) \/ (\E c \in {Code(p) : p \in Pick} : OpenLegacy(s, c))
  \/ CloseSheet \/ NextPage \/ PreviousPage
  \/ OpenOutput \/ OpenInput \/ (\E j \in DOMAIN steps : SelectStep(j))
  \/ \E path \in Resp : AddExtract(path) \/ RemoveExtract(path)
  \/ \E q \in Req, v \in Name \cup {Template, Literal} : SetField(q, v)
  \/ \E st \in SUBSET StartName : ChangeVars(st) \/ PanelVars(st)
  \/ ClearAll
  \/ Fetch \/ Proceeds
  \/ ApplyAll \/ (\E chosen \in Selections : ApplySelected(chosen))

Spec == Init /\ [][Next]_vars

-----------------------------------------------------------------------------
(* Types of the variables. *)
TypeOK ==
  /\ steps \in Orders \cup {<<>>} /\ starts \subseteq StartName
  /\ page \in 0..2 /\ sel \in 1..MaxSteps /\ tab \in {"input", "output"}
  /\ bind \in [Pick -> [ext : Seq(Extract), inj : Seq(Inject), ovr : SUBSET Req]]
  /\ links \in Seq(Link) /\ source \in Orders \cup {<<>>}
  /\ call \in Orders \cup {None}
  /\ page = 2 => sel \in DOMAIN steps

(* However the steps are moved, and whichever fields become variables at   *)
(* which step: no two extracts of the scenario have one name, so no step   *)
(* overwrites the variable of another while the scenario runs.             *)
NamesDiffer ==
  \A i, j \in DOMAIN steps : \A r \in ToSet(bind[steps[i]].ext), t \in ToSet(bind[steps[j]].ext) :
    r.var = t.var => i = j /\ r = t

(* The canvas shows for every inject the value a run gives it, whatever    *)
(* order the steps are brought into and whatever names they carry.         *)
ShownIsGiven ==
  \A i \in DOMAIN steps : \A r \in ToSet(bind[steps[i]].inj) :
    LET from == Source(steps, bind, r.var, i)
        shown == IF r.var \in starts THEN <<"start">> ELSE IF from = 0 THEN <<>>
                 ELSE <<steps[from], RowOf(bind[steps[from]].ext, r.var).path>>
    IN shown = RunGives(steps, bind, starts, r.var, i)

(* Naming a variable after its step, when its Output is looked at or a     *)
(* field is added to it, cuts no inject off the field it reads.            *)
RenamesKeepEdges ==
  OpenOutput \/ (\E j \in DOMAIN steps : SelectStep(j)) \/ (\E path \in Resp : AddExtract(path))
     => StepEdges(steps, bind, starts) \subseteq StepEdges(steps', bind', starts')

(* After the start variables were edited in their dialog every inject that *)
(* is left reads something, the ones whose extract had gone before too.    *)
PrunedResolve ==
  (\E st \in SUBSET StartName : ChangeVars(st))
     => \A i \in DOMAIN steps : \A r \in ToSet(bind'[steps[i]].inj) : Resolvable(steps, bind', starts', r.var, i)
=============================================================================
