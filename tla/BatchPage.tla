----------------------------- MODULE BatchPage -----------------------------
(***************************************************************************)
(* The page of several runs (ExecutionBatchResult.tsx): the address names  *)
(* them, the way the page was reached may tell what the list of scenarios  *)
(* knew of them (batchMeta).  All runs are loaded together, the first that *)
(* failed is selected, and the panel of the selected run keeps a filter    *)
(* and an open step (ExecutionTimelinePanel.tsx).                          *)
(***************************************************************************)
EXTENDS Naturals, Sequences, FiniteSets, SequencesExt

CONSTANTS
  StepsOf,    \* run -> its steps, TRUE where one passed
  Addresses,  \* the lists of runs an address names
  Errors,     \* scenarios a batch could not run
  MaxSteps,   \* bound on what the user does
  Faults,     \* TRUE: the load of a run may fail
  None

VARIABLES url, meta, seen, calls, loading, loaded, errors, sel, filter, open, left

vars == <<url, meta, seen, calls, loading, loaded, errors, sel, filter, open, left>>
panel == <<filter, open>>

Runs == DOMAIN StepsOf
HasFailed(n) == \E i \in DOMAIN StepsOf[n] : ~StepsOf[n][i]

(* The list: the runs that were loaded, or else what is known of them. *)
ListItems == IF loaded # <<>> THEN loaded ELSE IF meta = None THEN <<>> ELSE meta.runs
FailedIn(s) == SelectSeq(s, HasFailed)
FirstFailed(s) == IF FailedIn(s) = <<>> THEN None ELSE FailedIn(s)[1]
(* What the bar above the list says. *)
SaysAllPassed == FailedIn(ListItems) = <<>> /\ ListItems # <<>>

(* The run whose panel is shown. *)
Selected == IF \E i \in DOMAIN loaded : loaded[i] = sel THEN sel ELSE None
(* filterExecutionSteps: the steps of a run that are shown. *)
VisibleOf(n, f) == {i \in DOMAIN StepsOf[n] : (f = "passed" => StepsOf[n][i])
                                              /\ (f = "failed" => ~StepsOf[n][i])}

(* A batch as the list of scenarios hands it over. *)
Metas(ids) == {None} \cup [runs : {ids}, errors : SUBSET Errors]

Unwanted(cs) == {[c EXCEPT !.live = FALSE] : c \in cs}

(* The effect of the address; without runs there is nothing to load. *)
Show(ids, m) ==
  /\ url' = ids /\ meta' = m /\ seen' = seen \cup {[ids |-> ids, meta |-> m]}
  /\ IF ids = <<>>
     THEN /\ calls' = Unwanted(calls) /\ loading' = FALSE /\ loaded' = <<>> /\ errors' = {None}
     ELSE /\ calls' = Unwanted(calls) \cup {[ids |-> ids, meta |-> m, live |-> TRUE]}
          /\ loading' = TRUE /\ UNCHANGED <<loaded, errors>>

Init ==
  /\ url \in Addresses /\ meta \in Metas(url) /\ seen = {[ids |-> url, meta |-> meta]}
  /\ calls = (IF url = <<>> THEN {} ELSE {[ids |-> url, meta |-> meta, live |-> TRUE]})
  /\ loading = (url # <<>>) /\ loaded = <<>> /\ errors = (IF url = <<>> THEN {None} ELSE {})
  /\ sel = None /\ filter = "all" /\ open = None /\ left = MaxSteps

Step == left > 0 /\ left' = left - 1

(* The panel is gone while the page loads. *)
PanelGone == filter' = "all" /\ open' = None

(* Another batch is shown by the list, or one that was shown by the browser. *)
GoTo(ids, m) ==
  /\ Step /\ [ids |-> ids, meta |-> m] # [ids |-> url, meta |-> meta]
  /\ m \in Metas(ids)
  /\ Show(ids, m) /\ PanelGone /\ UNCHANGED sel

(* The page of one run is opened and left: the page starts again with the same
   address and without what was known. *)
OpenSingle ==
  /\ Step /\ ~loading /\ Selected # None
  /\ url' = url /\ meta' = None /\ seen' = seen \cup {[ids |-> url, meta |-> None]}
  /\ calls' = {[ids |-> url, meta |-> None, live |-> TRUE]}
  /\ loading' = TRUE /\ loaded' = <<>> /\ errors' = {} /\ sel' = None /\ PanelGone

(* loadBatchExecutions: the runs that could be loaded, by their numbers. *)
Sorted(S) == SetToSortSeq(S, LAMBDA m, n : m < n)

FirstShown(rows) ==
  IF FirstFailed(rows) # None THEN FirstFailed(rows)
  ELSE IF rows = <<>> THEN None ELSE rows[1]

(* The errors: the runs that could not be loaded, and those of the batch. *)
ErrorsOf(c, ok) ==
  (ToSet(c.ids) \ ok) \cup (IF c.meta = None THEN {} ELSE c.meta.errors)

(* The load is answered; ok are the runs that could be loaded. *)
Answered(c, ok) ==
  /\ calls' = calls \ {c} /\ (Faults \/ ok = ToSet(c.ids))
  /\ IF c.live
     THEN /\ loaded' = Sorted(ok)
          /\ errors' = ErrorsOf(c, ok)
          /\ sel' = FirstShown(Sorted(ok)) /\ loading' = FALSE
     ELSE UNCHANGED <<loaded, errors, sel, loading>>
  /\ UNCHANGED <<url, meta, seen, panel, left>>

(* A run is selected; the panel keeps its filter and closes the step if the
   run that is shown is another one. *)
Select(n) ==
  /\ UNCHANGED <<url, meta, seen, calls, loading, loaded, errors>>
  /\ sel' = n /\ open' = (IF Selected' = Selected THEN open ELSE None)
  /\ filter' = (IF Selected' = None THEN "all" ELSE filter)

ClickRun(n) == Step /\ ~loading /\ (\E i \in DOMAIN ListItems : ListItems[i] = n) /\ Select(n)
JumpToFailure ==
  Step /\ ~loading /\ FirstFailed(ListItems) # None /\ Select(FirstFailed(ListItems))

(* The filter closes a step it hides. *)
SetFilter(f) ==
  /\ Step /\ ~loading /\ Selected # None /\ f # filter
  /\ filter' = f
  /\ open' = (IF open # None /\ open.step \in VisibleOf(Selected, f) THEN open ELSE None)
  /\ UNCHANGED <<url, meta, seen, calls, loading, loaded, errors, sel>>

(* A step is opened in the list below, or in the flow above it, where every
   step can be chosen; a step the filter hides is closed at once. *)
ClickStep(i) ==
  /\ Step /\ ~loading /\ Selected # None /\ i \in DOMAIN StepsOf[Selected]
  /\ open' = (IF (open # None /\ open.step = i) \/ i \notin VisibleOf(Selected, filter) THEN None
              ELSE [run |-> Selected, step |-> i])
  /\ UNCHANGED <<url, meta, seen, calls, loading, loaded, errors, sel, filter>>

Answers == \E c \in calls : \E ok \in SUBSET ToSet(c.ids) : Answered(c, ok)

Next ==
  \/ \E ids \in Addresses : \E m \in Metas(ids) : GoTo(ids, m)
  \/ OpenSingle \/ JumpToFailure \/ Answers
  \/ \E n \in Runs : ClickRun(n)
  \/ \E f \in {"all", "passed", "failed"} : SetFilter(f)
  \/ \E i \in 1..2 : ClickStep(i)

Spec == Init /\ [][Next]_vars

-----------------------------------------------------------------------------
(* The types of the variables. *)
TypeOK ==
  /\ url \in Addresses /\ meta \in Metas(url) /\ left \in 0..MaxSteps
  /\ loading <=> \E c \in calls : c.live
  /\ Cardinality({c \in calls : c.live}) <= 1

(* A page that is not loading lists runs of its address only, and each of them
   is either listed or named as an error. *)
ListIsOfAddress ==
  ~loading /\ url # <<>> =>
    /\ ToSet(loaded) \subseteq ToSet(url)
    /\ ToSet(url) \ ToSet(loaded) \subseteq errors

(* The bar says that everything passed, with no error beside it, only if no
   run of the address has a failed step. *)
PassedIsSo ==
  ~loading /\ errors = {} /\ SaysAllPassed => \A n \in ToSet(url) : ~HasFailed(n)

(* A page that lists loaded runs shows one of them, whichever were loaded. *)
OneIsShown == ~loading /\ loaded # <<>> => Selected # None

(* A step that is open is one of the run that is shown, and the filter shows
   it. *)
OpenIsVisible ==
  ~loading /\ open # None =>
    open.run = Selected /\ open.step \in VisibleOf(Selected, filter)
=============================================================================
