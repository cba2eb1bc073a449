---------------------------- MODULE TestCasePage ----------------------------
(***************************************************************************)
(* The page of the testcases of one scenario (TestCase.tsx).  It loads the *)
(* cases attached to the scenario of its address; when there are none it   *)
(* loads the scenario and the rules of the services its steps name, and    *)
(* offers to generate the cases.  For the cases it shows it asks for the   *)
(* bodies a run would send (the resolve preview) and shows the row of the  *)
(* selected case.  The page stays mounted when the address changes (going  *)
(* back several entries at once), so answers of the previous address may   *)
(* arrive late: each effect marks its own calls as cancelled.              *)
(*                                                                         *)
(* A service code is a value; Plain holds those of the form LL999.  Dead   *)
(* calls (cancelled ones) stay in flight and their answers change nothing. *)
(***************************************************************************)
EXTENDS Naturals, Sequences

CONSTANTS
  Scenarios,   \* the scenarios the address may name
  Steps,       \* scenario -> sequence of [reason, action, gives], reason and
               \* action a code or NoCode, gives the variables it extracts
  Attached,    \* scenario -> the case of each step, once cases are attached
  Filled,      \* the scenarios whose steps have cases at the start
  Plain,       \* the codes of the form LL999
  HasRules,    \* the codes with a rule file
  Kinds,       \* what happens: "nav", "fail", "generate", "tab", "look"
  MaxNavs,     \* bound on changes of the address
  NoCode, None

VARIABLES
  url, db,                              \* the address; scenarios with cases
  cases, casesOf, selected,             \* testCases, whose they are, selectedStep
  loading, error, yamlLoading, previews, generating,
  resolve, resolveLoading,              \* resolvePreview
  tab,                                  \* the panel's tab, None when unmounted
  expanded, raw,                        \* services unfolded; rawOpenFor
  loads, resolves, asks, navs           \* calls in flight; addresses left

vars == <<url, db, cases, casesOf, selected, loading, error, yamlLoading,
          previews, generating, resolve, resolveLoading, tab, expanded, raw,
          loads, resolves, asks, navs>>

(* extractService: `split("code=", 1)` leaves only the text before "code=",
   so a code counts in the action or, after it, in the reason, and only when
   it has the form LL999. *)
ServiceOf(step) ==
  IF step.action \in Plain THEN step.action
  ELSE IF step.reason \in Plain THEN step.reason ELSE NoCode

ServicesOf(s) == {ServiceOf(Steps[s][i]) : i \in DOMAIN Steps[s]} \ {NoCode}

(* The cases the server lists, and the rows it resolves: one per step that
   has a case, in the order of the steps. *)
CasesOf(s) == IF s \in db THEN Attached[s] ELSE <<>>

(* currentTest and its row: the first row of the same service and case. *)
Index == IF selected > Len(cases) THEN Len(cases) ELSE selected
HasCase == cases # <<>>
Current == cases[Index]
RowsLike == IF resolve = None \/ ~HasCase THEN {}
            ELSE {i \in DOMAIN resolve.rows : resolve.rows[i] = Current}
Row == IF RowsLike = {} THEN 0 ELSE CHOOSE i \in RowsLike : \A j \in RowsLike : i <= j

(* Which of its parts the page shows. *)
Pane == IF loading THEN "loading" ELSE IF HasCase THEN "case" ELSE "generate"

(* The panel of the body, mounted with the part of the cases; its first tab
   is decided then. *)
TabAfter(load, cs, row) ==
  IF load \/ cs = <<>> THEN None
  ELSE IF tab # None THEN tab ELSE IF row THEN "resolved" ELSE "template"

Cancelled(calls) == {[c EXCEPT !.live = FALSE] : c \in calls}

(* The effect that resolves, after the address or the cases changed. *)
ResolveEffect(s, cs) ==
  IF cs = <<>>
  THEN /\ resolve' = None
       /\ resolves' = Cancelled(resolves)
       /\ UNCHANGED resolveLoading
  ELSE /\ resolves' = Cancelled(resolves) \cup {[scn |-> s, live |-> TRUE]}
       /\ resolveLoading' = TRUE
       /\ UNCHANGED resolve

LoadOf(s) == [scn |-> s, at |-> "list", live |-> TRUE]

Init ==
  /\ url \in Scenarios /\ db = Filled
  /\ cases = <<>> /\ casesOf = None /\ selected = 1
  /\ loading = TRUE /\ error = FALSE /\ yamlLoading = FALSE
  /\ previews = {} /\ generating = FALSE
  /\ resolve = None /\ resolveLoading = FALSE /\ tab = None
  /\ expanded = {} /\ raw = None
  /\ loads = {LoadOf(url)} /\ resolves = {} /\ asks = {} /\ navs = MaxNavs

(* The address changes: both effects cancel their calls and run again. *)
Navigate(s) ==
  /\ "nav" \in Kinds /\ navs > 0 /\ s # url
  /\ navs' = navs - 1 /\ url' = s
  /\ loading' = TRUE /\ error' = FALSE
  /\ loads' = Cancelled(loads) \cup {LoadOf(s)}
  /\ ResolveEffect(s, cases)
  /\ tab' = None
  /\ UNCHANGED <<expanded, raw, db, cases, casesOf, selected, yamlLoading, previews,
                 generating, asks>>

Loaded == loading' = FALSE /\ yamlLoading' = FALSE

(* The list of cases arrives. *)
ListArrives(l) ==
  /\ l.at = "list" /\ l.live
  /\ cases' = CasesOf(l.scn) /\ casesOf' = l.scn /\ selected' = 1
  /\ ResolveEffect(url, cases')
  /\ IF cases' = <<>>
     THEN /\ yamlLoading' = TRUE
          /\ loads' = (loads \ {l}) \cup {[l EXCEPT !.at = "scenario"]}
          /\ UNCHANGED <<loading, previews>>
     ELSE /\ previews' = {} /\ Loaded
          /\ loads' = loads \ {l}
  /\ tab' = TabAfter(loading', cases', FALSE)
  /\ UNCHANGED <<expanded, raw, url, db, error, generating, asks, navs>>

(* Then the scenario, and the rules of the services its steps name (a service
   whose rules cannot be read is shown as one without a file). *)
ScenarioArrives(l) ==
  /\ l.at = "scenario" /\ l.live
  /\ loads' = (loads \ {l}) \cup {[l EXCEPT !.at = "previews"]}
  /\ UNCHANGED <<expanded, raw, url, db, cases, casesOf, selected, loading, error,
                 yamlLoading, previews, generating, resolve, resolveLoading, tab,
                 resolves, asks, navs>>

PreviewsArrive(l) ==
  /\ l.at = "previews" /\ l.live
  /\ previews' = ServicesOf(l.scn) /\ Loaded
  /\ loads' = loads \ {l}
  /\ tab' = TabAfter(FALSE, cases, Row # 0)
  /\ UNCHANGED <<expanded, raw, url, db, cases, casesOf, selected, error, generating,
                 resolve, resolveLoading, resolves, asks, navs>>

LoadFails(l) ==
  /\ "fail" \in Kinds /\ l.at # "previews" /\ l.live
  /\ error' = TRUE /\ Loaded
  /\ loads' = loads \ {l}
  /\ tab' = TabAfter(FALSE, cases, Row # 0)
  /\ UNCHANGED <<expanded, raw, url, db, cases, casesOf, selected, previews, generating,
                 resolve, resolveLoading, resolves, asks, navs>>

(* The answer of a cancelled load changes nothing. *)
DeadLoad(l) ==
  /\ ~l.live /\ loads' = loads \ {l}
  /\ UNCHANGED <<expanded, raw, url, db, cases, casesOf, selected, loading, error,
                 yamlLoading, previews, generating, resolve, resolveLoading, tab,
                 resolves, asks, navs>>

(* The resolve preview arrives, or its call fails. *)
ResolveArrives(r, ok) ==
  /\ IF r.live
     THEN /\ resolve' = IF ok THEN [scn |-> r.scn, rows |-> CasesOf(r.scn)] ELSE None
          /\ resolveLoading' = FALSE
     ELSE UNCHANGED <<resolve, resolveLoading>>
  /\ resolves' = resolves \ {r}
  /\ UNCHANGED <<expanded, raw, url, db, cases, casesOf, selected, loading, error,
                 yamlLoading, previews, generating, tab, loads, asks, navs>>

(* The button of the part without cases. *)
MayGenerate == Pane = "generate" /\ ~generating /\ ~yamlLoading /\ previews # {}

Generate ==
  /\ "generate" \in Kinds /\ MayGenerate /\ raw = None
  /\ generating' = TRUE /\ error' = FALSE /\ asks' = asks \cup {url}
  /\ UNCHANGED <<expanded, raw, url, db, cases, casesOf, selected, loading, yamlLoading,
                 previews, resolve, resolveLoading, tab, loads, resolves, navs>>

(* The answer leaves the button waiting. *)
MutGenerated(s) ==
  /\ s \in asks /\ asks' = asks \ {s}
  /\ db' = db \cup {s}
  /\ cases' = Attached[s] /\ casesOf' = s /\ selected' = 1
  /\ ResolveEffect(url, cases')
  /\ UNCHANGED generating
  /\ tab' = TabAfter(loading, cases', FALSE)
  /\ UNCHANGED <<expanded, raw, url, loading, error, yamlLoading, previews, loads,
                 navs>>

(* Its answer is taken for whatever the page shows by then. *)
Generated(s) ==
  /\ s \in asks /\ asks' = asks \ {s}
  /\ db' = db \cup {s}
  /\ cases' = Attached[s] /\ casesOf' = s /\ selected' = 1
  /\ ResolveEffect(url, cases')
  /\ generating' = FALSE
  /\ tab' = TabAfter(loading, cases', FALSE)
  /\ UNCHANGED <<expanded, raw, url, loading, error, yamlLoading, previews, loads,
                 navs>>

GenerateFails(s) ==
  /\ "fail" \in Kinds /\ s \in asks /\ asks' = asks \ {s}
  /\ error' = TRUE /\ generating' = FALSE
  /\ UNCHANGED <<expanded, raw, url, db, cases, casesOf, selected, loading, yamlLoading,
                 previews, resolve, resolveLoading, tab, loads, resolves, navs>>

Select(i) ==
  /\ Pane = "case" /\ i \in DOMAIN cases /\ i # selected
  /\ selected' = i
  /\ UNCHANGED <<expanded, raw, url, db, cases, casesOf, loading, error, yamlLoading,
                 previews, generating, resolve, resolveLoading, tab, loads, resolves,
                 asks, navs>>

SetTab(t) ==
  /\ "tab" \in Kinds /\ Pane = "case" /\ t # tab
  /\ tab' = t
  /\ UNCHANGED <<expanded, raw, url, db, cases, casesOf, selected, loading, error,
                 yamlLoading, previews, generating, resolve, resolveLoading, loads,
                 resolves, asks, navs>>

(* The rules of a service with a file unfold, and open as a whole. *)
Previewed(c) == "look" \in Kinds /\ Pane = "generate" /\ c \in previews \cap HasRules

ToggleRules(c) ==
  /\ Previewed(c) /\ raw = None
  /\ expanded' = IF c \in expanded THEN expanded \ {c} ELSE expanded \cup {c}
  /\ UNCHANGED <<url, db, cases, casesOf, selected, loading, error, yamlLoading,
                 previews, generating, resolve, resolveLoading, tab, raw, loads,
                 resolves, asks, navs>>

SetRaw(c) ==
  /\ \/ c # None /\ raw = None /\ Previewed(c)
     \/ c = None /\ raw # None /\ ~loading
  /\ raw' = c
  /\ UNCHANGED <<url, db, cases, casesOf, selected, loading, error, yamlLoading,
                 previews, generating, resolve, resolveLoading, tab, expanded, loads,
                 resolves, asks, navs>>

(* The export of the shown case fails; one that succeeds changes nothing. *)
ExportFails ==
  /\ "fail" \in Kinds /\ Pane = "case" /\ ~error
  /\ error' = TRUE
  /\ UNCHANGED <<url, db, cases, casesOf, selected, loading, yamlLoading, previews,
                 generating, resolve, resolveLoading, tab, expanded, raw, loads,
                 resolves, asks, navs>>

Answers ==
  \/ \E l \in loads : \/ ListArrives(l) \/ ScenarioArrives(l) \/ PreviewsArrive(l)
                      \/ LoadFails(l) \/ DeadLoad(l)
  \/ \E r \in resolves : \/ ResolveArrives(r, TRUE)
                         \/ "fail" \in Kinds /\ ResolveArrives(r, FALSE)
  \/ \E s \in asks : Generated(s) \/ GenerateFails(s)

Next ==
  \/ \E s \in Scenarios : Navigate(s)
  \/ Answers \/ Generate
  \/ \E i \in DOMAIN cases : Select(i)
  \/ \E t \in {"template", "resolved", "context"} : SetTab(t)
  \/ \E c \in HasRules : ToggleRules(c)
  \/ \E c \in HasRules \cup {None} : SetRaw(c)
  \/ ExportFails

Spec == Init /\ [][Next]_vars

-----------------------------------------------------------------------------
(* The types of the variables. *)
TypeOK ==
  /\ url \in Scenarios /\ db \in SUBSET Scenarios
  /\ selected \in Nat \ {0} /\ navs \in 0..MaxNavs
  /\ loads \subseteq [scn : Scenarios, at : {"list", "scenario", "previews"}, live : BOOLEAN]
  /\ resolves \subseteq [scn : Scenarios, live : BOOLEAN]
  /\ asks \subseteq Scenarios /\ expanded \subseteq HasRules /\ raw \in HasRules \cup {None}
  /\ tab \in {"template", "resolved", "context", None}
  /\ (tab # None) = (Pane = "case")

(* Once a load of the address succeeded, the cases and the resolved row are
   those of the scenario of the address, however late the answers of the
   previous address arrive (the cancelled flags of both effects). *)
ShownIsOfUrl ==
  ~loading /\ ~error =>
    /\ casesOf = url
    /\ ~resolveLoading /\ resolve # None => resolve.scn = url

(* The page says "updating the preview" only while such a call is under way:
   a call that is cancelled never resets the note itself. *)
NoteIsOfCall == HasCase /\ resolveLoading => \E r \in resolves : r.live

(* The body shown as the one a run sends is that of the selected step. *)
RowIsOfStep == Pane = "case" /\ resolve # None /\ Row # 0 /\ ~resolveLoading /\ ~error => Row = Index

(* A loaded page without cases shows the rules of every service its steps
   name, in the reason after "code=" or as the action. *)
NamedBy(step) == IF step.reason # NoCode THEN step.reason ELSE step.action
NamedAreFound ==
  ~loading /\ ~error /\ ~HasCase =>
    previews = {NamedBy(Steps[url][i]) : i \in DOMAIN Steps[url]} \ {NoCode}
=============================================================================
