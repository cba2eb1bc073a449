--------------------------- MODULE MC_ScenarioPages ---------------------------
(***************************************************************************)
(* The parts of the browser that are about scenarios and their runs, each a *)
(* module of its own, side by side.  They share no state: a part is used    *)
(* alone, chosen at the start, so that one run goes through all of them     *)
(* without the interleavings of parts that do not meet.                     *)
(*                                                                          *)
(* The stream of a run is part of this module itself, so that what is       *)
(* checked of it here is what RunStreamProofs proves; the others are        *)
(* instances.                                                               *)
(***************************************************************************)
EXTENDS RunStream, TLC

CONSTANTS
  Views,              \* the parts that are used
  None,               \* nothing
  Cut, Wrong,         \* a text that is not complete, one that is no object
  Template, Literal,  \* where the value of a field comes from
  Std, Blank, Mine, Yours, Legacy, Token,  \* values of the channel
  Full, Family, Middle,                    \* parts of a name
  Null, Undef, X, Y, List,                 \* values in a body
  Scn                 \* a scenario

VARIABLES
  view,  \* the part that is used
  rg_folders, rg_selected, rg_items, rg_wizard, rg_dialog, rg_target, rg_job, rg_db,
  rg_latest, rg_minted,
  pk_pool, pk_served, pk_open, pk_step, pk_services, pk_active, pk_refs, pk_loading,
  pk_load, pk_picks, pk_acks, pk_saved, pk_told,
  sb_steps, sb_bind, sb_starts, sb_page, sb_sel, sb_tab, sb_links, sb_source, sb_call,
  sd_page, sd_sel, sd_bind, sd_known, sd_draft, sd_dirty, sd_error, sd_timer, sd_snap,
  sd_focus, sd_saved, sd_typed,
  rs_day, rs_db, rs_item, rs_shared, rs_dialog, rs_sent, rs_own, rs_decl, rs_edits,
  vd_store, vd_panel, vd_dialog, vd_maker, vd_asks, vd_decl, vd_drop, vd_steps,
  tc_url, tc_db, tc_cases, tc_casesOf, tc_selected, tc_loading, tc_error,
  tc_yamlLoading, tc_previews, tc_generating, tc_resolve, tc_resolveLoading, tc_tab,
  tc_expanded, tc_raw, tc_loads, tc_resolves, tc_asks, tc_navs,
  rp_runs, rp_url, rp_seen, rp_loads, rp_loading, rp_detail, rp_error, rp_titles,
  rp_title, rp_rerunning, rp_reruns, rp_runError, rp_left, rp_newest,
  bp_url, bp_meta, bp_seen, bp_calls, bp_loading, bp_loaded, bp_errors, bp_sel,
  bp_filter, bp_open, bp_left,
  rb_value, rb_other, rb_changesOnly

rg == <<rg_folders, rg_selected, rg_items, rg_wizard, rg_dialog, rg_target, rg_job,
        rg_db, rg_latest, rg_minted>>
pk == <<pk_pool, pk_served, pk_open, pk_step, pk_services, pk_active, pk_refs,
        pk_loading, pk_load, pk_picks, pk_acks, pk_saved, pk_told>>
sb == <<sb_steps, sb_bind, sb_starts, sb_page, sb_sel, sb_tab, sb_links, sb_source,
        sb_call>>
sd == <<sd_page, sd_sel, sd_bind, sd_known, sd_draft, sd_dirty, sd_error, sd_timer,
        sd_snap, sd_focus, sd_saved, sd_typed>>
rs == <<rs_day, rs_db, rs_item, rs_shared, rs_dialog, rs_sent, rs_own, rs_decl, rs_edits>>
vd == <<vd_store, vd_panel, vd_dialog, vd_maker, vd_asks, vd_decl, vd_drop, vd_steps>>
tc == <<tc_url, tc_db, tc_cases, tc_casesOf, tc_selected, tc_loading, tc_error,
        tc_yamlLoading, tc_previews, tc_generating, tc_resolve, tc_resolveLoading,
        tc_tab, tc_expanded, tc_raw, tc_loads, tc_resolves, tc_asks, tc_navs>>
rp == <<rp_runs, rp_url, rp_seen, rp_loads, rp_loading, rp_detail, rp_error, rp_titles,
        rp_title, rp_rerunning, rp_reruns, rp_runError, rp_left, rp_newest>>
bp == <<bp_url, bp_meta, bp_seen, bp_calls, bp_loading, bp_loaded, bp_errors, bp_sel,
        bp_filter, bp_open, bp_left>>
rb == <<rb_value, rb_other, rb_changesOnly>>
pages == <<view, rg, pk, sb, sd, rs, vd, tc, vars, rp, bp, rb>>

ThreeSteps == {<<"a", 1>>, <<"a", 2>>, <<"a", 3>>}
TwoCodes == {<<"a", 1>>, <<"b", 1>>}

(* Configurations: of an older build, of one before it, and a new one.       *)
Header(k, v) == [key |-> k, val |-> v, gen |-> FALSE]
Usual == <<Header("type", Std)>>
Old == [base |-> Blank, hv |-> <<>>,
        sv |-> <<Header("plain", Mine), Header("mary", Std)>>, dh |-> <<>>]
Rowed == [base |-> Blank, hv |-> <<>>, sv |-> <<Header("mary", Std)>>,
          dh |-> <<Header("plain", Mine), Header("staff", Token), Header("mary", Std)>>]
New == [base |-> Blank, hv |-> [k \in {"plain", "txdt"} |-> IF k = "txdt" THEN Blank ELSE Mine],
        sv |-> <<Header("plain", Std)>>, dh |-> Usual]

(* Scenarios of two steps, which name plain codes, in the reason or as the   *)
(* action.                                                                   *)
St(reason, action, gives) == [reason |-> reason, action |-> action, gives |-> gives]
PlainSteps == [A |-> <<St("py", "no code", {"x"}), St("no code", "dep", {"y"})>>,
               B |-> <<St("py", "no code", {"x"}), St("no code", "py", {})>>]
TwoCases == [A |-> <<"c1", "c2">>, B |-> <<"c2", "c1">>]

(* A run of a scenario, live, and one without a scenario.                    *)
Live(s) == [scn |-> s, base |-> "sut", mode |-> "live"]
LiveRuns == {<<Live("s")>>, <<Live("s"), Live("t")>>, <<Live(None)>>,
             <<[Live("s") EXCEPT !.base = None]>>}

(* One run passed, one failed in its second step, one failed.                *)
ThreeRuns == <<<<TRUE>>, <<TRUE, FALSE>>, <<FALSE>>>>
Batches == {<<>>, <<2, 1>>, <<1, 3>>}

(* Bodies of two keys, with objects below them.                              *)
OnePart == [a |-> <<"a">>, b |-> <<"b">>]
Objects(K, V) == UNION {[S -> V] : S \in SUBSET K}
Nested == Objects({"a", "b"}, {X, List, Null} \cup Objects({"a", "b"}, {X}))

-----------------------------------------------------------------------------
(* The list of the scenarios and its dialogs. *)
Registry == INSTANCE ScenarioRegistry WITH
  Folder <- {"f1", "f2"}, Item <- {"i1"}, Row <- {"r1"}, Body <- {"b1"},
  Blank <- "blank", Job <- {"j1"}, Top <- "top", MaxPin <- 1,
  Uses <- {"save", "folder", "revisit"}, folders <- rg_folders, selected <- rg_selected,
  items <- rg_items, wizard <- rg_wizard, dialog <- rg_dialog, target <- rg_target,
  job <- rg_job, db <- rg_db, latest <- rg_latest, minted <- rg_minted
Items == INSTANCE ScenarioRegistry WITH
  Folder <- {"f1"}, Item <- {"i1", "i2"}, Row <- {"r1", "r2"}, Body <- {"b1"},
  Blank <- "blank", Job <- {"j1"}, Top <- "top", MaxPin <- 1, Uses <- {"save"},
  folders <- rg_folders, selected <- rg_selected, items <- rg_items,
  wizard <- rg_wizard, dialog <- rg_dialog, target <- rg_target, job <- rg_job,
  db <- rg_db, latest <- rg_latest, minted <- rg_minted
Jobs == INSTANCE ScenarioRegistry WITH
  Folder <- {"f1"}, Item <- {"i1"}, Row <- {"r1"}, Body <- {"b1"}, Blank <- "blank",
  Job <- {"j1", "j2"}, Top <- "top", MaxPin <- 1, Uses <- {"save", "run", "open"},
  folders <- rg_folders, selected <- rg_selected, items <- rg_items,
  wizard <- rg_wizard, dialog <- rg_dialog, target <- rg_target, job <- rg_job,
  db <- rg_db, latest <- rg_latest, minted <- rg_minted
Gone == INSTANCE ScenarioRegistry WITH
  Folder <- {"f1"}, Item <- {"i1"}, Row <- {"r1", "r2"}, Body <- {"b1"},
  Blank <- "blank", Job <- {"j1"}, Top <- "top", MaxPin <- 1,
  Uses <- {"save", "run", "delete"}, folders <- rg_folders, selected <- rg_selected,
  items <- rg_items, wizard <- rg_wizard, dialog <- rg_dialog, target <- rg_target,
  job <- rg_job, db <- rg_db, latest <- rg_latest, minted <- rg_minted
Queue == INSTANCE ScenarioRegistry WITH
  Folder <- {"f1"}, Item <- {"i1"}, Row <- {"r1"}, Body <- {"b1"}, Blank <- "blank",
  Job <- {"j1"}, Top <- "top", MaxPin <- 1,
  Uses <- {"save", "open", "run", "runAll", "export", "exportAll", "remove", "delete", "revisit"},
  folders <- rg_folders, selected <- rg_selected, items <- rg_items,
  wizard <- rg_wizard, dialog <- rg_dialog, target <- rg_target, job <- rg_job,
  db <- rg_db, latest <- rg_latest, minted <- rg_minted

(* The testcases of the steps and their versions. *)
Picks == INSTANCE ScenarioPicks WITH
  Svc <- {"s1"}, Case <- {"c1"}, SvcOf <- [c \in {"c1"} |-> "s1"], Errors <- {},
  Body <- {"b1", "b2"}, Empty <- "empty", PickId <- {"p1"}, NoPrint <- None,
  FirstVers <- {1}, MaxVer <- 2, MaxServed <- 2, MaxAcks <- 1, pool <- pk_pool,
  served <- pk_served, open <- pk_open, step <- pk_step, services <- pk_services,
  active <- pk_active, refs <- pk_refs, loading <- pk_loading, load <- pk_load,
  picks <- pk_picks, acks <- pk_acks, saved <- pk_saved, told <- pk_told
Loads == INSTANCE ScenarioPicks WITH
  Svc <- {"s1"}, Case <- {"c1"}, SvcOf <- [c \in {"c1"} |-> "s1"], Errors <- {},
  Body <- {"empty", "b1"}, Empty <- "empty", PickId <- {"p1"}, NoPrint <- None,
  FirstVers <- {1}, MaxVer <- 1, MaxServed <- 1, MaxAcks <- 0, pool <- pk_pool,
  served <- pk_served, open <- pk_open, step <- pk_step, services <- pk_services,
  active <- pk_active, refs <- pk_refs, loading <- pk_loading, load <- pk_load,
  picks <- pk_picks, acks <- pk_acks, saved <- pk_saved, told <- pk_told
Several == INSTANCE ScenarioPicks WITH
  Svc <- {"s1", "s2"}, Case <- {}, SvcOf <- <<>>, Errors <- {}, Body <- {"b1"},
  Empty <- "empty", PickId <- {"p1"}, NoPrint <- None, FirstVers <- {1}, MaxVer <- 1,
  MaxServed <- 1, MaxAcks <- 0, pool <- pk_pool, served <- pk_served, open <- pk_open,
  step <- pk_step, services <- pk_services, active <- pk_active, refs <- pk_refs,
  loading <- pk_loading, load <- pk_load, picks <- pk_picks, acks <- pk_acks,
  saved <- pk_saved, told <- pk_told

(* The variables between the steps. *)
Edges == INSTANCE StepBindings WITH
  Pick <- ThreeSteps, Leaf <- {"f"}, Twins <- 1, Req <- {"q"},
  StartName <- {<<"g", "", 0>>}, Uses <- {"legacy", "body"}, MaxSteps <- 3,
  steps <- sb_steps, bind <- sb_bind, starts <- sb_starts, page <- sb_page,
  sel <- sb_sel, tab <- sb_tab, links <- sb_links, source <- sb_source, call <- sb_call
Names == INSTANCE StepBindings WITH
  Pick <- TwoCodes, Leaf <- {"f", "g"}, Twins <- 1, Req <- {"q"},
  StartName <- {<<"g", "", 0>>}, Uses <- {"extract", "remove", "arrange"},
  MaxSteps <- 2, steps <- sb_steps, bind <- sb_bind, starts <- sb_starts,
  page <- sb_page, sel <- sb_sel, tab <- sb_tab, links <- sb_links, source <- sb_source,
  call <- sb_call
Vars == INSTANCE StepBindings WITH
  Pick <- TwoCodes, Leaf <- {"f"}, Twins <- 1, Req <- {"q"},
  StartName <- {<<"g", "", 0>>},
  Uses <- {"extract", "remove", "body", "vars", "panel", "clear", "legacy", "close"},
  MaxSteps <- 2, steps <- sb_steps, bind <- sb_bind, starts <- sb_starts,
  page <- sb_page, sel <- sb_sel, tab <- sb_tab, links <- sb_links, source <- sb_source,
  call <- sb_call
Arranged == INSTANCE StepBindings WITH
  Pick <- TwoCodes, Leaf <- {"f"}, Twins <- 1, Req <- {"q"},
  StartName <- {<<"g", "", 0>>}, Uses <- {"arrange", "body", "vars", "legacy"},
  MaxSteps <- 2, steps <- sb_steps, bind <- sb_bind, starts <- sb_starts,
  page <- sb_page, sel <- sb_sel, tab <- sb_tab, links <- sb_links, source <- sb_source,
  call <- sb_call
Suggests == INSTANCE StepBindings WITH
  Pick <- TwoCodes, Leaf <- {"f"}, Twins <- 1, Req <- {"q"},
  StartName <- {<<"g", "", 0>>},
  Uses <- {"extract", "fetch", "close", "all", "selected"}, MaxSteps <- 2,
  steps <- sb_steps, bind <- sb_bind, starts <- sb_starts, page <- sb_page,
  sel <- sb_sel, tab <- sb_tab, links <- sb_links, source <- sb_source, call <- sb_call

(* The text of the body of a step. *)
Text == INSTANCE StepDraft WITH
  Step <- {"s1", "s2"}, First <- "s1", Own <- {"s1", "s2"}, Field <- {"x"},
  Given <- "t", Fixed <- {"l"}, Token <- {}, page <- sd_page, sel <- sd_sel,
  bind <- sd_bind, known <- sd_known, draft <- sd_draft, dirty <- sd_dirty,
  error <- sd_error, timer <- sd_timer, snap <- sd_snap, focus <- sd_focus,
  saved <- sd_saved, typed <- sd_typed
Known == INSTANCE StepDraft WITH
  Step <- {"s1"}, First <- "s1", Own <- {"s1"}, Field <- {"x"}, Given <- "t",
  Fixed <- {"l"}, Token <- {"v"}, page <- sd_page, sel <- sd_sel, bind <- sd_bind,
  known <- sd_known, draft <- sd_draft, dirty <- sd_dirty, error <- sd_error,
  timer <- sd_timer, snap <- sd_snap, focus <- sd_focus, saved <- sd_saved,
  typed <- sd_typed
OneField == INSTANCE StepDraft WITH
  Step <- {"s1"}, First <- "s1", Own <- {}, Field <- {"x"}, Given <- "t",
  Fixed <- {"l"}, Token <- {"v"}, page <- sd_page, sel <- sd_sel, bind <- sd_bind,
  known <- sd_known, draft <- sd_draft, dirty <- sd_dirty, error <- sd_error,
  timer <- sd_timer, snap <- sd_snap, focus <- sd_focus, saved <- sd_saved,
  typed <- sd_typed

(* The settings a run is sent with. *)
Channel == INSTANCE RunSettings WITH
  Scenario <- {"s1"}, First <- "s1", Stored <- {Old, Rowed, New}, Plain <- "plain",
  Srvc <- "srvc", TxDt <- "txdt", Staff <- "staff", Custom <- {"mary"},
  ContentType <- "type", Typed <- {Mine, Yours}, Url <- {"here"},
  Kinds <- {"scenario", "page", "export"}, MaxEdits <- 1, MaxDay <- 2, day <- rs_day,
  db <- rs_db, item <- rs_item, shared <- rs_shared, dialog <- rs_dialog,
  sent <- rs_sent, own <- rs_own, decl <- rs_decl, edits <- rs_edits
TypedIn == INSTANCE RunSettings WITH
  Scenario <- {"s1"}, First <- "s1", Stored <- {New}, Plain <- "plain", Srvc <- "srvc",
  TxDt <- "txdt", Staff <- "staff", Custom <- {"mary"}, ContentType <- "type",
  Typed <- {Mine, Yours}, Url <- {"here"}, Kinds <- {"scenario", "case"}, MaxEdits <- 2,
  MaxDay <- 1, day <- rs_day, db <- rs_db, item <- rs_item, shared <- rs_shared,
  dialog <- rs_dialog, sent <- rs_sent, own <- rs_own, decl <- rs_decl, edits <- rs_edits
Declared == INSTANCE RunSettings WITH
  Scenario <- {"s1", "s2"}, First <- "s1", Stored <- {New}, Plain <- "plain",
  Srvc <- "srvc", TxDt <- "txdt", Staff <- "staff", Custom <- {"mary"},
  ContentType <- "type", Typed <- {Mine}, Url <- {"here"},
  Kinds <- {"scenario", "edit"}, MaxEdits <- 1, MaxDay <- 1, day <- rs_day, db <- rs_db,
  item <- rs_item, shared <- rs_shared, dialog <- rs_dialog, sent <- rs_sent,
  own <- rs_own, decl <- rs_decl, edits <- rs_edits

(* The generators of the values of variables. *)
Source == INSTANCE VarDeclare WITH
  Shared <- {"g1"}, Builtin <- {"uuid"}, Name <- "name", Parts <- {Full, Family},
  Literal <- "fixed", Var <- {"v"}, Here <- "here", Users <- {"here"},
  Kinds <- {"source", "delete"}, MaxSource <- 1, MaxSteps <- 4, store <- vd_store,
  panel <- vd_panel, dialog <- vd_dialog, maker <- vd_maker, asks <- vd_asks,
  decl <- vd_decl, drop <- vd_drop, steps <- vd_steps
Preview == INSTANCE VarDeclare WITH
  Shared <- {"g1", "g2"}, Builtin <- {"uuid"}, Name <- "name", Parts <- {Full, Family},
  Literal <- "fixed", Var <- {"v"}, Here <- "here", Users <- {"here"},
  Kinds <- {"delete"}, MaxSource <- 1, MaxSteps <- 4, store <- vd_store,
  panel <- vd_panel, dialog <- vd_dialog, maker <- vd_maker, asks <- vd_asks,
  decl <- vd_decl, drop <- vd_drop, steps <- vd_steps
Makes == INSTANCE VarDeclare WITH
  Shared <- {"g1"}, Builtin <- {"uuid"}, Name <- "name", Parts <- {Full, Family},
  Literal <- "fixed", Var <- {"v"}, Here <- "here", Users <- {"here"}, Kinds <- {"ai"},
  MaxSource <- 1, MaxSteps <- 4, store <- vd_store, panel <- vd_panel,
  dialog <- vd_dialog, maker <- vd_maker, asks <- vd_asks, decl <- vd_decl,
  drop <- vd_drop, steps <- vd_steps

(* The testcases of a scenario. *)
Moves == INSTANCE TestCasePage WITH
  Scenarios <- {"A", "B"}, Steps <- PlainSteps, Attached <- TwoCases, Filled <- {"A"},
  Plain <- {"py", "dep"}, HasRules <- {"py"}, NoCode <- "no code",
  Kinds <- {"nav", "fail", "tab"}, MaxNavs <- 2, url <- tc_url, db <- tc_db,
  cases <- tc_cases, casesOf <- tc_casesOf, selected <- tc_selected,
  loading <- tc_loading, error <- tc_error, yamlLoading <- tc_yamlLoading,
  previews <- tc_previews, generating <- tc_generating, resolve <- tc_resolve,
  resolveLoading <- tc_resolveLoading, tab <- tc_tab, expanded <- tc_expanded,
  raw <- tc_raw, loads <- tc_loads, resolves <- tc_resolves, asks <- tc_asks,
  navs <- tc_navs
CaseNames == INSTANCE TestCasePage WITH
  Scenarios <- {"A", "B"}, Steps <- PlainSteps, Attached <- TwoCases, Filled <- {"B"},
  Plain <- {"py", "dep"}, HasRules <- {"py"}, NoCode <- "no code",
  Kinds <- {"nav", "fail", "look"}, MaxNavs <- 2, url <- tc_url, db <- tc_db,
  cases <- tc_cases, casesOf <- tc_casesOf, selected <- tc_selected,
  loading <- tc_loading, error <- tc_error, yamlLoading <- tc_yamlLoading,
  previews <- tc_previews, generating <- tc_generating, resolve <- tc_resolve,
  resolveLoading <- tc_resolveLoading, tab <- tc_tab, expanded <- tc_expanded,
  raw <- tc_raw, loads <- tc_loads, resolves <- tc_resolves, asks <- tc_asks,
  navs <- tc_navs
Generates == INSTANCE TestCasePage WITH
  Scenarios <- {"A", "B"}, Steps <- PlainSteps, Attached <- TwoCases, Filled <- {"A"},
  Plain <- {"py", "dep"}, HasRules <- {"py"}, NoCode <- "no code",
  Kinds <- {"nav", "fail", "generate"}, MaxNavs <- 2, url <- tc_url, db <- tc_db,
  cases <- tc_cases, casesOf <- tc_casesOf, selected <- tc_selected,
  loading <- tc_loading, error <- tc_error, yamlLoading <- tc_yamlLoading,
  previews <- tc_previews, generating <- tc_generating, resolve <- tc_resolve,
  resolveLoading <- tc_resolveLoading, tab <- tc_tab, expanded <- tc_expanded,
  raw <- tc_raw, loads <- tc_loads, resolves <- tc_resolves, asks <- tc_asks,
  navs <- tc_navs

(* The result of a run. *)
Result == INSTANCE ResultPage WITH
  Runs0 <- LiveRuns, Scenarios <- {"s"}, MaxRuns <- 4, MaxSteps <- 3,
  Faults <- TRUE, runs <- rp_runs, url <- rp_url, seen <- rp_seen, loads <- rp_loads,
  loading <- rp_loading, detail <- rp_detail, error <- rp_error, titles <- rp_titles,
  title <- rp_title, rerunning <- rp_rerunning, reruns <- rp_reruns,
  runError <- rp_runError, left <- rp_left, newest <- rp_newest
Repeat == INSTANCE ResultPage WITH
  Runs0 <- LiveRuns, Scenarios <- {"s", "t"}, MaxRuns <- 3, MaxSteps <- 3,
  Faults <- TRUE, runs <- rp_runs, url <- rp_url, seen <- rp_seen,
  loads <- rp_loads, loading <- rp_loading, detail <- rp_detail, error <- rp_error,
  titles <- rp_titles, title <- rp_title, rerunning <- rp_rerunning,
  reruns <- rp_reruns, runError <- rp_runError, left <- rp_left, newest <- rp_newest

(* The results of a batch. *)
Batch == INSTANCE BatchPage WITH
  StepsOf <- ThreeRuns, Addresses <- Batches, Errors <- {Scn}, MaxSteps <- 2,
  Faults <- TRUE, url <- bp_url, meta <- bp_meta, seen <- bp_seen, calls <- bp_calls,
  loading <- bp_loading, loaded <- bp_loaded, errors <- bp_errors, sel <- bp_sel,
  filter <- bp_filter, open <- bp_open, left <- bp_left

(* The bodies of a step, compared. *)
Bodies == INSTANCE ResultBodies WITH
  KeyOrder <- <<"a", "b">>, Parts <- OnePart, Plain <- {X, Y, List}, Bodies <- Nested,
  Limit <- 32, InjectLimit <- 16, value <- rb_value, other <- rb_other,
  changesOnly <- rb_changesOnly

-----------------------------------------------------------------------------
(* One part is used; the others rest as they were opened. *)
InitPages ==
  /\ view \in Views
  /\ CASE view = "registry" -> Registry!Init
       [] view = "reg_items" -> Items!Init
       [] view = "reg_jobs" -> Jobs!Init
       [] view = "reg_rows" -> Gone!Init
       [] view = "reg_runs" -> Queue!Init
       [] OTHER -> /\ rg_folders = [f \in {"f1"} |-> "top"]
                   /\ Registry!Init
  /\ CASE view = "picks" -> pk_saved = None /\ pk_pool = [c \in {"c1"} |-> [at |-> "usable", ver |-> 1, body |-> "b1"]] /\ Picks!Init
       [] view = "picks_load" -> Loads!Init
       [] view = "picks_none" -> Several!Init
       [] OTHER -> /\ pk_saved = None /\ pk_pool = [c \in {"c1"} |-> [at |-> "usable", ver |-> 1, body |-> "b1"]]
                   /\ Picks!Init
  /\ CASE view = "names" -> Names!Init
       [] view = "starts" -> Vars!Init
       [] view = "arranged" -> Arranged!Init
       [] view = "suggestions" -> Suggests!Init
       [] OTHER -> Edges!Init
  /\ CASE view = "text_known" -> Known!Init
       [] view = "text_field" -> OneField!Init
       [] OTHER -> Text!Init
  /\ CASE view = "channel" -> Channel!Init
       [] view = "channel_case" -> TypedIn!Init
       [] view = "channel_vars" -> Declared!Init
       [] OTHER -> /\ rs_db = [s \in {"s1"} |-> None]
                   /\ Channel!Init
  /\ CASE view = "sources" -> Source!Init
       [] view = "previews" -> Preview!Init
       [] view = "makers" -> Makes!Init
       [] OTHER -> /\ vd_store = [g \in {"g1"} |-> 0]
                   /\ Source!Init
  /\ CASE view = "case_moves" -> Moves!Init
       [] view = "case_names" -> CaseNames!Init
       [] view = "case_generates" -> Generates!Init
       [] OTHER -> /\ tc_url = "A"
                   /\ Moves!Init
  /\ Init
  /\ CASE view = "result" -> Result!Init
       [] view = "result_late" -> Repeat!Init
       [] OTHER -> /\ rp_runs = <<Live("s")>>
                   /\ Result!Init
  /\ CASE view = "batch" -> Batch!Init
       [] OTHER -> /\ bp_url = <<>> /\ bp_meta = None
                   /\ Batch!Init
  /\ CASE view = "bodies" -> Bodies!Init
       [] OTHER -> /\ rb_value = <<>> /\ rb_other = <<>>
                   /\ Bodies!Init

Parts == {"registry", "picks", "bindings", "draft", "settings", "declare", "case", "stream", "result", "batch", "bodies"}

Still(p) ==
  CASE p = "registry" -> UNCHANGED rg
    [] p = "picks" -> UNCHANGED pk
    [] p = "bindings" -> UNCHANGED sb
    [] p = "draft" -> UNCHANGED sd
    [] p = "settings" -> UNCHANGED rs
    [] p = "declare" -> UNCHANGED vd
    [] p = "case" -> UNCHANGED tc
    [] p = "stream" -> UNCHANGED vars
    [] p = "result" -> UNCHANGED rp
    [] p = "batch" -> UNCHANGED bp
    [] p = "bodies" -> UNCHANGED rb

Only(p) == UNCHANGED view /\ \A q \in Parts \ {p} : Still(q)

NextPages ==
  \/ /\ \/ view = "registry" /\ Registry!Next
        \/ view = "reg_items" /\ Items!Next
        \/ view = "reg_jobs" /\ Jobs!Next
        \/ view = "reg_rows" /\ Gone!Next
        \/ view = "reg_runs" /\ Queue!Next
     /\ Only("registry")
  \/ /\ \/ view = "picks" /\ Picks!Next
        \/ view = "picks_load" /\ Loads!Next
        \/ view = "picks_none" /\ Several!Next
     /\ Only("picks")
  \/ /\ \/ view = "edges" /\ Edges!Next
        \/ view = "names" /\ Names!Next
        \/ view = "starts" /\ Vars!Next
        \/ view = "arranged" /\ Arranged!Next
        \/ view = "suggestions" /\ Suggests!Next
     /\ Only("bindings")
  \/ /\ \/ view = "text" /\ Text!Next
        \/ view = "text_known" /\ Known!Next
        \/ view = "text_field" /\ OneField!Next
     /\ Only("draft")
  \/ /\ \/ view = "channel" /\ Channel!Next
        \/ view = "channel_case" /\ TypedIn!Next
        \/ view = "channel_vars" /\ Declared!Next
     /\ Only("settings")
  \/ /\ \/ view = "sources" /\ Source!Next
        \/ view = "previews" /\ Preview!Next
        \/ view = "makers" /\ Makes!Next
     /\ Only("declare")
  \/ /\ \/ view = "case_moves" /\ Moves!Next
        \/ view = "case_names" /\ CaseNames!Next
        \/ view = "case_generates" /\ Generates!Next
     /\ Only("case")
  \/ /\ view = "stream"
     /\ Next
     /\ Only("stream")
  \/ /\ \/ view = "result" /\ Result!Next
        \/ view = "result_late" /\ Repeat!Next
     /\ Only("result")
  \/ /\ view = "batch"
     /\ Batch!Next
     /\ Only("batch")
  \/ /\ view = "bodies"
     /\ Bodies!Next
     /\ Only("bodies")

SpecPages == InitPages /\ [][NextPages]_pages

-----------------------------------------------------------------------------
(* The views of each part. *)
RegistryViews == {"registry", "reg_items", "reg_jobs", "reg_rows", "reg_runs"}
PickViews == {"picks", "picks_load", "picks_none"}
BindingViews == {"edges", "names", "starts", "arranged", "suggestions"}
TextViews == {"text", "text_known", "text_field"}
ChannelViews == {"channel", "channel_case", "channel_vars"}
VarViews == {"sources", "previews", "makers"}
CaseViews == {"case_moves", "case_names", "case_generates"}
ResultViews == {"result", "result_late"}

PartOf ==
  CASE view \in RegistryViews -> "registry" [] view \in PickViews -> "picks"
    [] view \in BindingViews -> "bindings" [] view \in TextViews -> "draft"
    [] view \in ChannelViews -> "settings" [] view \in VarViews -> "declare"
    [] view \in CaseViews -> "case" [] view = "stream" -> "stream"
    [] view \in ResultViews -> "result" [] view = "batch" -> "batch"
    [] OTHER -> "bodies"

(* What answers the requests of a part; a page of two kinds of requests, or   *)
(* of two handlers, has two.                                                  *)
Answers(n) ==
  CASE view = "reg_jobs" -> \E j \in {"j1", "j2"} : (n = 1 <=> j = "j1") /\ Jobs!Answer(j)
    [] view = "stream" /\ n = 1 -> Server
    [] view = "stream" /\ n = 2 -> Browser
    [] view \in ResultViews /\ n = 2 -> Result!Reruns
    [] view = "result" /\ n = 1 -> Result!Answers
    [] view = "result_late" /\ n = 1 -> Repeat!Answers
    [] n = 2 -> FALSE
    [] view = "reg_rows" -> Gone!Answer("j1")
    [] view = "reg_runs" -> Queue!Answer("j1")
    [] view = "picks" -> Picks!LoadAnswer
    [] view = "picks_load" -> Loads!LoadAnswer
    [] view = "picks_none" -> Several!LoadAnswer
    [] view = "edges" -> Edges!Proceeds
    [] view = "starts" -> Vars!Proceeds
    [] view = "arranged" -> Arranged!Proceeds
    [] view = "suggestions" -> Suggests!Proceeds
    [] view = "text" -> Text!AutoApply
    [] view = "text_known" -> Known!AutoApply
    [] view = "text_field" -> OneField!AutoApply
    [] view = "sources" -> Source!Proceeds("preview")
    [] view = "previews" -> Preview!Proceeds("preview")
    [] view = "makers" -> \E k \in {"draft", "new", "create"} : Makes!Proceeds(k)
    [] view = "case_moves" -> Moves!Answers
    [] view = "case_names" -> CaseNames!Answers
    [] view = "case_generates" -> Generates!Answers
    [] view = "batch" -> Batch!Answers
    [] OTHER -> FALSE

Proceeds(n) == Answers(n) /\ UNCHANGED view

(* The state of the part that is used, the only one that a step changes.      *)
Own ==
  CASE PartOf = "registry" -> rg [] PartOf = "picks" -> pk [] PartOf = "bindings" -> sb
    [] PartOf = "draft" -> sd [] PartOf = "settings" -> rs [] PartOf = "declare" -> vd
    [] PartOf = "case" -> tc [] PartOf = "stream" -> vars [] PartOf = "result" -> rp
    [] PartOf = "batch" -> bp [] OTHER -> rb

(* A request is answered at last, be it by an error, the timer of a text goes *)
(* off, the server runs the steps and the browser reads what it sends.        *)
(* Nothing else is fair: nobody has to click.                                 *)
FairSpec == SpecPages /\ \A n \in 1..2 : WF_Own(Proceeds(n))

-----------------------------------------------------------------------------
(* The types of the variables of every part, with what it never forgets: a    *)
(* timer belongs to a text that was typed, a page that waits has sent a       *)
(* request, the panel of a case is there exactly if a case is shown.          *)
TypesOK ==
  /\ view \in RegistryViews =>
       CASE view = "registry" -> Registry!TypeOK [] view = "reg_items" -> Items!TypeOK
         [] view = "reg_jobs" -> Jobs!TypeOK [] view = "reg_rows" -> Gone!TypeOK
         [] OTHER -> Queue!TypeOK
  /\ view \in PickViews =>
       CASE view = "picks" -> Picks!TypeOK [] view = "picks_load" -> Loads!TypeOK
         [] OTHER -> Several!TypeOK
  /\ view \in BindingViews =>
       CASE view = "edges" -> Edges!TypeOK [] view = "names" -> Names!TypeOK
         [] view = "starts" -> Vars!TypeOK [] view = "arranged" -> Arranged!TypeOK
         [] OTHER -> Suggests!TypeOK
  /\ view \in TextViews =>
       CASE view = "text" -> Text!TypeOK [] view = "text_known" -> Known!TypeOK
         [] OTHER -> OneField!TypeOK
  /\ view \in ChannelViews =>
       CASE view = "channel" -> Channel!TypeOK [] view = "channel_case" -> TypedIn!TypeOK
         [] OTHER -> Declared!TypeOK
  /\ view \in VarViews =>
       CASE view = "sources" -> Source!TypeOK [] view = "previews" -> Preview!TypeOK
         [] OTHER -> Makes!TypeOK
  /\ view \in CaseViews =>
       CASE view = "case_moves" -> Moves!TypeOK [] view = "case_names" -> CaseNames!TypeOK
         [] OTHER -> Generates!TypeOK
  /\ view = "stream" => TypeOK
  /\ view \in ResultViews => IF view = "result" THEN Result!TypeOK ELSE Repeat!TypeOK
  /\ view = "batch" => Batch!TypeOK

(* What a part shows is what was chosen and asked for: the title, the preview *)
(* and the value of an inject are those of the run, the step and the          *)
(* generator that are selected now, whichever older answers come late         *)
(* (ExecutionBatchResult.tsx, TestCase.tsx, CollectionVarDeclareDialog.tsx,   *)
(* scenarioBindings.ts); the run on the page of a result, whose loads are not *)
(* cancelled (ExecutionResult.tsx), is that of the address once the load      *)
(* started last is answered, and no longer when an older answer comes after   *)
(* it; a run that is reported as done has shown all its steps and was run to  *)
(* its end, which is before it is stored.  Each conjunct is a property of a   *)
(* module, stated there.                                                      *)
ShownIsChosen ==
  /\ view = "edges" => Edges!ShownIsGiven
  /\ view = "sources" => Source!AddedIsChosen /\ Source!NamePartIsLocal
  /\ view = "previews" => Preview!AddedIsChosen /\ Preview!PreviewOfChosen
                            /\ Preview!NamePartIsLocal
  /\ view = "makers" => Makes!AddedIsChosen /\ Makes!NamePartIsLocal
  /\ view = "case_moves" => Moves!ShownIsOfUrl /\ Moves!NoteIsOfCall /\ Moves!RowIsOfStep
  /\ view = "case_names" => CaseNames!NamedAreFound
  /\ view = "stream" => DoneShowsAll /\ DoneIsRun
  /\ view = "result" => Result!RunIsOfAddress /\ Result!TitleIsOfRun
  /\ view = "result_late" => Repeat!RunIsOfAddress /\ Repeat!TitleIsOfRun
  /\ view = "batch" => Batch!ListIsOfAddress /\ Batch!PassedIsSo /\ Batch!OneIsShown
                         /\ Batch!OpenIsVisible
  /\ view = "bodies" => Bodies!ShownIsChanged /\ Bodies!EqualSaysSame
                          /\ Bodies!HighlightIsDiff

(* What is kept stays of one piece over saves that fail, rows that are        *)
(* deleted and answers in any order: an item has a row of its own that was    *)
(* defined, a collection its parent, a pin the fingerprint of the version it  *)
(* names, no two variables of a scenario one name, and no text waits without  *)
(* a timer (ScenarioRegistry.tsx, poolCaseLiveRef.ts, scenarioBindings.ts).   *)
RecordsHold ==
  /\ view = "registry" => Registry!ParentsExist /\ Registry!OneItemPerRow /\ Registry!RowsAreDefined
  /\ view = "reg_items" => Items!OneItemPerRow /\ Items!RowsAreDefined
  /\ view = "reg_jobs" => Jobs!OneItemPerRow /\ Jobs!RowsAreDefined
  /\ view = "reg_rows" => Gone!OneItemPerRow /\ Gone!RowsAreDefined
  /\ view = "reg_runs" => Queue!OneItemPerRow /\ Queue!RowsAreDefined
  /\ view = "picks" => Picks!PinsAreServed
  /\ view = "picks_load" => Loads!PinsAreServed
  /\ view = "names" => Names!NamesDiffer
  /\ view = "text" => Text!NothingWaits
  /\ view = "text_known" => Known!NothingWaits
  /\ view = "text_field" => OneField!NothingWaits

(* What is saved and sent is what was meant: the text that stands there, the  *)
(* channel values that were typed or given, a version that only a refresh     *)
(* changes, links that a renaming or an edited variable leaves whole, and a   *)
(* list that shows every scenario again (ScenarioStepPostmanPanel.tsx,        *)
(* scenarioPostmanVariables.ts, extractVarNaming.ts, ScenarioRegistry.tsx).   *)
Sent ==
  /\ view = "channel" => Channel!SentIsComplete /\ Channel!GivenIsSent
  /\ view = "channel_case" => TypedIn!SentIsComplete /\ TypedIn!TypedIsSent /\ TypedIn!OwnVarsAreSent
  /\ view = "channel_vars" => Declared!SentIsComplete /\ Declared!DeclaredIsKept
SentIsMeant ==
  [][/\ Sent'
     /\ view = "registry" => Registry!LoadedScenariosAreListed
     /\ view = "reg_runs" => Queue!LoadedScenariosAreListed
     /\ view = "picks" => Picks!PinsChangeOnRefresh /\ Picks!ReadyIsPinned
     /\ view = "picks_load" => Loads!PinsChangeOnRefresh /\ Loads!ReadyIsPinned
     /\ view = "edges" => Edges!RenamesKeepEdges
     /\ view = "starts" => Vars!PrunedResolve
     /\ view = "arranged" => Arranged!PrunedResolve
     /\ view = "text" => Text!SavesShown /\ Text!AppliesTyped
     /\ view = "text_known" => Known!SavesShown /\ Known!AppliesTyped
     /\ view = "text_field" => OneField!SavesShown /\ OneField!AppliesTyped]_pages

(* What a part waits for. *)
Waiting ==
  \/ view \in {"reg_jobs", "reg_rows", "reg_runs"} /\ rg_job["j1"].at # "idle"
  \/ view \in BindingViews /\ sb_call # None
  \/ view \in TextViews /\ sd_dirty /\ sd_timer
  \/ view \in {"sources", "previews"} /\ Preview!Shown /\ vd_dialog.busy
  \/ view = "makers" /\ vd_maker # None /\ vd_maker.busy
  \/ view \in {"case_moves", "case_names"} /\ tc_loading
  \/ view = "case_generates" /\ tc_generating
  \/ view = "stream" /\ told = "nothing"
  \/ view = "result" /\ rp_loading
  \/ view = "result_late" /\ rp_rerunning
  \/ view = "batch" /\ bp_loading

(* Whatever a part waits for ends, be the request refused, the stream cut or  *)
(* the part closed in between; and the candidates of a wizard are loaded in   *)
(* the end if its user stays with the services, whichever requests fail.      *)
RequestsEnd ==
  /\ Waiting ~> ~Waiting
  /\ <>[](view \in PickViews /\ pk_open /\ pk_step = 1)
       /\ <>[][FALSE]_<<pk_open, pk_step, pk_services>> => <>[]~pk_loading
=============================================================================
