----------------------------- MODULE MC_RulePages -----------------------------
(***************************************************************************)
(* The parts of the browser that are about rules and their samples, each a  *)
(* module of its own, side by side.  They share no state: a part is used    *)
(* alone, chosen at the start, so that one run goes through all of them     *)
(* without the interleavings of parts that do not meet.                     *)
(***************************************************************************)
EXTENDS Integers, Sequences, FiniteSets, TLC

CONSTANTS
  Views,   \* the parts that are used
  None,    \* nothing
  Failed,  \* the answer of a request that failed
  Bad      \* a text that cannot be read

VARIABLES
  view,  \* the part that is used
  rl_order, rl_rules, rl_query, rl_debounced, rl_status, rl_domain, rl_sortKey, rl_page,
  rl_pageSize, rl_registry, rl_loading, rl_error, rl_calls, rl_here, rl_url, rl_stored,
  rl_consumed, rl_saves, rl_sheet, rl_form, rl_jobs, rl_resumed,
  ed_srv, ed_selected, ed_text, ed_baseline, ed_meta, ed_loading, ed_saving,
  ed_toggling, ed_pooling, ed_dialog, ed_calls, ed_had,
  hi_live, hi_draft, hi_snaps, hi_next, hi_item, hi_versions, hi_sel, hi_preview,
  hi_listing, hi_looking, hi_restoring, hi_deleting, hi_look, hi_calls,
  im_open, im_coll, im_env, im_checking, im_warned, im_reads, im_checks, im_jobs,
  tp_pool, tp_sheet, tp_tab, tp_rows, tp_loading, tp_generating, tp_asking, tp_poolRows,
  tp_refresher, tp_session, tp_running, tp_result, tp_picked, tp_calls,
  rf_text, rf_tab, rf_sel, rf_draft, rf_skip, rf_order, rf_fields, rf_open, rf_focus,
  rf_undo, rf_asked, rf_held, rf_checking,
  mi_lines, mi_text,
  dp_pool, dp_tab, dp_filters, dp_loads, dp_loading, dp_rows, dp_sel, dp_details,
  dp_detail, dp_promoting, dp_panel, dp_ingests, dp_left, dp_newest,
  da_now, da_db, da_open, da_pool, da_preset, da_calls, da_kpi, da_exec, da_lists,
  da_rest, da_loading, da_error, da_left, da_newest,
  hp_db, hp_asked, hp_failuresOnly, hp_calls, hp_answer, hp_titleOf, hp_titles,
  hp_loading, hp_error, hp_left, hp_newest

rl == <<rl_order, rl_rules, rl_query, rl_debounced, rl_status, rl_domain, rl_sortKey,
        rl_page, rl_pageSize, rl_registry, rl_loading, rl_error, rl_calls, rl_here,
        rl_url, rl_stored, rl_consumed, rl_saves, rl_sheet, rl_form, rl_jobs, rl_resumed>>
ed == <<ed_srv, ed_selected, ed_text, ed_baseline, ed_meta, ed_loading, ed_saving,
        ed_toggling, ed_pooling, ed_dialog, ed_calls, ed_had>>
hi == <<hi_live, hi_draft, hi_snaps, hi_next, hi_item, hi_versions, hi_sel, hi_preview,
        hi_listing, hi_looking, hi_restoring, hi_deleting, hi_look, hi_calls>>
im == <<im_open, im_coll, im_env, im_checking, im_warned, im_reads, im_checks, im_jobs>>
tp == <<tp_pool, tp_sheet, tp_tab, tp_rows, tp_loading, tp_generating, tp_asking,
        tp_poolRows, tp_refresher, tp_session, tp_running, tp_result, tp_picked, tp_calls>>
rf == <<rf_text, rf_tab, rf_sel, rf_draft, rf_skip, rf_order, rf_fields, rf_open,
        rf_focus, rf_undo, rf_asked, rf_held, rf_checking>>
mi == <<mi_lines, mi_text>>
dp == <<dp_pool, dp_tab, dp_filters, dp_loads, dp_loading, dp_rows, dp_sel, dp_details,
        dp_detail, dp_promoting, dp_panel, dp_ingests, dp_left, dp_newest>>
da == <<da_now, da_db, da_open, da_pool, da_preset, da_calls, da_kpi, da_exec, da_lists,
        da_rest, da_loading, da_error, da_left, da_newest>>
hp == <<hp_db, hp_asked, hp_failuresOnly, hp_calls, hp_answer, hp_titleOf, hp_titles,
        hp_loading, hp_error, hp_left, hp_newest>>
vars == <<view, rl, ed, hi, im, tp, rf, mi, dp, da, hp>>

DomainOf == [s \in 1..3 |-> IF s = 1 THEN "LOAN" ELSE "DEPOSIT"]
Rank == [k \in {"code_asc", "name_asc", "updated_desc", "rules_desc"} |-> [s \in 1..3 |->
           CASE k = "code_asc" -> s [] k = "name_asc" -> 4 - s [] OTHER -> 1]]

(* c1 is in nobody's way, c2 replaces the draft of a service; with the       *)
(* environment, both match another service that has a draft.                 *)
Drafted == [p \in {"c1", "c2"} \X {"e1", None} |->
              (IF p[1] = "c2" THEN {"sA"} ELSE {}) \cup (IF p[2] = "e1" THEN {"sB"} ELSE {})]

R(k, n, x) == [kind |-> k, num |-> n, val |-> x]
Docs == {<<R("N", 1, "v"), R("E", 1, "w")>>}
TwoDocs == Docs \cup {<<R("N", 1, "w"), R("N", 2, "v"), R("E", 1, "v")>>}
Old(s) == [svc |-> s, text |-> IF s = "s1" THEN "t1" ELSE "t2"]

(* The documents of each service. *)
Written == [s \in {"s1", "s2"} |-> IF s = "s1" THEN {"a1", "a2"} ELSE {"b1"}]

Drafts2 == [s \in {"s1", "s2"} |-> [text |-> IF s = "s1" THEN "a1" ELSE "b1",
                                    draft |-> TRUE, live |-> FALSE, pool |-> FALSE]]

Raws == {<<R("E", 1, "w"), R("N", 1, "v")>>, <<R("N", 1, "w")>>, <<>>}

Within == [plain |-> {"a", ":"}, single |-> {"a", "'"}, double |-> {"a", "dq", "bs"}]

KindOf == <<"happy", "negative", "happy">>
SourceOf == <<"paste", "paste", "bulk">>
ServiceOf == <<"PY", "QX", "PY">>
Hits == [w \in {"w"} |-> {1, 2}]
PasteOf == [t |-> <<1, 2>>, u |-> <<>>]
BulkOf == [t |-> <<3>>, u |-> <<>>]

Days == [T |-> 1, W |-> 2]
Line == [top |-> None, mid |-> "top", low |-> "mid"]
Entry(s, f, ready, bound) == [backend |-> s, folder |-> f, ready |-> ready, bound |-> bound]
Entries == <<Entry("a", "low", TRUE, TRUE), Entry("b", "top", FALSE, FALSE),
             Entry(None, "mid", FALSE, TRUE)>>
Ran(s, t, f) == [scn |-> s, at |-> t, failed |-> f, ended |-> TRUE]
(* A run of yesterday failed, one of today passed. *)
TwoRuns == <<Ran("a", 3, FALSE), Ran("b", 1, TRUE)>>
Amounts == [happy : 0..1, negative : 0..1]
OnePool == {[v \in {"x"} |-> [happy |-> 1, negative |-> 1]]}

PeriodDays == [T |-> {1}, W |-> {0, 1}]
Row(d, s, f) == [day |-> d, scn |-> s, failed |-> f]
Several == {<<Row(1, "a", FALSE), Row(1, "b", TRUE), Row(0, "a", TRUE), Row(0, "b", FALSE)>>}
Many == {[i \in 1..n |-> Row(1, "a", FALSE)] : n \in 0..7}

-----------------------------------------------------------------------------
(* The list of the rules. *)
List == INSTANCE RulesList WITH
  Svc <- 1..2, Found <- {1}, Limit <- 1, Sizes <- {1}, Uses <- {"filter"},
  MaxCalls <- 1, MaxSaves <- 0, order <- rl_order, rules <- rl_rules, query <- rl_query,
  debounced <- rl_debounced, status <- rl_status, domain <- rl_domain,
  sortKey <- rl_sortKey, page <- rl_page, pageSize <- rl_pageSize,
  registry <- rl_registry, loading <- rl_loading, error <- rl_error, calls <- rl_calls,
  here <- rl_here, url <- rl_url, stored <- rl_stored, consumed <- rl_consumed,
  saves <- rl_saves, sheet <- rl_sheet, form <- rl_form, jobs <- rl_jobs,
  resumed <- rl_resumed
Table == INSTANCE RulesList WITH
  Svc <- 1..3, Found <- {1}, Limit <- 2, Sizes <- {2}, Uses <- {"pages"}, MaxCalls <- 1,
  MaxSaves <- 0, order <- rl_order, rules <- rl_rules, query <- rl_query,
  debounced <- rl_debounced, status <- rl_status, domain <- rl_domain,
  sortKey <- rl_sortKey, page <- rl_page, pageSize <- rl_pageSize,
  registry <- rl_registry, loading <- rl_loading, error <- rl_error, calls <- rl_calls,
  here <- rl_here, url <- rl_url, stored <- rl_stored, consumed <- rl_consumed,
  saves <- rl_saves, sheet <- rl_sheet, form <- rl_form, jobs <- rl_jobs,
  resumed <- rl_resumed
Back == INSTANCE RulesList WITH
  Svc <- 1..2, Found <- {1}, Limit <- 2, Sizes <- {2}, Uses <- {"resume"},
  MaxCalls <- 1, MaxSaves <- 1, order <- rl_order, rules <- rl_rules, query <- rl_query,
  debounced <- rl_debounced, status <- rl_status, domain <- rl_domain,
  sortKey <- rl_sortKey, page <- rl_page, pageSize <- rl_pageSize,
  registry <- rl_registry, loading <- rl_loading, error <- rl_error, calls <- rl_calls,
  here <- rl_here, url <- rl_url, stored <- rl_stored, consumed <- rl_consumed,
  saves <- rl_saves, sheet <- rl_sheet, form <- rl_form, jobs <- rl_jobs,
  resumed <- rl_resumed
Drafts == INSTANCE RulesList WITH
  Svc <- 1..1, Found <- {1}, Limit <- 1, Sizes <- {1},
  Uses <- {"resume", "ai", "others"}, MaxCalls <- 2, MaxSaves <- 1, order <- rl_order,
  rules <- rl_rules, query <- rl_query, debounced <- rl_debounced, status <- rl_status,
  domain <- rl_domain, sortKey <- rl_sortKey, page <- rl_page, pageSize <- rl_pageSize,
  registry <- rl_registry, loading <- rl_loading, error <- rl_error, calls <- rl_calls,
  here <- rl_here, url <- rl_url, stored <- rl_stored, consumed <- rl_consumed,
  saves <- rl_saves, sheet <- rl_sheet, form <- rl_form, jobs <- rl_jobs,
  resumed <- rl_resumed

(* The sheet of a service. *)
Editor == INSTANCE RulesEditor WITH
  Svc <- {"s1", "s2"}, Text <- {"blank", "a1", "a2", "b1"}, Blank <- "blank",
  TextOf <- Written, Uses <- {"load", "activate", "toggle", "materialize"}, MaxCalls <- 1, srv <- ed_srv,
  selected <- ed_selected, text <- ed_text, baseline <- ed_baseline, meta <- ed_meta,
  loading <- ed_loading, saving <- ed_saving, toggling <- ed_toggling,
  pooling <- ed_pooling, dialog <- ed_dialog, calls <- ed_calls, had <- ed_had
Saves == INSTANCE RulesEditor WITH
  Svc <- {"s1", "s2"}, Text <- {"blank", "a1", "a2", "b1"}, Blank <- "blank",
  TextOf <- Written, Uses <- {"load", "save"}, MaxCalls <- 2,
  srv <- ed_srv, selected <- ed_selected, text <- ed_text, baseline <- ed_baseline,
  meta <- ed_meta, loading <- ed_loading, saving <- ed_saving, toggling <- ed_toggling,
  pooling <- ed_pooling, dialog <- ed_dialog, calls <- ed_calls, had <- ed_had

(* The versions of a service. *)
History == INSTANCE RulesHistory WITH
  Svc <- {"s1"}, Text <- {"t1", "t2"}, RowId <- [s \in {"s1"} |-> 3], MaxId <- 2,
  Uses <- {"list", "restore", "delete", "others"}, MaxCalls <- 1, live <- hi_live,
  draft <- hi_draft, snaps <- hi_snaps, next <- hi_next, item <- hi_item,
  versions <- hi_versions, sel <- hi_sel, preview <- hi_preview, listing <- hi_listing,
  looking <- hi_looking, restoring <- hi_restoring, deleting <- hi_deleting,
  look <- hi_look, calls <- hi_calls
Both == INSTANCE RulesHistory WITH
  Svc <- {"s1", "s2"}, Text <- {"t1", "t2"}, RowId <- [s \in {"s1", "s2"} |-> 3],
  MaxId <- 3, Uses <- {"list", "restore"}, MaxCalls <- 2, live <- hi_live,
  draft <- hi_draft, snaps <- hi_snaps, next <- hi_next, item <- hi_item,
  versions <- hi_versions, sel <- hi_sel, preview <- hi_preview, listing <- hi_listing,
  looking <- hi_looking, restoring <- hi_restoring, deleting <- hi_deleting,
  look <- hi_look, calls <- hi_calls

(* The dialog of the Postman import. *)
Import == INSTANCE ImportDialog WITH
  Coll <- {"c1", "c2"}, Env <- {"e1"}, Junk <- "junk", Svc <- {"sA", "sB"},
  MaxReads <- 1, MaxChecks <- 1, MaxJobs <- 1, open <- im_open, coll <- im_coll,
  env <- im_env, checking <- im_checking, warned <- im_warned, reads <- im_reads,
  checks <- im_checks, jobs <- im_jobs

(* The testcases of a service. *)
Pool == INSTANCE TestPool WITH
  Svc <- {"s1", "s2"}, Case <- {"k1"}, Uses <- {"list", "generate", "one"},
  MaxCalls <- 1, pool <- tp_pool, sheet <- tp_sheet, tab <- tp_tab, rows <- tp_rows,
  loading <- tp_loading, generating <- tp_generating, asking <- tp_asking,
  poolRows <- tp_poolRows, refresher <- tp_refresher, session <- tp_session,
  running <- tp_running, result <- tp_result, picked <- tp_picked, calls <- tp_calls
Runs == INSTANCE TestPool WITH
  Svc <- {"s1"}, Case <- {"k1", "k2"}, Uses <- {"list", "run"}, MaxCalls <- 2,
  pool <- tp_pool, sheet <- tp_sheet, tab <- tp_tab, rows <- tp_rows,
  loading <- tp_loading, generating <- tp_generating, asking <- tp_asking,
  poolRows <- tp_poolRows, refresher <- tp_refresher, session <- tp_session,
  running <- tp_running, result <- tp_result, picked <- tp_picked, calls <- tp_calls

(* The source and the forms of a document. *)
Rows == INSTANCE RuleForms WITH
  Val <- {"v", "w"}, Blank <- "v", Docs <- Docs, Raw <- Raws,
  Uses <- {"form", "add", "delete", "drag"}, MaxRules <- 2, MaxNum <- 3, UndoLimit <- 1,
  text <- rf_text, tab <- rf_tab, sel <- rf_sel, draft <- rf_draft, skip <- rf_skip,
  order <- rf_order, fields <- rf_fields, open <- rf_open, focus <- rf_focus,
  undo <- rf_undo, asked <- rf_asked, held <- rf_held, checking <- rf_checking
Drags == INSTANCE RuleForms WITH
  Val <- {"v"}, Blank <- "v", Docs <- {<<R("N", 1, "v"), R("E", 1, "v")>>}, Raw <- {},
  Uses <- {"form", "add", "drag"}, MaxRules <- 3, MaxNum <- 2, UndoLimit <- 1,
  text <- rf_text, tab <- rf_tab, sel <- rf_sel, draft <- rf_draft, skip <- rf_skip,
  order <- rf_order, fields <- rf_fields, open <- rf_open, focus <- rf_focus,
  undo <- rf_undo, asked <- rf_asked, held <- rf_held, checking <- rf_checking
Source == INSTANCE RuleForms WITH
  Val <- {"v", "w"}, Blank <- "v", Docs <- TwoDocs, Raw <- Raws,
  Uses <- {"case", "document"}, MaxRules <- 3, MaxNum <- 2, UndoLimit <- 1,
  text <- rf_text, tab <- rf_tab, sel <- rf_sel, draft <- rf_draft, skip <- rf_skip,
  order <- rf_order, fields <- rf_fields, open <- rf_open, focus <- rf_focus,
  undo <- rf_undo, asked <- rf_asked, held <- rf_held, checking <- rf_checking
Forms == INSTANCE RuleForms WITH
  Val <- {"v", "w"}, Blank <- "v", Docs <- Docs, Raw <- Raws,
  Uses <- {"form", "add", "format", "check", "reload", "case", "document"},
  MaxRules <- 2, MaxNum <- 2, UndoLimit <- 1, text <- rf_text, tab <- rf_tab,
  sel <- rf_sel, draft <- rf_draft, skip <- rf_skip, order <- rf_order,
  fields <- rf_fields, open <- rf_open, focus <- rf_focus, undo <- rf_undo,
  asked <- rf_asked, held <- rf_held, checking <- rf_checking

(* Macros in the text of a document. *)
Yaml == INSTANCE MacroInsert WITH
  Style <- {"plain", "single", "double"}, MaxLines <- 2, MaxLen <- 1, Dq <- "dq",
  Sq <- "'", Bs <- "bs", Nl <- "nl", Colon <- ":", Space <- "sp", Name <- "k",
  Token <- "macro", Json <- FALSE, lines <- mi_lines, text <- mi_text
Json == INSTANCE MacroInsert WITH
  Style <- {"double"}, MaxLines <- 2, MaxLen <- 2, Dq <- "dq", Sq <- "'", Bs <- "bs",
  Nl <- "nl", Colon <- ":", Space <- "sp", Name <- "k", Token <- "macro", Json <- TRUE,
  lines <- mi_lines, text <- mi_text

(* The pool of samples, and the logs it is filled from. *)
Pooled == INSTANCE DataPoolPage WITH
  Samples <- 1..3, PathKinds <- {"negative"}, Sources <- {"paste"}, Words <- {"w"},
  ListLimit <- 3, CoverLimit <- 2, Texts <- {"t"}, Pools0 <- {<<2, 1>>}, MaxSteps <- 3,
  Uses <- {"filter", "query", "search", "select", "promote", "tab"},
  pool <- dp_pool, tab <- dp_tab, filters <- dp_filters, loads <- dp_loads,
  loading <- dp_loading, rows <- dp_rows, sel <- dp_sel, details <- dp_details,
  detail <- dp_detail, promoting <- dp_promoting, panel <- dp_panel,
  ingests <- dp_ingests, left <- dp_left, newest <- dp_newest
Late == INSTANCE DataPoolPage WITH
  Samples <- 1..3, PathKinds <- {}, Sources <- {}, Words <- {}, ListLimit <- 3,
  CoverLimit <- 2, Texts <- {"t", "u"}, Pools0 <- {<<2, 1>>}, MaxSteps <- 3,
  Uses <- {"fail", "loadfail", "select", "promote", "tab", "sub", "parse", "bulk"},
  pool <- dp_pool, tab <- dp_tab, filters <- dp_filters, loads <- dp_loads,
  loading <- dp_loading, rows <- dp_rows, sel <- dp_sel, details <- dp_details,
  detail <- dp_detail, promoting <- dp_promoting, panel <- dp_panel,
  ingests <- dp_ingests, left <- dp_left, newest <- dp_newest
Logs == INSTANCE DataPoolPage WITH
  Samples <- 1..3, PathKinds <- {"negative"}, Sources <- {"paste"}, Words <- {"w"},
  ListLimit <- 3, CoverLimit <- 2, Texts <- {"t", "u"}, Pools0 <- {<<>>, <<2, 1>>},
  MaxSteps <- 5, Uses <- {"filter", "tab", "sub", "parse", "bulk", "fail"},
  pool <- dp_pool, tab <- dp_tab, filters <- dp_filters, loads <- dp_loads,
  loading <- dp_loading, rows <- dp_rows, sel <- dp_sel, details <- dp_details,
  detail <- dp_detail, promoting <- dp_promoting, panel <- dp_panel,
  ingests <- dp_ingests, left <- dp_left, newest <- dp_newest

(* The dashboard. *)
Counts == INSTANCE Dashboard WITH
  Hours <- 2, Days <- Days, Today <- "T", Limit <- 3,
  Folders <- {"top", "mid", "low"}, Parent <- Line, Registry <- Entries,
  Scenarios <- {"a", "b"}, CoverLimit <- 3, BarLimit <- 1, Runs0 <- <<>>, Now0 <- 1,
  MaxRuns <- 2, MaxNow <- 2, MaxLoads <- 0, Kinds <- {"run", "time"},
  Pools <- OnePool, now <- da_now, db <- da_db, open <- da_open, pool <- da_pool,
  preset <- da_preset, calls <- da_calls, kpi <- da_kpi, exec <- da_exec,
  lists <- da_lists, rest <- da_rest, loading <- da_loading, error <- da_error,
  left <- da_left, newest <- da_newest
Dash == INSTANCE Dashboard WITH
  Hours <- 2, Days <- Days, Today <- "T", Limit <- 3,
  Folders <- {"top", "mid", "low"}, Parent <- Line, Registry <- Entries,
  Scenarios <- {"a", "b"}, CoverLimit <- 3, BarLimit <- 1, Runs0 <- TwoRuns, Now0 <- 3,
  MaxRuns <- 3, MaxNow <- 3, MaxLoads <- 2, Kinds <- {},
  Pools <- OnePool, now <- da_now, db <- da_db, open <- da_open, pool <- da_pool,
  preset <- da_preset, calls <- da_calls, kpi <- da_kpi, exec <- da_exec,
  lists <- da_lists, rest <- da_rest, loading <- da_loading, error <- da_error,
  left <- da_left, newest <- da_newest
Slow == INSTANCE Dashboard WITH
  Hours <- 2, Days <- Days, Today <- "T", Limit <- 3,
  Folders <- {"top", "mid", "low"}, Parent <- Line, Registry <- Entries,
  Scenarios <- {"a", "b"}, CoverLimit <- 3, BarLimit <- 1, Runs0 <- TwoRuns, Now0 <- 3,
  MaxRuns <- 3, MaxNow <- 3, MaxLoads <- 1, Kinds <- {"fail"},
  Pools <- OnePool, now <- da_now, db <- da_db, open <- da_open, pool <- da_pool,
  preset <- da_preset, calls <- da_calls, kpi <- da_kpi, exec <- da_exec,
  lists <- da_lists, rest <- da_rest, loading <- da_loading, error <- da_error,
  left <- da_left, newest <- da_newest
Covers == INSTANCE Dashboard WITH
  Hours <- 2, Days <- Days, Today <- "T", Limit <- 3,
  Folders <- {"top", "mid", "low"}, Parent <- Line, Registry <- Entries,
  Scenarios <- {"a", "b"}, CoverLimit <- 3, BarLimit <- 1, Runs0 <- TwoRuns, Now0 <- 3,
  MaxRuns <- 3, MaxNow <- 3, MaxLoads <- 0, Kinds <- {"fail"},
  Pools <- [{"x", "y", "z"} -> Amounts], now <- da_now, db <- da_db, open <- da_open,
  pool <- da_pool, preset <- da_preset, calls <- da_calls, kpi <- da_kpi,
  exec <- da_exec, lists <- da_lists, rest <- da_rest, loading <- da_loading,
  error <- da_error, left <- da_left, newest <- da_newest

(* The list of the runs. *)
Asked == INSTANCE HistoryPage WITH
  DaysOf <- PeriodDays, Window <- 5, Periods <- {"T", "W"}, Scenarios <- {"a", "b"},
  Sizes <- {1, 2}, MaxRuns <- 4, MaxSteps <- 3,
  Kinds <- {"scenario", "size", "failures"}, Runs0 <- Several, db <- hp_db,
  asked <- hp_asked, failuresOnly <- hp_failuresOnly, calls <- hp_calls,
  answer <- hp_answer, titleOf <- hp_titleOf, titles <- hp_titles,
  loading <- hp_loading, error <- hp_error, left <- hp_left, newest <- hp_newest
Failing == INSTANCE HistoryPage WITH
  DaysOf <- PeriodDays, Window <- 5, Periods <- {"T", "W"}, Scenarios <- {"a"},
  Sizes <- {1}, MaxRuns <- 2, MaxSteps <- 2,
  Kinds <- {"fail", "run", "scenario", "failures"},
  Runs0 <- {<<>>, <<Row(1, "a", TRUE)>>}, db <- hp_db, asked <- hp_asked,
  failuresOnly <- hp_failuresOnly, calls <- hp_calls, answer <- hp_answer,
  titleOf <- hp_titleOf, titles <- hp_titles, loading <- hp_loading, error <- hp_error,
  left <- hp_left, newest <- hp_newest
Pages == INSTANCE HistoryPage WITH
  DaysOf <- PeriodDays, Window <- 5, Periods <- {"T"}, Scenarios <- {"a"},
  Sizes <- {1, 2}, MaxRuns <- 5, MaxSteps <- 2,
  Kinds <- {"size", "run"}, Runs0 <- Many, db <- hp_db, asked <- hp_asked,
  failuresOnly <- hp_failuresOnly, calls <- hp_calls, answer <- hp_answer,
  titleOf <- hp_titleOf, titles <- hp_titles, loading <- hp_loading, error <- hp_error,
  left <- hp_left, newest <- hp_newest

-----------------------------------------------------------------------------
(* One part is used; the others rest as they were opened. *)
Init ==
  /\ view \in Views
  /\ CASE view = "list" -> List!Init
       [] view = "list_pages" -> Table!Init
       [] view = "list_resume" -> Back!Init
       [] view = "list_drafts" -> Drafts!Init
       [] OTHER -> /\ rl_order = <<>> /\ rl_rules = [s \in 1..2 |-> [draft |-> FALSE, applied |-> FALSE]]
                   /\ List!Init
  /\ CASE view = "editor" -> /\ ed_srv \in {[Drafts2 EXCEPT !["s1"] = r] : r \in Editor!Server}
                              /\ Editor!Init
       [] view = "editor_saves" -> ed_srv = Drafts2 /\ Saves!Init
       [] OTHER -> ed_srv = Drafts2 /\ Editor!Init
  /\ CASE view = "history" -> History!Init
       [] view = "history_two" -> hi_live = [s \in {"s1", "s2"} |-> "t1"] /\ hi_snaps = <<Old("s1"), Old("s2")>> /\ Both!Init
       [] OTHER -> /\ hi_live = [s \in {"s1"} |-> "t1"] /\ hi_snaps = <<[svc |-> "s1", text |-> "t1"]>>
                   /\ History!Init
  /\ Import!Init
  /\ CASE view = "pool" -> Pool!Init
       [] view = "pool_runs" -> Runs!Init
       [] OTHER -> /\ tp_pool = [s \in {"s1", "s2"} |-> {}]
                   /\ Pool!Init
  /\ CASE view = "form_drag" -> Drags!Init
       [] view = "form_source" -> Source!Init
       [] view = "form" -> Forms!Init
       [] OTHER -> Rows!Init
  /\ CASE view = "macro_json" -> Json!Init
       [] OTHER -> Yaml!Init
  /\ CASE view = "samples" -> Pooled!Init
       [] view = "late" -> Late!Init
       [] view = "ingest" -> Logs!Init
       [] OTHER -> /\ dp_tab = "samples"
                   /\ Pooled!Init
  /\ CASE view = "dash_counts" -> Counts!Init
       [] view = "dash_order" -> Dash!Init
       [] view = "dash_late" -> Slow!Init
       [] view = "dash_covers" -> Covers!Init
       [] OTHER -> /\ da_preset = "T"
                   /\ Counts!Init
  /\ CASE view = "exec_late" -> Failing!Init
       [] view = "exec_pages" -> Pages!Init
       [] OTHER -> Asked!Init

Parts == {"list", "editor", "history", "import", "pool", "form", "macro", "samples", "dashboard", "executions"}

Still(p) ==
  CASE p = "list" -> UNCHANGED rl
    [] p = "editor" -> UNCHANGED ed
    [] p = "history" -> UNCHANGED hi
    [] p = "import" -> UNCHANGED im
    [] p = "pool" -> UNCHANGED tp
    [] p = "form" -> UNCHANGED rf
    [] p = "macro" -> UNCHANGED mi
    [] p = "samples" -> UNCHANGED dp
    [] p = "dashboard" -> UNCHANGED da
    [] p = "executions" -> UNCHANGED hp

Only(p) == UNCHANGED view /\ \A q \in Parts \ {p} : Still(q)

Next ==
  \/ /\ \/ view = "list" /\ List!Next
        \/ view = "list_pages" /\ Table!Next
        \/ view = "list_resume" /\ Back!Next
        \/ view = "list_drafts" /\ Drafts!Next
     /\ Only("list")
  \/ /\ \/ view = "editor" /\ Editor!Next
        \/ view = "editor_saves" /\ Saves!Next
     /\ Only("editor")
  \/ /\ \/ view = "history" /\ History!Next
        \/ view = "history_two" /\ Both!Next
     /\ Only("history")
  \/ /\ view = "import"
     /\ Import!Next
     /\ Only("import")
  \/ /\ \/ view = "pool" /\ Pool!Next
        \/ view = "pool_runs" /\ Runs!Next
     /\ Only("pool")
  \/ /\ \/ view = "form_rows" /\ Rows!Next
        \/ view = "form_drag" /\ Drags!Next
        \/ view = "form_source" /\ Source!Next
        \/ view = "form" /\ Forms!Next
     /\ Only("form")
  \/ /\ \/ view = "macro_yaml" /\ Yaml!Next
        \/ view = "macro_json" /\ Json!Next
     /\ Only("macro")
  \/ /\ \/ view = "samples" /\ Pooled!Next
        \/ view = "late" /\ Late!Next
        \/ view = "ingest" /\ Logs!Next
     /\ Only("samples")
  \/ /\ \/ view = "dash_counts" /\ Counts!Next
        \/ view = "dash_order" /\ Dash!Next
        \/ view = "dash_late" /\ Slow!Next
        \/ view = "dash_covers" /\ Covers!Next
     /\ Only("dashboard")
  \/ /\ \/ view = "executions" /\ Asked!Next
        \/ view = "exec_late" /\ Failing!Next
        \/ view = "exec_pages" /\ Pages!Next
     /\ Only("executions")

Spec == Init /\ [][Next]_vars

-----------------------------------------------------------------------------
(* The views of each part. *)
ListViews == {"list", "list_pages", "list_resume", "list_drafts"}
EditorViews == {"editor", "editor_saves"}
HistoryViews == {"history", "history_two"}
PoolViews == {"pool", "pool_runs"}
FormViews == {"form_rows", "form_drag", "form_source", "form"}
MacroViews == {"macro_yaml", "macro_json"}
SampleViews == {"samples", "late", "ingest"}
DashViews == {"dash_counts", "dash_order", "dash_late", "dash_covers"}
ExecViews == {"executions", "exec_late", "exec_pages"}

(* The requests whose answers a part waits for. *)
Requests ==
  CASE view \in EditorViews -> <<"save", "activate">>
    [] view \in HistoryViews -> <<"restore">>
    [] view \in PoolViews -> <<"generate">>
    [] view = "late" -> <<"promote">>
    [] view = "ingest" -> <<"store">>
    [] OTHER -> <<"load">>

(* What the server and the handler of the part do about such a request. *)
Answers(k) ==
  CASE view = "list" -> List!Proceeds
    [] view = "list_pages" -> Table!Proceeds
    [] view = "list_resume" -> Back!Proceeds
    [] view = "list_drafts" -> Drafts!Proceeds
    [] view = "editor" -> Editor!Proceeds(k)
    [] view = "editor_saves" -> Saves!Proceeds(k)
    [] view = "history" -> History!Proceeds(k)
    [] view = "history_two" -> Both!Proceeds(k)
    [] view = "import" -> Import!Proceeds
    [] view = "pool" -> Pool!Proceeds(k)
    [] view = "pool_runs" -> Runs!Proceeds(k)
    [] view = "samples" -> Pooled!Answers
    [] view = "late" -> Late!PromoteEnds
    [] view = "ingest" -> Logs!IngestSteps
    [] view = "dash_counts" -> Counts!Answers
    [] view = "dash_order" -> Dash!Answers
    [] view = "dash_late" -> Slow!Answers
    [] view = "dash_covers" -> Covers!Answers
    [] view = "executions" -> Asked!Answers
    [] view = "exec_late" -> Failing!Answers
    [] view = "exec_pages" -> Pages!Answers
    [] OTHER -> FALSE

PartOf ==
  CASE view \in ListViews -> "list" [] view \in EditorViews -> "editor"
    [] view \in HistoryViews -> "history" [] view = "import" -> "import"
    [] view \in PoolViews -> "pool" [] view \in FormViews -> "form"
    [] view \in MacroViews -> "macro" [] view \in SampleViews -> "samples"
    [] view \in DashViews -> "dashboard" [] OTHER -> "executions"

Proceeds(n) == n \in DOMAIN Requests /\ Answers(Requests[n]) /\ UNCHANGED view

(* The state of the part that is used, the only one that a step changes.      *)
Own ==
  CASE PartOf = "list" -> rl [] PartOf = "editor" -> ed [] PartOf = "history" -> hi
    [] PartOf = "import" -> im [] PartOf = "pool" -> tp [] PartOf = "form" -> rf
    [] PartOf = "macro" -> mi [] PartOf = "samples" -> dp [] PartOf = "dashboard" -> da
    [] OTHER -> hp

(* Such a request is answered at last, be it by an error.  Nothing else is    *)
(* fair: nobody has to click, and the other requests may never be answered.   *)
FairSpec == Spec /\ \A n \in 1..2 : WF_Own(Proceeds(n))

-----------------------------------------------------------------------------
(* The types of the variables of every part, with what it never forgets: a    *)
(* part that waits has a request under way, a dialog that is closed is not    *)
(* left marked as busy (closePanel, handleClose, onOpenChange).               *)
TypeOK ==
  /\ view \in ListViews =>
       CASE view = "list" -> List!TypeOK [] view = "list_pages" -> Table!TypeOK
         [] view = "list_resume" -> Back!TypeOK [] OTHER -> Drafts!TypeOK
  /\ view = "editor" => Editor!TypeOK
  /\ view = "editor_saves" => Saves!TypeOK
  /\ view = "history" => History!TypeOK
  /\ view = "history_two" => Both!TypeOK
  /\ view = "import" => Import!TypeOK
  /\ view = "pool" => Pool!TypeOK
  /\ view = "pool_runs" => Runs!TypeOK
  /\ view = "form_rows" => Rows!TypeOK
  /\ view = "form_drag" => Drags!TypeOK
  /\ view = "form_source" => Source!TypeOK
  /\ view = "form" => Forms!TypeOK
  /\ view = "samples" => Pooled!TypeOK
  /\ view = "late" => Late!TypeOK
  /\ view = "ingest" => Logs!TypeOK
  /\ view \in DashViews =>
       CASE view = "dash_counts" -> Counts!TypeOK [] view = "dash_order" -> Dash!TypeOK
         [] view = "dash_late" -> Slow!TypeOK [] OTHER -> Covers!TypeOK
  /\ view \in ExecViews =>
       CASE view = "executions" -> Asked!TypeOK [] view = "exec_late" -> Failing!TypeOK
         [] OTHER -> Pages!TypeOK


(* What a step writes is what was meant: a sheet is closed with edits that    *)
(* the server never held only when that was asked for, also when answers for  *)
(* another service came into it (RulesMeta.tsx), a restore                    *)
(* takes the text of the version that was chosen (service_rules_service.py),  *)
(* files that are dropped add up (PostmanRulesImportDialog.tsx), an undo, a blur *)
(* and an addition act on the case in front (YamlRulesFieldsForm.tsx).        *)
WritesAreMeant ==
  [][/\ view = "editor" => Editor!NoSilentLoss
     /\ view = "editor_saves" => Saves!NoSilentLoss
     /\ view = "history" => History!RestoresOwn
     /\ view = "history_two" => Both!RestoresOwn
     /\ view = "import" => Import!SlotsAddUp
     /\ view = "form_rows" => Rows!AddedIsOpen /\ Rows!AppliesToShown /\ Rows!UndoIsOwn
     /\ view = "form" => Forms!AppliesToShown /\ Forms!UndoIsOwn]_vars

(* What a part waits for. *)
Waiting ==
  \/ view \in ListViews /\ rl_loading
  \/ view \in EditorViews /\ ed_saving
  \/ view \in HistoryViews /\ hi_restoring
  \/ view = "import" /\ im_checking
  \/ view \in PoolViews /\ tp_generating
  \/ view = "samples" /\ dp_loading /\ dp_tab = "samples"
  \/ view = "late" /\ dp_promoting # None
  \/ view = "ingest" /\ dp_panel.busy
  \/ view \in DashViews /\ da_loading
  \/ view \in ExecViews /\ hp_loading

(* Whatever a part waits for ends, be the request refused, or lost by a part  *)
(* that was closed in between (the finally blocks of the handlers).           *)
RequestsEnd == Waiting ~> ~Waiting
=============================================================================
