---------------------------- MODULE DataPoolPage ----------------------------
(***************************************************************************)
(* The page of the data pool (DataPool.tsx): a list of samples by filters, *)
(* the details of the selected one, its promotion, and a second tab that   *)
(* takes logs in (LogIngestPanel.tsx).  A change of a filter loads the     *)
(* list; the search text is sent only when it is asked for.  Loads are not *)
(* cancelled, are answered in any order, and the last answer is shown.     *)
(* The tab of the logs is gone when the other one is shown, its requests   *)
(* are not; one that stored something shows the list, with the filters of  *)
(* the click.                                                              *)
(***************************************************************************)
EXTENDS Naturals, Sequences, FiniteSets

CONSTANTS
  Samples, KindOf, SourceOf, ServiceOf,  \* the samples and what filters ask of them
  PathKinds, Sources, Words, Hits,       \* values of filters; word -> samples it finds
  Texts, PasteOf, BulkOf,                \* logs, and the samples each holds: sequences
  Pools0,                                \* pools at the start, last seen first
  ListLimit, CoverLimit,                 \* rows and services a load asks for
  MaxSteps,                              \* bound on what the user does
  Uses,                                  \* what is done, see the actions
  None

VARIABLES pool, tab, filters, loads, loading, rows, sel, details, detail, promoting,
          panel, ingests, left,
          newest  \* of the last load of the list's own filters: "asked", "shown", or "past"
                  \* once it failed, or another answer or an older click's load comes after it

vars == <<pool, tab, filters, loads, loading, rows, sel, details, detail, promoting,
          panel, ingests, left, newest>>
list == <<filters, loads, loading, rows, newest>>
shown == <<sel, details, detail>>

Opt(S) == S \cup {None}
Filters == [kind : Opt(PathKinds), source : Opt(Sources), query : Opt(Words)]

(* list_samples: the rows that fit, last seen first; and the services counted. *)
Fits(f, s) ==
  /\ f.kind # None => KindOf[s] = f.kind
  /\ f.source # None => SourceOf[s] = f.source
  /\ f.query # None => s \in Hits[f.query]
Least(m, n) == IF m < n THEN m ELSE n
ItemsOf(f) ==
  LET all == SelectSeq(pool, LAMBDA s : Fits(f, s))
  IN SubSeq(all, 1, Least(ListLimit, Len(all)))
Services(p) == {ServiceOf[p[i]] : i \in DOMAIN p}
AnswerTo(f) ==
  [asked |-> f, items |-> ItemsOf(f), total |-> Len(pool),
   services |-> Least(CoverLimit, Cardinality(Services(pool)))]

(* upsert: a sample that was seen again is the last one seen. *)
Upserted(p, ss) ==
  [i \in 1..Len(ss) |-> ss[Len(ss) + 1 - i]]
    \o SelectSeq(p, LAMBDA s : \A i \in DOMAIN ss : ss[i] # s)

NoFilter == [kind |-> None, source |-> None, query |-> None]
(* The panel as it is mounted. *)
Fresh == [sub |-> "paste", text |-> None, preview |-> None, result |-> None, busy |-> FALSE]

(* A load and what its closure holds: the filters and the selection. *)
LoadNow == [asked |-> filters, sel |-> sel]
Loads(ks) == loads' = loads \o ks /\ newest' = "asked" /\ loading' = TRUE

Init ==
  /\ pool \in Pools0 /\ tab \in {"samples", "ingest"}
  /\ filters = NoFilter /\ sel = None /\ detail = None /\ details = {}
  /\ loads = (IF tab = "samples" THEN <<[asked |-> NoFilter, sel |-> None]>> ELSE <<>>)
  /\ newest = (IF tab = "samples" THEN "asked" ELSE "past") /\ loading = TRUE
  /\ rows = [asked |-> NoFilter, items |-> <<>>, total |-> 0, services |-> 0]
  /\ promoting = None /\ panel = Fresh /\ ingests = {} /\ left = MaxSteps

Does(u) == u \in Uses /\ left > 0 /\ left' = left - 1
InList(u) == tab = "samples" /\ Does(u)

-----------------------------------------------------------------------------
(* Filters.  A kind or a source loads at once, a search text does not. *)
SetFilter(f) ==
  /\ InList("filter") /\ f.query = filters.query
  /\ (f.kind = filters.kind) # (f.source = filters.source)
  /\ filters' = f
  /\ Loads(<<[asked |-> f, sel |-> sel]>>)
  /\ UNCHANGED <<pool, tab, rows, shown, promoting, panel, ingests>>

TypeQuery(q) ==
  /\ InList("query") /\ q # filters.query
  /\ filters' = [filters EXCEPT !.query = q]
  /\ UNCHANGED <<pool, tab, loads, loading, rows, newest, shown, promoting, panel, ingests>>

(* Enter, the button of the search and the one that refreshes. *)
Search ==
  /\ InList("search") /\ Loads(<<LoadNow>>)
  /\ UNCHANGED <<pool, tab, filters, rows, shown, promoting, panel, ingests>>

Unwanted(ds) == {[d EXCEPT !.live = FALSE] : d \in ds}

(* The selection becomes s; the details of s are asked for, those shown stay. *)
Select(s) ==
  /\ sel' = s
  /\ details' = IF s = sel THEN details
                ELSE Unwanted(details) \cup {[of |-> s, live |-> TRUE]}

ClickRow(s) ==
  /\ InList("select") /\ ~loading /\ \E i \in DOMAIN rows.items : rows.items[i] = s
  /\ Select(s)
  /\ UNCHANGED <<pool, tab, list, detail, promoting, panel, ingests>>

DetailArrives(d, ok) ==
  /\ details' = details \ {d}
  /\ detail' = IF ~d.live THEN detail ELSE IF ok THEN d.of ELSE None
  /\ UNCHANGED <<pool, tab, list, sel, promoting, panel, ingests, left>>

Taken(i) ==
  /\ loads' = SubSeq(loads, 1, i - 1) \o SubSeq(loads, i + 1, Len(loads))
  /\ loading' = FALSE

(* A load is answered; the first row is selected if nothing was selected when
   the load was started. *)
LoadAnswered(i) ==
  /\ Taken(i) /\ rows' = AnswerTo(loads[i].asked)
  /\ newest' = IF newest # "asked" THEN "past" ELSE IF i = Len(loads) THEN "shown" ELSE "asked"
  /\ IF rows'.items # <<>> /\ loads[i].sel = None THEN Select(rows'.items[1])
     ELSE UNCHANGED <<sel, details>>
  /\ UNCHANGED <<pool, tab, filters, detail, promoting, panel, ingests, left>>

(* A load fails; the rows before it stay. *)
LoadFails(i) ==
  /\ "loadfail" \in Uses /\ Taken(i)
  /\ newest' = IF newest = "asked" /\ i = Len(loads) THEN "past" ELSE newest
  /\ UNCHANGED <<pool, tab, filters, rows, shown, promoting, panel, ingests, left>>

(* The buttons under the details: the first names the selected sample, the
   second the service of the details. *)
PromoteSelected ==
  /\ InList("promote") /\ detail # None /\ promoting = None
  /\ promoting' = [all |-> FALSE, of |-> sel]
  /\ UNCHANGED <<pool, tab, list, shown, panel, ingests>>
PromoteService ==
  /\ InList("promote") /\ detail # None /\ promoting = None
  /\ promoting' = [all |-> TRUE, of |-> ServiceOf[detail]]
  /\ UNCHANGED <<pool, tab, list, shown, panel, ingests>>
PromoteEnds ==
  /\ promoting # None /\ promoting' = None
  /\ UNCHANGED <<pool, tab, list, shown, panel, ingests, left>>

-----------------------------------------------------------------------------
(* The tabs.  The list loads whenever its tab is shown; the panel of the logs
   starts anew whenever its own is. *)
SetTab(t) ==
  /\ Does("tab") /\ t # tab /\ tab' = t
  /\ IF t = "samples" THEN Loads(<<LoadNow>>) ELSE UNCHANGED <<loads, loading, newest>>
  /\ panel' = Fresh /\ ingests' = Unwanted(ingests)
  /\ UNCHANGED <<pool, filters, rows, shown, promoting>>

InPanel(u, s) == tab = "ingest" /\ panel.sub = s /\ Does(u)

SetSub(s) ==
  /\ tab = "ingest" /\ panel.sub # s /\ Does("sub")
  /\ panel' = [panel EXCEPT !.sub = s, !.preview = None, !.result = None]
  /\ UNCHANGED <<pool, tab, list, shown, promoting, ingests>>

TypeText(t) ==
  /\ InPanel("parse", "paste") /\ t # panel.text
  /\ panel' = [panel EXCEPT !.text = t]
  /\ UNCHANGED <<pool, tab, list, shown, promoting, ingests>>

(* A request of the panel, with the load its callback holds. *)
Asks(op, what) ==
  /\ panel' = [panel EXCEPT !.busy = TRUE,
                            !.result = IF op = "commit" THEN panel.result ELSE None]
  /\ ingests' = ingests \cup {[op |-> op, what |-> what, load |-> LoadNow,
                               stored |-> FALSE, live |-> TRUE]}
  /\ UNCHANGED <<pool, tab, list, shown, promoting>>

Parse ==
  /\ InPanel("parse", "paste") /\ ~panel.busy /\ panel.text # None
  /\ Asks("parse", PasteOf[panel.text])
Commit ==
  /\ InPanel("parse", "paste") /\ ~panel.busy /\ panel.preview \notin {None, <<>>}
  /\ Asks("commit", panel.preview)
(* The logs are a dump, or those of the configured source. *)
Bulk(t) ==
  /\ InPanel("bulk", "bulk") /\ ~panel.busy
  /\ Asks("bulk", BulkOf[t])

(* The server stores what a request holds. *)
Stored(c) ==
  /\ c.op # "parse" /\ c.what # <<>> /\ ~c.stored
  /\ pool' = Upserted(pool, c.what)
  /\ ingests' = (ingests \ {c}) \cup {[c EXCEPT !.stored = TRUE]}
  /\ UNCHANGED <<tab, list, shown, promoting, panel, left>>

(* onIngestCommitted: the list is shown, and loaded with what was asked for at
   the click; if the tab changes, its effect loads once more. *)
Committed(c) ==
  /\ tab' = "samples"
  /\ loads' = loads \o (IF tab = "samples" THEN <<c.load>> ELSE <<c.load, LoadNow>>)
  /\ newest' = (IF tab = "samples" THEN "past" ELSE "asked") /\ loading' = TRUE
  /\ panel' = Fresh /\ ingests' = Unwanted(ingests \ {c})

StoreAnswered(c) ==
  /\ c.stored /\ Committed(c)
  /\ UNCHANGED <<pool, filters, rows, shown, promoting, left>>

(* A text was parsed, logs held nothing, or a request failed: only the panel
   that asked takes the answer.  A parse that fails has no preview. *)
PanelAnswered(c, ok) ==
  /\ ~c.stored /\ (ok => c.op = "parse" \/ c.what = <<>>) /\ (~ok => "fail" \in Uses)
  /\ ingests' = ingests \ {c}
  /\ panel' = IF ~c.live THEN panel
              ELSE [panel EXCEPT !.busy = FALSE,
                      !.preview = IF c.op # "parse" THEN @ ELSE IF ok THEN c.what ELSE None]
  /\ UNCHANGED <<pool, tab, list, shown, promoting, left>>

Answers == \E i \in DOMAIN loads : LoadAnswered(i) \/ LoadFails(i)
IngestSteps ==
  \E c \in ingests : Stored(c) \/ StoreAnswered(c) \/ \E ok \in BOOLEAN : PanelAnswered(c, ok)

Next ==
  \/ \E f \in Filters : SetFilter(f)
  \/ \E q \in Opt(Words) : TypeQuery(q)
  \/ \E s \in Samples : ClickRow(s)
  \/ \E d \in details, ok \in BOOLEAN : DetailArrives(d, ok)
  \/ Search \/ PromoteSelected \/ PromoteService \/ PromoteEnds
  \/ \E t \in {"samples", "ingest"} : SetTab(t)
  \/ \E s \in {"paste", "bulk"} : SetSub(s)
  \/ \E t \in Texts : TypeText(t) \/ Bulk(t)
  \/ Parse \/ Commit \/ Answers \/ IngestSteps

Spec == Init /\ [][Next]_vars

-----------------------------------------------------------------------------
(* The types of the variables. *)
TypeOK ==
  /\ filters \in Filters /\ rows.asked \in Filters
  /\ Len(rows.items) <= ListLimit /\ rows.services <= CoverLimit
  /\ sel \in Opt(Samples) /\ detail \in Opt(Samples) /\ left \in 0..MaxSteps
  /\ tab = "samples" /\ loads = <<>> => ~loading
  /\ newest \in {"asked", "shown", "past"} /\ (newest = "asked" => loads # <<>>)

(* The list of DataPool.tsx loads whenever a kind or a source is set: once the
   last of these loads is answered, whichever older loads are under way, the
   rows are of the kind and the source that are set (a search text may not have
   been sent).  An older answer that comes after it, and the load that a stored
   log starts with the filters of its click, replace them: nothing in the page
   prevents that, and nothing is said of it here. *)
RowsOfFilters ==
  newest = "shown" => rows.asked.kind = filters.kind /\ rows.asked.source = filters.source

(* Once the details are answered, they are those of the selected sample. *)
DetailOfSelection == details = {} => detail \in {None, sel}

(* A panel has at most one request under way, and knows of it. *)
OneIngest ==
  /\ Cardinality({c \in ingests : c.live}) <= 1
  /\ panel.busy <=> \E c \in ingests : c.live
=============================================================================
