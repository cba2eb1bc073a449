------------------------------ MODULE Dashboard ------------------------------
(***************************************************************************)
(* The dashboard (Dashboard.tsx) and the numbers it computes               *)
(* (dashboardMetrics.ts): the runs of a period in a timeline of hours or   *)
(* days, the health of the collections of the browser's registry, the runs *)
(* that failed, and the totals the server counts.  One load asks for four  *)
(* things at once and waits until each is answered or has failed; loads    *)
(* are not cancelled, so the answers of an older period may come last.     *)
(*                                                                         *)
(* Time is counted in hours, Hours of them a day.  A run is visible to     *)
(* other requests once it has ended, when its request commits.             *)
(***************************************************************************)
EXTENDS Naturals, Sequences, FiniteSets, FiniteSetsExt

CONSTANTS
  Hours,       \* hours of a day
  Days,        \* preset -> days of its period; the preset Today counts hours
  Today,
  Limit,       \* EXECUTION_FETCH_LIMIT: runs one list answers
  Folders, Parent, \* collections, and the one each lies in (None at the top)
  Registry,    \* the browser's scenarios: [backend, folder, ready, bound]
  Scenarios,   \* the scenarios runs are of
  Runs0,       \* the runs at the start, newest first: [scn, at, failed, ended]
  Now0,        \* the hour at the start
  MaxRuns, MaxNow, MaxLoads, \* bounds on runs, hours and loads
  Pools,       \* the sample pools: service -> [happy, negative]
  CoverLimit, BarLimit, \* services of one answer, bars of the chart
  Kinds,       \* what happens: "run", "fail", "time"
  None

VARIABLES
  now, db, open,      \* the hour; runs that ended; runs under way
  pool,               \* the samples of each service
  preset, calls, kpi, exec, lists, rest, loading, error, left,
  newest  \* of the load started last: "asked", "settled" once its numbers are shown, "shown" with its
          \* lists, or "past", when a later answer has replaced them

vars == <<now, db, open, pool, preset, calls, kpi, exec, lists, rest, loading, error, left, newest>>

Presets == DOMAIN Days
DayOf(t) == t \div Hours
Card(S) == Cardinality(S)

-----------------------------------------------------------------------------
(* historyQueryRange: whole days up to the end of today. *)
InRange(p, asked, t) ==
  /\ DayOf(t) + Days[p] > DayOf(asked)
  /\ DayOf(t) <= DayOf(asked)

(* emptyBuckets: the hours of today so far, or the days of the period. *)
Buckets(p, t) ==
  IF p = Today THEN {h \in 0..t : DayOf(h) = DayOf(t)}
  ELSE {d \in 0..DayOf(t) : d + Days[p] > DayOf(t)}

BucketOf(p, t) == IF p = Today THEN t ELSE DayOf(t)

(* buildExecutionTrend: the runs of each bucket. *)
Trend(e) ==
  [b \in Buckets(e.preset, e.at) |->
     {i \in DOMAIN e.items : BucketOf(e.preset, e.items[i].at) = b}]

Counted(e) == Card(UNION {Trend(e)[b] : b \in DOMAIN Trend(e)})

-----------------------------------------------------------------------------
(* folderDescendantsMap: the collections below one, itself included. *)
Descendants(f) ==
  LET Below[n \in 0..Card(Folders)] ==
        IF n = 0 THEN {f}
        ELSE Below[n - 1] \cup {g \in Folders : Parent[g] \in Below[n - 1]}
  IN Below[Card(Folders)]

(* The collection of a scenario: the last entry of the registry that has it. *)
EntriesOf(s) == {i \in DOMAIN Registry : Registry[i].backend = s}
FolderOf(s) ==
  IF EntriesOf(s) = {} THEN None
  ELSE Registry[CHOOSE i \in EntriesOf(s) : \A j \in EntriesOf(s) : j <= i].folder

(* buildCollectionHealth: the row of a collection. *)
In(f) ==
  LET tree == Descendants(f) IN {i \in DOMAIN Registry : Registry[i].folder \in tree}
RunsIn(f, items) ==
  LET tree == Descendants(f) IN {i \in DOMAIN items : FolderOf(items[i].scn) \in tree}
Health(f, items) ==
  [scenarios |-> Card(In(f)),
   ready     |-> Card({i \in In(f) : Registry[i].ready}),
   unbound   |-> Card({i \in In(f) : ~Registry[i].bound}),
   passed    |-> Card({i \in RunsIn(f, items) : ~items[i].failed}),
   failed    |-> Card({i \in RunsIn(f, items) : items[i].failed})]
HealthRows == {f \in Folders : In(f) # {}}

Samples(v) == pool[v].happy + pool[v].negative
(* The n services of S that have the most samples. *)
Most(S, n) ==
  CHOOSE top \in SUBSET S :
    /\ Card(top) = (IF Card(S) < n THEN Card(S) ELSE n)
    /\ \A v \in top, w \in S \ top : Samples(v) >= Samples(w)

(* coverage_by_service: the services with samples, the largest first. *)
Covered == Most({v \in DOMAIN pool : Samples(v) > 0}, CoverLimit)

(* buildCoverageBars and toCoverageGaps, shown when the request succeeded. *)
Bars == Most({v \in Covered : Samples(v) > 0}, BarLimit)
Gaps == {v \in Covered : pool[v].happy = 0 \/ pool[v].negative = 0}

-----------------------------------------------------------------------------
(* The server: the newest runs of the period, and how many there are. *)
RunsOf(p, asked) == SelectSeq(db, LAMBDA r : InRange(p, asked, r.at))
ListOf(c) ==
  LET all == RunsOf(c.preset, c.asked)
  IN [items |-> SubSeq(all, 1, IF Len(all) < Limit THEN Len(all) ELSE Limit),
      total |-> Len(all), running |-> Card(open)]
TotalsOf(c) ==
  LET all == RunsOf(c.preset, c.asked)
  IN [preset |-> c.preset, runs |-> Len(all),
      failed |-> Len(SelectSeq(all, LAMBDA r : r.failed))]

(* A load under way: "?" until an answer, "failed" if the request failed. *)
Load(p) == [preset |-> p, asked |-> now, kpi |-> None, exec |-> None,
            failed |-> {}, titles |-> FALSE]
Settled(c) == (c.kpi # None \/ "kpi" \in c.failed) /\ (c.exec # None \/ "exec" \in c.failed)
Failable == IF "fail" \in Kinds THEN BOOLEAN ELSE {FALSE}

Init ==
  /\ now = Now0 /\ db = Runs0 /\ open = {} /\ pool \in Pools
  /\ preset \in Presets
  /\ calls = <<[preset |-> preset, asked |-> Now0, kpi |-> None, exec |-> None,
                failed |-> {}, titles |-> FALSE]>>
  /\ kpi = None /\ exec = None /\ lists = <<>> /\ rest = {}
  /\ newest = "asked" /\ loading = TRUE /\ error = FALSE /\ left = MaxLoads

(* The period is changed, or loaded again. *)
LoadAgain(p) ==
  /\ left > 0 /\ left' = left - 1
  /\ preset' = p
  /\ calls' = Append(calls, Load(p)) /\ newest' = "asked"
  /\ loading' = TRUE /\ error' = FALSE
  /\ UNCHANGED <<pool, now, db, open, kpi, exec, lists, rest>>

(* The server answers one of the two requests that are about runs. *)
AnswerList(i, failed) ==
  /\ calls[i].exec = None /\ "exec" \notin calls[i].failed
  /\ calls' = [calls EXCEPT ![i] =
       IF failed THEN [@ EXCEPT !.failed = @ \cup {"exec"}] ELSE [@ EXCEPT !.exec = ListOf(calls[i])]]
  /\ UNCHANGED <<pool, now, db, open, preset, kpi, exec, lists, rest, loading, error, left, newest>>

AnswerTotals(i, failed) ==
  /\ calls[i].kpi = None /\ "kpi" \notin calls[i].failed
  /\ calls' = [calls EXCEPT ![i] =
       IF failed THEN [@ EXCEPT !.failed = @ \cup {"kpi"}] ELSE [@ EXCEPT !.kpi = TotalsOf(calls[i])]]
  /\ UNCHANGED <<pool, now, db, open, preset, kpi, exec, lists, rest, loading, error, left, newest>>

Without(i) == SubSeq(calls, 1, i - 1) \o SubSeq(calls, i + 1, Len(calls))

(* The end of a load; the drafts and the coverage may have failed, too. *)
Ends(i, failed) ==
  /\ calls' = Without(i)
  /\ rest' = {"drafts", "coverage"} \ failed
  /\ error' = (error \/ Card(failed) = 4)
  /\ loading' = FALSE

OtherFailures == IF "fail" \in Kinds THEN {{}, {"drafts"}, {"drafts", "coverage"}} ELSE {{}}

(* All four are answered: totals, timeline and health are shown; without a
   list of runs all of it is shown empty. *)
Settle(i) ==
  /\ Settled(calls[i]) /\ ~calls[i].titles
  /\ kpi' = calls[i].kpi
  /\ newest' = IF newest # "asked" THEN "past" ELSE IF i < Len(calls) THEN "asked"
                ELSE IF calls[i].exec # None THEN "settled" ELSE "shown"
  /\ IF calls[i].exec # None
     THEN /\ exec' = [items |-> calls[i].exec.items, total |-> calls[i].exec.total,
                      running |-> calls[i].exec.running, preset |-> calls[i].preset,
                      asked |-> calls[i].asked, at |-> now]
          /\ calls' = [calls EXCEPT ![i].titles = TRUE]
          /\ UNCHANGED <<lists, rest, loading, error>>
     ELSE /\ exec' = None /\ lists' = <<>>
          /\ \E others \in OtherFailures : Ends(i, calls[i].failed \cup others)
  /\ UNCHANGED <<pool, now, db, open, preset, left>>

(* The titles of the listed runs have come: the lists are shown. *)
Titled(i) ==
  /\ calls[i].titles
  /\ lists' = calls[i].exec.items
  /\ newest' = IF newest = "settled" /\ i = Len(calls) THEN "shown"
                ELSE IF newest = "shown" THEN "past" ELSE newest
  /\ \E others \in OtherFailures : Ends(i, calls[i].failed \cup others)
  /\ UNCHANGED <<pool, now, db, open, preset, kpi, exec, left>>

(* A run starts; it ends and is committed with the hour it started at. *)
RunStarts(s) ==
  /\ "run" \in Kinds /\ Len(db) + Card(open) < MaxRuns
  /\ open' = open \cup {[scn |-> s, at |-> now]}
  /\ UNCHANGED <<pool, now, db, preset, calls, kpi, exec, lists, rest, loading, error, left, newest>>

RunEnds(r, failed) ==
  /\ r \in open /\ open' = open \ {r}
  /\ db' = <<[scn |-> r.scn, at |-> r.at, failed |-> failed,
             ended |-> TRUE]>> \o db
  /\ UNCHANGED <<pool, now, preset, calls, kpi, exec, lists, rest, loading, error, left, newest>>

Tick ==
  /\ "time" \in Kinds /\ now < MaxNow
  /\ now' = now + 1
  /\ UNCHANGED <<pool, db, open, preset, calls, kpi, exec, lists, rest, loading, error, left, newest>>

Answers ==
  \E i \in DOMAIN calls :
    \/ \E f \in Failable : AnswerList(i, f) \/ AnswerTotals(i, f)
    \/ Settle(i) \/ Titled(i)

Next ==
  \/ \E p \in Presets : LoadAgain(p)
  \/ Answers \/ Tick
  \/ \E s \in Scenarios : RunStarts(s)
  \/ \E r \in open, f \in BOOLEAN : RunEnds(r, f)

Spec == Init /\ [][Next]_vars

-----------------------------------------------------------------------------
(* The types of the variables. *)
TypeOK ==
  /\ now \in 0..MaxNow /\ preset \in Presets /\ left \in 0..MaxLoads
  /\ Len(db) <= MaxRuns /\ Len(calls) <= MaxLoads + 1
  /\ rest \subseteq {"drafts", "coverage"}
  /\ exec # None => Len(exec.items) <= Limit
  /\ calls # <<>> \/ ~loading
  /\ newest \in {"asked", "settled", "shown", "past"}
  /\ newest \in {"asked", "settled"} => calls # <<>>

(* Every run the server counts in the period lies in a bucket of the
   timeline, unless there are more than one list answers or the day changed
   while the answer was under way. *)
TimelineCounts ==
  exec # None /\ exec.total <= Limit /\ DayOf(exec.asked) = DayOf(exec.at) =>
    Counted(exec) = exec.total

(* A collection counts what lies in it and what the collections right below
   it count: scenarios and runs roll up exactly once. *)
Children(f) == {g \in Folders : Parent[g] = f}
Own(f) == Card({i \in DOMAIN Registry : Registry[i].folder = f})
OwnRuns(f) == Card({i \in DOMAIN exec.items : FolderOf(exec.items[i].scn) = f})
RollsUp ==
  exec # None =>
    LET row == [f \in Folders |-> Health(f, exec.items)]
    IN \A f \in HealthRows :
         /\ row[f].scenarios
              = Own(f) + MapThenSumSet(LAMBDA g : row[g].scenarios, Children(f))
         /\ row[f].passed + row[f].failed
              = OwnRuns(f) + MapThenSumSet(LAMBDA g : row[g].passed + row[g].failed, Children(f))

(* The timeline and the totals that Dashboard.tsx shows side by side are those
   of one period, whichever order the loads of several periods are answered in
   and whichever requests fail; once the load started last is answered they are
   those of the chosen period, and the listed runs are those of the timeline.  An older answer that comes after it replaces
   both under the label of the chosen period: nothing in the page prevents that,
   and nothing is said of it here. *)
ShownIsOfPreset ==
  /\ exec # None /\ kpi # None => exec.preset = kpi.preset
  /\ newest \in {"settled", "shown"} =>
       (exec # None => exec.preset = preset) /\ (kpi # None => kpi.preset = preset)
  /\ newest = "shown" => lists = IF exec = None THEN <<>> ELSE exec.items

(* The chart shows the services that have the most samples. *)
LargestAreShown ==
  "coverage" \in rest =>
    \A v \in Bars, w \in DOMAIN pool \ Bars : Samples(v) >= Samples(w)

(* The page says that no service lacks samples only if none does, as far as the
   coverage of one answer goes: with more services the rest is not looked at. *)
NoGapIsSo ==
  "coverage" \in rest /\ Gaps = {} /\ Card({v \in DOMAIN pool : Samples(v) > 0}) <= CoverLimit =>
    \A v \in DOMAIN pool : Samples(v) > 0 => pool[v].happy > 0 /\ pool[v].negative > 0
=============================================================================
