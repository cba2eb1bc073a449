----------------------------- MODULE HistoryPage -----------------------------
(***************************************************************************)
(* The page of the runs (History.tsx): a period, an optional scenario from *)
(* the address, pages of rows, and a box that keeps only the failed rows   *)
(* of the page.  Every change of what is asked for loads again; loads are  *)
(* not cancelled, are answered in any order, and the last answer is shown. *)
(* A change of a filter first loads the page that is shown and only then   *)
(* goes to the first page, which loads once more.                          *)
(***************************************************************************)
EXTENDS Naturals, Sequences

CONSTANTS
  Periods,     \* the presets; each is the set of days the server looks at
  DaysOf,      \* period -> the days it covers
  Scenarios,   \* scenarios the address may ask for
  Sizes,       \* page sizes
  Window,      \* how many page numbers are offered
  MaxRuns,     \* bound on the runs
  MaxSteps,    \* bound on changes by the user
  Kinds,       \* what happens: "run", "fail", "scenario", "size", "failures"
  Runs0,       \* sequences of runs at the start, newest first: [day, scn, failed]
  None

VARIABLES
  db, asked, failuresOnly, calls, answer, titleOf, titles, loading, error, left,
  newest  \* of the load started last: "asked", "shown", or "past", when a later answer has replaced its own

vars == <<db, asked, failuresOnly, calls, answer, titleOf, titles, loading, error, left, newest>>

(* What a load asks for. *)
Asked == [period : Periods, scn : Scenarios \cup {None}, size : Sizes, page : Nat \ {0}]

(* list_runs: the rows of the page, and how many there are. *)
Matching(k) ==
  SelectSeq(db, LAMBDA r : r.day \in DaysOf[k.period] /\ (k.scn # None => r.scn = k.scn))
Least(m, n) == IF m < n THEN m ELSE n
RowsOf(k) ==
  LET all == Matching(k)
  IN SubSeq(all, (k.page - 1) * k.size + 1, Least(k.page * k.size, Len(all)))
AnswerTo(k) == [key |-> k, rows |-> RowsOf(k), total |-> Len(Matching(k))]
NoAnswer(k) == [key |-> k, rows |-> <<>>, total |-> 0]

(* The pages, and the numbers that are offered. *)
Pages(total, size) == IF total = 0 THEN 1 ELSE (total + size - 1) \div size
TotalPages == Pages(answer.total, asked.size)
CurrentPage == Least(asked.page, TotalPages)
Offered ==
  LET start == IF CurrentPage > 2 THEN CurrentPage - 2 ELSE 1
  IN start..Least(TotalPages, start + Window - 1)

(* filterHistoryRows: the rows of the page that are shown. *)
Shown == IF failuresOnly THEN SelectSeq(answer.rows, LAMBDA r : r.failed) ELSE answer.rows
FailedOnPage == Len(SelectSeq(answer.rows, LAMBDA r : r.failed))

(* What the table says without rows. *)
EmptySays == IF failuresOnly THEN "no match" ELSE "no runs"

Start == [period |-> CHOOSE p \in Periods : TRUE, scn |-> None,
          size |-> CHOOSE n \in Sizes : TRUE, page |-> 1]

Init ==
  /\ db \in Runs0
  /\ asked = Start /\ failuresOnly = FALSE
  /\ calls = <<Start>> /\ newest = "asked" /\ answer = NoAnswer(Start)
  /\ titleOf = None /\ titles = {}
  /\ loading = TRUE /\ error = FALSE /\ left = MaxSteps

Step == left > 0 /\ left' = left - 1

Loads(ks) ==
  calls' = calls \o ks /\ newest' = "asked" /\ loading' = TRUE /\ error' = FALSE

(* A filter changes: the effect asks for the page that was shown, the page
   becomes the first one, and if it was not, that is asked for, too. *)
Refilter(k) ==
  /\ asked' = [k EXCEPT !.page = 1]
  /\ Loads(IF k.page = 1 THEN <<k>> ELSE <<k, [k EXCEPT !.page = 1]>>)

SetPeriod(p) ==
  /\ Step /\ p # asked.period
  /\ Refilter([asked EXCEPT !.period = p])
  /\ UNCHANGED <<db, failuresOnly, answer, titleOf, titles>>

Unwanted(ts) == {[t EXCEPT !.live = FALSE] : t \in ts}

(* The address names another scenario; its title is loaded, and the title of
   the scenario before is no longer wanted. *)
SetScenario(s) ==
  /\ "scenario" \in Kinds /\ Step /\ s # asked.scn
  /\ Refilter([asked EXCEPT !.scn = s])
  /\ titles' = Unwanted(titles)
                 \cup (IF s = None THEN {} ELSE {[scn |-> s, live |-> TRUE]})
  /\ titleOf' = IF s = None THEN None ELSE titleOf
  /\ UNCHANGED <<db, failuresOnly, answer>>

TitleArrives(t, ok) ==
  /\ titles' = titles \ {t}
  /\ titleOf' = IF ~t.live THEN titleOf ELSE IF ok THEN t.scn ELSE None
  /\ UNCHANGED <<db, asked, failuresOnly, calls, answer, loading, error, left, newest>>

(* The box; it can be set only while the page has a failed row. *)
SetFailuresOnly ==
  /\ "failures" \in Kinds /\ Step /\ (failuresOnly \/ FailedOnPage > 0)
  /\ failuresOnly' = ~failuresOnly
  /\ asked' = [asked EXCEPT !.page = 1]
  /\ IF asked.page = 1 THEN UNCHANGED <<calls, loading, error, newest>>
     ELSE Loads(<<[asked EXCEPT !.page = 1]>>)
  /\ UNCHANGED <<db, answer, titleOf, titles>>

(* The footer; it is disabled while a load is awaited. *)
SetPage(n) ==
  /\ ~loading /\ Step /\ n # asked.page
  /\ n \in Offered \cup {1, TotalPages}
  /\ asked' = [asked EXCEPT !.page = n]
  /\ Loads(<<[asked EXCEPT !.page = n]>>)
  /\ UNCHANGED <<db, failuresOnly, answer, titleOf, titles>>

SetSize(n) ==
  /\ "size" \in Kinds /\ ~loading /\ Step /\ n # asked.size
  /\ asked' = [asked EXCEPT !.size = n, !.page = 1]
  /\ Loads(<<[asked EXCEPT !.size = n, !.page = 1]>>)
  /\ UNCHANGED <<db, failuresOnly, answer, titleOf, titles>>

Refresh ==
  /\ Step /\ Loads(<<asked>>)
  /\ UNCHANGED <<db, asked, failuresOnly, answer, titleOf, titles>>

Taken(i) ==
  /\ calls' = SubSeq(calls, 1, i - 1) \o SubSeq(calls, i + 1, Len(calls))
  /\ newest' = IF newest # "asked" THEN "past" ELSE IF i = Len(calls) THEN "shown" ELSE "asked"
  /\ loading' = FALSE

(* The answer of a load, whatever is asked for by then. *)
Answered(i) ==
  /\ Taken(i)
  /\ answer' = AnswerTo(calls[i])
  /\ UNCHANGED <<db, asked, failuresOnly, titleOf, titles, error, left>>

LoadFailed(i) ==
  /\ "fail" \in Kinds /\ Taken(i)
  /\ answer' = NoAnswer(calls[i]) /\ error' = TRUE
  /\ UNCHANGED <<db, asked, failuresOnly, titleOf, titles, left>>

(* A run ends and becomes the newest one. *)
RunEnds(r) ==
  /\ "run" \in Kinds /\ Len(db) < MaxRuns
  /\ db' = <<r>> \o db
  /\ UNCHANGED <<asked, failuresOnly, calls, answer, titleOf, titles, loading, error, left, newest>>

Answers == \E i \in DOMAIN calls : Answered(i) \/ LoadFailed(i)

Next ==
  \/ \E p \in Periods : SetPeriod(p)
  \/ \E s \in Scenarios \cup {None} : SetScenario(s)
  \/ \E t \in titles, ok \in BOOLEAN : TitleArrives(t, ok)
  \/ SetFailuresOnly \/ Refresh \/ Answers
  \/ \E n \in 1..MaxRuns : SetPage(n)
  \/ \E n \in Sizes : SetSize(n)
  \/ \E d \in DaysOf[CHOOSE p \in Periods : TRUE], s \in Scenarios, f \in BOOLEAN :
       RunEnds([day |-> d, scn |-> s, failed |-> f])

Spec == Init /\ [][Next]_vars

-----------------------------------------------------------------------------
(* The types of the variables. *)
TypeOK ==
  /\ asked \in Asked /\ answer.key \in Asked
  /\ \A i \in DOMAIN calls : calls[i] \in Asked
  /\ Len(answer.rows) <= answer.key.size /\ left \in 0..MaxSteps
  /\ calls # <<>> \/ ~loading
  /\ newest \in {"asked", "shown", "past"} /\ (newest = "asked" => calls # <<>>)

(* The effect of History.tsx loads whenever what is asked for changes: once the
   load started last is answered, whichever older loads are under way, the rows
   are those of the period, scenario and page that are set.  An older answer
   that comes after it replaces them: nothing in the page prevents that, and
   nothing is said of it here. *)
RowsAreAsked == newest = "shown" => answer.key = asked

(* The shown page is among the numbers that are offered, and all of them are
   pages there are. *)
OfferedArePages ==
  CurrentPage \in Offered /\ \A n \in Offered : n \in 1..TotalPages

(* On the first page, once the load started last is answered without an error,
   the table of History.tsx says that there are no runs only when the server
   found none for the filters that are set.  (Of a later page it may say so
   wrongly: the footer is enabled by the first of two answers, with the total of
   the filter before.) *)
EmptyIsSo ==
  newest = "shown" /\ ~error /\ asked.page = 1 /\ Shown = <<>> /\ EmptySays = "no runs" =>
    answer.key = asked /\ answer.total = 0

(* The title above the rows is that of the scenario of the address. *)
TitleIsOfScenario == titles = {} => titleOf \in {None, asked.scn}
=============================================================================
