----------------------------- MODULE ResultPage -----------------------------
(***************************************************************************)
(* The page of one run (ExecutionResult.tsx).  Its address names the run;  *)
(* going to another run keeps the page and loads again, without cancelling *)
(* what is under way; loads are answered in any order, and the last answer *)
(* is shown.  A run can be repeated; its answer is a new run, and the page *)
(* goes to it.                                                             *)
(***************************************************************************)
EXTENDS Naturals, Sequences

CONSTANTS
  Runs0,      \* runs at the start: sequences of [scn, base, mode]
  Scenarios,  \* scenarios that still have a title
  MaxRuns,    \* bound on the runs
  MaxSteps,   \* bound on what the user does
  Faults,     \* TRUE: loads, titles and runs may fail
  None

VARIABLES runs, url, seen, loads, loading, detail, error,
          titles, title, rerunning, reruns, runError, left,
          newest  \* of the load started last: "asked", "shown", or "past", when a later answer has replaced its own

vars == <<runs, url, seen, loads, loading, detail, error,
          titles, title, rerunning, reruns, runError, left, newest>>

Ids == 1..MaxRuns
ScnOf(n) == IF n = None THEN None ELSE runs[n].scn

Init ==
  /\ runs \in Runs0 /\ url \in DOMAIN runs /\ seen = {url}
  /\ loads = <<url>> /\ newest = "asked" /\ loading = TRUE /\ detail = None /\ error = FALSE
  /\ titles = {} /\ title = None
  /\ rerunning = FALSE /\ reruns = {} /\ runError = FALSE /\ left = MaxSteps

Step == left > 0 /\ left' = left - 1

(* The effect of the address. *)
Open(n) ==
  /\ url' = n /\ seen' = seen \cup {n}
  /\ loads' = Append(loads, n) /\ newest' = "asked" /\ loading' = TRUE /\ error' = FALSE
  /\ rerunning' = FALSE /\ runError' = FALSE

(* Back and forward, among the runs that were shown. *)
GoTo(n) ==
  /\ Step /\ n \in seen \ {url} /\ Open(n)
  /\ UNCHANGED <<runs, detail, titles, title, reruns>>

Unwanted(ts) == {[t EXCEPT !.live = FALSE] : t \in ts}

(* The run that is shown becomes n; if its scenario is another one, the title
   of that one is loaded, and there is none without a scenario. *)
ShowRun(n) ==
  /\ detail' = n
  /\ IF ScnOf(n) = ScnOf(detail) THEN UNCHANGED <<titles, title>>
     ELSE /\ titles' = Unwanted(titles)
                         \cup (IF ScnOf(n) = None THEN {} ELSE {[of |-> ScnOf(n), live |-> TRUE]})
          /\ title' = IF ScnOf(n) = None THEN None ELSE title

Taken(i, ok) ==
  /\ loads' = SubSeq(loads, 1, i - 1) \o SubSeq(loads, i + 1, Len(loads))
  /\ newest' = IF newest # "asked" THEN "past" ELSE IF i = Len(loads) THEN "shown" ELSE "asked"
  /\ loading' = FALSE

(* The run that was shown stays when a load fails. *)
MutLoadAnswered(i, ok) ==
  /\ (ok \/ Faults) /\ Taken(i, ok)
  /\ ShowRun(IF ok THEN loads[i] ELSE detail)
  /\ error' = (error \/ ~ok)
  /\ UNCHANGED <<runs, url, seen, rerunning, reruns, runError, left>>
LoadAnswered(i, ok) ==
  /\ (ok \/ Faults) /\ Taken(i, ok)
  /\ ShowRun(IF ok THEN loads[i] ELSE None)
  /\ error' = (error \/ ~ok)
  /\ UNCHANGED <<runs, url, seen, rerunning, reruns, runError, left>>

TitleAnswered(t, ok) ==
  /\ (ok <=> t.of \in Scenarios) \/ (Faults /\ ~ok)
  /\ titles' = titles \ {t}
  /\ title' = IF ~t.live THEN title ELSE IF ok THEN t.of ELSE None
  /\ UNCHANGED <<runs, url, seen, loads, loading, detail, error, rerunning, reruns, runError, left, newest>>

(* buildExecutionRerunPayload: what is asked to be run again. *)
Payload(n) == [scn |-> runs[n].scn, base |-> runs[n].base, mode |-> "live"]

(* The button; it is disabled while the page loads or repeats.  Without an
   address of the system there is nothing to send. *)
RunAgain ==
  /\ Step /\ ~loading /\ ~rerunning /\ detail # None /\ ScnOf(detail) # None
  /\ LET valid == Payload(detail).base # None
     IN /\ runError' = ~valid /\ rerunning' = valid
        /\ reruns' = IF valid THEN reruns \cup {[of |-> detail, sends |-> Payload(detail)]}
                     ELSE reruns
  /\ UNCHANGED <<runs, url, seen, loads, loading, detail, error, titles, title, newest>>

(* The server has run it again; the page goes to the new run. *)
RerunDone(r) ==
  /\ Len(runs) < MaxRuns
  /\ runs' = Append(runs, r.sends) /\ reruns' = reruns \ {r}
  /\ Open(Len(runs) + 1)
  /\ UNCHANGED <<detail, titles, title, left>>

RerunFails(r) ==
  /\ Faults \/ Len(runs) = MaxRuns
  /\ reruns' = reruns \ {r} /\ rerunning' = FALSE /\ runError' = TRUE
  /\ UNCHANGED <<runs, url, seen, loads, loading, detail, error, titles, title, left, newest>>

Answers == \E i \in DOMAIN loads, ok \in BOOLEAN : LoadAnswered(i, ok)
Reruns == \E r \in reruns : RerunDone(r) \/ RerunFails(r)

Next ==
  \/ \E n \in Ids : GoTo(n)
  \/ \E t \in titles, ok \in BOOLEAN : TitleAnswered(t, ok)
  \/ RunAgain \/ Answers \/ Reruns

Spec == Init /\ [][Next]_vars

-----------------------------------------------------------------------------
(* The types of the variables. *)
TypeOK ==
  /\ url \in seen /\ seen \subseteq DOMAIN runs /\ left \in 0..MaxSteps
  /\ detail = None \/ detail \in seen
  /\ loads # <<>> \/ ~loading
  /\ newest \in {"asked", "shown", "past"} /\ (newest = "asked" => loads # <<>>)

(* The effect of ExecutionResult.tsx loads whenever the address changes: once
   the load started last is answered, whichever older loads are under way, the
   run that is shown is that of the address, or none and an error.  An older
   answer that comes after it is shown in its place: nothing in the page
   prevents that, and nothing is said of it here. *)
RunIsOfAddress == newest = "shown" => detail \in {None, url} /\ (detail = None => error)

(* Once titles are answered, the title is that of the scenario of the run. *)
TitleIsOfRun == titles = {} => title \in {None, ScnOf(detail)}
=============================================================================
