------------------------------ MODULE TestPool ------------------------------
(***************************************************************************)
(* The tab with the testcases of a service in the sheet of its rules, and  *)
(* the dialog that runs one of them, all of them, or a case of the editor. *)
(*                                                                         *)
(* The tab is mounted with the sheet and the selection of the tab.  It     *)
(* keeps its own list and hands every list it loads to the page, and the   *)
(* page keeps the reload function of whichever tab was mounted last; both  *)
(* outlive the tab.  Nothing that was requested is cancelled.              *)
(***************************************************************************)
EXTENDS Naturals, FiniteSets, Sequences

CONSTANTS
  Svc,      \* services
  Case,     \* ids of cases
  Uses,     \* the kinds of the calls that are made
  MaxCalls, \* bound on the calls under way
  None,     \* no service, no session, no answer
  Failed    \* the answer of a request that failed

VARIABLES
  pool,       \* pool[s]: the cases of a service that are in the pool
  sheet,      \* the service the sheet is open for, or None
  tab,        \* "yaml" or "testcases"
  rows,       \* the list of the tab
  loading,    \* listLoading
  generating, \* generateLoading
  asking,     \* replaceConfirmOpen
  poolRows,   \* the list the page was handed last
  refresher,  \* the service the registered reload function loads, or None
  session,    \* what the run dialog is open for, or None
  running,    \* runLoading
  result,     \* runResult, or None
  picked,     \* the step of the result that is shown
  calls       \* the calls under way

panel == <<rows, loading, generating, asking>>
page  == <<sheet, tab, poolRows, refresher>>
run   == <<session, running, result, picked>>
vars  == <<pool, panel, page, run, calls>>

Rows == [svc : Svc, cases : SUBSET Case] \cup {None}
Session == [kind : {"single", "editor"}, case : Case] \cup [kind : {"all"}]
Kind == {"list", "generate", "run", "one"}
Steps == UNION {[1..n -> {"passed", "failed"}] : n \in 0..2}

Init ==
  /\ pool \in [Svc -> SUBSET Case]
  /\ sheet = None /\ tab = "yaml" /\ poolRows = None /\ refresher = None
  /\ rows = None /\ loading = FALSE /\ generating = FALSE /\ asking = FALSE
  /\ session = None /\ running = FALSE /\ result = None /\ picked = 0
  /\ calls = {}

Count(r) == IF r = None THEN 0 ELSE Cardinality(r.cases)

Mounted == sheet # None /\ tab = "testcases"

-----------------------------------------------------------------------------
(* Calls: "here" while the tab that made the call is mounted. *)

New(kind, s, here) ==
  [kind |-> kind, svc |-> s, here |-> here, at |-> "req",
   of |-> None, got |-> None]

Starts(c) ==
  /\ c.kind \in Uses
  /\ Cardinality(calls) < MaxCalls /\ c \notin calls
  /\ calls' = calls \cup {c}

Left == {[c EXCEPT !.here = FALSE] : c \in calls}

(* A new tab starts empty, registers its reload function, and loads.        *)
Mounts(s, from) ==
  /\ rows' = None /\ loading' = TRUE /\ generating' = FALSE /\ asking' = FALSE
  /\ refresher' = s
  /\ "list" \in Uses
  /\ New("list", s, TRUE) \notin from /\ Cardinality(from) < MaxCalls
  /\ calls' = from \cup {New("list", s, TRUE)}

Unmounts ==
  /\ rows' = None /\ loading' = FALSE /\ generating' = FALSE /\ asking' = FALSE
  /\ calls' = Left
  /\ UNCHANGED refresher

Open(s) ==
  /\ sheet = None /\ sheet' = s
  /\ IF tab = "testcases" THEN Mounts(s, calls) ELSE UNCHANGED <<panel, refresher, calls>>
  /\ UNCHANGED <<pool, tab, poolRows, run>>

(* The run dialog is modal.                                                 *)
Close ==
  /\ sheet # None /\ session = None
  /\ sheet' = None
  /\ IF Mounted THEN Unmounts ELSE UNCHANGED <<panel, refresher, calls>>
  /\ UNCHANGED <<pool, tab, poolRows, run>>

SelectTab ==
  /\ sheet # None /\ session = None
  /\ IF Mounted THEN tab' = "yaml" /\ Unmounts ELSE tab' = "testcases" /\ Mounts(sheet, calls)
  /\ UNCHANGED <<pool, sheet, poolRows, run>>

-----------------------------------------------------------------------------
(* The tab. *)

Reload ==
  /\ Mounted /\ session = None /\ ~loading
  /\ loading' = TRUE
  /\ Starts(New("list", sheet, TRUE))
  /\ UNCHANGED <<pool, rows, generating, asking, page, run>>

(* runGenerate; the server deletes the pool of the service first.           *)
Generate(asked) ==
  /\ generating' = TRUE /\ asking' = FALSE
  /\ Starts(New("generate", sheet, TRUE))
  /\ UNCHANGED <<rows, loading>>

RequestGenerate ==
  /\ Mounted /\ session = None /\ ~generating /\ ~asking
  /\ IF Count(rows) > 0
     THEN asking' = TRUE /\ UNCHANGED <<rows, loading, generating, calls>>
     ELSE Generate(FALSE)
  /\ UNCHANGED <<pool, page, run>>

ConfirmGenerate ==
  /\ Mounted /\ asking /\ ~generating
  /\ Generate(TRUE)
  /\ UNCHANGED <<pool, page, run>>

CancelGenerate ==
  /\ asking /\ asking' = FALSE
  /\ UNCHANGED <<pool, rows, loading, generating, page, run, calls>>

(* A case of the editor is put into the pool; the page then calls the       *)
(* registered reload function, whichever tab it belongs to.                 *)
MaterializeOne ==
  /\ sheet # None /\ ~Mounted /\ session = None
  /\ Starts(New("one", sheet, FALSE))
  /\ UNCHANGED <<pool, panel, page, run>>

-----------------------------------------------------------------------------
(* The run dialog. *)

OpenRun(s) ==
  /\ sheet # None /\ session = None /\ ~asking
  /\ CASE s.kind = "single" -> Mounted /\ ~loading /\ Count(rows) > 0 /\ s.case \in rows.cases
       [] s.kind = "all"    -> Mounted /\ ~loading /\ Count(rows) > 0
       [] s.kind = "editor" -> ~Mounted
  /\ session' = s /\ result' = None /\ picked' = 0
  /\ UNCHANGED <<pool, panel, page, running, calls>>

CloseRun ==
  /\ session # None /\ ~running
  /\ session' = None /\ result' = None /\ picked' = 0
  /\ UNCHANGED <<pool, panel, page, running, calls>>

(* The same button runs again what has a result.                            *)
ConfirmRun ==
  /\ session # None /\ ~running
  /\ running' = TRUE /\ result' = None /\ picked' = 0
  /\ Starts([New("run", sheet, FALSE) EXCEPT !.of = session])
  /\ UNCHANGED <<pool, panel, page, session>>

(* The steps of the result; of several, any may be shown.                   *)
PickStep(i) ==
  /\ result # None /\ i \in DOMAIN result.steps /\ Len(result.steps) > 1
  /\ picked' = i
  /\ UNCHANGED <<pool, panel, page, session, running, result, calls>>

(* The page is left for the execution's own, and everything goes with it.   *)
OpenExecutionDetail ==
  /\ result # None
  /\ sheet' = None /\ tab' = "yaml" /\ poolRows' = None /\ refresher' = None
  /\ rows' = None /\ loading' = FALSE /\ generating' = FALSE /\ asking' = FALSE
  /\ session' = None /\ result' = None /\ picked' = 0
  /\ calls' = {}
  /\ UNCHANGED <<pool, running>>

-----------------------------------------------------------------------------
(* Requests and answers. *)

Gets(c, got) == calls' = (calls \ {c}) \cup {[c EXCEPT !.got = got]}

Listed(s) == [svc |-> s, cases |-> pool[s]]

Serve(c) ==
  /\ c \in calls /\ c.got = None
  /\ \/ Gets(c, Failed) /\ UNCHANGED pool
     \/ /\ c.kind = "list" \/ (c.at = "list" /\ c.kind # "run")
        /\ Gets(c, Listed(c.svc)) /\ UNCHANGED pool
     \/ /\ c.kind = "generate" /\ c.at = "req"
        /\ \E cs \in SUBSET Case :
             pool' = [pool EXCEPT ![c.svc] = cs] /\ Gets(c, [svc |-> c.svc, cases |-> cs])
     \/ /\ c.kind = "one" /\ c.at = "req"
        /\ \E k \in Case : pool' = [pool EXCEPT ![c.svc] = @ \cup {k}]
        /\ Gets(c, Listed(c.svc))
     \/ /\ c.kind = "run"
        /\ \E st \in Steps : Gets(c, st)
        /\ UNCHANGED pool
  /\ UNCHANGED <<panel, page, run>>

(* The list of the tab that asked, if it is there, and of the page.         *)
Shows(c, list) ==
  /\ rows' = IF c.here THEN list ELSE rows
  /\ poolRows' = list

ListAnswer(c) ==
  /\ c \in calls /\ c.kind = "list" /\ c.got # None
  /\ Shows(c, IF c.got = Failed THEN None ELSE c.got)
  /\ loading' = IF c.here THEN FALSE ELSE loading
  /\ calls' = calls \ {c}
  /\ UNCHANGED <<pool, generating, asking, sheet, tab, refresher, run>>

(* What was made is shown, and then what is listed unless there is none.    *)
GenerateAnswer(c) ==
  /\ c \in calls /\ c.kind = "generate" /\ c.at = "req" /\ c.got \notin {None, Failed}
  /\ Shows(c, c.got)
  /\ calls' = (calls \ {c}) \cup {[c EXCEPT !.at = "list", !.got = None]}
  /\ UNCHANGED <<pool, loading, generating, asking, sheet, tab, refresher, run>>

Generated(c) ==
  /\ c \in calls /\ c.kind = "generate" /\ c.got # None
  /\ c.at = "list" \/ c.got = Failed
  /\ IF c.got # Failed /\ Count(c.got) > 0 THEN Shows(c, c.got) ELSE UNCHANGED <<rows, poolRows>>
  /\ generating' = IF c.here THEN FALSE ELSE generating
  /\ calls' = calls \ {c}
  /\ UNCHANGED <<pool, loading, asking, sheet, tab, refresher, run>>

(* refreshPoolRows                                                          *)
OneAnswer(c) ==
  /\ c \in calls /\ c.kind = "one" /\ c.got # None
  /\ IF c.got # Failed /\ refresher # None
     THEN /\ New("list", refresher, FALSE) \notin calls
          /\ calls' = (calls \ {c}) \cup {New("list", refresher, FALSE)}
     ELSE calls' = calls \ {c}
  /\ UNCHANGED <<pool, panel, page, run>>

FirstFailed(st) ==
  IF \E i \in DOMAIN st : st[i] = "failed"
  THEN CHOOSE i \in DOMAIN st : st[i] = "failed" /\ \A j \in 1..(i - 1) : st[j] # "failed"
  ELSE IF st = << >> THEN 0 ELSE 1

RunAnswer(c) ==
  /\ c \in calls /\ c.kind = "run" /\ c.got # None
  /\ running' = FALSE
  /\ IF c.got = Failed THEN result' = None /\ picked' = 0
     ELSE result' = [of |-> c.of, svc |-> c.svc, steps |-> c.got] /\ picked' = FirstFailed(c.got)
  /\ calls' = calls \ {c}
  /\ UNCHANGED <<pool, panel, page, session>>

Answer(c) ==
  \/ ListAnswer(c) \/ GenerateAnswer(c) \/ Generated(c) \/ OneAnswer(c) \/ RunAnswer(c)

(* The requests of one kind go on. *)
Proceeds(kind) == \E c \in calls : c.kind = kind /\ (Serve(c) \/ Answer(c))

Next ==
  \/ \E s \in Svc : Open(s)
  \/ Close \/ SelectTab \/ Reload
  \/ RequestGenerate \/ ConfirmGenerate \/ CancelGenerate \/ MaterializeOne
  \/ \E s \in Session : OpenRun(s)
  \/ CloseRun \/ ConfirmRun \/ OpenExecutionDetail
  \/ \E i \in 1..2 : PickStep(i)
  \/ \E kind \in Kind : Proceeds(kind)

Spec == Init /\ [][Next]_vars

-----------------------------------------------------------------------------
(* Types of the variables; the step that is shown is one of the result.     *)
TypeOK ==
  /\ pool \in [Svc -> SUBSET Case]
  /\ sheet \in Svc \cup {None} /\ tab \in {"yaml", "testcases"}
  /\ {rows, poolRows} \subseteq Rows /\ refresher \in Svc \cup {None}
  /\ {loading, generating, asking, running} \subseteq BOOLEAN
  /\ session \in Session \cup {None}
  /\ result # None => picked \in {0} \cup DOMAIN result.steps

(* The list of the tab is the one of the service in the sheet.              *)
RowsOfSheet == rows # None => Mounted /\ rows.svc = sheet

(* The result that is shown is of what the dialog is open for (the dialog   *)
(* cannot be closed during a run).                                          *)
ResultOfSession == result # None => result.of = session /\ result.svc = sheet
=============================================================================
