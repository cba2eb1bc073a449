---------------------------- MODULE ScenarioRuns ----------------------------
(***************************************************************************)
(* Scenarios, the testcase versions their steps pin, and their execution,  *)
(* for one institution.                                                    *)
(*                                                                         *)
(* Requests that edit (scenarios, testcases) run in one short transaction  *)
(* and are one action each.  A request that executes reads its steps and   *)
(* testcases one by one, calls the system under test for each, streams its *)
(* progress to the browser and commits only after the last event, so it is *)
(* a process of many actions between which the others take place.          *)
(*                                                                         *)
(* Bodies are those of PoolRows; what a step binds is abstracted to the    *)
(* step's position, and what a call answers to whether the step passes.    *)
(***************************************************************************)
EXTENDS PoolRows, FiniteSets

CONSTANTS
  Scenario,    \* scenario ids (fnx_scenario)
  Run,         \* requests to execute
  Service,     \* service codes
  ServiceOf,   \* the service that a case belongs to
  NoService,   \* a step whose service is not known ("new step")
  NoCase,      \* a step that is not linked to a testcase
  NoRun,       \* no committed fnx_execution_run row
  MaxSteps,    \* bounds, for model checking only
  MaxVersions

Unpinned == 0   \* tc_hist_version is null; real versions start at 1

VARIABLES
  pool,     \* pool[c]: fnx_testcase
  tcHist,   \* tcHist[c]: fnx_testcase_hist, in order of version
  steps,    \* steps[s]: steps_json; a step's position is its number
  run,      \* run[r]: where request r is and what its client was told
  plan,     \* plan[r]: the steps it read and the testcases it loaded so far
  row,      \* row[r]: its fnx_execution_run row and results, not committed
  stored    \* stored[r]: the row that it committed

poolVars == <<pool, tcHist>>
runVars  == <<run, plan, row, stored>>
vars     == <<pool, tcHist, steps, run, plan, row, stored>>

Step == [svc : Service \cup {NoService}, case : Case \cup {NoCase}, pin : Nat]

(* What the browser names for a step: a testcase, pinned or not, or none. *)
Ref == [case : Case \cup {NoCase}, pin : Nat]

(* A loaded testcase: from a version (pin) or from the pool, for the step   *)
(* at position `from`.                                                      *)
Testcase == [case : Case, body : Input, pin : Nat, from : Nat]

(* The result of an unpinned testcase stores the version of its rule, which *)
(* is not modelled: 0 here.                                                 *)
Result  == [case : Case, pin : Nat, ok : BOOLEAN]

ExecRow == [status : {"none", "running", "completed"}, results : Seq(Result),
            passed : Nat, failed : Nat]

At   == {"idle", "load", "ready", "run", "commit", "ended", "lost"}
Told == {"nothing", "started", "done", "error"}

ASSUME ScenarioRunsAssumption ==
  /\ ServiceOf \in [Case -> Service]
  /\ NoService \notin Service
  /\ NoCase \notin Case
  /\ NoRun \notin ExecRow
  /\ IsFiniteSet(Case)
  /\ MaxSteps \in Nat /\ MaxVersions \in Nat

NoRow0 == [status |-> "none", results |-> << >>, passed |-> 0, failed |-> 0]

Init ==
  /\ pool = EmptyPool
  /\ tcHist = [c \in Case |-> << >>]
  /\ steps = [s \in Scenario |-> << >>]
  /\ run = [r \in Run |-> [at |-> "idle", stream |-> FALSE, told |-> "nothing"]]
  /\ plan = [r \in Run |-> [steps |-> << >>, next |-> 1, cases |-> << >>]]
  /\ row = [r \in Run |-> NoRow0]
  /\ stored = [r \in Run |-> NoRun]

-----------------------------------------------------------------------------
(* Testcases: what the rule store's requests do to them. *)

CasesOf(svc) == {c \in Case : ServiceOf[c] = svc}

(* A testcase is written: materialised, edited, listed or promoted. *)
PutTestcase(c, b) ==
  LET new == [EmptyPool EXCEPT ![c] = b] IN
  /\ pool' = Upserted(pool, new)
  /\ tcHist' = UpsertedHist(tcHist, pool, new)
  /\ UNCHANGED <<steps, runVars>>

(* The pool after the testcases of the services S were deleted ... *)
Emptied(S) == [c \in Case |-> IF ServiceOf[c] \in S THEN NoTc ELSE pool[c]]

EmptiedHist(S) ==
  [c \in Case |-> IF ServiceOf[c] \in S THEN CascadedPool(tcHist)[c] ELSE tcHist[c]]

(* ... and created again from rules that give the bodies `new`. *)
NewPools(S) == {new \in Pool : \A c \in Case : ServiceOf[c] \notin S => new[c] = NoTc}

ReplacePool(svc, new) ==
  /\ \E c \in CasesOf(svc) : new[c] # NoTc
  /\ pool' = Upserted(Emptied({svc}), new)
  /\ tcHist' = UpsertedHist(EmptiedHist({svc}), Emptied({svc}), new)
  /\ UNCHANGED <<steps, runVars>>

-----------------------------------------------------------------------------
(* Scenarios. *)

Unlinked(svc) == [svc |-> svc, case |-> NoCase, pin |-> Unpinned]

(* A scenario drafted by the LLM, or saved by the step editor, which sends  *)
(* neither the links nor the bindings of the steps it shows.                *)
DraftSteps(s, svcs) ==
  /\ steps' = [steps EXCEPT ![s] = [i \in DOMAIN svcs |-> Unlinked(svcs[i])]]
  /\ UNCHANGED <<poolVars, runVars>>

(* ensure_latest_hist_version: a case's history once its current body is    *)
(* its latest version.                                                      *)
Latest(p, h, S) ==
  [c \in Case |-> IF c \in S /\ p[c] # NoTc /\ (h[c] = << >> \/ h[c][Len(h[c])] # p[c])
                  THEN Append(h[c], p[c]) ELSE h[c]]

(* The cases that refs name without a version. *)
Current(refs) == {refs[i].case : i \in {j \in DOMAIN refs : /\ refs[j].case # NoCase
                                                         /\ refs[j].pin = Unpinned}}

(* Trusts the version that the browser names. *)
MutFound(refs, i, h) == TRUE

(* A reference to a version finds it, before or (for a case that an earlier *)
(* reference made current) after the pool was completed.                    *)
Found(refs, i, h) ==
  \/ refs[i].pin <= Len(tcHist[refs[i].case])
  \/ /\ refs[i].pin <= Len(h[refs[i].case])
     /\ \E j \in 1..(i - 1) : refs[j] = [refs[i] EXCEPT !.pin = Unpinned]

(* Keeps the service of the step. *)
MutAttached(old, ref, h) ==
  IF ref.case = NoCase THEN old
  ELSE [svc  |-> old.svc,
        case |-> ref.case,
        pin  |-> IF ref.pin = Unpinned THEN Len(h[ref.case]) ELSE ref.pin]

(* The step old after its reference: linked and pinned, or left as it was. *)
Attached(old, ref, h) ==
  IF ref.case = NoCase THEN old
  ELSE [svc  |-> ServiceOf[ref.case],
        case |-> ref.case,
        pin  |-> IF ref.pin = Unpinned THEN Len(h[ref.case]) ELSE ref.pin]

(* Testcases that rules may give the cases S. *)
Testcases(S) ==
  {[c \in Case |-> IF c \in S THEN f[c] ELSE NoTc] : f \in [S -> Input]}

Missing(refs) == {c \in Current(refs) : pool[c] = NoTc}

(* Attaching testcases to the steps `old` of scenario s; those that are     *)
(* named without a version and missing are materialised from rules `new`.   *)
Attach(s, old, refs, new) ==
  LET p == Upserted(pool, new)
      h == Latest(p, UpsertedHist(tcHist, pool, new), Current(refs)) IN
  /\ Len(refs) = Len(old)
  /\ \A i \in DOMAIN refs :
       refs[i].case # NoCase /\ refs[i].pin # Unpinned => Found(refs, i, h)
  /\ pool' = p
  /\ tcHist' = h
  /\ steps' = [steps EXCEPT ![s] = [i \in DOMAIN old |-> Attached(old[i], refs[i], h)]]
  /\ UNCHANGED runVars

(* Saving a scenario from the registry: new steps, then attached. *)
SaveDefinition(s, svcs, refs, new) ==
  /\ \A i \in DOMAIN refs : refs[i].case # NoCase => svcs[i] = ServiceOf[refs[i].case]
  /\ Attach(s, [i \in DOMAIN svcs |-> Unlinked(svcs[i])], refs, new)

ServicesOf(st) == {st[i].svc : i \in DOMAIN st} \ {NoService}

(* The step after its service was re-materialised into pool p: linked to    *)
(* the service's first testcase if it had no link, and pinned to the        *)
(* current version; a link whose testcase is gone keeps its pin.            *)
Regenerated(step, p, h, first) ==
  LET c == IF step.case = NoCase /\ step.svc # NoService THEN first[step.svc]
                                                          ELSE step.case IN
  [svc  |-> step.svc,
   case |-> c,
   pin  |-> IF c # NoCase /\ p[c] # NoTc THEN Len(h[c]) ELSE step.pin]

(* list_testcases_for_steps does not raise: every pin names a version. *)
PinsExist(st, h) ==
  \A i \in DOMAIN st :
    st[i].case # NoCase /\ st[i].pin # Unpinned => st[i].pin <= Len(h[st[i].case])

(* ... and finds something. *)
SomeTestcase(st, p) ==
  \E i \in DOMAIN st : st[i].case # NoCase /\ (st[i].pin # Unpinned \/ p[st[i].case] # NoTc)

(* The first testcase of each service: one of those just created. *)
Firsts(new) ==
  {f \in [Service -> Case \cup {NoCase}] :
     \A svc \in Service :
       LET created == {c \in CasesOf(svc) : new[c] # NoTc} IN
       IF created = {} THEN f[svc] = NoCase ELSE f[svc] \in created}

Generated(s, new, first) ==
  LET S == ServicesOf(steps[s])
      p == Upserted(Emptied(S), new)
      h == UpsertedHist(EmptiedHist(S), Emptied(S), new) IN
  /\ S # {}
  /\ pool' = p
  /\ tcHist' = h
  /\ steps' = [steps EXCEPT ![s] =
                 [i \in DOMAIN steps[s] |-> Regenerated(steps[s][i], p, h, first)]]
  /\ UNCHANGED runVars

(* Re-materialising every service of a scenario and linking its steps anew. *)
(* A service without rules only loses its testcases: the error of its       *)
(* materialisation is caught after the deletion.                            *)
GenerateAll(s, new, first) ==
  /\ Generated(s, new, first)
  /\ PinsExist(steps'[s], tcHist')
  /\ SomeTestcase(steps'[s], pool')

-----------------------------------------------------------------------------
(* Execution. *)

Moves(r, from, to, told) ==
  /\ run[r].at = from
  /\ run' = [run EXCEPT ![r] = [at |-> to, stream |-> run[r].stream, told |-> told]]

Starts(r, to, stream, st, cs) ==
  /\ run[r].at = "idle"
  /\ run' = [run EXCEPT ![r] = [at |-> to, stream |-> stream, told |-> "nothing"]]
  /\ plan' = [plan EXCEPT ![r] = [steps |-> st, next |-> 1, cases |-> cs]]
  /\ UNCHANGED <<poolVars, steps, row, stored>>

(* Executing a scenario, with or without an event stream. *)
StartScenario(r, s, stream) == Starts(r, "load", stream, steps[s], << >>)

FromPool(c, from) == [case |-> c, body |-> pool[c], pin |-> Unpinned, from |-> from]

(* Executing one testcase. *)
StartTestcase(r, c) ==
  /\ pool[c] # NoTc
  /\ Starts(r, "ready", FALSE, << >>, <<FromPool(c, 1)>>)

(* The trial run of a rule in the editor: a testcase that exists nowhere. *)
StartInline(r, c, b) ==
  Starts(r, "ready", FALSE, << >>, <<[FromPool(c, 1) EXCEPT !.body = b]>>)

(* Executing the testcases of a service, ordered by id. *)
StartService(r, list, stream) ==
  /\ list # << >>
  /\ Starts(r, "ready", stream, << >>, [k \in DOMAIN list |-> FromPool(list[k], k)])

(* The orders in which the testcases of a service may be listed. *)
Listings(svc) ==
  LET S == {c \in CasesOf(svc) : pool[c] # NoTc} IN
  {f \in [1..Cardinality(S) -> S] : \A i, j \in DOMAIN f : f[i] = f[j] => i = j}

NextStep(r) == plan[r].steps[plan[r].next]

Loads(r, cs) ==
  /\ run[r].at = "load"
  /\ plan[r].next <= Len(plan[r].steps)
  /\ plan' = [plan EXCEPT ![r] = [steps |-> plan[r].steps, next |-> plan[r].next + 1,
                                  cases |-> cs]]
  /\ UNCHANGED <<poolVars, steps, run, row, stored>>

(* Leaves out a step whose pinned version is gone. *)
MutSkipStep(r) ==
  /\ plan[r].next <= Len(plan[r].steps)
  /\ \/ NextStep(r).case = NoCase
     \/ NextStep(r).case # NoCase /\ pool[NextStep(r).case] = NoTc
  /\ Loads(r, plan[r].cases)

(* A step without a link, or whose testcase is gone, is left out. *)
SkipStep(r) ==
  /\ plan[r].next <= Len(plan[r].steps)
  /\ \/ NextStep(r).case = NoCase
     \/ /\ NextStep(r).case # NoCase /\ NextStep(r).pin = Unpinned
        /\ pool[NextStep(r).case] = NoTc
  /\ Loads(r, plan[r].cases)

(* A pinned step is loaded from its version, any other from the pool. *)
LoadStep(r) ==
  LET st == NextStep(r) IN
  /\ plan[r].next <= Len(plan[r].steps)
  /\ st.case # NoCase
  /\ \/ /\ st.pin \in 1..Len(tcHist[st.case])
        /\ Loads(r, Append(plan[r].cases,
                           [case |-> st.case, body |-> tcHist[st.case][st.pin],
                            pin |-> st.pin, from |-> plan[r].next]))
     \/ /\ st.pin = Unpinned /\ pool[st.case] # NoTc
        /\ Loads(r, Append(plan[r].cases, FromPool(st.case, plan[r].next)))

(* Everything is loaded, and the unpinned testcases are still there (a      *)
(* second read, which the session answers with the objects of the first).   *)
Prepared(r) ==
  /\ plan[r].next > Len(plan[r].steps)
  /\ plan[r].cases # << >>
  /\ \A k \in DOMAIN plan[r].cases :
       plan[r].cases[k].pin = Unpinned => pool[plan[r].cases[k].case] # NoTc
  /\ Moves(r, "load", "ready", "nothing")
  /\ UNCHANGED <<poolVars, steps, plan, row, stored>>

Writes(r, status, results, passed, failed) ==
  row' = [row EXCEPT ![r] = [status |-> status, results |-> results,
                             passed |-> passed, failed |-> failed]]

(* The run's row is written. *)
BeginRun(r) ==
  /\ Moves(r, "ready", "run", "started")
  /\ Writes(r, "running", << >>, 0, 0)
  /\ UNCHANGED <<poolVars, steps, plan, stored>>

(* The testcase whose turn it is. *)
Turn(r) == plan[r].cases[Len(row[r].results) + 1]

(* Counts every step as passed. *)
MutRunStep(r, ok) ==
  /\ run[r].at = "run"
  /\ Len(row[r].results) < Len(plan[r].cases)
  /\ Writes(r, "running",
            Append(row[r].results, [case |-> Turn(r).case, pin |-> Turn(r).pin, ok |-> ok]),
            row[r].passed + 1, row[r].failed)
  /\ UNCHANGED <<poolVars, steps, run, plan, stored>>

(* One testcase is called, judged and recorded. *)
RunStep(r, ok) ==
  /\ run[r].at = "run"
  /\ Len(row[r].results) < Len(plan[r].cases)
  /\ Writes(r, "running",
            Append(row[r].results, [case |-> Turn(r).case, pin |-> Turn(r).pin, ok |-> ok]),
            row[r].passed + (IF ok THEN 1 ELSE 0),
            row[r].failed + (IF ok THEN 0 ELSE 1))
  /\ UNCHANGED <<poolVars, steps, run, plan, stored>>

(* The run is completed and its client told so, before the commit. *)
FinishRun(r) ==
  /\ Len(row[r].results) = Len(plan[r].cases)
  /\ Moves(r, "run", "commit", "done")
  /\ Writes(r, "completed", row[r].results, row[r].passed, row[r].failed)
  /\ UNCHANGED <<poolVars, steps, plan, stored>>

(* Raising before the row is written goes unnoticed. *)
MutRaiseLate(r) ==
  /\ run[r].at = "run"
  /\ Moves(r, "run", IF run[r].stream THEN "commit" ELSE "ended", "error")
  /\ UNCHANGED <<poolVars, steps, plan, row, stored>>

(* A check fails, a pin is missing, a call times out or breaks.  In a       *)
(* stream the exception becomes the last event and what was written is      *)
(* committed all the same; otherwise it rolls the transaction back.         *)
Raise(r) ==
  /\ run[r].at \in {"load", "ready", "run"}
  /\ Moves(r, run[r].at, IF run[r].stream THEN "commit" ELSE "ended", "error")
  /\ UNCHANGED <<poolVars, steps, plan, row, stored>>

(* The session is closed before a stream begins, and never commits. *)
MutCommit(r) ==
  /\ Moves(r, "commit", "ended", run[r].told)
  /\ stored' = [stored EXCEPT ![r] = IF row[r].status = "none" \/ run[r].stream
                                     THEN NoRun ELSE row[r]]
  /\ UNCHANGED <<poolVars, steps, plan, row>>

(* The end of the request, after its last event was sent. *)
Commit(r) ==
  /\ Moves(r, "commit", "ended", run[r].told)
  /\ stored' = [stored EXCEPT ![r] = IF row[r].status = "none" THEN NoRun ELSE row[r]]
  /\ UNCHANGED <<poolVars, steps, plan, row>>

(* The server stops, or the browser leaves a stream that has not ended: the *)
(* transaction is rolled back.                                              *)
Lose(r) ==
  /\ run[r].at \in {"load", "ready", "run", "commit"}
  /\ Moves(r, run[r].at, "lost", run[r].told)
  /\ UNCHANGED <<poolVars, steps, plan, row, stored>>

-----------------------------------------------------------------------------
WithinBounds == \A c \in Case : Len(tcHist[c]) <= MaxVersions

SeqUpTo(S, n) == UNION {[1..k -> S] : k \in 0..n}

SentRef == {ref \in [case : Case \cup {NoCase}, pin : 0..MaxVersions] :
              ref.case = NoCase => ref.pin = Unpinned}

GenerateSome(s) ==
  \E new \in NewPools(ServicesOf(steps[s])) :
    \E first \in Firsts(new) : GenerateAll(s, new, first)

EditStep(s) ==
  \/ \E svcs \in SeqUpTo(Service \cup {NoService}, MaxSteps) : DraftSteps(s, svcs)
  \/ \E svcs \in SeqUpTo(Service, MaxSteps) :
       \E refs \in [DOMAIN svcs -> SentRef] :
         \E new \in Testcases(Missing(refs)) : SaveDefinition(s, svcs, refs, new)
  \/ \E refs \in [DOMAIN steps[s] -> SentRef] :
       \E new \in Testcases(Missing(refs)) : Attach(s, steps[s], refs, new)
  \/ GenerateSome(s)

PoolStep ==
  \/ \E c \in Case, b \in Input : PutTestcase(c, b)
  \/ \E svc \in Service : \E new \in NewPools({svc}) : ReplacePool(svc, new)

Start(r) ==
  \/ \E s \in Scenario, stream \in BOOLEAN : StartScenario(r, s, stream)
  \/ \E c \in Case : StartTestcase(r, c) \/ \E b \in Input : StartInline(r, c, b)
  \/ \E svc \in Service, stream \in BOOLEAN :
       \E list \in Listings(svc) : StartService(r, list, stream)

Proceed(r) ==
  \/ SkipStep(r)
  \/ LoadStep(r)
  \/ Prepared(r)
  \/ BeginRun(r)
  \/ \E ok \in BOOLEAN : RunStep(r, ok)
  \/ FinishRun(r)
  \/ Raise(r)
  \/ Commit(r)

Next ==
  /\ \/ \E s \in Scenario : EditStep(s)
     \/ PoolStep
     \/ \E r \in Run : Start(r) \/ Proceed(r) \/ Lose(r)
  /\ WithinBounds'

(* A request that executes never waits for ever: its database calls return, *)
(* a call to the system under test is limited to 30 seconds.                *)
Fairness == \A r \in Run : WF_vars(Proceed(r))

Spec == Init /\ [][Next]_vars /\ Fairness
-----------------------------------------------------------------------------
(* Properties. *)

(* The types of the variables; a link names a testcase of its own service.  *)
TypeOK ==
  /\ pool \in Pool
  /\ tcHist \in TcHist
  /\ steps \in [Scenario -> Seq(Step)]
  /\ \A s \in Scenario : \A i \in DOMAIN steps[s] :
       steps[s][i].case # NoCase => steps[s][i].svc = ServiceOf[steps[s][i].case]
  /\ run \in [Run -> [at : At, stream : BOOLEAN, told : Told]]
  /\ plan \in [Run -> [steps : Seq(Step), next : Nat, cases : Seq(Testcase)]]
  /\ row \in [Run -> ExecRow]
  /\ stored \in [Run -> ExecRow \cup {NoRun}]

(* A run that is stored as completed has the result of every testcase it    *)
(* loaded, in their order, and counts them right; one that is stored as     *)
(* running was broken off by an error its client saw in the stream, and     *)
(* holds the results up to there.                                           *)
StoredRunIsWhole ==
  \A r \in Run : stored[r] # NoRun =>
    LET done == stored[r].results IN
    /\ stored[r].passed = Cardinality({k \in DOMAIN done : done[k].ok})
    /\ stored[r].failed = Cardinality({k \in DOMAIN done : ~ done[k].ok})
    /\ Len(done) <= Len(plan[r].cases)
    /\ \A k \in DOMAIN done : /\ done[k].case = plan[r].cases[k].case
                               /\ done[k].pin = plan[r].cases[k].pin
    /\ \/ stored[r].status = "completed" /\ Len(done) = Len(plan[r].cases)
       \/ stored[r].status = "running" /\ run[r].told = "error" /\ run[r].stream

(* What is executed follows the steps in their order, and no pinned step is *)
(* left out of it, whatever becomes of its testcase meanwhile.              *)
PinnedStepsAreRun ==
  \A r \in Run :
    LET st == plan[r].steps
        cs == plan[r].cases IN
    /\ \A k, l \in DOMAIN cs : k < l => cs[k].from < cs[l].from
    /\ run[r].told \in {"started", "done"} =>
         \A i \in DOMAIN st : st[i].case # NoCase /\ st[i].pin # Unpinned =>
           \E k \in DOMAIN cs : /\ cs[k].from = i
                               /\ cs[k].case = st[i].case /\ cs[k].pin = st[i].pin

(* A client that was told its run is done finds it stored, once the request *)
(* has ended, unless the server stopped before the commit; a client that    *)
(* was told otherwise never finds a completed run.                          *)
DoneIsStored ==
  \A r \in Run :
    /\ run[r].at = "ended" /\ run[r].told = "done" =>
         stored[r] # NoRun /\ stored[r].status = "completed"
    /\ run[r].told # "done" => stored[r] = NoRun \/ stored[r].status = "running"
    /\ ~ run[r].stream /\ run[r].told = "error" => stored[r] = NoRun

(* Whatever links or pins a step names a version that exists: what was just *)
(* saved or generated can be run.                                           *)
ChangedPinsExist ==
  [][\A s \in Scenario : \A i \in DOMAIN steps'[s] :
       LET st == steps'[s][i] IN
       st.case # NoCase /\ st.pin # Unpinned =>
         \/ i \in DOMAIN steps[s] /\ steps[s][i] = st
         \/ st.pin <= Len(tcHist'[st.case])]_vars

(* What a pinned step runs stays the same until its scenario is changed or  *)
(* the testcases of its service are all replaced: neither an edit nor a     *)
(* materialisation of single testcases, nor the replacement of another      *)
(* service's, changes it; without enforced foreign keys nothing does.       *)
PinnedBodyIsFrozen ==
  [][\A s \in Scenario : steps'[s] = steps[s] =>
       \A i \in DOMAIN steps[s] :
         LET st == steps[s][i] IN
         st.case # NoCase /\ st.pin \in DOMAIN tcHist[st.case] =>
           \/ st.pin \in DOMAIN tcHist'[st.case]
                /\ tcHist'[st.case][st.pin] = tcHist[st.case][st.pin]
           \/ Cascades /\ \E new \in NewPools({st.svc}) : ReplacePool(st.svc, new)
           \/ Cascades /\ \E x \in Scenario : st.svc \in ServicesOf(steps[x]) /\ GenerateSome(x)]_vars

(* Every request that executes ends. *)
RunsEnd ==
  \A r \in Run : (run[r].at # "idle") ~> (run[r].at \in {"ended", "lost"})

-----------------------------------------------------------------------------
(* What the repository says and the code does not do. *)

(* "``idx`` ... is also its logical scenario step index (one FnxTestcase    *)
(* per step)": a testcase runs with the bindings of the step it is loaded   *)
(* for.                                                                     *)
BindingsAreOwn ==
  \A r \in Run : \A k \in DOMAIN plan[r].cases : plan[r].cases[k].from = k

=============================================================================
