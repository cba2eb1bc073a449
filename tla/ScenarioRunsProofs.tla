------------------------- MODULE ScenarioRunsProofs -------------------------
(* Theorems about ScenarioRuns, for every value of its constants. *)
EXTENDS ScenarioRuns, FiniteSetTheorems, TLAPS

(* A step whose link, if any, is to a testcase of its own service. *)
LinkedStep == {st \in Step : st.case # NoCase => st.svc = ServiceOf[st.case]}

RunType  == [at : At, stream : BOOLEAN, told : Told]
PlanType == [steps : Seq(LinkedStep), next : Nat \ {0}, cases : Seq(Testcase)]

TypeInv ==
  /\ pool \in Pool
  /\ tcHist \in TcHist
  /\ steps \in [Scenario -> Seq(LinkedStep)]
  /\ run \in [Run -> RunType]
  /\ plan \in [Run -> PlanType]
  /\ row \in [Run -> ExecRow]
  /\ stored \in [Run -> ExecRow \cup {NoRun}]

-----------------------------------------------------------------------------
(* Testcases. *)

(* Writing testcases keeps the pool and its versions well-typed. *)
LEMMA PoolTypes ==
  ASSUME NEW p \in Pool, NEW h \in TcHist, NEW new \in Pool
  PROVE  /\ Upserted(p, new) \in Pool
         /\ UpsertedHist(h, p, new) \in TcHist
         /\ \A S : Latest(p, h, S) \in TcHist
<1>1. Upserted(p, new) \in Pool
  BY DEF Upserted, Pool
<1>2. UpsertedHist(h, p, new) \in TcHist
  <2>1. \A c \in Case : new[c] # NoTc => Append(h[c], new[c]) \in Seq(Input)
    BY DEF Pool, TcHist
  <2> QED BY <2>1 DEF UpsertedHist, TcHist
<1>3. ASSUME NEW S PROVE Latest(p, h, S) \in TcHist
  <2>1. \A c \in Case : p[c] # NoTc => Append(h[c], p[c]) \in Seq(Input)
    BY DEF Pool, TcHist
  <2> QED BY <2>1 DEF Latest, TcHist
<1> QED BY <1>1, <1>2, <1>3

(* Writing testcases only appends versions. *)
LEMMA HistGrows ==
  ASSUME NEW p \in Pool, NEW h \in TcHist, NEW new \in Pool, NEW q \in Pool, NEW c \in Case,
         NEW S
  PROVE  LET k == Latest(q, UpsertedHist(h, p, new), S)[c] IN
         /\ Len(h[c]) <= Len(k)
         /\ \A v \in DOMAIN h[c] : v \in DOMAIN k /\ k[v] = h[c][v]
<1>1. ASSUME NEW g \in Seq(Input), NEW b \in Input
      PROVE  /\ Append(g, b) \in Seq(Input)
             /\ Len(g) <= Len(Append(g, b))
             /\ \A v \in DOMAIN g : v \in DOMAIN Append(g, b) /\ Append(g, b)[v] = g[v]
  OBVIOUS
<1> DEFINE u == UpsertedHist(h, p, new)[c]
           k == Latest(q, UpsertedHist(h, p, new), S)[c]
<1>2. /\ u \in Seq(Input)
      /\ Len(h[c]) <= Len(u)
      /\ \A v \in DOMAIN h[c] : v \in DOMAIN u /\ u[v] = h[c][v]
  <2>1. h[c] \in Seq(Input) /\ (new[c] # NoTc => new[c] \in Input)
    BY DEF TcHist, Pool
  <2>2. u = IF new[c] = NoTc \/ new[c] = p[c] THEN h[c] ELSE Append(h[c], new[c])
    BY DEF UpsertedHist
  <2>3. CASE new[c] = NoTc \/ new[c] = p[c]
    BY <2>1, <2>2, <2>3
  <2>4. CASE ~ (new[c] = NoTc \/ new[c] = p[c])
    BY <1>1, <2>1, <2>2, <2>4
  <2> QED BY <2>3, <2>4
<1>3. k = u \/ (q[c] # NoTc /\ k = Append(u, q[c]))
  BY DEF Latest
<1>4. CASE k = u
  BY <1>2, <1>4
<1>5. CASE q[c] # NoTc /\ k = Append(u, q[c])
  <2>1. q[c] \in Input
    BY <1>5 DEF Pool
  <2>2. /\ Len(u) <= Len(k)
        /\ \A v \in DOMAIN u : v \in DOMAIN k /\ k[v] = u[v]
    BY <1>1, <1>2, <1>5, <2>1
  <2>3. Len(h[c]) \in Nat /\ Len(u) \in Nat /\ Len(k) \in Nat
    BY <1>1, <1>2, <1>5, <2>1 DEF TcHist
  <2> QED BY <1>2, <2>2, <2>3
<1> QED BY <1>3, <1>4, <1>5

(* What remains of the testcases of other services when some are deleted. *)
LEMMA EmptiedTypes ==
  ASSUME pool \in Pool, tcHist \in TcHist, NEW S
  PROVE  Emptied(S) \in Pool /\ EmptiedHist(S) \in TcHist
<1>1. << >> \in Seq(Input)
  OBVIOUS
<1>2. CascadedPool(tcHist) \in TcHist
  BY <1>1 DEF CascadedPool, TcHist
<1> QED BY <1>2 DEF Emptied, EmptiedHist, Pool, TcHist

(* The testcases that may be created. *)
LEMMA NewTypes ==
  /\ \A S : NewPools(S) \subseteq Pool
  /\ \A S : S \subseteq Case => Testcases(S) \subseteq Pool
BY DEF NewPools, Testcases, Pool

-----------------------------------------------------------------------------
(* Steps. *)

(* A function on 1..n is a sequence. *)
LEMMA SeqOfFunction ==
  ASSUME NEW T, NEW n \in Nat, NEW f \in [1..n -> T]
  PROVE  f \in Seq(T) /\ Len(f) = n
OBVIOUS

(* The bounded sequences that inputs are taken from. *)
LEMMA SeqUpToType ==
  ASSUME NEW T, NEW n \in Nat, NEW q \in SeqUpTo(T, n)
  PROVE  \E k \in Nat : q \in [1..k -> T]
BY DEF SeqUpTo

(* What the handlers make of one step. *)
LEMMA StepTypes ==
  ASSUME NEW h \in TcHist
  PROVE  /\ \A svc \in Service \cup {NoService} : Unlinked(svc) \in LinkedStep
         /\ \A old \in LinkedStep, ref \in Ref : Attached(old, ref, h) \in LinkedStep
         /\ \A old \in LinkedStep, p \in Pool, new \in Pool : \A first \in Firsts(new) :
              Regenerated(old, p, h, first) \in LinkedStep
<1>1. \A svc \in Service \cup {NoService} : Unlinked(svc) \in LinkedStep
  BY DEF Unlinked, LinkedStep, Step, Unpinned
<1>2. \A c \in Case : Len(h[c]) \in Nat /\ ServiceOf[c] \in Service
  BY ScenarioRunsAssumption DEF TcHist
<1>3. \A old \in LinkedStep, ref \in Ref : Attached(old, ref, h) \in LinkedStep
  BY <1>2 DEF Attached, LinkedStep, Step, Ref
<1>4. ASSUME NEW old \in LinkedStep, NEW p \in Pool, NEW new \in Pool, NEW first \in Firsts(new)
      PROVE  Regenerated(old, p, h, first) \in LinkedStep
  <2> DEFINE c   == IF old.case = NoCase /\ old.svc # NoService THEN first[old.svc] ELSE old.case
             pin == IF c # NoCase /\ p[c] # NoTc THEN Len(h[c]) ELSE old.pin
  <2>1. /\ old.svc \in Service \cup {NoService}
        /\ old.case \in Case \cup {NoCase}
        /\ old.pin \in Nat
        /\ old.case # NoCase => old.svc = ServiceOf[old.case]
    BY DEF LinkedStep, Step
  <2>2. \A svc \in Service : first[svc] = NoCase \/ first[svc] \in CasesOf(svc)
    BY DEF Firsts
  <2>3. c \in Case \cup {NoCase} /\ (c # NoCase => old.svc = ServiceOf[c])
    BY <2>1, <2>2 DEF CasesOf
  <2>4. pin \in Nat
    BY <1>2, <2>1, <2>3
  <2>5. Regenerated(old, p, h, first) = [svc |-> old.svc, case |-> c, pin |-> pin]
    BY DEF Regenerated
  <2> QED BY <2>1, <2>3, <2>4, <2>5 DEF LinkedStep, Step
<1> QED BY <1>1, <1>3, <1>4

(* The references that a browser sends. *)
LEMMA SentRefType == SentRef \subseteq Ref
BY ScenarioRunsAssumption DEF SentRef, Ref

EditTypes(s) ==
  /\ pool' \in Pool
  /\ tcHist' \in TcHist
  /\ steps' \in [Scenario -> Seq(LinkedStep)]
  /\ UNCHANGED runVars

(* Attaching to any steps of as many references. *)
LEMMA AttachTypes ==
  ASSUME TypeInv, NEW s \in Scenario, NEW k \in Nat, NEW old \in [1..k -> LinkedStep],
         NEW refs \in [1..k -> SentRef], NEW new \in Testcases(Missing(refs)),
         Attach(s, old, refs, new)
  PROVE  EditTypes(s)
<1> DEFINE p == Upserted(pool, new)
           u == UpsertedHist(tcHist, pool, new)
           h == Latest(p, u, Current(refs))
           st == [i \in DOMAIN old |-> Attached(old[i], refs[i], h)]
<1>1. new \in Pool
  <2>1. \A i \in DOMAIN refs : refs[i].case \in Case \cup {NoCase}
    BY DEF SentRef
  <2>2. Missing(refs) \subseteq Case
    BY <2>1 DEF Missing, Current
  <2> QED BY <2>2, NewTypes
<1>2. p \in Pool /\ u \in TcHist /\ h \in TcHist
  <2>1. p \in Pool /\ u \in TcHist
    BY <1>1, PoolTypes DEF TypeInv
  <2> QED BY <2>1, PoolTypes
<1>3. st \in Seq(LinkedStep)
  <2>1. \A i \in 1..k : Attached(old[i], refs[i], h) \in LinkedStep
    BY <1>2, StepTypes, SentRefType
  <2>2. st \in [1..k -> LinkedStep]
    BY <2>1
  <2> HIDE DEF st
  <2> QED BY <2>2, SeqOfFunction
<1>4. pool' = p /\ tcHist' = h /\ steps' = [steps EXCEPT ![s] = st] /\ UNCHANGED runVars
  BY DEF Attach
<1> HIDE DEF p, h, st
<1> QED BY <1>2, <1>3, <1>4 DEF EditTypes, TypeInv

(* Every edit of a scenario. *)
LEMMA EditStepTypes ==
  ASSUME TypeInv, NEW s \in Scenario, EditStep(s)
  PROVE  EditTypes(s)
<1>n. MaxSteps \in Nat
  BY ScenarioRunsAssumption
<1>1. ASSUME NEW svcs \in SeqUpTo(Service \cup {NoService}, MaxSteps), DraftSteps(s, svcs)
      PROVE  EditTypes(s)
  <2> DEFINE st == [i \in DOMAIN svcs |-> Unlinked(svcs[i])]
  <2>1. PICK k \in Nat : svcs \in [1..k -> Service \cup {NoService}]
    BY <1>n, SeqUpToType
  <2>2. st \in [1..k -> LinkedStep]
    BY <2>1, StepTypes DEF TypeInv
  <2>3. steps' = [steps EXCEPT ![s] = st] /\ UNCHANGED <<poolVars, runVars>>
    BY <1>1 DEF DraftSteps
  <2> HIDE DEF st
  <2>4. st \in Seq(LinkedStep)
    BY <2>2, SeqOfFunction
  <2> QED BY <2>3, <2>4 DEF EditTypes, TypeInv, poolVars
<1>2. ASSUME NEW svcs \in SeqUpTo(Service, MaxSteps), NEW refs \in [DOMAIN svcs -> SentRef],
             NEW new \in Testcases(Missing(refs)), SaveDefinition(s, svcs, refs, new)
      PROVE  EditTypes(s)
  <2> DEFINE old == [i \in DOMAIN svcs |-> Unlinked(svcs[i])]
  <2>1. PICK k \in Nat : svcs \in [1..k -> Service]
    BY <1>n, SeqUpToType
  <2>2. old \in [1..k -> LinkedStep] /\ refs \in [1..k -> SentRef]
    BY <2>1, StepTypes DEF TypeInv
  <2>3. Attach(s, old, refs, new)
    BY <1>2 DEF SaveDefinition
  <2> HIDE DEF old
  <2> QED BY <2>2, <2>3, AttachTypes
<1>3. ASSUME NEW refs \in [DOMAIN steps[s] -> SentRef],
             NEW new \in Testcases(Missing(refs)), Attach(s, steps[s], refs, new)
      PROVE  EditTypes(s)
  <2>1. steps[s] \in Seq(LinkedStep)
    BY DEF TypeInv
  <2>2. Len(steps[s]) \in Nat /\ steps[s] \in [1..Len(steps[s]) -> LinkedStep]
    BY <2>1
  <2>3. refs \in [1..Len(steps[s]) -> SentRef]
    BY <2>1
  <2> QED BY <1>3, <2>2, <2>3, AttachTypes
<1>4. ASSUME NEW new \in NewPools(ServicesOf(steps[s])), NEW first \in Firsts(new),
             Generated(s, new, first)
      PROVE  EditTypes(s)
  <2> DEFINE S == ServicesOf(steps[s])
             p == Upserted(Emptied(S), new)
             h == UpsertedHist(EmptiedHist(S), Emptied(S), new)
             st == [i \in DOMAIN steps[s] |-> Regenerated(steps[s][i], p, h, first)]
  <2>1. new \in Pool
    BY NewTypes
  <2>2. p \in Pool /\ h \in TcHist
    BY <2>1, EmptiedTypes, PoolTypes DEF TypeInv
  <2>3. steps[s] \in Seq(LinkedStep)
    BY DEF TypeInv
  <2>4. \A i \in DOMAIN steps[s] : Regenerated(steps[s][i], p, h, first) \in LinkedStep
    <3> HIDE DEF p, h
    <3> QED BY <2>1, <2>2, <2>3, StepTypes
  <2>5. st \in [1..Len(steps[s]) -> LinkedStep] /\ Len(steps[s]) \in Nat
    <3> HIDE DEF p, h
    <3> QED BY <2>3, <2>4
  <2>6. pool' = p /\ tcHist' = h /\ steps' = [steps EXCEPT ![s] = st] /\ UNCHANGED runVars
    BY <1>4 DEF Generated
  <2> HIDE DEF p, h, st
  <2>7. st \in Seq(LinkedStep)
    BY <2>5, SeqOfFunction
  <2> QED BY <2>2, <2>6, <2>7 DEF EditTypes, TypeInv
<1> QED BY <1>1, <1>2, <1>3, <1>4 DEF EditStep, GenerateSome, GenerateAll

-----------------------------------------------------------------------------
(* The invariant of one executing request. *)

Passed(results) == {k \in DOMAIN results : results[k].ok}
Failed(results) == {k \in DOMAIN results : ~ results[k].ok}

(* The row holds results of the first testcases of the plan, counted. *)
WholeRow(r) ==
  LET done == row[r].results IN
  /\ row[r].passed = Cardinality(Passed(done))
  /\ row[r].failed = Cardinality(Failed(done))
  /\ Len(done) <= Len(plan[r].cases)
  /\ \A k \in DOMAIN done : /\ done[k].case = plan[r].cases[k].case
                             /\ done[k].pin = plan[r].cases[k].pin

Completed(r) ==
  row[r].status = "completed" /\ Len(row[r].results) = Len(plan[r].cases)

(* What the row, its commit and the client's knowledge are in each phase. *)
Phase(r) ==
  /\ run[r].at \in {"idle", "load", "ready"} => row[r] = NoRow0 /\ run[r].told = "nothing"
  /\ run[r].at = "run" => row[r].status = "running" /\ run[r].told = "started"
  /\ run[r].at = "commit" =>
       \/ run[r].told = "done" /\ Completed(r)
       \/ run[r].told = "error" /\ run[r].stream /\ row[r].status \in {"none", "running"}
  /\ run[r].at = "ended" =>
       \/ run[r].told = "done" /\ Completed(r) /\ stored[r] = row[r]
       \/ run[r].told = "error" /\ stored[r] = NoRun
       \/ run[r].told = "error" /\ run[r].stream /\ row[r].status = "running"
                                /\ stored[r] = row[r]
  /\ run[r].at # "ended" => stored[r] = NoRun

(* The plan follows the steps in order and leaves no pinned one out. *)
Planned(r) ==
  LET st == plan[r].steps
      cs == plan[r].cases IN
  /\ \A k, l \in DOMAIN cs : k < l => cs[k].from < cs[l].from
  /\ run[r].at = "load" => \A k \in DOMAIN cs : cs[k].from < plan[r].next
  /\ \A i \in DOMAIN st : i < plan[r].next /\ st[i].case # NoCase /\ st[i].pin # Unpinned =>
       \E k \in DOMAIN cs : /\ cs[k].from = i
                           /\ cs[k].case = st[i].case /\ cs[k].pin = st[i].pin
  /\ run[r].at = "ready" \/ run[r].told \in {"started", "done"}
       => plan[r].next > Len(st)

RunInv(r) == WholeRow(r) /\ Phase(r) /\ Planned(r)

IInv == TypeInv /\ \A r \in Run : RunInv(r)

(* A step of request r, as the others see it. *)
OnlyRun(r) ==
  /\ UNCHANGED <<poolVars, steps>>
  /\ run' \in [Run -> RunType]
  /\ plan' \in [Run -> PlanType]
  /\ row' \in [Run -> ExecRow]
  /\ stored' \in [Run -> ExecRow \cup {NoRun}]
  /\ \A x \in Run \ {r} : /\ run'[x] = run[x] /\ plan'[x] = plan[x]
                          /\ row'[x] = row[x] /\ stored'[x] = stored[x]

(* No results: nothing counted. *)
LEMMA NoRowFacts ==
  /\ NoRow0 \in ExecRow
  /\ NoRow0.status = "none"
  /\ DOMAIN NoRow0.results = {} /\ Len(NoRow0.results) = 0
  /\ Cardinality(Passed(NoRow0.results)) = NoRow0.passed
  /\ Cardinality(Failed(NoRow0.results)) = NoRow0.failed
<1>1. NoRow0.results = << >> /\ NoRow0.passed = 0 /\ NoRow0.failed = 0
  BY DEF NoRow0
<1>2. Passed(<< >>) = {} /\ Failed(<< >>) = {}
  BY DEF Passed, Failed
<1>3. /\ Cardinality(Passed(NoRow0.results)) = NoRow0.passed
      /\ Cardinality(Failed(NoRow0.results)) = NoRow0.failed
  BY <1>1, <1>2, FS_EmptySet
<1>4. DOMAIN NoRow0.results = {} /\ Len(NoRow0.results) = 0 /\ << >> \in Seq(Result)
  BY <1>1
<1>5. NoRow0 \in ExecRow /\ NoRow0.status = "none"
  BY <1>4 DEF NoRow0, ExecRow
<1> QED BY <1>3, <1>4, <1>5

(* One more result is counted on the right side. *)
LEMMA CountFacts ==
  ASSUME NEW q \in Seq(Result), NEW e \in Result
  PROVE  /\ Append(q, e) \in Seq(Result) /\ Len(Append(q, e)) = Len(q) + 1
         /\ Cardinality(Passed(Append(q, e))) = Cardinality(Passed(q)) + (IF e.ok THEN 1 ELSE 0)
         /\ Cardinality(Failed(Append(q, e))) = Cardinality(Failed(q)) + (IF e.ok THEN 0 ELSE 1)
<1> DEFINE a == Append(q, e)
           n == Len(q) + 1
<1>1. /\ a \in Seq(Result) /\ Len(a) = n /\ n \in Nat /\ DOMAIN q = 1..Len(q)
      /\ DOMAIN a = DOMAIN q \cup {n} /\ n \notin DOMAIN q
      /\ a[n] = e /\ \A k \in DOMAIN q : a[k] = q[k]
  OBVIOUS
<1> HIDE DEF a
<1>2. Passed(a) = IF e.ok THEN Passed(q) \cup {n} ELSE Passed(q)
  BY <1>1 DEF Passed
<1>3. Failed(a) = IF e.ok THEN Failed(q) ELSE Failed(q) \cup {n}
  BY <1>1 DEF Failed
<1>4. IsFiniteSet(Passed(q)) /\ IsFiniteSet(Failed(q))
  <2>1. IsFiniteSet(1..Len(q))
    BY FS_Interval
  <2>2. Passed(q) \in SUBSET (1..Len(q)) /\ Failed(q) \in SUBSET (1..Len(q))
    BY <1>1 DEF Passed, Failed
  <2> QED BY <2>1, <2>2, FS_Subset
<1>5. n \notin Passed(q) /\ n \notin Failed(q)
  BY <1>1 DEF Passed, Failed
<1>6. /\ Cardinality(Passed(q) \cup {n}) = Cardinality(Passed(q)) + 1
      /\ Cardinality(Failed(q) \cup {n}) = Cardinality(Failed(q)) + 1
  BY <1>4, <1>5, FS_AddElement
<1>7. Cardinality(Passed(q)) \in Nat /\ Cardinality(Failed(q)) \in Nat
  BY <1>4, FS_CardinalityType
<1>8. /\ Cardinality(Passed(a)) = Cardinality(Passed(q)) + (IF e.ok THEN 1 ELSE 0)
      /\ Cardinality(Failed(a)) = Cardinality(Failed(q)) + (IF e.ok THEN 0 ELSE 1)
  BY <1>2, <1>3, <1>6, <1>7
<1> QED BY <1>1, <1>8 DEF a

(* Changing the phase of a request. *)
LEMMA MovesFacts ==
  ASSUME TypeInv, NEW r \in Run, NEW from, NEW to \in At, NEW told \in Told,
         Moves(r, from, to, told)
  PROVE  /\ run[r].at = from
         /\ run' \in [Run -> RunType]
         /\ run'[r].at = to /\ run'[r].told = told /\ run'[r].stream = run[r].stream
         /\ \A x \in Run \ {r} : run'[x] = run[x]
BY DEF Moves, TypeInv, RunType

(* The row of a request is written. *)
LEMMA WritesFacts ==
  ASSUME TypeInv, NEW r \in Run, NEW status \in {"running", "completed"},
         NEW results \in Seq(Result), NEW passed \in Nat, NEW failed \in Nat,
         Writes(r, status, results, passed, failed)
  PROVE  /\ row' \in [Run -> ExecRow]
         /\ row'[r].status = status /\ row'[r].results = results
         /\ row'[r].passed = passed /\ row'[r].failed = failed
         /\ \A x \in Run \ {r} : row'[x] = row[x]
BY DEF Writes, TypeInv, ExecRow

-----------------------------------------------------------------------------
(* Each action of an executing request. *)

OwnStep(r) == OnlyRun(r) /\ RunInv(r)'

(* A request that begins has steps to load, or its testcases. *)
LEMMA StartsStep ==
  ASSUME IInv, NEW r \in Run, NEW stream \in BOOLEAN, NEW to \in {"load", "ready"},
         NEW st \in Seq(LinkedStep), NEW cs \in Seq(Testcase), Starts(r, to, stream, st, cs),
         to = "load" => cs = << >>,
         to = "ready" => st = << >> /\ \A k \in DOMAIN cs : cs[k].from = k
  PROVE  OwnStep(r)
<1>1. /\ run' \in [Run -> RunType]
      /\ run'[r] = [at |-> to, stream |-> stream, told |-> "nothing"]
      /\ \A x \in Run \ {r} : run'[x] = run[x]
  BY DEF Starts, IInv, TypeInv, RunType, At, Told
<1>2. /\ plan' \in [Run -> PlanType]
      /\ plan'[r] = [steps |-> st, next |-> 1, cases |-> cs]
      /\ \A x \in Run \ {r} : plan'[x] = plan[x]
  BY DEF Starts, IInv, TypeInv, PlanType
<1>3. OnlyRun(r)
  BY <1>1, <1>2 DEF Starts, OnlyRun, IInv, TypeInv
<1>4. row[r] = NoRow0 /\ stored[r] = NoRun /\ row' = row /\ stored' = stored
  BY DEF Starts, IInv, RunInv, Phase
<1>5. Phase(r)'
  BY <1>1, <1>4 DEF Phase
<1>6. WholeRow(r)'
  <2>1. row'[r] = NoRow0 /\ Len(cs) \in Nat /\ plan'[r].cases = cs
    BY <1>2, <1>4
  <2> QED BY <2>1, NoRowFacts DEF WholeRow
<1>7. Planned(r)'
  <2>1. plan'[r].steps = st /\ plan'[r].next = 1 /\ plan'[r].cases = cs
    BY <1>2
  <2>2. run'[r].at = to /\ run'[r].told = "nothing"
    BY <1>1
  <2>3. CASE to = "load"
    BY <2>1, <2>2, <2>3 DEF Planned
  <2>4. CASE to = "ready"
    <3>1. st = << >> /\ Len(st) = 0 /\ DOMAIN st = {}
      BY <2>4
    <3>2. \A k, l \in DOMAIN cs : k < l => cs[k].from < cs[l].from
      BY <2>4
    <3> QED BY <2>1, <2>2, <2>4, <3>1, <3>2 DEF Planned
  <2> QED BY <2>3, <2>4
<1> QED BY <1>3, <1>5, <1>6, <1>7 DEF OwnStep, RunInv

(* Every way to begin. *)
LEMMA StartStep ==
  ASSUME IInv, NEW r \in Run, Start(r)
  PROVE  OwnStep(r)
<1>p. \A c \in Case : pool[c] # NoTc => pool[c] \in Input
  BY DEF IInv, TypeInv, Pool
<1>f. \A c \in Case, n \in Nat : pool[c] # NoTc => FromPool(c, n) \in Testcase
  BY <1>p DEF FromPool, Testcase, Unpinned
<1>1. ASSUME NEW s \in Scenario, NEW stream \in BOOLEAN, StartScenario(r, s, stream)
      PROVE  OwnStep(r)
  <2>1. steps[s] \in Seq(LinkedStep) /\ << >> \in Seq(Testcase)
    BY DEF IInv, TypeInv
  <2> QED BY <1>1, <2>1, StartsStep DEF StartScenario
<1>2. ASSUME NEW c \in Case, StartTestcase(r, c)
      PROVE  OwnStep(r)
  <2>1. pool[c] # NoTc /\ Starts(r, "ready", FALSE, << >>, <<FromPool(c, 1)>>)
    BY <1>2 DEF StartTestcase
  <2>2. FromPool(c, 1) \in Testcase /\ FromPool(c, 1).from = 1
    BY <1>f, <2>1 DEF FromPool
  <2> HIDE DEF FromPool
  <2> DEFINE cs == <<FromPool(c, 1)>>
  <2>3. cs \in Seq(Testcase) /\ << >> \in Seq(LinkedStep) /\ \A k \in DOMAIN cs : cs[k].from = k
    BY <2>2
  <2> HIDE DEF cs
  <2>4. Starts(r, "ready", FALSE, << >>, cs)
    BY <2>1 DEF cs
  <2> QED BY <2>3, <2>4, StartsStep
<1>3. ASSUME NEW c \in Case, NEW b \in Input, StartInline(r, c, b)
      PROVE  OwnStep(r)
  <2> DEFINE tc == [FromPool(c, 1) EXCEPT !.body = b]
             cs == <<tc>>
  <2>1. tc \in Testcase /\ tc.from = 1
    BY DEF FromPool, Testcase, Unpinned
  <2> HIDE DEF tc
  <2>2. cs \in Seq(Testcase) /\ << >> \in Seq(LinkedStep) /\ \A k \in DOMAIN cs : cs[k].from = k
    BY <2>1
  <2>3. Starts(r, "ready", FALSE, << >>, cs)
    BY <1>3 DEF StartInline, tc
  <2> HIDE DEF cs
  <2> QED BY <2>2, <2>3, StartsStep
<1>4. ASSUME NEW svc \in Service, NEW stream \in BOOLEAN, NEW list \in Listings(svc),
             StartService(r, list, stream)
      PROVE  OwnStep(r)
  <2> DEFINE S  == {c \in CasesOf(svc) : pool[c] # NoTc}
             cs == [k \in DOMAIN list |-> FromPool(list[k], k)]
  <2>1. IsFiniteSet(S) /\ S \subseteq Case
    <3>1. S \in SUBSET Case
      BY DEF CasesOf
    <3> QED BY <3>1, ScenarioRunsAssumption, FS_Subset
  <2>2. Cardinality(S) \in Nat
    BY <2>1, FS_CardinalityType
  <2>3. list \in [1..Cardinality(S) -> S]
    BY DEF Listings
  <2>4. cs \in [1..Cardinality(S) -> Testcase] /\ \A k \in DOMAIN cs : cs[k].from = k
    <3>1. \A k \in 1..Cardinality(S) : k \in Nat /\ list[k] \in Case /\ pool[list[k]] # NoTc
      BY <2>1, <2>2, <2>3
    <3>2. \A k \in 1..Cardinality(S) : FromPool(list[k], k) \in Testcase
      BY <1>f, <3>1
    <3>3. \A k \in 1..Cardinality(S) : FromPool(list[k], k).from = k
      BY DEF FromPool
    <3> QED BY <2>3, <3>2, <3>3
  <2>5. Starts(r, "ready", stream, << >>, cs)
    BY <1>4 DEF StartService
  <2>6. cs \in Seq(Testcase) /\ << >> \in Seq(LinkedStep)
    <3> HIDE DEF cs, S
    <3> QED BY <2>2, <2>4, SeqOfFunction
  <2> HIDE DEF cs
  <2> QED BY <2>4, <2>5, <2>6, StartsStep
<1> QED BY <1>1, <1>2, <1>3, <1>4 DEF Start

(* The types of one request. *)
LEMMA OwnTypes ==
  ASSUME TypeInv, NEW r \in Run
  PROVE  /\ run[r] \in RunType /\ plan[r] \in PlanType /\ row[r] \in ExecRow
         /\ plan[r].steps \in Seq(LinkedStep) /\ plan[r].next \in Nat \ {0}
         /\ plan[r].cases \in Seq(Testcase)
         /\ row[r].results \in Seq(Result) /\ row[r].passed \in Nat /\ row[r].failed \in Nat
BY DEF TypeInv, RunType, PlanType, ExecRow

(* The next step is loaded, or left out because nothing is pinned there. *)
LEMMA LoadsStep ==
  ASSUME IInv, NEW r \in Run, NEW cs \in Seq(Testcase), Loads(r, cs),
         \/ /\ cs = plan[r].cases
            /\ NextStep(r).case = NoCase \/ NextStep(r).pin = Unpinned
         \/ \E e \in Testcase : /\ cs = Append(plan[r].cases, e)
                                /\ e.from = plan[r].next
                                /\ e.case = NextStep(r).case /\ e.pin = NextStep(r).pin
  PROVE  OwnStep(r)
<1> DEFINE old == plan[r].cases
           st  == plan[r].steps
           n   == plan[r].next
<1>t. st \in Seq(LinkedStep) /\ n \in Nat \ {0} /\ old \in Seq(Testcase)
  BY OwnTypes DEF IInv
<1>1. /\ plan' \in [Run -> PlanType]
      /\ plan'[r].steps = st /\ plan'[r].next = n + 1 /\ plan'[r].cases = cs
      /\ \A x \in Run \ {r} : plan'[x] = plan[x]
  BY <1>t DEF Loads, IInv, TypeInv, PlanType
<1>2. run[r].at = "load" /\ n <= Len(st) /\ run' = run /\ row' = row /\ stored' = stored
  BY DEF Loads
<1>3. OnlyRun(r)
  BY <1>1 DEF Loads, OnlyRun, IInv, TypeInv
<1>4. row[r] = NoRow0 /\ run[r].told = "nothing"
  BY <1>2 DEF IInv, RunInv, Phase
<1>5. Phase(r)'
  BY <1>2 DEF IInv, RunInv, Phase
<1>6. WholeRow(r)'
  <2>1. row'[r] = NoRow0 /\ Len(cs) \in Nat
    BY <1>2, <1>4
  <2> QED BY <1>1, <2>1, NoRowFacts DEF WholeRow
<1>7. /\ \A k, l \in DOMAIN old : k < l => old[k].from < old[l].from
      /\ \A k \in DOMAIN old : old[k].from < n
      /\ \A i \in DOMAIN st : i < n /\ st[i].case # NoCase /\ st[i].pin # Unpinned =>
           \E k \in DOMAIN old : /\ old[k].from = i
                                 /\ old[k].case = st[i].case /\ old[k].pin = st[i].pin
  BY <1>2 DEF IInv, RunInv, Planned
<1>8. Planned(r)'
  <2>1. CASE /\ cs = old
             /\ NextStep(r).case = NoCase \/ NextStep(r).pin = Unpinned
    <3>0. \A k \in DOMAIN old : old[k] \in Testcase
      BY <1>t
    <3>1. \A k \in DOMAIN cs : cs[k].from < n + 1
      BY <1>t, <1>7, <2>1, <3>0 DEF Testcase
    <3>2. \A i \in DOMAIN st : i < n + 1 /\ st[i].case # NoCase /\ st[i].pin # Unpinned => i < n
      BY <1>t, <2>1 DEF NextStep
    <3> QED BY <1>t, <1>1, <1>2, <1>4, <1>7, <2>1, <3>1, <3>2 DEF Planned
  <2>2. ASSUME NEW e \in Testcase, cs = Append(old, e), e.from = n,
               e.case = NextStep(r).case, e.pin = NextStep(r).pin
        PROVE  Planned(r)'
    <3> DEFINE m == Len(old) + 1
    <3>1. /\ m \in Nat /\ DOMAIN old = 1..Len(old) /\ DOMAIN cs = 1..m
          /\ cs[m] = e /\ \A k \in 1..Len(old) : cs[k] = old[k]
      BY <1>t, <2>2
    <3>0. \A k \in 1..Len(old) : old[k] \in Testcase
      BY <1>t
    <3>2. \A k \in 1..Len(old) : old[k].from \in Nat /\ old[k].from < n
      BY <1>7, <3>0, <3>1 DEF Testcase
    <3>3. \A k, l \in DOMAIN cs : k < l => cs[k].from < cs[l].from
      <4>1. TAKE k, l \in DOMAIN cs
      <4>2. HAVE k < l
      <4>3. CASE l = m
        BY <2>2, <3>1, <3>2, <4>2, <4>3
      <4>4. CASE l # m
        <5>0. Len(old) \in Nat /\ k \in 1..(Len(old) + 1) /\ l \in 1..(Len(old) + 1)
              /\ l # Len(old) + 1
          BY <1>t, <3>1, <4>4
        <5>1. k \in 1..Len(old) /\ l \in 1..Len(old)
          <6> HIDE DEF old
          <6> QED BY <4>2, <5>0
        <5> QED BY <1>7, <3>1, <4>2, <5>1
      <4> QED BY <4>3, <4>4
    <3>4. \A k \in DOMAIN cs : cs[k].from < n + 1
      <4>1. TAKE k \in DOMAIN cs
      <4>2. CASE k = m
        BY <1>t, <2>2, <3>1, <4>2
      <4>3. CASE k # m
        <5>0. Len(old) \in Nat /\ k \in 1..(Len(old) + 1) /\ k # Len(old) + 1
          BY <1>t, <3>1, <4>3
        <5>1. k \in 1..Len(old)
          <6> HIDE DEF old
          <6> QED BY <5>0
        <5>2. cs[k].from \in Nat /\ cs[k].from < n
          BY <3>1, <3>2, <5>1
        <5> QED BY <1>t, <5>2
      <4> QED BY <4>2, <4>3
    <3>5. ASSUME NEW i \in DOMAIN st, i < n + 1, st[i].case # NoCase, st[i].pin # Unpinned
          PROVE  \E k \in DOMAIN cs : /\ cs[k].from = i
                                      /\ cs[k].case = st[i].case /\ cs[k].pin = st[i].pin
      <4>1. CASE i = n
        <5>1. NextStep(r) = st[i]
          BY <4>1 DEF NextStep
        <5>2. cs[m].from = i /\ cs[m].case = st[i].case /\ cs[m].pin = st[i].pin
          BY <2>2, <3>1, <4>1, <5>1
        <5>3. m \in DOMAIN cs
          BY <3>1
        <5> QED BY <5>2, <5>3
      <4>2. CASE i # n
        <5>1. i < n
          BY <1>t, <3>5, <4>2
        <5>2. PICK k \in DOMAIN old : /\ old[k].from = i
                                      /\ old[k].case = st[i].case /\ old[k].pin = st[i].pin
          BY <1>7, <3>5, <5>1
        <5>3. k \in DOMAIN cs /\ cs[k] = old[k]
          BY <1>t, <3>1
        <5> QED BY <5>2, <5>3
      <4> QED BY <4>1, <4>2
    <3> QED BY <1>1, <1>2, <1>4, <3>3, <3>4, <3>5 DEF Planned
  <2> QED BY <2>1, <2>2
<1> QED BY <1>3, <1>5, <1>6, <1>8 DEF OwnStep, RunInv

(* Loading, or leaving out, one step. *)
LEMMA LoadStepStep ==
  ASSUME IInv, NEW r \in Run, SkipStep(r) \/ LoadStep(r)
  PROVE  OwnStep(r)
<1> DEFINE st == NextStep(r)
           n  == plan[r].next
<1>t. /\ plan[r].steps \in Seq(LinkedStep) /\ n \in Nat \ {0} /\ plan[r].cases \in Seq(Testcase)
      /\ pool \in Pool /\ tcHist \in TcHist
  BY OwnTypes DEF IInv, TypeInv
<1>1. CASE SkipStep(r)
  <2>1. Loads(r, plan[r].cases) /\ (st.case = NoCase \/ st.pin = Unpinned)
    BY <1>1 DEF SkipStep
  <2> QED BY <1>t, <2>1, LoadsStep
<1>2. CASE LoadStep(r)
  <2>1. n \in 1..Len(plan[r].steps) /\ st.case # NoCase
    BY <1>t, <1>2 DEF LoadStep
  <2>2. st \in LinkedStep
    BY <1>t, <2>1 DEF NextStep
  <2>3. st.case \in Case /\ st.pin \in Nat
    BY <2>1, <2>2 DEF LinkedStep, Step
  <2>4. CASE st.pin \in 1..Len(tcHist[st.case])
    <3> DEFINE e == [case |-> st.case, body |-> tcHist[st.case][st.pin],
                     pin |-> st.pin, from |-> n]
    <3>1. tcHist[st.case] \in Seq(Input)
      BY <1>t, <2>3 DEF TcHist
    <3>2. tcHist[st.case][st.pin] \in Input
      BY <2>4, <3>1
    <3>3. e \in Testcase /\ e.from = n /\ e.case = st.case /\ e.pin = st.pin
      BY <1>t, <2>3, <3>2 DEF Testcase
    <3>4. Loads(r, Append(plan[r].cases, e))
      BY <1>2, <2>4 DEF LoadStep, Unpinned
    <3> HIDE DEF e
    <3>5. Append(plan[r].cases, e) \in Seq(Testcase)
      BY <1>t, <3>3
    <3> QED BY <3>3, <3>4, <3>5, LoadsStep
  <2>5. CASE st.pin \notin 1..Len(tcHist[st.case])
    <3> DEFINE e == FromPool(st.case, n)
    <3>1. st.pin = Unpinned /\ pool[st.case] # NoTc /\ Loads(r, Append(plan[r].cases, e))
      BY <1>2, <2>5 DEF LoadStep
    <3>2. pool[st.case] \in Input
      BY <1>t, <2>3, <3>1 DEF Pool
    <3>3. e \in Testcase /\ e.from = n /\ e.case = st.case /\ e.pin = st.pin
      BY <1>t, <2>3, <3>1, <3>2 DEF Testcase, FromPool, Unpinned
    <3> HIDE DEF e
    <3>5. Append(plan[r].cases, e) \in Seq(Testcase)
      BY <1>t, <3>3
    <3> QED BY <3>1, <3>3, <3>5, LoadsStep
  <2> QED BY <2>4, <2>5
<1> QED BY <1>1, <1>2

(* A request whose plan is complete goes from one phase to another. *)
LEMMA PhaseStep ==
  ASSUME IInv, NEW r \in Run, UNCHANGED <<poolVars, steps, plan>>,
         run' \in [Run -> RunType], row' \in [Run -> ExecRow],
         stored' \in [Run -> ExecRow \cup {NoRun}],
         \A x \in Run \ {r} : run'[x] = run[x] /\ row'[x] = row[x] /\ stored'[x] = stored[x],
         WholeRow(r)', Phase(r)', run'[r].at # "load",
         run'[r].at = "ready" \/ run'[r].told \in {"started", "done"}
           => plan[r].next > Len(plan[r].steps)
  PROVE  OwnStep(r)
<1>1. OnlyRun(r)
  BY DEF OnlyRun, IInv, TypeInv
<1>2. Planned(r)
  BY DEF IInv, RunInv
<1>3. plan' = plan
  OBVIOUS
<1>4. Planned(r)'
  BY <1>2, <1>3 DEF Planned
<1> QED BY <1>1, <1>4 DEF OwnStep, RunInv

(* Nothing left to load. *)
LEMMA PreparedStep ==
  ASSUME IInv, NEW r \in Run, Prepared(r)
  PROVE  OwnStep(r)
<1>1. /\ run[r].at = "load" /\ run' \in [Run -> RunType]
      /\ run'[r].at = "ready" /\ run'[r].told = "nothing"
      /\ \A x \in Run \ {r} : run'[x] = run[x]
  BY MovesFacts DEF Prepared, IInv, At, Told
<1>2. /\ row' = row /\ stored' = stored /\ plan' = plan /\ UNCHANGED <<poolVars, steps>>
      /\ plan[r].next > Len(plan[r].steps)
  BY DEF Prepared
<1>3. WholeRow(r)'
  BY <1>2 DEF IInv, RunInv, WholeRow
<1>4. Phase(r)'
  BY <1>1, <1>2 DEF IInv, RunInv, Phase
<1>5. row \in [Run -> ExecRow] /\ stored \in [Run -> ExecRow \cup {NoRun}]
  BY DEF IInv, TypeInv
<1> QED BY <1>1, <1>2, <1>3, <1>4, <1>5, PhaseStep

(* The row is written, without results. *)
LEMMA BeginRunStep ==
  ASSUME IInv, NEW r \in Run, BeginRun(r)
  PROVE  OwnStep(r)
<1>1. /\ run[r].at = "ready" /\ run' \in [Run -> RunType]
      /\ run'[r].at = "run" /\ run'[r].told = "started"
      /\ \A x \in Run \ {r} : run'[x] = run[x]
  BY MovesFacts DEF BeginRun, IInv, At, Told
<1>2. /\ row' \in [Run -> ExecRow]
      /\ row'[r].status = "running" /\ row'[r].results = << >>
      /\ row'[r].passed = 0 /\ row'[r].failed = 0
      /\ \A x \in Run \ {r} : row'[x] = row[x]
  <2>1. Writes(r, "running", << >>, 0, 0) /\ << >> \in Seq(Result) /\ 0 \in Nat
    BY DEF BeginRun
  <2> QED BY <2>1, WritesFacts DEF IInv
<1>3. stored' = stored /\ plan' = plan /\ UNCHANGED <<poolVars, steps>>
  BY DEF BeginRun
<1>4. plan[r].next > Len(plan[r].steps)
  BY <1>1 DEF IInv, RunInv, Planned
<1>5. WholeRow(r)'
  <2>1. Cardinality(Passed(<< >>)) = 0 /\ Cardinality(Failed(<< >>)) = 0
    BY NoRowFacts DEF NoRow0
  <2>2. plan[r].cases \in Seq(Testcase)
    BY OwnTypes DEF IInv
  <2>3. Len(plan[r].cases) \in Nat /\ Len(<< >>) = 0 /\ DOMAIN << >> = {}
    BY <2>2
  <2> QED BY <1>2, <1>3, <2>1, <2>3 DEF WholeRow
<1>6. Phase(r)'
  BY <1>1, <1>2, <1>3 DEF IInv, RunInv, Phase
<1>7. stored \in [Run -> ExecRow \cup {NoRun}]
  BY DEF IInv, TypeInv
<1> QED BY <1>1, <1>2, <1>3, <1>4, <1>5, <1>6, <1>7, PhaseStep

(* One more testcase is judged and counted. *)
LEMMA RunStepStep ==
  ASSUME IInv, NEW r \in Run, NEW ok \in BOOLEAN, RunStep(r, ok)
  PROVE  OwnStep(r)
<1> DEFINE q  == row[r].results
           cs == plan[r].cases
           e  == [case |-> Turn(r).case, pin |-> Turn(r).pin, ok |-> ok]
           p  == row[r].passed + (IF ok THEN 1 ELSE 0)
           f  == row[r].failed + (IF ok THEN 0 ELSE 1)
<1>t. /\ q \in Seq(Result) /\ cs \in Seq(Testcase)
      /\ row[r].passed \in Nat /\ row[r].failed \in Nat
  BY OwnTypes DEF IInv
<1>1. /\ run[r].at = "run" /\ Len(q) < Len(cs) /\ Writes(r, "running", Append(q, e), p, f)
      /\ run' = run /\ stored' = stored /\ plan' = plan /\ UNCHANGED <<poolVars, steps>>
  BY DEF RunStep
<1>2. Len(q) + 1 \in DOMAIN cs /\ Turn(r) \in Testcase
  BY <1>t, <1>1 DEF Turn
<1>3. e \in Result /\ e.ok = ok
  BY <1>2 DEF Testcase, Result
<1>4. /\ Append(q, e) \in Seq(Result) /\ Len(Append(q, e)) = Len(q) + 1
      /\ DOMAIN Append(q, e) = 1..(Len(q) + 1) /\ DOMAIN q = 1..Len(q)
      /\ Append(q, e)[Len(q) + 1] = e /\ \A k \in 1..Len(q) : Append(q, e)[k] = q[k]
  <2> HIDE DEF e
  <2> QED BY <1>t, <1>3
<1>5. p \in Nat /\ f \in Nat
  BY <1>t
<1>6. /\ row' \in [Run -> ExecRow]
      /\ row'[r].status = "running" /\ row'[r].results = Append(q, e)
      /\ row'[r].passed = p /\ row'[r].failed = f
      /\ \A x \in Run \ {r} : row'[x] = row[x]
  <2> HIDE DEF e, p, f
  <2> QED BY <1>1, <1>4, <1>5, WritesFacts DEF IInv
<1>7. WholeRow(r)'
  <2>1. /\ Cardinality(Passed(Append(q, e))) = Cardinality(Passed(q)) + (IF ok THEN 1 ELSE 0)
        /\ Cardinality(Failed(Append(q, e))) = Cardinality(Failed(q)) + (IF ok THEN 0 ELSE 1)
    <3> HIDE DEF e, q
    <3> QED BY <1>t, <1>3, CountFacts
  <2>2. /\ row[r].passed = Cardinality(Passed(q)) /\ row[r].failed = Cardinality(Failed(q))
        /\ \A k \in DOMAIN q : q[k].case = cs[k].case /\ q[k].pin = cs[k].pin
    BY DEF IInv, RunInv, WholeRow
  <2>3. Len(Append(q, e)) <= Len(cs)
    <3>1. Len(q) \in Nat /\ Len(cs) \in Nat
      BY <1>t
    <3> QED BY <1>1, <1>4, <3>1
  <2>4. ASSUME NEW k \in DOMAIN Append(q, e)
        PROVE  Append(q, e)[k].case = cs[k].case /\ Append(q, e)[k].pin = cs[k].pin
    <3>1. CASE k = Len(q) + 1
      <4>1. e.case = cs[k].case /\ e.pin = cs[k].pin
        BY <3>1 DEF Turn
      <4> QED BY <1>4, <3>1, <4>1
    <3>2. CASE k # Len(q) + 1
      <4>1. Len(q) \in Nat /\ k \in 1..(Len(q) + 1)
        BY <1>t, <1>4
      <4>2. k \in 1..Len(q)
        <5> HIDE DEF q
        <5> QED BY <3>2, <4>1
      <4> QED BY <1>4, <2>2, <4>2
    <3> QED BY <3>1, <3>2
  <2>5. plan'[r].cases = cs
    BY <1>1
  <2> HIDE DEF e, q, cs
  <2> QED BY <1>6, <2>1, <2>2, <2>3, <2>4, <2>5 DEF WholeRow
<1>8. Phase(r)'
  BY <1>1, <1>6 DEF IInv, RunInv, Phase
<1>9. /\ run \in [Run -> RunType] /\ stored \in [Run -> ExecRow \cup {NoRun}]
      /\ run[r].told = "started"
  BY <1>1 DEF IInv, TypeInv, RunInv, Phase
<1>10. plan[r].next > Len(plan[r].steps)
  BY <1>9 DEF IInv, RunInv, Planned
<1> HIDE DEF e, p, f, q, cs
<1> QED BY <1>1, <1>6, <1>7, <1>8, <1>9, <1>10, PhaseStep

(* The row is completed and the client told so. *)
LEMMA FinishRunStep ==
  ASSUME IInv, NEW r \in Run, FinishRun(r)
  PROVE  OwnStep(r)
<1>1. /\ run[r].at = "run" /\ run' \in [Run -> RunType]
      /\ run'[r].at = "commit" /\ run'[r].told = "done"
      /\ \A x \in Run \ {r} : run'[x] = run[x]
  BY MovesFacts DEF FinishRun, IInv, At, Told
<1>2. row[r].results \in Seq(Result) /\ row[r].passed \in Nat /\ row[r].failed \in Nat
  BY OwnTypes DEF IInv
<1>3. /\ row' \in [Run -> ExecRow]
      /\ row'[r].status = "completed" /\ row'[r].results = row[r].results
      /\ row'[r].passed = row[r].passed /\ row'[r].failed = row[r].failed
      /\ \A x \in Run \ {r} : row'[x] = row[x]
  BY <1>2, WritesFacts DEF FinishRun, IInv
<1>4. /\ stored' = stored /\ plan' = plan /\ UNCHANGED <<poolVars, steps>>
      /\ Len(row[r].results) = Len(plan[r].cases)
  BY DEF FinishRun
<1>5. WholeRow(r)'
  BY <1>3, <1>4 DEF IInv, RunInv, WholeRow
<1>6. stored[r] = NoRun /\ run[r].told = "started"
  BY <1>1 DEF IInv, RunInv, Phase
<1>7. Phase(r)'
  BY <1>1, <1>3, <1>4, <1>6 DEF Phase, Completed
<1>8. plan[r].next > Len(plan[r].steps)
  BY <1>6 DEF IInv, RunInv, Planned
<1>9. stored \in [Run -> ExecRow \cup {NoRun}]
  BY DEF IInv, TypeInv
<1> QED BY <1>1, <1>3, <1>4, <1>5, <1>7, <1>8, <1>9, PhaseStep

(* An error: a stream still commits, any other request is over. *)
LEMMA RaiseStep ==
  ASSUME IInv, NEW r \in Run, Raise(r)
  PROVE  OwnStep(r)
<1>t. run[r] \in RunType
  BY OwnTypes DEF IInv
<1>0. (IF run[r].stream THEN "commit" ELSE "ended") \in At /\ "error" \in Told
  BY DEF At, Told
<1>1. /\ run[r].at \in {"load", "ready", "run"} /\ run' \in [Run -> RunType]
      /\ run'[r].at = (IF run[r].stream THEN "commit" ELSE "ended")
      /\ run'[r].told = "error" /\ run'[r].stream = run[r].stream
      /\ \A x \in Run \ {r} : run'[x] = run[x]
  BY <1>0, MovesFacts DEF Raise, IInv
<1>2. row' = row /\ stored' = stored /\ plan' = plan /\ UNCHANGED <<poolVars, steps>>
  BY DEF Raise
<1>3. WholeRow(r)'
  BY <1>2 DEF IInv, RunInv, WholeRow
<1>4. stored[r] = NoRun /\ row[r].status \in {"none", "running"}
  BY <1>1, NoRowFacts DEF IInv, RunInv, Phase
<1>5. Phase(r)'
  <2>1. CASE run[r].stream
    BY <1>1, <1>2, <1>4, <2>1 DEF Phase
  <2>2. CASE ~ run[r].stream
    BY <1>1, <1>2, <1>4, <2>2 DEF Phase
  <2> QED BY <2>1, <2>2
<1>6. row \in [Run -> ExecRow] /\ stored \in [Run -> ExecRow \cup {NoRun}]
  BY DEF IInv, TypeInv
<1>7. run'[r].at \in {"commit", "ended"}
  BY <1>1
<1> QED BY <1>1, <1>2, <1>3, <1>5, <1>6, <1>7, PhaseStep

(* What was written is stored. *)
LEMMA CommitStep ==
  ASSUME IInv, NEW r \in Run, Commit(r)
  PROVE  OwnStep(r)
<1>t. run[r].told \in Told /\ row[r] \in ExecRow
  BY OwnTypes DEF IInv, RunType
<1>1. /\ run[r].at = "commit" /\ run' \in [Run -> RunType]
      /\ run'[r].at = "ended" /\ run'[r].told = run[r].told /\ run'[r].stream = run[r].stream
      /\ \A x \in Run \ {r} : run'[x] = run[x]
  <2>1. Moves(r, "commit", "ended", run[r].told) /\ "ended" \in At
    BY DEF Commit, At
  <2> QED BY <1>t, <2>1, MovesFacts DEF IInv
<1>2. /\ stored' \in [Run -> ExecRow \cup {NoRun}]
      /\ stored'[r] = (IF row[r].status = "none" THEN NoRun ELSE row[r])
      /\ \A x \in Run \ {r} : stored'[x] = stored[x]
  BY <1>t DEF Commit, IInv, TypeInv
<1>3. row' = row /\ plan' = plan /\ UNCHANGED <<poolVars, steps>>
  BY DEF Commit
<1>4. WholeRow(r)'
  BY <1>3 DEF IInv, RunInv, WholeRow
<1>5. \/ run[r].told = "done" /\ Completed(r)
      \/ run[r].told = "error" /\ run[r].stream /\ row[r].status \in {"none", "running"}
  BY <1>1 DEF IInv, RunInv, Phase
<1>6. Phase(r)'
  <2>1. CASE run[r].told = "done" /\ Completed(r)
    BY <1>1, <1>2, <1>3, <2>1 DEF Phase, Completed
  <2>2. CASE run[r].told = "error" /\ run[r].stream /\ row[r].status \in {"none", "running"}
    BY <1>1, <1>2, <1>3, <2>2 DEF Phase
  <2> QED BY <1>5, <2>1, <2>2
<1>7. row \in [Run -> ExecRow]
  BY DEF IInv, TypeInv
<1>8. run[r].told \in {"started", "done"} => plan[r].next > Len(plan[r].steps)
  BY DEF IInv, RunInv, Planned
<1> QED BY <1>1, <1>2, <1>3, <1>4, <1>6, <1>7, <1>8, PhaseStep

(* What was written is rolled back. *)
LEMMA LoseStep ==
  ASSUME IInv, NEW r \in Run, Lose(r)
  PROVE  OwnStep(r)
<1>t. run[r].told \in Told
  BY OwnTypes DEF IInv, RunType
<1>1. /\ run[r].at \in {"load", "ready", "run", "commit"} /\ run' \in [Run -> RunType]
      /\ run'[r].at = "lost" /\ run'[r].told = run[r].told
      /\ \A x \in Run \ {r} : run'[x] = run[x]
  BY <1>t, MovesFacts DEF Lose, IInv, At
<1>2. row' = row /\ stored' = stored /\ plan' = plan /\ UNCHANGED <<poolVars, steps>>
  BY DEF Lose
<1>3. WholeRow(r)'
  BY <1>2 DEF IInv, RunInv, WholeRow
<1>4. stored[r] = NoRun
  BY <1>1 DEF IInv, RunInv, Phase
<1>5. Phase(r)'
  BY <1>1, <1>2, <1>4 DEF Phase
<1>6. row \in [Run -> ExecRow] /\ stored \in [Run -> ExecRow \cup {NoRun}]
  BY DEF IInv, TypeInv
<1>7. run[r].told \in {"started", "done"} => plan[r].next > Len(plan[r].steps)
  BY DEF IInv, RunInv, Planned
<1> QED BY <1>1, <1>2, <1>3, <1>5, <1>6, <1>7, PhaseStep

-----------------------------------------------------------------------------
(* The invariant. *)

(* A request's step keeps the invariant, of the others too. *)
LEMMA OwnStepKeeps ==
  ASSUME IInv, NEW r \in Run, OwnStep(r)
  PROVE  IInv'
<1>1. TypeInv'
  BY DEF OwnStep, OnlyRun, IInv, TypeInv, poolVars
<1>2. ASSUME NEW x \in Run \ {r} PROVE RunInv(x)'
  <2>1. run'[x] = run[x] /\ plan'[x] = plan[x] /\ row'[x] = row[x] /\ stored'[x] = stored[x]
    BY DEF OwnStep, OnlyRun
  <2>2. WholeRow(x) /\ Phase(x) /\ Planned(x)
    BY DEF IInv, RunInv
  <2>3. WholeRow(x)'
    BY <2>1, <2>2 DEF WholeRow
  <2>4. Phase(x)'
    BY <2>1, <2>2 DEF Phase, Completed
  <2>5. Planned(x)'
    BY <2>1, <2>2 DEF Planned
  <2> QED BY <2>3, <2>4, <2>5 DEF RunInv
<1> QED BY <1>1, <1>2 DEF OwnStep, IInv

(* An edit of scenarios or testcases leaves the requests alone. *)
LEMMA EditKeeps ==
  ASSUME IInv, pool' \in Pool, tcHist' \in TcHist,
         steps' \in [Scenario -> Seq(LinkedStep)], UNCHANGED runVars
  PROVE  IInv'
<1>1. TypeInv'
  BY DEF IInv, TypeInv, runVars
<1>2. ASSUME NEW x \in Run PROVE RunInv(x)'
  BY DEF IInv, RunInv, WholeRow, Phase, Completed, Planned, runVars
<1> QED BY <1>1, <1>2 DEF IInv

(* The requests of the rule store keep the types. *)
LEMMA PoolStepTypes ==
  ASSUME TypeInv, PoolStep
  PROVE  pool' \in Pool /\ tcHist' \in TcHist /\ UNCHANGED <<steps, runVars>>
<1>1. ASSUME NEW c \in Case, NEW b \in Input, PutTestcase(c, b)
      PROVE  pool' \in Pool /\ tcHist' \in TcHist /\ UNCHANGED <<steps, runVars>>
  <2>1. [EmptyPool EXCEPT ![c] = b] \in Pool
    BY DEF EmptyPool, Pool
  <2> QED BY <1>1, <2>1, PoolTypes DEF PutTestcase, TypeInv
<1>2. ASSUME NEW svc \in Service, NEW new \in NewPools({svc}), ReplacePool(svc, new)
      PROVE  pool' \in Pool /\ tcHist' \in TcHist /\ UNCHANGED <<steps, runVars>>
  <2>1. new \in Pool /\ Emptied({svc}) \in Pool /\ EmptiedHist({svc}) \in TcHist
    BY NewTypes, EmptiedTypes DEF TypeInv
  <2> QED BY <1>2, <2>1, PoolTypes DEF ReplacePool
<1> QED BY <1>1, <1>2 DEF PoolStep

(* Each step of a request that executes. *)
LEMMA RunKeeps ==
  ASSUME IInv, NEW r \in Run, Start(r) \/ Proceed(r) \/ Lose(r)
  PROVE  IInv'
<1>1. OwnStep(r)
  BY StartStep, LoadStepStep, PreparedStep, BeginRunStep, RunStepStep, FinishRunStep,
     RaiseStep, CommitStep, LoseStep DEF Proceed
<1> QED BY <1>1, OwnStepKeeps

(* Nothing exists and nothing runs at first. *)
LEMMA InitIInv == Init => IInv
<1> SUFFICES ASSUME Init PROVE IInv
  OBVIOUS
<1>1. << >> \in Seq(Input) /\ << >> \in Seq(LinkedStep) /\ << >> \in Seq(Testcase)
  OBVIOUS
<1>2. TypeInv
  BY <1>1, NoRowFacts
  DEF Init, TypeInv, EmptyPool, Pool, TcHist, RunType, PlanType, At, Told
<1>3. ASSUME NEW r \in Run PROVE RunInv(r)
  <2>1. /\ run[r].at = "idle" /\ run[r].told = "nothing"
        /\ plan[r].steps = << >> /\ plan[r].next = 1 /\ plan[r].cases = << >>
        /\ row[r] = NoRow0 /\ stored[r] = NoRun
    BY DEF Init
  <2>2. WholeRow(r)
    <3>1. Len(plan[r].cases) = 0
      BY <2>1
    <3> QED BY <2>1, <3>1, NoRowFacts DEF WholeRow
  <2>3. Phase(r)
    BY <2>1 DEF Phase
  <2>4. Planned(r)
    BY <2>1 DEF Planned
  <2> QED BY <2>2, <2>3, <2>4 DEF RunInv
<1> QED BY <1>2, <1>3 DEF IInv

(* Every step keeps the invariant. *)
LEMMA NextIInv == IInv /\ [Next]_vars => IInv'
<1> SUFFICES ASSUME IInv, [Next]_vars PROVE IInv'
  OBVIOUS
<1>t. pool \in Pool /\ tcHist \in TcHist /\ steps \in [Scenario -> Seq(LinkedStep)]
  BY DEF IInv, TypeInv
<1>1. ASSUME NEW s \in Scenario, EditStep(s) PROVE IInv'
  <2>1. EditTypes(s)
    BY <1>1, EditStepTypes DEF IInv
  <2> QED BY <2>1, EditKeeps DEF EditTypes
<1>2. CASE PoolStep
  <2>1. pool' \in Pool /\ tcHist' \in TcHist /\ UNCHANGED <<steps, runVars>>
    BY <1>2, PoolStepTypes DEF IInv
  <2> QED BY <1>t, <2>1, EditKeeps
<1>3. ASSUME NEW r \in Run, Start(r) \/ Proceed(r) \/ Lose(r) PROVE IInv'
  BY <1>3, RunKeeps
<1>4. CASE UNCHANGED vars
  BY <1>t, <1>4, EditKeeps DEF vars, runVars
<1> QED BY <1>1, <1>2, <1>3, <1>4 DEF Next

(* The invariant holds of every reachable state: the types, and for every   *)
(* request what its row, its commit and its client's knowledge are in each  *)
(* phase, and which steps its plan stands for.                              *)
THEOREM InvariantCorrect == Spec => []IInv
<1>1. Init => IInv
  BY InitIInv
<1>2. IInv /\ [Next]_vars => IInv'
  BY NextIInv
<1> QED BY <1>1, <1>2, PTL DEF Spec

(* Every variable keeps its type, and every link of a step names a testcase *)
(* of the step's own service, whatever a browser attaches.                  *)
THEOREM TypeCorrect == Spec => []TypeOK
<1>1. IInv => TypeOK
  <2> SUFFICES ASSUME IInv PROVE TypeOK
    OBVIOUS
  <2>1. ASSUME NEW T, NEW U, T \subseteq U PROVE Seq(T) \subseteq Seq(U)
    BY <2>1
  <2>2. LinkedStep \subseteq Step
    BY DEF LinkedStep
  <2>3. Seq(LinkedStep) \subseteq Seq(Step)
    BY <2>1, <2>2
  <2>4. steps \in [Scenario -> Seq(LinkedStep)] /\ plan \in [Run -> PlanType]
    BY DEF IInv, TypeInv
  <2>5. steps \in [Scenario -> Seq(Step)]
    BY <2>3, <2>4
  <2>6. \A s \in Scenario : \A i \in DOMAIN steps[s] : steps[s][i] \in LinkedStep
    BY <2>4
  <2>7. \A s \in Scenario : \A i \in DOMAIN steps[s] :
          steps[s][i].case # NoCase => steps[s][i].svc = ServiceOf[steps[s][i].case]
    BY <2>6 DEF LinkedStep
  <2>8. plan \in [Run -> [steps : Seq(Step), next : Nat, cases : Seq(Testcase)]]
    BY <2>3, <2>4 DEF PlanType
  <2> QED BY <2>5, <2>7, <2>8 DEF IInv, TypeInv, TypeOK, RunType
<1> QED BY <1>1, InvariantCorrect, PTL

(* A stored run is whole: completed with every loaded testcase's result, or *)
(* broken off by an error that its client saw.                              *)
THEOREM StoredRunCorrect == Spec => []StoredRunIsWhole
<1>1. IInv => StoredRunIsWhole
  <2> SUFFICES ASSUME IInv, NEW r \in Run, stored[r] # NoRun
               PROVE  LET done == stored[r].results IN
                      /\ stored[r].passed = Cardinality({k \in DOMAIN done : done[k].ok})
                      /\ stored[r].failed = Cardinality({k \in DOMAIN done : ~ done[k].ok})
                      /\ Len(done) <= Len(plan[r].cases)
                      /\ \A k \in DOMAIN done : /\ done[k].case = plan[r].cases[k].case
                                                 /\ done[k].pin = plan[r].cases[k].pin
                      /\ \/ stored[r].status = "completed" /\ Len(done) = Len(plan[r].cases)
                         \/ stored[r].status = "running" /\ run[r].told = "error" /\ run[r].stream
    BY DEF StoredRunIsWhole
  <2>1. WholeRow(r) /\ Phase(r)
    BY DEF IInv, RunInv
  <2>2. /\ stored[r] = row[r]
        /\ \/ Completed(r)
           \/ run[r].told = "error" /\ run[r].stream /\ row[r].status = "running"
    BY <2>1 DEF Phase
  <2> QED BY <2>1, <2>2 DEF WholeRow, Completed, Passed, Failed
<1> QED BY <1>1, InvariantCorrect, PTL

(* What is executed follows the steps, and no pinned step is left out.      *)
THEOREM PinnedStepsCorrect == Spec => []PinnedStepsAreRun
<1>1. IInv => PinnedStepsAreRun
  <2> SUFFICES ASSUME IInv, NEW r \in Run
               PROVE  LET st == plan[r].steps
                          cs == plan[r].cases IN
                      /\ \A k, l \in DOMAIN cs : k < l => cs[k].from < cs[l].from
                      /\ run[r].told \in {"started", "done"} =>
                           \A i \in DOMAIN st : st[i].case # NoCase /\ st[i].pin # Unpinned =>
                             \E k \in DOMAIN cs : /\ cs[k].from = i
                                                 /\ cs[k].case = st[i].case
                                                 /\ cs[k].pin = st[i].pin
    BY DEF PinnedStepsAreRun
  <2>1. Planned(r)
    BY DEF IInv, RunInv
  <2>2. plan[r].steps \in Seq(LinkedStep) /\ plan[r].next \in Nat
    BY OwnTypes DEF IInv
  <2>3. plan[r].next > Len(plan[r].steps) => \A i \in DOMAIN plan[r].steps : i < plan[r].next
    BY <2>2
  <2> QED BY <2>1, <2>3 DEF Planned
<1> QED BY <1>1, InvariantCorrect, PTL

(* What the client was told agrees with what is stored once it has ended.   *)
THEOREM DoneIsStoredCorrect == Spec => []DoneIsStored
<1>1. IInv => DoneIsStored
  <2> SUFFICES ASSUME IInv, NEW r \in Run
               PROVE  /\ run[r].at = "ended" /\ run[r].told = "done" =>
                           stored[r] # NoRun /\ stored[r].status = "completed"
                      /\ run[r].told # "done" => stored[r] = NoRun \/ stored[r].status = "running"
                      /\ ~ run[r].stream /\ run[r].told = "error" => stored[r] = NoRun
    BY DEF DoneIsStored
  <2>1. Phase(r)
    BY DEF IInv, RunInv
  <2>2. row[r] # NoRun
    BY OwnTypes, ScenarioRunsAssumption DEF IInv
  <2> QED BY <2>1, <2>2 DEF Phase, Completed
<1> QED BY <1>1, InvariantCorrect, PTL

-----------------------------------------------------------------------------
(* What a step may do to pins and to pinned versions. *)

(* Upserting alone only appends versions. *)
LEMMA UpsertGrows ==
  ASSUME NEW p \in Pool, NEW h \in TcHist, NEW new \in Pool, NEW c \in Case
  PROVE  \A v \in DOMAIN h[c] : /\ v \in DOMAIN UpsertedHist(h, p, new)[c]
                                /\ UpsertedHist(h, p, new)[c][v] = h[c][v]
<1> DEFINE u == UpsertedHist(h, p, new)
<1>1. u[c] = Latest(p, u, {})[c]
  BY DEF Latest
<1>2. \A v \in DOMAIN h[c] : v \in DOMAIN Latest(p, u, {})[c] /\ Latest(p, u, {})[c][v] = h[c][v]
  BY HistGrows
<1> QED BY <1>1, <1>2

(* Replacing the testcases of the services S cuts off only their versions,  *)
(* and only where the keys are enforced.                                    *)
LEMMA ReplacedGrows ==
  ASSUME TypeInv, NEW S, NEW new \in Pool, NEW c \in Case, ServiceOf[c] \notin S \/ ~ Cascades
  PROVE  LET h == UpsertedHist(EmptiedHist(S), Emptied(S), new) IN
         \A v \in DOMAIN tcHist[c] : v \in DOMAIN h[c] /\ h[c][v] = tcHist[c][v]
<1>1. Emptied(S) \in Pool /\ EmptiedHist(S) \in TcHist
  BY EmptiedTypes DEF TypeInv
<1>2. EmptiedHist(S)[c] = tcHist[c]
  BY DEF EmptiedHist, CascadedPool
<1> QED BY <1>1, <1>2, UpsertGrows

(* The types that an attachment computes with. *)
LEMMA AttachSteps ==
  ASSUME TypeInv, NEW s \in Scenario, NEW k \in Nat, NEW old \in [1..k -> LinkedStep],
         NEW refs \in [1..k -> SentRef], NEW new \in Testcases(Missing(refs)),
         Attach(s, old, refs, new)
  PROVE  /\ \A c \in Case : /\ Len(tcHist[c]) <= Len(tcHist'[c])
                            /\ Len(tcHist[c]) \in Nat /\ Len(tcHist'[c]) \in Nat
                            /\ \A v \in DOMAIN tcHist[c] :
                                 v \in DOMAIN tcHist'[c] /\ tcHist'[c][v] = tcHist[c][v]
         /\ \A x \in Scenario \ {s} : steps'[x] = steps[x]
         /\ \A i \in DOMAIN steps'[s] :
              LET st == steps'[s][i] IN
              /\ i \in 1..k
              /\ refs[i].case = NoCase => st = old[i]
              /\ refs[i].case # NoCase => st.case \in Case /\ st.pin <= Len(tcHist'[st.case])
<1> DEFINE p == Upserted(pool, new)
           u == UpsertedHist(tcHist, pool, new)
           h == Latest(p, u, Current(refs))
           st == [i \in DOMAIN old |-> Attached(old[i], refs[i], h)]
<1>1. new \in Pool
  <2>1. \A i \in DOMAIN refs : refs[i].case \in Case \cup {NoCase}
    BY DEF SentRef
  <2>2. Missing(refs) \subseteq Case
    BY <2>1 DEF Missing, Current
  <2> QED BY <2>2, NewTypes
<1>2. p \in Pool /\ u \in TcHist /\ h \in TcHist
  <2>1. p \in Pool /\ u \in TcHist
    BY <1>1, PoolTypes DEF TypeInv
  <2> QED BY <2>1, PoolTypes
<1>3. tcHist' = h /\ steps' = [steps EXCEPT ![s] = st]
  BY DEF Attach
<1>4. ASSUME NEW c \in Case
      PROVE  /\ Len(tcHist[c]) <= Len(h[c])
             /\ Len(tcHist[c]) \in Nat /\ Len(h[c]) \in Nat
             /\ \A v \in DOMAIN tcHist[c] : v \in DOMAIN h[c] /\ h[c][v] = tcHist[c][v]
  <2>1. /\ Len(tcHist[c]) <= Len(h[c])
        /\ \A v \in DOMAIN tcHist[c] : v \in DOMAIN h[c] /\ h[c][v] = tcHist[c][v]
    BY <1>1, <1>2, HistGrows DEF TypeInv
  <2>2. tcHist[c] \in Seq(Input) /\ h[c] \in Seq(Input)
    BY <1>2 DEF TypeInv, TcHist
  <2> HIDE DEF h
  <2> QED BY <2>1, <2>2
<1>5. steps'[s] = st /\ DOMAIN st = 1..k /\ \A x \in Scenario \ {s} : steps'[x] = steps[x]
  BY <1>3 DEF TypeInv
<1>6. ASSUME NEW i \in 1..k
      PROVE  /\ refs[i].case = NoCase => st[i] = old[i]
             /\ refs[i].case # NoCase => st[i].case \in Case /\ st[i].pin <= Len(h[st[i].case])
  <2>1. st[i] = Attached(old[i], refs[i], h)
    OBVIOUS
  <2>2. CASE refs[i].case = NoCase
    BY <2>1, <2>2 DEF Attached
  <2>3. CASE refs[i].case # NoCase
    <3>1. refs[i].case \in Case /\ refs[i].pin \in Nat
      BY <2>3, SentRefType DEF Ref
    <3>2. refs[i].pin # Unpinned => Found(refs, i, h)
      BY <2>3 DEF Attach
    <3>3. refs[i].pin # Unpinned => refs[i].pin <= Len(h[refs[i].case])
      <4>1. CASE refs[i].pin <= Len(tcHist[refs[i].case])
        <5>1. /\ Len(tcHist[refs[i].case]) <= Len(h[refs[i].case])
              /\ Len(tcHist[refs[i].case]) \in Nat /\ Len(h[refs[i].case]) \in Nat
          BY <1>4, <3>1
        <5> DEFINE n == refs[i].pin
                   a == Len(tcHist[refs[i].case])
                   b == Len(h[refs[i].case])
        <5>2. n \in Nat /\ a \in Nat /\ b \in Nat /\ n <= a /\ a <= b
          BY <3>1, <4>1, <5>1
        <5>3. n <= b
          <6> HIDE DEF n, a, b
          <6> QED BY <5>2
        <5> QED BY <5>3
      <4> QED BY <3>2, <4>1 DEF Found
    <3>4. Len(h[refs[i].case]) \in Nat
      BY <1>4, <3>1
    <3>5. /\ st[i].case = refs[i].case
          /\ st[i].pin = IF refs[i].pin = Unpinned THEN Len(h[refs[i].case]) ELSE refs[i].pin
      BY <2>1, <2>3 DEF Attached
    <3> HIDE DEF h, st
    <3> QED BY <2>3, <3>1, <3>3, <3>4, <3>5
  <2> QED BY <2>2, <2>3
<1> HIDE DEF h, st
<1> QED BY <1>3, <1>4, <1>5, <1>6

(* Every edit of a scenario is an attachment, a re-materialisation, or one  *)
(* that leaves the testcases alone and links nothing.                       *)
LEMMA EditCases ==
  ASSUME TypeInv, NEW s \in Scenario, EditStep(s)
  PROVE  \/ /\ UNCHANGED tcHist
            /\ \A x \in Scenario \ {s} : steps'[x] = steps[x]
            /\ \A i \in DOMAIN steps'[s] : steps'[s][i].case = NoCase
         \/ \E k \in Nat : \E old \in [1..k -> LinkedStep] : \E refs \in [1..k -> SentRef] :
              \E new \in Testcases(Missing(refs)) :
                /\ Attach(s, old, refs, new)
                /\ \/ \A i \in 1..k : old[i].case = NoCase
                   \/ old = steps[s]
         \/ GenerateSome(s)
<1>n. MaxSteps \in Nat
  BY ScenarioRunsAssumption
<1>1. ASSUME NEW svcs \in SeqUpTo(Service \cup {NoService}, MaxSteps), DraftSteps(s, svcs)
      PROVE  /\ UNCHANGED tcHist
             /\ \A x \in Scenario \ {s} : steps'[x] = steps[x]
             /\ \A i \in DOMAIN steps'[s] : steps'[s][i].case = NoCase
  BY <1>1 DEF DraftSteps, Unlinked, poolVars, TypeInv
<1>2. ASSUME NEW svcs \in SeqUpTo(Service, MaxSteps), NEW refs \in [DOMAIN svcs -> SentRef],
             NEW new \in Testcases(Missing(refs)), SaveDefinition(s, svcs, refs, new)
      PROVE  \E k \in Nat : \E old \in [1..k -> LinkedStep] : \E rs \in [1..k -> SentRef] :
               \E nw \in Testcases(Missing(rs)) :
                 /\ Attach(s, old, rs, nw)
                 /\ \A i \in 1..k : old[i].case = NoCase
  <2> DEFINE o == [i \in DOMAIN svcs |-> Unlinked(svcs[i])]
  <2>1. PICK k \in Nat : svcs \in [1..k -> Service]
    BY <1>n, SeqUpToType
  <2>2. o \in [1..k -> LinkedStep] /\ refs \in [1..k -> SentRef]
    BY <2>1, StepTypes DEF TypeInv
  <2>3. Attach(s, o, refs, new)
    BY <1>2 DEF SaveDefinition
  <2>4. \A i \in 1..k : o[i].case = NoCase
    BY <2>1 DEF Unlinked
  <2> HIDE DEF o
  <2> QED BY <2>2, <2>3, <2>4
<1>3. ASSUME NEW refs \in [DOMAIN steps[s] -> SentRef],
             NEW new \in Testcases(Missing(refs)), Attach(s, steps[s], refs, new)
      PROVE  \E k \in Nat : \E old \in [1..k -> LinkedStep] : \E rs \in [1..k -> SentRef] :
               \E nw \in Testcases(Missing(rs)) :
                 Attach(s, old, rs, nw) /\ old = steps[s]
  <2>1. steps[s] \in Seq(LinkedStep)
    BY DEF TypeInv
  <2>2. Len(steps[s]) \in Nat /\ steps[s] \in [1..Len(steps[s]) -> LinkedStep]
    BY <2>1
  <2>3. refs \in [1..Len(steps[s]) -> SentRef]
    BY <2>1
  <2> QED BY <1>3, <2>2, <2>3
<1> QED BY <1>1, <1>2, <1>3 DEF EditStep

(* Nothing but the edits of a scenario changes its steps. *)
LEMMA OnlyEditsChangeSteps ==
  ASSUME IInv, [Next]_vars
  PROVE  \/ \E s \in Scenario : EditStep(s)
         \/ PoolStep /\ UNCHANGED steps
         \/ UNCHANGED <<poolVars, steps>>
<1>1. PoolStep => UNCHANGED steps
  BY PoolStepTypes DEF IInv
<1>2. ASSUME NEW r \in Run, Start(r) \/ Proceed(r) \/ Lose(r)
      PROVE  UNCHANGED <<poolVars, steps>>
  <2>1. OwnStep(r)
    BY <1>2, StartStep, LoadStepStep, PreparedStep, BeginRunStep, RunStepStep, FinishRunStep,
       RaiseStep, CommitStep, LoseStep DEF Proceed
  <2> QED BY <2>1 DEF OwnStep, OnlyRun
<1>3. UNCHANGED vars => UNCHANGED <<poolVars, steps>>
  BY DEF vars, poolVars
<1> QED BY <1>1, <1>2, <1>3 DEF Next

(* Whatever links or pins a step names a version that exists: the code      *)
(* checks the versions that a browser names, and pins all others itself.    *)
THEOREM ChangedPinsCorrect == Spec => ChangedPinsExist
<1>1. ASSUME IInv, [Next]_vars, NEW s \in Scenario, NEW i \in DOMAIN steps'[s],
             steps'[s][i].case # NoCase, steps'[s][i].pin # Unpinned
      PROVE  \/ i \in DOMAIN steps[s] /\ steps[s][i] = steps'[s][i]
             \/ steps'[s][i].pin <= Len(tcHist'[steps'[s][i].case])
  <2>1. ASSUME NEW x \in Scenario, EditStep(x)
        PROVE  \/ i \in DOMAIN steps[s] /\ steps[s][i] = steps'[s][i]
               \/ steps'[s][i].pin <= Len(tcHist'[steps'[s][i].case])
    <3>1. CASE /\ UNCHANGED tcHist
               /\ \A y \in Scenario \ {x} : steps'[y] = steps[y]
               /\ \A j \in DOMAIN steps'[x] : steps'[x][j].case = NoCase
      BY <1>1, <3>1
    <3>2. ASSUME NEW k \in Nat, NEW old \in [1..k -> LinkedStep], NEW refs \in [1..k -> SentRef],
                 NEW new \in Testcases(Missing(refs)), Attach(x, old, refs, new),
                 \/ \A j \in 1..k : old[j].case = NoCase
                 \/ old = steps[x]
          PROVE  \/ i \in DOMAIN steps[s] /\ steps[s][i] = steps'[s][i]
                 \/ steps'[s][i].pin <= Len(tcHist'[steps'[s][i].case])
      <4>0. TypeInv /\ Attach(x, old, refs, new)
        BY <1>1, <3>2 DEF IInv
      <4>1. /\ \A y \in Scenario \ {x} : steps'[y] = steps[y]
            /\ \A j \in DOMAIN steps'[x] :
                 /\ j \in 1..k
                 /\ refs[j].case = NoCase => steps'[x][j] = old[j]
                 /\ refs[j].case # NoCase =>
                      steps'[x][j].pin <= Len(tcHist'[steps'[x][j].case])
        BY <4>0, AttachSteps
      <4> QED BY <1>1, <3>2, <4>1
    <3>3. CASE GenerateSome(x)
      <4>1. PICK new \in NewPools(ServicesOf(steps[x])) : \E first \in Firsts(new) :
                   Generated(x, new, first) /\ PinsExist(steps'[x], tcHist')
        BY <3>3 DEF GenerateSome, GenerateAll
      <4>2. \A y \in Scenario \ {x} : steps'[y] = steps[y]
        BY <4>1 DEF Generated, IInv, TypeInv
      <4> QED BY <1>1, <4>1, <4>2 DEF PinsExist
    <3>4. TypeInv
      BY <1>1 DEF IInv
    <3> QED BY <2>1, <3>1, <3>2, <3>3, <3>4, EditCases
  <2>2. (\E x \in Scenario : EditStep(x)) \/ UNCHANGED steps
    BY <1>1, OnlyEditsChangeSteps
  <2> QED BY <1>1, <2>1, <2>2
<1>2. IInv /\ [Next]_vars =>
        [\A s \in Scenario : \A i \in DOMAIN steps'[s] :
           LET st == steps'[s][i] IN
           st.case # NoCase /\ st.pin # Unpinned =>
             \/ i \in DOMAIN steps[s] /\ steps[s][i] = st
             \/ st.pin <= Len(tcHist'[st.case])]_vars
  BY <1>1
<1> QED BY <1>2, InvariantCorrect, PTL DEF Spec, ChangedPinsExist

(* What a pinned step runs stays the same until its scenario is changed or  *)
(* the testcases of its service are replaced where the keys are enforced.   *)
THEOREM PinnedBodyCorrect == Spec => PinnedBodyIsFrozen
<1> DEFINE Kept(st) == /\ st.pin \in DOMAIN tcHist'[st.case]
                       /\ tcHist'[st.case][st.pin] = tcHist[st.case][st.pin]
           Replaced(st) ==
             \/ Cascades /\ \E new \in NewPools({st.svc}) : ReplacePool(st.svc, new)
             \/ Cascades /\ \E x \in Scenario : st.svc \in ServicesOf(steps[x]) /\ GenerateSome(x)
<1>1. ASSUME IInv, [Next]_vars, NEW s \in Scenario, NEW i \in DOMAIN steps[s],
             steps[s][i].case # NoCase, steps[s][i].pin \in DOMAIN tcHist[steps[s][i].case]
      PROVE  Kept(steps[s][i]) \/ Replaced(steps[s][i])
  <2> DEFINE st == steps[s][i]
             c  == st.case
  <2>1. c \in Case /\ st.svc = ServiceOf[c] /\ TypeInv
    <3>1. steps[s] \in Seq(LinkedStep)
      BY <1>1 DEF IInv, TypeInv
    <3>2. st \in LinkedStep
      BY <1>1, <3>1
    <3> QED BY <1>1, <3>2 DEF LinkedStep, Step, IInv
  <2>2. st.pin \in DOMAIN tcHist[c]
    BY <1>1
  <2>3. ASSUME \A v \in DOMAIN tcHist[c] : v \in DOMAIN tcHist'[c] /\ tcHist'[c][v] = tcHist[c][v]
        PROVE  Kept(st)
    BY <2>2, <2>3
  <2> HIDE DEF st, c, Kept
  <2>4. ASSUME NEW x \in Scenario, EditStep(x) PROVE Kept(st) \/ Replaced(st)
    <3>1. CASE UNCHANGED tcHist
      BY <2>3, <3>1
    <3>2. ASSUME NEW k \in Nat, NEW old \in [1..k -> LinkedStep], NEW refs \in [1..k -> SentRef],
                 NEW new \in Testcases(Missing(refs)), Attach(x, old, refs, new)
          PROVE  Kept(st)
      <4>1. \A v \in DOMAIN tcHist[c] : v \in DOMAIN tcHist'[c] /\ tcHist'[c][v] = tcHist[c][v]
        BY <2>1, <3>2, AttachSteps
      <4> QED BY <2>3, <4>1
    <3>3. CASE GenerateSome(x)
      <4> DEFINE S == ServicesOf(steps[x])
      <4>1. PICK new \in NewPools(S) : \E first \in Firsts(new) : Generated(x, new, first)
        BY <3>3 DEF GenerateSome, GenerateAll
      <4>2. tcHist' = UpsertedHist(EmptiedHist(S), Emptied(S), new) /\ new \in Pool
        BY <4>1, NewTypes DEF Generated
      <4>3. CASE st.svc \in S /\ Cascades
        BY <3>3, <4>3
      <4>4. CASE st.svc \notin S \/ ~ Cascades
        <5> HIDE DEF S
        <5>1. \A v \in DOMAIN tcHist[c] : v \in DOMAIN tcHist'[c] /\ tcHist'[c][v] = tcHist[c][v]
          BY <2>1, <4>2, <4>4, ReplacedGrows
        <5> QED BY <2>3, <5>1
      <4> QED BY <4>3, <4>4
    <3> QED BY <2>1, <2>4, <3>1, <3>2, <3>3, EditCases
  <2>5. ASSUME NEW d \in Case, NEW b \in Input, PutTestcase(d, b) PROVE Kept(st)
    <3>1. [EmptyPool EXCEPT ![d] = b] \in Pool
      BY DEF EmptyPool, Pool
    <3>2. tcHist' = UpsertedHist(tcHist, pool, [EmptyPool EXCEPT ![d] = b])
      BY <2>5 DEF PutTestcase
    <3>3. pool \in Pool /\ tcHist \in TcHist
      BY <2>1 DEF TypeInv
    <3>4. \A v \in DOMAIN tcHist[c] : v \in DOMAIN tcHist'[c] /\ tcHist'[c][v] = tcHist[c][v]
      BY <2>1, <3>1, <3>2, <3>3, UpsertGrows
    <3> QED BY <2>3, <3>4
  <2>6. ASSUME NEW svc \in Service, NEW new \in NewPools({svc}), ReplacePool(svc, new)
        PROVE  Kept(st) \/ Replaced(st)
    <3>1. CASE st.svc = svc /\ Cascades
      BY <2>6, <3>1
    <3>2. CASE st.svc # svc \/ ~ Cascades
      <4>1. tcHist' = UpsertedHist(EmptiedHist({svc}), Emptied({svc}), new) /\ new \in Pool
        BY <2>6, NewTypes DEF ReplacePool
      <4>2. ServiceOf[c] \notin {svc} \/ ~ Cascades
        BY <2>1, <3>2
      <4>3. \A v \in DOMAIN tcHist[c] : v \in DOMAIN tcHist'[c] /\ tcHist'[c][v] = tcHist[c][v]
        BY <2>1, <4>1, <4>2, ReplacedGrows
      <4> QED BY <2>3, <4>3
    <3> QED BY <3>1, <3>2
  <2>7. ASSUME UNCHANGED <<poolVars, steps>> PROVE Kept(st)
    BY <2>3, <2>7 DEF poolVars
  <2>8. \/ \E x \in Scenario : EditStep(x)
        \/ PoolStep
        \/ UNCHANGED <<poolVars, steps>>
    BY <1>1, OnlyEditsChangeSteps
  <2>9. Kept(st) \/ Replaced(st)
    BY <2>4, <2>5, <2>6, <2>7, <2>8 DEF PoolStep
  <2> QED BY <2>9 DEF st
<1>2. IInv /\ [Next]_vars =>
        [\A s \in Scenario : steps'[s] = steps[s] =>
           \A i \in DOMAIN steps[s] :
             LET st == steps[s][i] IN
             st.case # NoCase /\ st.pin \in DOMAIN tcHist[st.case] =>
               \/ st.pin \in DOMAIN tcHist'[st.case]
                    /\ tcHist'[st.case][st.pin] = tcHist[st.case][st.pin]
               \/ Cascades /\ \E new \in NewPools({st.svc}) : ReplacePool(st.svc, new)
               \/ Cascades /\ \E x \in Scenario : st.svc \in ServicesOf(steps[x]) /\ GenerateSome(x)]_vars
  BY <1>1
<1> QED BY <1>2, InvariantCorrect, PTL DEF Spec, PinnedBodyIsFrozen
=============================================================================
