----------------------------- MODULE YamlAiJobs -----------------------------
(***************************************************************************)
(* The browser's store of background drafting jobs (yamlAiJobStore.ts).    *)
(* A job sends one request to the server and shows a made-up progress      *)
(* until the answer comes: a timer moves it through its stages up to the   *)
(* one where the LLM works, and then creeps towards 88 %.  Handlers,       *)
(* timers and answers interleave; JavaScript runs each to its next await.  *)
(*                                                                         *)
(* The server is the environment here: it may answer anything that its     *)
(* code can answer (ImportJobs puts DraftImport in its place).             *)
(***************************************************************************)
EXTENDS Integers, FiniteSets

CONSTANTS
  Job,     \* job ids, never used twice
  Inst,    \* institutions
  NoInst   \* nobody is logged in

VARIABLES
  job,     \* job[j]: the entry of the store
  timer,   \* timer[j]: stageTimers holds a pending timer for j
  call,    \* call[j]: the asynchronous function that serves j
  session  \* the institution of the user that is logged in

vars == <<job, timer, call, session>>

ASSUME YamlAiJobsAssumption == NoInst \notin Inst

Kind == {"source", "postman"}

(* stages and hold: the number of stages and the index of the LLM's. *)
JobType ==
  [status : {"none", "running", "success", "error", "gone"}, kind : Kind,
   stages : 4 .. 6, hold : 1 .. 3, stage : 0 .. 5, progress : 0 .. 100,
   needsOverwrite : BOOLEAN]

(* at: where the function waits.  inst: the institution its request named.  *)
CallType ==
  [at : {"none", "sent", "ok", "conflict", "failed", "validate", "save", "reload"},
   overwrite : BOOLEAN, retry : BOOLEAN,
   inst : Inst \cup {NoInst}]

NoJob  == [status |-> "none", kind |-> "source", stages |-> 4, hold |-> 1,
           stage |-> 0, progress |-> 0, needsOverwrite |-> FALSE]
NoCall == [at |-> "none", overwrite |-> FALSE, retry |-> FALSE,
           inst |-> NoInst]

Init ==
  /\ job = [j \in Job |-> NoJob]
  /\ timer = [j \in Job |-> FALSE]
  /\ call = [j \in Job |-> NoCall]
  /\ session \in Inst

-----------------------------------------------------------------------------
(* What becomes of an entry: a step changes its status, its stage, its      *)
(* progress and the wish for consent, never its kind and stages.            *)
Entry(b, status, stage, progress, consent) ==
  [status |-> status, kind |-> b.kind, stages |-> b.stages, hold |-> b.hold,
   stage |-> stage, progress |-> progress, needsOverwrite |-> consent]

At(b, stage, progress) == Entry(b, b.status, stage, progress, b.needsOverwrite)

Succeeded(b) == Entry(b, "success", b.stages - 1, 100, FALSE)

Failed(b, consent) == Entry(b, "error", b.stage, b.progress, consent)

Restarted(b) == Entry(b, "running", 0, 8, FALSE)

Removed(b) == [b EXCEPT !.status = "gone"]

-----------------------------------------------------------------------------
(* Starting a job. *)

(* From source: the catalog, optionally the data pool and Swagger, the LLM, *)
(* validation, saving.  From Postman: parsing, matching, the LLM, saving.   *)
NewJob(kind, options) ==
  [status |-> "running", kind |-> kind,
   stages |-> IF kind = "source" THEN 4 + options ELSE 4,
   hold   |-> IF kind = "source" THEN 1 + options ELSE 2,
   stage  |-> 0, progress |-> 8, needsOverwrite |-> FALSE]

Call(overwrite) == [at |-> "sent", overwrite |-> overwrite, retry |-> FALSE,
                    inst |-> session]

(* The rules page starts jobs from source without overwriting; the import   *)
(* dialog overwrites when its preflight found drafts and the user agreed.   *)
Start(j, kind, options, overwrite) ==
  /\ session # NoInst
  /\ job[j].status = "none"
  /\ IF kind = "source" THEN ~ overwrite ELSE options = 0
  /\ job' = [job EXCEPT ![j] = NewJob(kind, options)]
  /\ timer' = [timer EXCEPT ![j] = TRUE]
  /\ call' = [call EXCEPT ![j] = Call(overwrite)]
  /\ UNCHANGED session

-----------------------------------------------------------------------------
(* The timer. *)

(* Reckons with the stage that ends. *)
MutStageProgress(next, stages) ==
  (2 * (100 * (next - 1) + 35) * 72 + 100 * stages) \div (200 * stages)

(* Math.round(((next + 0.35) / stages) * 72) *)
StageProgress(next, stages) ==
  (2 * (100 * next + 35) * 72 + 100 * stages) \div (200 * stages)

AdvancedStage(b) == At(b, b.stage + 1, StageProgress(b.stage + 1, b.stages))

Crept(b) == At(b, b.stage, IF b.progress + 3 > 88 THEN 88 ELSE b.progress + 3)

Moves(b)  == b.status = "running" /\ b.stage < b.hold
Creeps(b) == b.status = "running" /\ b.stage = b.hold /\ b.progress < 88

(* advanceRunningStage: moves a running job on, and itself on with it.      *)
Tick(j) ==
  /\ timer[j]
  /\ \/ /\ Moves(job[j])
        /\ job' = [job EXCEPT ![j] = AdvancedStage(job[j])]
        /\ timer' = timer
     \/ /\ Creeps(job[j])
        /\ job' = [job EXCEPT ![j] = Crept(job[j])]
        /\ timer' = timer
     \/ /\ ~ Moves(job[j]) /\ ~ Creeps(job[j])
        /\ timer' = [timer EXCEPT ![j] = FALSE]
        /\ job' = job
  /\ UNCHANGED <<call, session>>

-----------------------------------------------------------------------------
(* The answer. *)

(* Only a request that may not overwrite is refused for a draft. *)
Answer(j, a) ==
  /\ call[j].at = "sent"
  /\ a \in {"ok", "failed"} \/ (a = "conflict" /\ ~ call[j].overwrite)
  /\ call' = [call EXCEPT ![j].at = a]
  /\ UNCHANGED <<job, timer, session>>

(* Leaves the timer running. *)
MutOnOk(j) ==
  LET b == job[j] IN
  /\ call[j].at = "ok"
  /\ IF b.kind = "source" /\ call[j].retry
     THEN /\ job' = [job EXCEPT ![j] = Succeeded(b)]
          /\ call' = [call EXCEPT ![j].at = "none"]
     ELSE /\ job' = [job EXCEPT ![j] = IF b.kind = "source" THEN At(b, b.stages - 2, 94)
                                                             ELSE At(b, b.stages - 1, 96)]
          /\ call' = [call EXCEPT ![j].at = IF b.kind = "source" THEN "validate" ELSE "save"]
  /\ UNCHANGED <<timer, session>>

(* Success.  The stages left are played out with short waits, except when a *)
(* job from source was retried.                                             *)
OnOk(j) ==
  LET b == job[j] IN
  /\ call[j].at = "ok"
  /\ timer' = [timer EXCEPT ![j] = FALSE]
  /\ IF b.kind = "source" /\ call[j].retry
     THEN /\ job' = [job EXCEPT ![j] = Succeeded(b)]
          /\ call' = [call EXCEPT ![j].at = "none"]
     ELSE /\ job' = [job EXCEPT ![j] = IF b.kind = "source" THEN At(b, b.stages - 2, 94)
                                                             ELSE At(b, b.stages - 1, 96)]
          /\ call' = [call EXCEPT ![j].at = IF b.kind = "source" THEN "validate" ELSE "save"]
  /\ UNCHANGED session

(* One stage too far. *)
MutOnValidated(j) ==
  /\ call[j].at = "validate"
  /\ job' = [job EXCEPT ![j] = At(job[j], job[j].stages, 98)]
  /\ call' = [call EXCEPT ![j].at = "save"]
  /\ UNCHANGED <<timer, session>>

OnValidated(j) ==
  /\ call[j].at = "validate"
  /\ job' = [job EXCEPT ![j] = At(job[j], job[j].stages - 1, 98)]
  /\ call' = [call EXCEPT ![j].at = "save"]
  /\ UNCHANGED <<timer, session>>

(* A job from Postman that wrote a service also waits for its rules.        *)
OnSaved(j, some) ==
  /\ call[j].at = "save"
  /\ IF job[j].kind = "postman" /\ some
     THEN /\ call' = [call EXCEPT ![j].at = "reload"]
          /\ job' = job
     ELSE /\ call' = [call EXCEPT ![j].at = "none"]
          /\ job' = [job EXCEPT ![j] = Succeeded(job[j])]
  /\ UNCHANGED <<timer, session>>

OnReloaded(j) ==
  /\ call[j].at = "reload"
  /\ job' = [job EXCEPT ![j] = Succeeded(job[j])]
  /\ call' = [call EXCEPT ![j].at = "none"]
  /\ UNCHANGED <<timer, session>>

(* Asks for the user's consent but goes on waiting. *)
MutOnError(j) ==
  /\ call[j].at \in {"conflict", "failed"}
  /\ timer' = [timer EXCEPT ![j] = FALSE]
  /\ job' = [job EXCEPT ![j].status = IF call[j].at = "conflict" THEN "running" ELSE "error",
                        ![j].needsOverwrite = call[j].at = "conflict"]
  /\ call' = [call EXCEPT ![j].at = "none"]
  /\ UNCHANGED session

(* Failure; a refusal for a draft asks for the user's consent. *)
OnError(j) ==
  /\ call[j].at \in {"conflict", "failed"}
  /\ timer' = [timer EXCEPT ![j] = FALSE]
  /\ job' = [job EXCEPT ![j] = Failed(job[j], call[j].at = "conflict" /\ ~ call[j].overwrite)]
  /\ call' = [call EXCEPT ![j].at = "none"]
  /\ UNCHANGED session

-----------------------------------------------------------------------------
(* The user. *)

(* Forgets the consent. *)
MutRetryOverwrite(j) ==
  /\ session # NoInst
  /\ job[j].status = "error"
  /\ job[j].needsOverwrite
  /\ job' = [job EXCEPT ![j] = Restarted(job[j])]
  /\ timer' = [timer EXCEPT ![j] = TRUE]
  /\ call' = [call EXCEPT ![j].at = "sent", ![j].retry = TRUE, ![j].inst = session]
  /\ UNCHANGED session

(* Retrying with consent, from the panel that asks for it.  The request     *)
(* names the institution of the moment.                                     *)
RetryOverwrite(j) ==
  /\ session # NoInst
  /\ job[j].status = "error"
  /\ job[j].needsOverwrite
  /\ job' = [job EXCEPT ![j] = Restarted(job[j])]
  /\ timer' = [timer EXCEPT ![j] = TRUE]
  /\ call' = [call EXCEPT ![j].at = "sent", ![j].overwrite = TRUE,
                          ![j].retry = TRUE, ![j].inst = session]
  /\ UNCHANGED session

Finished(j) == job[j].status \in {"success", "error"}

(* The panel offers to dismiss a finished job only. *)
Dismiss(j) ==
  /\ session # NoInst
  /\ Finished(j)
  /\ job' = [job EXCEPT ![j] = Removed(job[j])]
  /\ timer' = [timer EXCEPT ![j] = FALSE]
  /\ UNCHANGED <<call, session>>

(* A function of the store that no page calls yet. *)
ClearFinished ==
  /\ \E j \in Job : Finished(j)
  /\ job' = [j \in Job |-> IF Finished(j) THEN Removed(job[j]) ELSE job[j]]
  /\ timer' = [j \in Job |-> timer[j] /\ ~ Finished(j)]
  /\ UNCHANGED <<call, session>>

(* Logging out and in is a navigation: the store outlives it. *)
Logout == /\ session # NoInst
          /\ session' = NoInst
          /\ UNCHANGED <<job, timer, call>>

Login(i) == /\ session = NoInst
            /\ session' = i
            /\ UNCHANGED <<job, timer, call>>

(* Reloading the page: store, timers and functions are gone, the session is *)
(* not.                                                                     *)
PageReload ==
  /\ \E j \in Job : job[j].status \notin {"none", "gone"}
  /\ job' = [j \in Job |-> IF job[j].status = "none" THEN job[j]
                           ELSE Removed(job[j])]
  /\ timer' = [j \in Job |-> FALSE]
  /\ call' = [j \in Job |-> [call[j] EXCEPT !.at = "none"]]
  /\ UNCHANGED session

-----------------------------------------------------------------------------
(* What the store does of itself for job j, once it has an answer. *)
Continue(j) ==
  \/ OnOk(j) \/ OnError(j) \/ OnValidated(j) \/ OnReloaded(j)
  \/ \E some \in BOOLEAN : OnSaved(j, some)

UserStep(j) ==
  \/ \E kind \in Kind, options \in 0 .. 2, overwrite \in BOOLEAN :
       Start(j, kind, options, overwrite)
  \/ RetryOverwrite(j) \/ Dismiss(j)

SessionStep == Logout \/ PageReload \/ ClearFinished \/ \E i \in Inst : Login(i)

Answers(j) == \E a \in {"ok", "conflict", "failed"} : Answer(j, a)

Next ==
  \/ \E j \in Job : UserStep(j) \/ Tick(j) \/ Answers(j) \/ Continue(j)
  \/ SessionStep

(* Every request is answered or fails: the LLM calls behind it are limited  *)
(* in number and time, and a lost connection rejects the fetch.  Timers and *)
(* resolved promises are run by the browser.                                *)
Fairness == \A j \in Job : WF_vars(Tick(j)) /\ WF_vars(Answers(j)) /\ WF_vars(Continue(j))

Spec == Init /\ [][Next]_vars /\ Fairness

-----------------------------------------------------------------------------
(* Properties. *)

(* The types of the variables. *)
TypeOK ==
  /\ job \in [Job -> JobType]
  /\ timer \in [Job -> BOOLEAN]
  /\ call \in [Job -> CallType]
  /\ session \in Inst \cup {NoInst}

(* A job shown as running is served by a function that will settle it, and  *)
(* no function outlives the job it serves: none is left to write an old     *)
(* attempt's outcome over a new one.                                        *)
RunningIsServed ==
  \A j \in Job : job[j].status = "running" <=> call[j].at # "none"

(* A timer never outlives the wait for the answer, so the made-up progress  *)
(* can neither pass the LLM's stage nor overtake the real one.              *)
TimerWhileWaiting ==
  \A j \in Job : timer[j] =>
    /\ call[j].at \in {"sent", "ok", "conflict", "failed"}
    /\ job[j].stage <= job[j].hold
    /\ job[j].progress <= 88

(* Progress and stage never run backwards within an attempt, and 100 % is   *)
(* shown by the jobs that succeeded and by no others.                       *)
ProgressRunsForward ==
  [][\A j \in Job :
       /\ job[j].status = "running" =>
            /\ job'[j].progress >= job[j].progress
            /\ job'[j].stage >= job[j].stage
       /\ job'[j].status # "gone" =>
            (job'[j].progress = 100 <=> job'[j].status = "success")]_vars

(* A job asks for consent at most once: a retry goes out with the consent   *)
(* it was given, and is not refused for the draft again.                    *)
ConsentIsAskedOnce ==
  [][\A j \in Job :
       job'[j].needsOverwrite /\ ~ job[j].needsOverwrite => ~ call[j].retry]_vars

(* A running job settles, whatever happens to the session.                  *)
RunningSettles ==
  \A j \in Job : job[j].status = "running" ~> job[j].status # "running"
=============================================================================
