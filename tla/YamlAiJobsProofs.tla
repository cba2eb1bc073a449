-------------------------- MODULE YamlAiJobsProofs --------------------------
(* Theorems about YamlAiJobs, for any number of jobs and institutions. *)
EXTENDS YamlAiJobs, TLAPS

Waiting == {"sent", "ok", "conflict", "failed"}

(* What the timer has made of the progress of a stage before the LLM's. *)
Shown(stage, stages) == IF stage = 0 THEN 8 ELSE StageProgress(stage, stages)

(* A job's entry b, its timer t and its function f agree.  Until the answer *)
(* is handled, the stage is one that the timer reaches, with the progress   *)
(* it gives it; afterwards it is the one that the function has set.         *)
Agree(b, t, f) ==
  /\ b.status = "running" <=> f.at # "none"
  /\ t => f.at \in Waiting
  /\ b.hold <= b.stages - 2
  /\ f.at \in Waiting => /\ b.stage <= b.hold
                         /\ b.progress <= 88
                         /\ b.stage < b.hold => b.progress = Shown(b.stage, b.stages)
  /\ f.at = "validate" => b.stage = b.stages - 2 /\ b.progress = 94
  /\ f.at \in {"save", "reload"} => b.stage = b.stages - 1 /\ b.progress \in {96, 98}
  /\ b.status # "gone" => (b.progress = 100 <=> b.status = "success")

IInv == TypeOK /\ \A j \in Job : Agree(job[j], timer[j], call[j])

(* What a step may make of the entry b. *)
Forward(b, c) ==
  /\ b.status = "running" => c.progress >= b.progress /\ c.stage >= b.stage
  /\ c.status # "gone" => (c.progress = 100 <=> c.status = "success")

-----------------------------------------------------------------------------
(* The timer's progress grows over the stages it can reach, and stays below *)
(* what the LLM's stage creeps to.                                          *)
LEMMA ShownGrows ==
  ASSUME NEW stages \in 4 .. 6, NEW stage \in 0 .. 2
  PROVE  /\ Shown(stage, stages) \in 0 .. 88
         /\ StageProgress(stage + 1, stages) \in 0 .. 88
         /\ StageProgress(stage + 1, stages) >= Shown(stage, stages)
<1>1. stages = 4 \/ stages = 5 \/ stages = 6
  OBVIOUS
<1>2. stage = 0 \/ stage = 1 \/ stage = 2
  OBVIOUS
<1>3. CASE stages = 4
  BY <1>2, <1>3 DEF StageProgress, Shown
<1>4. CASE stages = 5
  BY <1>2, <1>4 DEF StageProgress, Shown
<1>5. CASE stages = 6
  BY <1>2, <1>5 DEF StageProgress, Shown
<1> QED BY <1>1, <1>3, <1>4, <1>5

LEMMA InitAgree == Init => IInv
<1> SUFFICES ASSUME Init PROVE IInv
  OBVIOUS
<1>1. NoJob \in JobType /\ NoCall \in CallType
  BY DEF NoJob, NoCall, JobType, CallType, Kind
<1>2. TypeOK
  BY <1>1 DEF Init, TypeOK
<1>3. ASSUME NEW j \in Job PROVE Agree(job[j], timer[j], call[j])
  BY DEF Init, NoJob, NoCall, Agree, Waiting
<1> QED BY <1>2, <1>3 DEF IInv

(* A step that replaces the entry, the timer and the function of job j by   *)
(* b, t and f, which agree, and goes forward.                               *)
OneJob(j, b, t, f) ==
  /\ job' = [job EXCEPT ![j] = b]
  /\ timer' = [timer EXCEPT ![j] = t]
  /\ call' = [call EXCEPT ![j] = f]
  /\ UNCHANGED session
  /\ b \in JobType /\ t \in BOOLEAN /\ f \in CallType
  /\ Agree(b, t, f)
  /\ Forward(job[j], b)

AllForward == \A j \in Job : Forward(job[j], job'[j])

LEMMA OneJobStep ==
  ASSUME IInv, NEW j \in Job, NEW b, NEW t, NEW f, OneJob(j, b, t, f)
  PROVE  IInv' /\ AllForward
<1>1. TypeOK'
  BY DEF IInv, TypeOK, OneJob
<1>2. job'[j] = b /\ timer'[j] = t /\ call'[j] = f
  BY DEF IInv, TypeOK, OneJob
<1>3. Agree(job'[j], timer'[j], call'[j]) /\ Forward(job[j], job'[j])
  BY <1>2 DEF OneJob
<1>4. ASSUME NEW k \in Job, k # j
      PROVE  Agree(job'[k], timer'[k], call'[k]) /\ Forward(job[k], job'[k])
  <2>1. job'[k] = job[k] /\ timer'[k] = timer[k] /\ call'[k] = call[k]
    BY <1>4 DEF IInv, TypeOK, OneJob
  <2>2. Agree(job[k], timer[k], call[k]) /\ job[k] \in JobType
    BY DEF IInv, TypeOK
  <2>3. Forward(job[k], job[k])
    BY <2>2 DEF Forward, Agree, JobType
  <2> QED BY <2>1, <2>2, <2>3
<1> QED BY <1>1, <1>3, <1>4 DEF IInv, AllForward

(* What the invariant says of one job. *)
LEMMA JobFacts ==
  ASSUME IInv, NEW j \in Job
  PROVE  /\ job[j] \in JobType /\ call[j] \in CallType /\ timer[j] \in BOOLEAN
         /\ job \in [Job -> JobType] /\ timer \in [Job -> BOOLEAN]
         /\ call \in [Job -> CallType] /\ session \in Inst \cup {NoInst}
         /\ Agree(job[j], timer[j], call[j])
BY DEF IInv, TypeOK

(* The entries that the steps make. *)
LEMMA SucceededFacts ==
  ASSUME NEW b \in JobType
  PROVE  LET c == Succeeded(b) IN
         /\ c \in JobType /\ c.status = "success" /\ c.stage = b.stages - 1
         /\ c.progress = 100 /\ c.hold = b.hold /\ c.stages = b.stages
BY DEF Succeeded, Entry, JobType

LEMMA FailedFacts ==
  ASSUME NEW b \in JobType, NEW o \in BOOLEAN
  PROVE  LET c == Failed(b, o) IN
         /\ c \in JobType /\ c.status = "error" /\ c.stage = b.stage
         /\ c.progress = b.progress /\ c.hold = b.hold /\ c.stages = b.stages
BY DEF Failed, Entry, JobType

LEMMA RestartedFacts ==
  ASSUME NEW b \in JobType
  PROVE  LET c == Restarted(b) IN
         /\ c \in JobType /\ c.status = "running" /\ c.stage = 0
         /\ c.progress = 8 /\ c.hold = b.hold /\ c.stages = b.stages
BY DEF Restarted, Entry, JobType

LEMMA RemovedFacts ==
  ASSUME NEW b \in JobType
  PROVE  /\ Removed(b) \in JobType /\ Removed(b).status = "gone"
         /\ Removed(b).stage = b.stage /\ Removed(b).progress = b.progress
         /\ Removed(b).hold = b.hold /\ Removed(b).stages = b.stages
BY DEF Removed, JobType

(* The timer moves an entry to the next stage, with the progress of it. *)
LEMMA Advanced ==
  ASSUME NEW b \in JobType, b.stage < b.hold, b.progress = Shown(b.stage, b.stages)
  PROVE  LET c == AdvancedStage(b) IN
         /\ c \in JobType /\ c.stage = b.stage + 1
         /\ c.progress \in 0 .. 88 /\ c.progress >= b.progress
         /\ c.progress = Shown(c.stage, c.stages)
         /\ c.status = b.status /\ c.hold = b.hold /\ c.stages = b.stages
<1> DEFINE s == b.stage + 1
           p == StageProgress(s, b.stages)
<1>1. b.stage \in 0 .. 2 /\ b.stages \in 4 .. 6 /\ s \in 1 .. 5
  BY DEF JobType
<1>2. p \in 0 .. 88 /\ p >= b.progress
  BY <1>1, ShownGrows
<1>3. Shown(s, b.stages) = p
  BY <1>1 DEF Shown
<1>4. AdvancedStage(b) = At(b, s, p)
  BY DEF AdvancedStage
<1> HIDE DEF p, s
<1>5. s \in 0 .. 5 /\ p \in 0 .. 100
  BY <1>1, <1>2
<1> DEFINE c == AdvancedStage(b)
<1>6. /\ c \in JobType /\ c.stage = s /\ c.progress = p /\ c.status = b.status
      /\ c.hold = b.hold /\ c.stages = b.stages
  BY <1>4, <1>5 DEF At, Entry, JobType
<1> HIDE DEF c
<1> QED BY <1>2, <1>3, <1>6 DEF c, s

(* A running job agrees with a function that waits for the answer. *)
LEMMA WaitingAgrees ==
  ASSUME NEW b \in JobType, NEW t \in BOOLEAN, NEW f \in CallType,
         b.status = "running", f.at \in Waiting,
         b.hold <= b.stages - 2, b.stage <= b.hold, b.progress <= 88,
         b.stage < b.hold => b.progress = Shown(b.stage, b.stages)
  PROVE  Agree(b, t, f)
<1>1. f.at # "none" /\ f.at # "validate" /\ f.at \notin {"save", "reload"}
  BY DEF Waiting
<1>2. b.progress # 100 /\ b.status # "success"
  BY DEF JobType
<1> QED BY <1>1, <1>2 DEF Agree

-----------------------------------------------------------------------------
(* The steps, one by one. *)

LEMMA StartStep ==
  ASSUME IInv, NEW j \in Job, NEW kind \in Kind, NEW options \in 0 .. 2,
         NEW overwrite \in BOOLEAN, Start(j, kind, options, overwrite)
  PROVE  IInv' /\ AllForward
<1> DEFINE b == NewJob(kind, options)
           f == Call(overwrite)
<1>1. b \in JobType
  BY DEF NewJob, JobType, Kind
<1>2. f \in CallType
  BY JobFacts DEF Call, CallType
<1>3. Agree(b, TRUE, f)
  BY DEF NewJob, Call, Agree, Waiting, Shown, Start, Kind
<1>4. Forward(job[j], b)
  BY DEF Forward, NewJob, Start
<1>5. OneJob(j, b, TRUE, f)
  BY <1>1, <1>2, <1>3, <1>4 DEF OneJob, Start
<1> QED BY <1>5, OneJobStep

LEMMA TickStep ==
  ASSUME IInv, NEW j \in Job, Tick(j)
  PROVE  IInv' /\ AllForward
<1>1. /\ job[j] \in JobType /\ Agree(job[j], timer[j], call[j])
      /\ call[j].at \in Waiting /\ job[j].status = "running" /\ call[j] \in CallType
      /\ timer[j] = TRUE
  BY JobFacts DEF Tick, Agree, Waiting
<1>2. /\ call' = [call EXCEPT ![j] = call[j]] /\ session' = session
      /\ timer = [timer EXCEPT ![j] = TRUE] /\ job = [job EXCEPT ![j] = job[j]]
  BY <1>1, JobFacts DEF Tick
<1>3. ASSUME Moves(job[j]), job' = [job EXCEPT ![j] = AdvancedStage(job[j])], timer' = timer
      PROVE  IInv' /\ AllForward
  <2> DEFINE b == AdvancedStage(job[j])
  <2>1. /\ job[j].stage < job[j].hold /\ job[j].hold <= job[j].stages - 2
        /\ job[j].progress = Shown(job[j].stage, job[j].stages)
    BY <1>1, <1>3 DEF Agree, Moves
  <2>2. /\ b \in JobType /\ b.stage = job[j].stage + 1
        /\ b.progress \in 0 .. 88 /\ b.progress >= job[j].progress
        /\ b.progress = Shown(b.stage, b.stages)
        /\ b.status = job[j].status /\ b.hold = job[j].hold /\ b.stages = job[j].stages
    BY <1>1, <2>1, Advanced
  <2> HIDE DEF b
  <2>3. Agree(b, TRUE, call[j])
    <3>1. b.stage <= b.hold /\ b.hold <= b.stages - 2 /\ b.progress <= 88
      BY <1>1, <2>1, <2>2 DEF JobType
    <3> QED BY <1>1, <2>2, <3>1, WaitingAgrees
  <2>4. Forward(job[j], b)
    BY <1>1, <2>2 DEF Forward, JobType
  <2>5. OneJob(j, b, TRUE, call[j])
    BY <1>1, <1>2, <1>3, <2>2, <2>3, <2>4 DEF OneJob, b
  <2> QED BY <2>5, OneJobStep
<1>4. ASSUME Creeps(job[j]), job' = [job EXCEPT ![j] = Crept(job[j])], timer' = timer
      PROVE  IInv' /\ AllForward
  <2> DEFINE b == Crept(job[j])
  <2>1. /\ b \in JobType /\ b.stage = job[j].stage
        /\ b.progress \in 0 .. 88 /\ b.progress >= job[j].progress
        /\ b.status = job[j].status /\ b.hold = job[j].hold /\ b.stages = job[j].stages
    BY <1>1, <1>4 DEF Crept, Creeps, At, Entry, JobType
  <2> HIDE DEF b
  <2>2. Agree(b, TRUE, call[j]) /\ Forward(job[j], b)
    BY <1>1, <1>4, <2>1 DEF Agree, Forward, JobType, Creeps
  <2>3. OneJob(j, b, TRUE, call[j])
    BY <1>1, <1>2, <1>4, <2>1, <2>2 DEF OneJob, b
  <2> QED BY <2>3, OneJobStep
<1>5. ASSUME job' = job, timer' = [timer EXCEPT ![j] = FALSE]
      PROVE  IInv' /\ AllForward
  <2>1. Agree(job[j], FALSE, call[j]) /\ Forward(job[j], job[j])
    BY <1>1 DEF Agree, Forward, JobType
  <2>2. OneJob(j, job[j], FALSE, call[j])
    BY <1>1, <1>2, <1>5, <2>1 DEF OneJob
  <2> QED BY <2>2, OneJobStep
<1> QED BY <1>3, <1>4, <1>5 DEF Tick

LEMMA AnswerStep ==
  ASSUME IInv, NEW j \in Job, NEW a \in {"ok", "conflict", "failed"}, Answer(j, a)
  PROVE  IInv' /\ AllForward
<1> DEFINE f == [call[j] EXCEPT !.at = a]
<1>1. f \in CallType /\ f.at = a /\ call[j].at = "sent"
  BY JobFacts DEF Answer, CallType
<1>2. Agree(job[j], timer[j], f) /\ Forward(job[j], job[j])
  <2>1. /\ call[j].at \in Waiting /\ f.at \in Waiting
        /\ job[j] \in JobType /\ timer[j] \in BOOLEAN
        /\ Agree(job[j], timer[j], call[j])
    BY <1>1, JobFacts DEF Waiting
  <2>2. job[j].status = "running"
    BY <1>1, <2>1 DEF Agree
  <2> HIDE DEF f
  <2>3. Agree(job[j], timer[j], f)
    BY <1>1, <2>1, <2>2, WaitingAgrees DEF Agree
  <2>4. Forward(job[j], job[j])
    BY <2>1 DEF Agree, Forward, JobType
  <2> QED BY <2>3, <2>4
<1>3. /\ job' = [job EXCEPT ![j] = job[j]] /\ timer' = [timer EXCEPT ![j] = timer[j]]
      /\ call' = [call EXCEPT ![j] = f]
  BY JobFacts DEF Answer
<1>4. OneJob(j, job[j], timer[j], f)
  BY <1>1, <1>2, <1>3, JobFacts DEF OneJob, Answer
<1> QED BY <1>4, OneJobStep

LEMMA OnOkStep ==
  ASSUME IInv, NEW j \in Job, OnOk(j)
  PROVE  IInv' /\ AllForward
<1>1. /\ job[j] \in JobType /\ call[j] \in CallType /\ call[j].at = "ok"
      /\ Agree(job[j], timer[j], call[j])
  BY JobFacts DEF OnOk
<1>2. /\ job[j].status = "running" /\ job[j].hold <= job[j].stages - 2
      /\ job[j].stage <= job[j].hold /\ job[j].progress <= 88
  BY <1>1 DEF Agree, Waiting
<1>3. ASSUME NEW b, NEW f,
             job' = [job EXCEPT ![j] = b], call' = [call EXCEPT ![j] = f],
             b \in JobType, f \in CallType, Agree(b, FALSE, f), Forward(job[j], b)
      PROVE  IInv' /\ AllForward
  <2>1. OneJob(j, b, FALSE, f)
    BY <1>3 DEF OneJob, OnOk
  <2> QED BY <2>1, OneJobStep
<1>4. CASE job[j].kind = "source" /\ call[j].retry
  <2> DEFINE b == Succeeded(job[j])
             f == [call[j] EXCEPT !.at = "none"]
  <2>1. job' = [job EXCEPT ![j] = b] /\ call' = [call EXCEPT ![j] = f]
    BY <1>4, JobFacts DEF OnOk
  <2>2. f \in CallType /\ f.at = "none"
    BY <1>1 DEF CallType
  <2> HIDE DEF f
  <2>3. Agree(b, FALSE, f) /\ Forward(job[j], b) /\ b \in JobType
    BY <1>1, <1>2, <2>2, SucceededFacts DEF Agree, Forward, Waiting, JobType
  <2> QED BY <1>3, <2>1, <2>2, <2>3
<1>5. CASE ~ (job[j].kind = "source" /\ call[j].retry) /\ job[j].kind = "source"
  <2> DEFINE b == At(job[j], job[j].stages - 2, 94)
             f == [call[j] EXCEPT !.at = "validate"]
  <2>1. job' = [job EXCEPT ![j] = b] /\ call' = [call EXCEPT ![j] = f]
    BY <1>5, JobFacts DEF OnOk
  <2>2. /\ b \in JobType /\ b.status = "running" /\ b.stage = job[j].stages - 2
        /\ b.progress = 94 /\ b.hold = job[j].hold /\ b.stages = job[j].stages
    BY <1>1, <1>2 DEF At, Entry, JobType
  <2>3. f \in CallType /\ f.at = "validate"
    BY <1>1 DEF CallType
  <2> HIDE DEF b, f
  <2>4. Agree(b, FALSE, f) /\ Forward(job[j], b)
    BY <1>1, <1>2, <2>2, <2>3 DEF Agree, Forward, Waiting, JobType
  <2> QED BY <1>3, <2>1, <2>2, <2>3, <2>4
<1>6. CASE ~ (job[j].kind = "source" /\ call[j].retry) /\ job[j].kind # "source"
  <2> DEFINE b == At(job[j], job[j].stages - 1, 96)
             f == [call[j] EXCEPT !.at = "save"]
  <2>1. job' = [job EXCEPT ![j] = b] /\ call' = [call EXCEPT ![j] = f]
    BY <1>6, JobFacts DEF OnOk
  <2>2. /\ b \in JobType /\ b.status = "running" /\ b.stage = job[j].stages - 1
        /\ b.progress = 96 /\ b.hold = job[j].hold /\ b.stages = job[j].stages
    BY <1>1, <1>2 DEF At, Entry, JobType
  <2>3. f \in CallType /\ f.at = "save"
    BY <1>1 DEF CallType
  <2> HIDE DEF b, f
  <2>4. Agree(b, FALSE, f) /\ Forward(job[j], b)
    BY <1>1, <1>2, <2>2, <2>3 DEF Agree, Forward, Waiting, JobType
  <2> QED BY <1>3, <2>1, <2>2, <2>3, <2>4
<1> QED BY <1>4, <1>5, <1>6

LEMMA OnValidatedStep ==
  ASSUME IInv, NEW j \in Job, OnValidated(j)
  PROVE  IInv' /\ AllForward
<1> DEFINE b == At(job[j], job[j].stages - 1, 98)
           f == [call[j] EXCEPT !.at = "save"]
<1>1. /\ job[j] \in JobType /\ call[j] \in CallType /\ call[j].at = "validate"
      /\ timer[j] \in BOOLEAN /\ Agree(job[j], timer[j], call[j])
  BY JobFacts DEF OnValidated
<1>2. /\ job[j].status = "running" /\ job[j].hold <= job[j].stages - 2
      /\ job[j].stage = job[j].stages - 2 /\ job[j].progress = 94 /\ timer[j] = FALSE
  BY <1>1 DEF Agree, Waiting
<1>3. /\ job' = [job EXCEPT ![j] = b] /\ call' = [call EXCEPT ![j] = f]
      /\ timer' = [timer EXCEPT ![j] = timer[j]]
  BY JobFacts DEF OnValidated
<1>4. /\ b \in JobType /\ b.status = "running" /\ b.stage = job[j].stages - 1
      /\ b.progress = 98 /\ b.hold = job[j].hold /\ b.stages = job[j].stages
  BY <1>1, <1>2 DEF At, Entry, JobType
<1>5. f \in CallType /\ f.at = "save"
  BY <1>1 DEF CallType
<1> HIDE DEF b, f
<1>6. Agree(b, timer[j], f) /\ Forward(job[j], b)
  BY <1>1, <1>2, <1>4, <1>5 DEF Agree, Forward, Waiting, JobType
<1>7. OneJob(j, b, timer[j], f)
  BY <1>1, <1>3, <1>4, <1>5, <1>6 DEF OneJob, OnValidated
<1> QED BY <1>7, OneJobStep

(* The function ends with the success of its job. *)
LEMMA SuccessStep ==
  ASSUME IInv, NEW j \in Job, call[j].at \in {"save", "reload"},
         job' = [job EXCEPT ![j] = Succeeded(job[j])],
         call' = [call EXCEPT ![j].at = "none"], UNCHANGED <<timer, session>>
  PROVE  IInv' /\ AllForward
<1> DEFINE b == Succeeded(job[j])
           f == [call[j] EXCEPT !.at = "none"]
<1>1. /\ job[j] \in JobType /\ call[j] \in CallType /\ timer[j] \in BOOLEAN
      /\ Agree(job[j], timer[j], call[j])
  BY JobFacts
<1>2. /\ job[j].status = "running" /\ job[j].hold <= job[j].stages - 2
      /\ job[j].stage = job[j].stages - 1 /\ timer[j] = FALSE
  BY <1>1 DEF Agree, Waiting
<1>3. /\ job' = [job EXCEPT ![j] = b] /\ call' = [call EXCEPT ![j] = f]
      /\ timer' = [timer EXCEPT ![j] = timer[j]]
  BY JobFacts
<1>4. f \in CallType /\ f.at = "none"
  BY <1>1 DEF CallType
<1> HIDE DEF f
<1>5. Agree(b, timer[j], f) /\ Forward(job[j], b) /\ b \in JobType
  BY <1>1, <1>2, <1>4, SucceededFacts DEF Agree, Forward, Waiting, JobType
<1>6. OneJob(j, b, timer[j], f)
  BY <1>1, <1>3, <1>4, <1>5 DEF OneJob
<1> QED BY <1>6, OneJobStep

LEMMA OnReloadedStep ==
  ASSUME IInv, NEW j \in Job, OnReloaded(j)
  PROVE  IInv' /\ AllForward
BY SuccessStep DEF OnReloaded

LEMMA OnSavedStep ==
  ASSUME IInv, NEW j \in Job, NEW some \in BOOLEAN, OnSaved(j, some)
  PROVE  IInv' /\ AllForward
<1>1. CASE job[j].kind = "postman" /\ some
  <2> DEFINE f == [call[j] EXCEPT !.at = "reload"]
  <2>1. /\ job[j] \in JobType /\ call[j] \in CallType /\ timer[j] \in BOOLEAN
        /\ Agree(job[j], timer[j], call[j]) /\ call[j].at = "save"
    BY JobFacts DEF OnSaved
  <2>2. /\ job' = [job EXCEPT ![j] = job[j]] /\ call' = [call EXCEPT ![j] = f]
        /\ timer' = [timer EXCEPT ![j] = timer[j]]
    BY <1>1, JobFacts DEF OnSaved
  <2>3. f \in CallType /\ f.at = "reload"
    BY <2>1 DEF CallType
  <2> HIDE DEF f
  <2>4. Agree(job[j], timer[j], f) /\ Forward(job[j], job[j])
    BY <2>1, <2>3 DEF Agree, Forward, Waiting, JobType
  <2>5. OneJob(j, job[j], timer[j], f)
    BY <2>1, <2>2, <2>3, <2>4 DEF OneJob, OnSaved
  <2> QED BY <2>5, OneJobStep
<1>2. CASE ~ (job[j].kind = "postman" /\ some)
  BY <1>2, SuccessStep DEF OnSaved
<1> QED BY <1>1, <1>2

LEMMA OnErrorStep ==
  ASSUME IInv, NEW j \in Job, OnError(j)
  PROVE  IInv' /\ AllForward
<1> DEFINE o == call[j].at = "conflict" /\ ~ call[j].overwrite
           b == Failed(job[j], o)
           f == [call[j] EXCEPT !.at = "none"]
<1>1. /\ job[j] \in JobType /\ call[j] \in CallType
      /\ Agree(job[j], timer[j], call[j]) /\ call[j].at \in {"conflict", "failed"}
  BY JobFacts DEF OnError
<1>2. /\ job[j].status = "running" /\ job[j].hold <= job[j].stages - 2
      /\ job[j].progress <= 88
  BY <1>1 DEF Agree, Waiting
<1>3. /\ job' = [job EXCEPT ![j] = b] /\ call' = [call EXCEPT ![j] = f]
      /\ timer' = [timer EXCEPT ![j] = FALSE] /\ session' = session
  BY JobFacts DEF OnError
<1>4. f \in CallType /\ f.at = "none" /\ o \in BOOLEAN
  BY <1>1 DEF CallType
<1> HIDE DEF f, o
<1>5. Agree(b, FALSE, f) /\ Forward(job[j], b) /\ b \in JobType
  BY <1>1, <1>2, <1>4, FailedFacts DEF Agree, Forward, Waiting, JobType
<1>6. OneJob(j, b, FALSE, f)
  BY <1>1, <1>3, <1>4, <1>5 DEF OneJob
<1> QED BY <1>6, OneJobStep

LEMMA RetryStep ==
  ASSUME IInv, NEW j \in Job, RetryOverwrite(j)
  PROVE  IInv' /\ AllForward
<1> DEFINE b == Restarted(job[j])
           f == [call[j] EXCEPT !.at = "sent", !.overwrite = TRUE,
                                !.retry = TRUE, !.inst = session]
<1>1. /\ job[j] \in JobType /\ call[j] \in CallType /\ session \in Inst \cup {NoInst}
      /\ Agree(job[j], timer[j], call[j]) /\ job[j].status = "error"
  BY JobFacts DEF RetryOverwrite
<1>2. /\ job' = [job EXCEPT ![j] = b] /\ call' = [call EXCEPT ![j] = f]
      /\ timer' = [timer EXCEPT ![j] = TRUE] /\ session' = session
  BY JobFacts DEF RetryOverwrite
<1>3. f \in CallType /\ f.at = "sent"
  BY <1>1 DEF CallType
<1> HIDE DEF f
<1>4. /\ b \in JobType /\ b.status = "running" /\ b.stage = 0 /\ b.progress = 8
      /\ b.hold = job[j].hold /\ b.stages = job[j].stages
  BY <1>1, RestartedFacts
<1> HIDE DEF b
<1>5. Agree(b, TRUE, f) /\ Forward(job[j], b)
  BY <1>1, <1>3, <1>4 DEF Agree, Forward, Waiting, Shown, JobType
<1>6. OneJob(j, b, TRUE, f)
  BY <1>2, <1>3, <1>4, <1>5 DEF OneJob
<1> QED BY <1>6, OneJobStep

(* What is left of the entry, the timer and the function of a job that is   *)
(* removed agrees, whether the function had ended or ends now.              *)
LEMMA RemovedAgrees ==
  ASSUME NEW b \in JobType, NEW f \in CallType, f.at = "none", b.hold <= b.stages - 2
  PROVE  Agree(Removed(b), FALSE, f)
BY RemovedFacts DEF Agree, Waiting

LEMMA DismissStep ==
  ASSUME IInv, NEW j \in Job, Dismiss(j)
  PROVE  IInv' /\ AllForward
<1> DEFINE b == Removed(job[j])
<1>1. /\ job[j] \in JobType /\ call[j] \in CallType
      /\ Agree(job[j], timer[j], call[j]) /\ job[j].status \in {"success", "error"}
  BY JobFacts DEF Dismiss, Finished
<1>2. call[j].at = "none" /\ job[j].hold <= job[j].stages - 2
  BY <1>1 DEF Agree
<1>3. /\ job' = [job EXCEPT ![j] = b] /\ call' = [call EXCEPT ![j] = call[j]]
      /\ timer' = [timer EXCEPT ![j] = FALSE] /\ session' = session
  BY JobFacts DEF Dismiss
<1>4. b \in JobType /\ b.status = "gone"
  BY <1>1, RemovedFacts
<1>5. Agree(b, FALSE, call[j]) /\ Forward(job[j], b)
  BY <1>1, <1>2, <1>4, RemovedAgrees DEF Forward
<1>6. OneJob(j, b, FALSE, call[j])
  BY <1>1, <1>3, <1>4, <1>5 DEF OneJob
<1> QED BY <1>6, OneJobStep

(* The steps that concern many jobs at once. *)
LEMMA ClearStep ==
  ASSUME IInv, ClearFinished
  PROVE  IInv' /\ AllForward
<1>1. TypeOK'
  BY RemovedFacts DEF IInv, TypeOK, ClearFinished
<1>2. ASSUME NEW j \in Job
      PROVE  Agree(job'[j], timer'[j], call'[j]) /\ Forward(job[j], job'[j])
  <2>1. /\ job[j] \in JobType /\ call[j] \in CallType /\ timer[j] \in BOOLEAN
        /\ Agree(job[j], timer[j], call[j])
    BY JobFacts
  <2>2. call' = call
    BY DEF ClearFinished
  <2>3. CASE Finished(j)
    <3>1. job'[j] = Removed(job[j]) /\ timer'[j] = FALSE
      BY <2>3 DEF ClearFinished
    <3>2. call[j].at = "none" /\ job[j].hold <= job[j].stages - 2
      BY <2>1, <2>3 DEF Agree, Finished
    <3>3. Agree(Removed(job[j]), FALSE, call[j]) /\ Forward(job[j], Removed(job[j]))
      BY <2>1, <2>3, <3>2, RemovedAgrees, RemovedFacts DEF Forward, Finished
    <3> QED BY <2>2, <3>1, <3>3
  <2>4. CASE ~ Finished(j)
    <3>1. job'[j] = job[j]
      BY <2>4 DEF ClearFinished
    <3>2. timer'[j] = timer[j]
      BY <2>1, <2>4 DEF ClearFinished
    <3>3. Forward(job[j], job[j])
      BY <2>1 DEF Agree, Forward, JobType
    <3> QED BY <2>1, <2>2, <3>1, <3>2, <3>3
  <2> QED BY <2>3, <2>4
<1> QED BY <1>1, <1>2 DEF IInv, AllForward

LEMMA PageReloadStep ==
  ASSUME IInv, PageReload
  PROVE  IInv' /\ AllForward
<1>1. ASSUME NEW j \in Job
      PROVE  /\ job'[j] \in JobType /\ timer'[j] = FALSE /\ call'[j] \in CallType
             /\ Agree(job'[j], timer'[j], call'[j]) /\ Forward(job[j], job'[j])
  <2> DEFINE f == [call[j] EXCEPT !.at = "none"]
  <2>1. /\ job[j] \in JobType /\ call[j] \in CallType
        /\ Agree(job[j], timer[j], call[j])
    BY JobFacts
  <2>2. timer'[j] = FALSE /\ call'[j] = f
    BY DEF PageReload
  <2>3. f \in CallType /\ f.at = "none" /\ job[j].hold <= job[j].stages - 2
    BY <2>1 DEF CallType, Agree
  <2> HIDE DEF f
  <2>4. CASE job[j].status = "none"
    <3>1. job'[j] = job[j]
      BY <2>4 DEF PageReload
    <3>2. Agree(job[j], FALSE, f) /\ Forward(job[j], job[j])
      BY <2>1, <2>3, <2>4 DEF Agree, Forward, Waiting
    <3> QED BY <2>1, <2>2, <2>3, <3>1, <3>2
  <2>5. CASE job[j].status # "none"
    <3>1. job'[j] = Removed(job[j])
      BY <2>5 DEF PageReload
    <3>2. Agree(Removed(job[j]), FALSE, f)
      BY <2>1, <2>3, RemovedAgrees
    <3> HIDE DEF f
    <3>3. Removed(job[j]) \in JobType /\ Forward(job[j], Removed(job[j]))
      BY <2>1, RemovedFacts DEF Forward, JobType
    <3> QED BY <2>2, <2>3, <3>1, <3>2, <3>3
  <2> QED BY <2>4, <2>5
<1>2. TypeOK'
  <2>1. /\ DOMAIN job' = Job /\ job' = [j \in Job |-> job'[j]]
        /\ timer' = [j \in Job |-> timer'[j]] /\ call' = [j \in Job |-> call'[j]]
        /\ session' \in Inst \cup {NoInst}
    BY DEF PageReload, IInv, TypeOK
  <2> QED BY <1>1, <2>1 DEF TypeOK
<1> QED BY <1>1, <1>2 DEF IInv, AllForward

(* A step that leaves the jobs alone. *)
LEMMA IdleStep ==
  ASSUME IInv, UNCHANGED <<job, timer, call>>, session' \in Inst \cup {NoInst}
  PROVE  IInv' /\ AllForward
<1>1. TypeOK'
  BY DEF IInv, TypeOK
<1>2. ASSUME NEW j \in Job PROVE Forward(job[j], job[j])
  BY JobFacts DEF Forward, Agree, JobType
<1> QED BY <1>1, <1>2 DEF IInv, AllForward

LEMMA NextStep ==
  ASSUME IInv, [Next]_vars
  PROVE  IInv' /\ AllForward
<1>1. ASSUME NEW j \in Job, UserStep(j) PROVE IInv' /\ AllForward
  BY <1>1, StartStep, RetryStep, DismissStep DEF UserStep
<1>2. ASSUME NEW j \in Job, Continue(j) PROVE IInv' /\ AllForward
  BY <1>2, OnOkStep, OnErrorStep, OnValidatedStep, OnReloadedStep, OnSavedStep DEF Continue
<1>3. ASSUME NEW j \in Job, Answers(j) PROVE IInv' /\ AllForward
  BY <1>3, AnswerStep DEF Answers
<1>4. ASSUME SessionStep PROVE IInv' /\ AllForward
  <2>1. CASE Logout \/ \E i \in Inst : Login(i)
    BY <2>1, IdleStep DEF Logout, Login
  <2> QED BY <1>4, <2>1, PageReloadStep, ClearStep DEF SessionStep
<1>5. CASE UNCHANGED vars
  BY <1>5, IdleStep DEF IInv, TypeOK, vars
<1> QED BY <1>1, <1>2, <1>3, <1>4, <1>5, TickStep DEF Next

-----------------------------------------------------------------------------
(* The invariant holds of every job, however many there are. *)
THEOREM InvariantCorrect == Spec => []IInv
<1>1. Init => IInv
  BY InitAgree
<1>2. IInv /\ [Next]_vars => IInv'
  BY NextStep
<1> QED BY <1>1, <1>2, PTL DEF Spec

(* The variables of the store keep their types: no answer moves an entry to *)
(* a stage it does not have.                                                *)
THEOREM TypeCorrect == Spec => []TypeOK
<1>1. IInv => TypeOK
  BY DEF IInv
<1> QED BY <1>1, InvariantCorrect, PTL

(* yamlAiJobStore.ts keeps one function per running job, through retries,   *)
(* dismissals and reloads: none is lost and none is left over.              *)
THEOREM RunningIsServedCorrect == Spec => []RunningIsServed
<1>1. IInv => RunningIsServed
  BY DEF IInv, RunningIsServed, Agree
<1> QED BY <1>1, InvariantCorrect, PTL

(* The timer of yamlAiJobStore.ts stops before the answer is shown.         *)
THEOREM TimerCorrect == Spec => []TimerWhileWaiting
<1>1. IInv => TimerWhileWaiting
  BY DEF IInv, TimerWhileWaiting, Agree, Waiting
<1> QED BY <1>1, InvariantCorrect, PTL

(* The panel never shows a job going backwards, nor as done when it is not: *)
(* the timer, the answer and the waits after it reckon progress on their    *)
(* own, and their figures still follow each other.                          *)
THEOREM ProgressCorrect == Spec => ProgressRunsForward
<1>1. IInv /\ [Next]_vars =>
        [\A j \in Job :
           /\ job[j].status = "running" =>
                /\ job'[j].progress >= job[j].progress
                /\ job'[j].stage >= job[j].stage
           /\ job'[j].status # "gone" =>
                (job'[j].progress = 100 <=> job'[j].status = "success")]_vars
  BY NextStep DEF AllForward, Forward
<1> QED BY <1>1, InvariantCorrect, PTL DEF Spec, ProgressRunsForward

-----------------------------------------------------------------------------
(* Consent.  A retry goes out with the consent it was given, and keeps it   *)
(* until it is answered.                                                    *)
Consented == \A j \in Job : call[j].retry => call[j].overwrite

AsksOnce ==
  \A j \in Job : job'[j].needsOverwrite /\ ~ job[j].needsOverwrite => ~ call[j].retry

(* A step that replaces the entry and the function of job j by b and f.     *)
LEMMA OneAsk ==
  ASSUME TypeOK, Consented, NEW j \in Job, NEW b, NEW f,
         job' = [job EXCEPT ![j] = b], call' = [call EXCEPT ![j] = f],
         f.retry => f.overwrite,
         b.needsOverwrite => job[j].needsOverwrite \/ ~ call[j].retry
  PROVE  Consented' /\ AsksOnce
<1>1. ASSUME NEW k \in Job
      PROVE  /\ job'[k] = (IF k = j THEN b ELSE job[k])
             /\ call'[k] = (IF k = j THEN f ELSE call[k])
  BY DEF TypeOK
<1>2. ASSUME NEW k \in Job PROVE call'[k].retry => call'[k].overwrite
  BY <1>1 DEF Consented
<1>3. ASSUME NEW k \in Job
      PROVE  job'[k].needsOverwrite /\ ~ job[k].needsOverwrite => ~ call[k].retry
  BY <1>1
<1> QED BY <1>2, <1>3 DEF Consented, AsksOnce

(* A step that moves the function of job j on, and lets its entry be or     *)
(* asks for nothing that it did not ask for.                                *)
LEMMA OneMoves ==
  ASSUME TypeOK, Consented, NEW j \in Job, NEW b, NEW a,
         job' = [job EXCEPT ![j] = b], call' = [call EXCEPT ![j].at = a],
         b.needsOverwrite => job[j].needsOverwrite \/ ~ call[j].retry
  PROVE  Consented' /\ AsksOnce
<1> DEFINE f == [call[j] EXCEPT !.at = a]
<1>1. call[j] \in CallType /\ call' = [call EXCEPT ![j] = f]
  BY DEF TypeOK
<1>2. f.retry => f.overwrite
  BY <1>1 DEF Consented, CallType
<1> HIDE DEF f
<1> QED BY <1>1, <1>2, OneAsk

(* A step that leaves every function's request as it was, and no entry      *)
(* asking that did not ask before.                                          *)
LEMMA NoneAsks ==
  ASSUME Consented,
         \A j \in Job : call'[j].retry = call[j].retry /\ call'[j].overwrite = call[j].overwrite,
         \A j \in Job : job'[j].needsOverwrite => job[j].needsOverwrite
  PROVE  Consented' /\ AsksOnce
BY DEF Consented, AsksOnce

(* What the entries that a step makes ask for. *)
LEMMA EntriesAsk ==
  ASSUME NEW b \in JobType, NEW o \in BOOLEAN
  PROVE  /\ Succeeded(b).needsOverwrite = FALSE
         /\ Restarted(b).needsOverwrite = FALSE
         /\ Failed(b, o).needsOverwrite = o
         /\ Removed(b).needsOverwrite = b.needsOverwrite
BY DEF Succeeded, Restarted, Failed, Removed, Entry, JobType

(* The steps of one job. *)
LEMMA JobAsks ==
  ASSUME TypeOK, Consented, NEW j \in Job,
         UserStep(j) \/ Tick(j) \/ Answers(j) \/ Continue(j)
  PROVE  Consented' /\ AsksOnce
<1>1. job[j] \in JobType /\ call[j] \in CallType /\ job \in [Job -> JobType]
      /\ call \in [Job -> CallType]
  BY DEF TypeOK
<1>2. job = [job EXCEPT ![j] = job[j]] /\ call = [call EXCEPT ![j] = call[j]]
  BY <1>1
<1>3. call[j].retry => call[j].overwrite
  BY DEF Consented
<1>4. ASSUME NEW kind \in Kind, NEW options \in 0 .. 2, NEW overwrite \in BOOLEAN,
             Start(j, kind, options, overwrite)
      PROVE  Consented' /\ AsksOnce
  <2>1. ~ NewJob(kind, options).needsOverwrite /\ ~ Call(overwrite).retry
    BY DEF NewJob, Call
  <2> QED BY <1>4, <2>1, OneAsk DEF Start
<1>5. CASE RetryOverwrite(j)
  <2> DEFINE f == [call[j] EXCEPT !.at = "sent", !.overwrite = TRUE,
                                  !.retry = TRUE, !.inst = session]
  <2>1. call' = [call EXCEPT ![j] = f] /\ f.overwrite
    BY <1>1, <1>5 DEF RetryOverwrite, CallType
  <2> HIDE DEF f
  <2>2. ~ Restarted(job[j]).needsOverwrite
    BY <1>1, EntriesAsk
  <2> QED BY <1>5, <2>1, <2>2, OneAsk DEF RetryOverwrite
<1>6. CASE Dismiss(j)
  <2>1. Removed(job[j]).needsOverwrite = job[j].needsOverwrite
    BY <1>1, EntriesAsk
  <2> QED BY <1>2, <1>3, <1>6, <2>1, OneAsk DEF Dismiss
<1>7. CASE Tick(j)
  <2>1. /\ AdvancedStage(job[j]).needsOverwrite = job[j].needsOverwrite
        /\ Crept(job[j]).needsOverwrite = job[j].needsOverwrite
    BY DEF AdvancedStage, Crept, At, Entry
  <2>2. \E b : job' = [job EXCEPT ![j] = b] /\ b.needsOverwrite = job[j].needsOverwrite
    BY <1>2, <1>7, <2>1 DEF Tick
  <2>3. call' = [call EXCEPT ![j] = call[j]]
    BY <1>2, <1>7 DEF Tick
  <2> QED BY <1>3, <2>2, <2>3, OneAsk
<1>8. ASSUME NEW a \in {"ok", "conflict", "failed"}, Answer(j, a)
      PROVE  Consented' /\ AsksOnce
  <2>1. job' = [job EXCEPT ![j] = job[j]] /\ call' = [call EXCEPT ![j].at = a]
    BY <1>2, <1>8 DEF Answer
  <2> QED BY <2>1, OneMoves
<1>9. CASE OnOk(j)
  <2>1. \E b, a : /\ job' = [job EXCEPT ![j] = b] /\ call' = [call EXCEPT ![j].at = a]
                  /\ b.needsOverwrite => job[j].needsOverwrite
    <3>1. /\ ~ Succeeded(job[j]).needsOverwrite
          /\ At(job[j], job[j].stages - 2, 94).needsOverwrite = job[j].needsOverwrite
          /\ At(job[j], job[j].stages - 1, 96).needsOverwrite = job[j].needsOverwrite
      BY <1>1, EntriesAsk DEF At, Entry
    <3>2. CASE job[j].kind = "source" /\ call[j].retry
      BY <1>9, <3>1, <3>2 DEF OnOk
    <3>3. CASE ~ (job[j].kind = "source" /\ call[j].retry) /\ job[j].kind = "source"
      BY <1>9, <3>1, <3>3 DEF OnOk
    <3>4. CASE ~ (job[j].kind = "source" /\ call[j].retry) /\ job[j].kind # "source"
      BY <1>9, <3>1, <3>4 DEF OnOk
    <3> QED BY <3>2, <3>3, <3>4
  <2> QED BY <2>1, OneMoves
<1>10. CASE OnError(j)
  <2> DEFINE asks == call[j].at = "conflict" /\ ~ call[j].overwrite
  <2>1. Failed(job[j], asks).needsOverwrite = asks
    BY <1>1, EntriesAsk
  <2>2. asks => ~ call[j].retry
    BY <1>1, <1>3 DEF CallType
  <2> QED BY <1>10, <2>1, <2>2, OneMoves DEF OnError
<1>11. CASE OnValidated(j)
  <2>1. At(job[j], job[j].stages - 1, 98).needsOverwrite = job[j].needsOverwrite
    BY DEF At, Entry
  <2> QED BY <1>11, <2>1, OneMoves DEF OnValidated
<1>12. ~ Succeeded(job[j]).needsOverwrite
  BY <1>1, EntriesAsk
<1>13. CASE OnReloaded(j)
  BY <1>12, <1>13, OneMoves DEF OnReloaded
<1>14. ASSUME NEW some \in BOOLEAN, OnSaved(j, some)
       PROVE  Consented' /\ AsksOnce
  <2>1. CASE job[j].kind = "postman" /\ some
    BY <1>2, <1>14, <2>1, OneMoves DEF OnSaved
  <2>2. CASE ~ (job[j].kind = "postman" /\ some)
    BY <1>12, <1>14, <2>2, OneMoves DEF OnSaved
  <2> QED BY <2>1, <2>2
<1>15. CASE UserStep(j)
  BY <1>4, <1>5, <1>6, <1>15 DEF UserStep
<1>16. CASE Answers(j)
  BY <1>8, <1>16 DEF Answers
<1>17. CASE Continue(j)
  BY <1>9, <1>10, <1>11, <1>13, <1>14, <1>17 DEF Continue
<1> QED BY <1>7, <1>15, <1>16, <1>17

(* The steps of the session take entries away, and stop functions. *)
LEMMA SessionAsks ==
  ASSUME TypeOK, Consented, SessionStep \/ UNCHANGED vars
  PROVE  Consented' /\ AsksOnce
<1>1. ASSUME NEW j \in Job
      PROVE  Removed(job[j]).needsOverwrite = job[j].needsOverwrite
  BY EntriesAsk DEF TypeOK
<1>2. CASE PageReload
  <2>1. \A j \in Job : call'[j].retry = call[j].retry /\ call'[j].overwrite = call[j].overwrite
    BY <1>2 DEF PageReload, TypeOK, CallType
  <2>2. \A j \in Job : job'[j].needsOverwrite => job[j].needsOverwrite
    BY <1>1, <1>2 DEF PageReload
  <2> QED BY <2>1, <2>2, NoneAsks
<1>3. CASE ClearFinished
  <2>1. \A j \in Job : job'[j].needsOverwrite => job[j].needsOverwrite
    BY <1>1, <1>3 DEF ClearFinished
  <2> QED BY <1>3, <2>1, NoneAsks DEF ClearFinished
<1>4. CASE UNCHANGED <<job, call>>
  BY <1>4, NoneAsks
<1> QED BY <1>2, <1>3, <1>4 DEF SessionStep, Logout, Login, vars

LEMMA NextAsks ==
  ASSUME IInv, Consented, [Next]_vars
  PROVE  Consented' /\ AsksOnce
<1>1. TypeOK
  BY DEF IInv
<1>2. CASE SessionStep \/ UNCHANGED vars
  BY <1>1, <1>2, SessionAsks
<1>3. ASSUME NEW j \in Job, UserStep(j) \/ Tick(j) \/ Answers(j) \/ Continue(j)
      PROVE  Consented' /\ AsksOnce
  BY <1>1, <1>3, JobAsks
<1> QED BY <1>2, <1>3 DEF Next

(* retryWithOverwrite of yamlAiJobStore.ts sends the consent with the retry *)
(* and nothing takes it back: a user who agreed is not asked again for the  *)
(* same attempt, whatever else happens in the meantime.                     *)
THEOREM ConsentCorrect == Spec => ConsentIsAskedOnce
<1>1. Init => Consented
  BY DEF Init, NoCall, Consented
<1>2. IInv /\ Consented /\ [Next]_vars => Consented'
  BY NextAsks
<1>3. IInv /\ Consented /\ [Next]_vars =>
        [\A j \in Job :
           job'[j].needsOverwrite /\ ~ job[j].needsOverwrite => ~ call[j].retry]_vars
  BY NextAsks DEF AsksOnce
<1> QED BY <1>1, <1>2, <1>3, InvariantCorrect, PTL DEF Spec, ConsentIsAskedOnce
=============================================================================
