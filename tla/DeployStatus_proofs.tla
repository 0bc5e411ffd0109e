------------------------- MODULE DeployStatus_proofs -------------------------
(***************************************************************************)
(* Theorems about what the statuses of an application and of its           *)
(* deployments promise, for every value of the constants: that they are    *)
(* owned by a job, that an application that counts as running is served,   *)
(* which gates a deployment passed, what can be gone back to, and that the *)
(* rows implement the log of deployments.                                  *)
(***************************************************************************)
EXTENDS DeployPipeline_proofs, FiniteSetTheorems

-----------------------------------------------------------------------------
(* How the steps move the worker.                                          *)

\* The steps of everybody else: requests, the delete handler and BullMQ.
Outside ==
    \/ Request \/ DeleteTearDown \/ DeleteRows
    \/ \E d \in Deployments : EnqueueJob(d) \/ LoseJob(d) \/ RequeueStalled(d)

\* The steps with which the processor is done with its job.
Closing == ThrowOutsideTry \/ Announce \/ AppError \/ ThrowInCatch \/ Crash

\* The steps within a job that are not remote commands.
Local ==
    \/ MarkRunning \/ MarkDeploying \/ Prepare \/ ConnectionGone \/ FinishOk
    \/ AppRunning \/ ThrowInsideTry \/ FinishFailed

LEMMA StepKinds ==
  ASSUME [Next]_vars
  PROVE  \/ Outside \/ Closing \/ Local \/ RemoteStep
         \/ TakeJob \/ Load \/ Connect \/ UNCHANGED vars
  BY DEF Next, WorkerStep, Fault, Outside, Closing, Local

LEMMA OutsideFrame ==
  ASSUME Outside
  PROVE  UNCHANGED <<w, latest, retained, preRan, sawHealthy>>
  BY DEF Outside, Request, RequestDeploy, RequestRollbackToCommit, RequestRollbackToImage,
         InsertRow, DeleteTearDown, DeleteRows, EnqueueJob, LoseJob, RequeueStalled,
         serverVars, historyVars

LEMMA ClosingMoves == Closing => w' = IdleWorker /\ w'.pc = "idle" /\ w'.dep = 0
  BY DEF Closing, ThrowOutsideTry, Announce, AppError, ThrowInCatch, Crash, CloseJob, IdleWorker

LEMMA TakeMoves ==
  TakeJob => w'.pc = "load" /\ w'.dep = Head(queue) /\ ~ w'.alive
  BY DEF TakeJob, IdleWorker

LEMMA LoadMoves ==
  ASSUME TypeOK, Load
  PROVE  \/ w' = IdleWorker /\ w'.pc = "idle" /\ w'.dep = 0 /\ ~ Exists(w.dep) /\ CloseJob("done")
         \/ /\ w'.pc = "markRunning" /\ w'.dep = w.dep /\ Exists(w.dep) /\ UNCHANGED job
            /\ w'.target = commit[w.dep] /\ w'.img = fromImage[w.dep] /\ w'.alive = w.alive
<1>1. w' = IdleWorker => w'.pc = "idle" /\ w'.dep = 0
  BY DEF IdleWorker
<1>2. w' = [w EXCEPT !.pc = "markRunning", !.target = commit[w.dep], !.img = fromImage[w.dep]]
        => /\ w'.pc = "markRunning" /\ w'.dep = w.dep /\ w'.target = commit[w.dep]
           /\ w'.img = fromImage[w.dep] /\ w'.alive = w.alive
  BY DEF TypeOK, WorkerTyped
<1> QED
  BY <1>1, <1>2 DEF Load, CloseJob

LEMMA ConnectMoves ==
  ASSUME TypeOK, Connect
  PROVE  /\ w'.dep = w.dep /\ w'.target = w.target /\ w'.img = w.img
         /\ w'.pc \in {"retag", "checkout", "finishFailed"}
<1>1. Raise => w'.pc = "finishFailed" /\ w'.dep = w.dep /\ w'.target = w.target /\ w'.img = w.img
  BY GotoSets DEF Raise, TypeOK
<1>2. w' = [w EXCEPT !.alive = TRUE, !.pc = IF w.img # 0 THEN "retag" ELSE "checkout"]
        => w'.pc \in {"retag", "checkout"} /\ w'.dep = w.dep /\ w'.target = w.target /\ w'.img = w.img
  BY DEF TypeOK, WorkerTyped
<1> QED
  BY <1>1, <1>2 DEF Connect

LEMMA LocalMoves ==
  ASSUME TypeOK, Local
  PROVE  /\ w'.dep = w.dep /\ w'.target = w.target /\ w'.img = w.img /\ w'.alive = w.alive
         /\ MarkRunning => w.pc = "markRunning" /\ w'.pc = "markDeploying"
         /\ MarkDeploying => w.pc = "markDeploying" /\ w'.pc = "prepare"
         /\ Prepare => w.pc = "prepare" /\ w'.pc = "connect"
         /\ ConnectionGone => w.pc \in OverSsh \ {"trim"} /\ w'.pc = "finishFailed"
         /\ FinishOk => w.pc = "finishOk" /\ w'.pc = "appRunning"
         /\ AppRunning => w.pc = "appRunning" /\ w'.pc = "announce"
         /\ ThrowInsideTry => w.pc \in AfterSsh /\ w'.pc = "finishFailed"
         /\ FinishFailed => w.pc = "finishFailed" /\ w'.pc = "appError"
  BY GotoSets DEF Local, MarkRunning, MarkDeploying, Prepare, ConnectionGone, FinishOk, AppRunning,
     ThrowInsideTry, FinishFailed, Raise, At, TypeOK

LEMMA RemoteMoves ==
  ASSUME TypeOK, RemoteStep
  PROVE  /\ w'.dep = w.dep /\ w'.target = w.target /\ w'.img = w.img
         /\ w'.alive => w.alive
         /\ w.pc \in OverSsh
         /\ Trim \/ w.alive
         /\ w'.pc \in {"build", "tag", "preDeploy", "stopOld", "runNew", "route", "health",
                       "postDeploy", "trim", "finishOk", "finishFailed"}
<1>1. PICK p \in Onward : (Goto(p) /\ UNCHANGED faults) \/ Dropped(p)
  BY RemoteGoesOn DEF RemoteShape
<1>2. /\ w'.dep = w.dep /\ w'.target = w.target /\ w'.img = w.img /\ (w'.alive => w.alive) /\ w'.pc = p
  BY <1>1, GotoSets, DroppedSets DEF TypeOK
<1>3. p \in {"build", "tag", "preDeploy", "stopOld", "runNew", "route", "health",
             "postDeploy", "trim", "finishOk", "finishFailed"}
  BY <1>1 DEF Onward, AfterImage, AfterTag, AfterRoute, AfterHealth, AfterPost
<1>4. w.pc \in OverSsh /\ (Trim \/ w.alive)
  BY DEF RemoteStep, Checkout, Retag, Build, TagImage, PreDeploy, StopOld, RunNew,
         Route, HealthWait, PostDeploy, Trim, OverConnection, At, OverSsh
<1> QED
  BY <1>2, <1>3, <1>4

\* The worker dies only in a crash.
LEMMA CrashCounted ==
  ASSUME TypeOK, [Next]_vars, ~ Crash
  PROVE  faults'.crash = faults.crash
  BY StepKinds DEF Outside, Request, RequestDeploy, RequestRollbackToCommit,
     RequestRollbackToImage, InsertRow, DeleteTearDown, DeleteRows, EnqueueJob, LoseJob,
     RequeueStalled, Closing, ThrowOutsideTry, Announce, AppError, ThrowInCatch, Local, MarkRunning,
     MarkDeploying, Prepare, ConnectionGone, FinishOk, AppRunning, ThrowInsideTry, FinishFailed,
     RemoteStep, Checkout, Retag, Build, TagImage, PreDeploy, StopOld, RunNew, Route, HealthWait,
     PostDeploy, Trim, TakeJob, Load, Connect, vars, Completed, Dropped, Failed, TypeOK, HistoryTyped

-----------------------------------------------------------------------------
(* The wait list, and what was not touched yet.                            *)

\* Every job on the wait list is waiting, and is there once.
QueueInv ==
    /\ \A i \in 1..Len(queue) : job[queue[i]] = "waiting"
    /\ \A i, j \in 1..Len(queue) : queue[i] = queue[j] => i = j

\* The rows of an application are deleted together, and with the application.
TogetherInv ==
    /\ app = "deleted" => \A d \in Deployments : ~ Exists(d)
    /\ app # "deleted" => \A d \in Deployments : d <= created => Exists(d)

\* Nobody has worked on the row: it is as its request left it.
Untouched(d) ==
    /\ status[d] \in {"none", "queued"}
    /\ kind[d] = "deploy" => commit[d] = None /\ fromImage[d] = 0

\* Until the worker dies for the first time every job is taken once, and a plain deployment is never
\* taken for a rollback.
CalmInv ==
    faults.crash = 0 =>
        /\ \A d \in Deployments : job[d] # "stalled" /\ stalls[d] = 0
        /\ \A d \in Deployments :
              job[d] \in {"none", "waiting"} \/ (w.pc = "load" /\ w.dep = d) => Untouched(d)
        /\ w.pc = "markRunning" => status[w.dep] \in {"none", "queued"}
        /\ w.pc \notin {"idle", "load"} /\ kind[w.dep] = "deploy" => ~ IsRollback

\* What the steps do to the jobs that are not waiting.
LEMMA JobSteps ==
  ASSUME TypeOK, JobsInv, [Next]_vars
  PROVE  \/ TakeJob \/ \E d \in Deployments : EnqueueJob(d) \/ RequeueStalled(d)
         \/ /\ UNCHANGED queue
            /\ \A d \in Deployments :
                  job'[d] # job[d] => /\ d = w.dep /\ job[d] = "active" /\ w'.pc = "idle"
                                      /\ job'[d] \in {"done", "failed"} \/ (Crash /\ job'[d] = "stalled")
<1>1. ASSUME NEW o, UNCHANGED queue, job' = [job EXCEPT ![w.dep] = o], w'.pc = "idle",
             o \in {"done", "failed"} \/ (Crash /\ o = "stalled")
      PROVE  /\ UNCHANGED queue
             /\ \A d \in Deployments :
                  job'[d] # job[d] => /\ d = w.dep /\ job[d] = "active" /\ w'.pc = "idle"
                                      /\ job'[d] \in {"done", "failed"} \/ (Crash /\ job'[d] = "stalled")
  BY <1>1 DEF TypeOK, QueueTyped, JobsInv
<1>2. CASE Closing
  <2>1. w'.pc = "idle"
    BY <1>2, ClosingMoves
  <2>2. /\ UNCHANGED queue
        /\ \/ Crash /\ job' = [job EXCEPT ![w.dep] = "stalled"]
           \/ \E o \in {"done", "failed"} : job' = [job EXCEPT ![w.dep] = o]
    BY <1>2 DEF Closing, ThrowOutsideTry, Announce, AppError, ThrowInCatch, Crash, CloseJob
  <2> QED
    BY <1>1, <2>1, <2>2
<1>3. CASE Load
  <2>1. CASE UNCHANGED job
    BY <1>3, <2>1 DEF Load
  <2>2. CASE CloseJob("done")
    BY <1>1, <1>3, <2>2 DEF Load, CloseJob, IdleWorker
  <2> QED
    BY <1>3, <2>1, <2>2 DEF Load
<1>4. CASE Local \/ RemoteStep \/ Connect \/ UNCHANGED vars
  BY <1>4 DEF Local, MarkRunning, MarkDeploying, Prepare, ConnectionGone, FinishOk, AppRunning,
     ThrowInsideTry, FinishFailed, RemoteStep, Checkout, Retag, Build, TagImage, PreDeploy, StopOld,
     RunNew, Route, HealthWait, PostDeploy, Trim, Connect, vars, queueVars
<1>5. CASE Outside
  BY <1>5 DEF Outside, Request, RequestDeploy, RequestRollbackToCommit, RequestRollbackToImage,
     InsertRow, DeleteTearDown, DeleteRows, LoseJob, queueVars
<1> QED
  BY <1>2, <1>3, <1>4, <1>5, StepKinds

LEMMA StepQueue == TypeOK /\ JobsInv /\ QueueInv /\ [Next]_vars => QueueInv'
<1> SUFFICES ASSUME TypeOK, JobsInv, QueueInv, [Next]_vars
             PROVE  QueueInv'
  OBVIOUS
<1>0. /\ queue \in Seq(Deployments) /\ job \in [Deployments -> JobState]
      /\ \A i \in 1..Len(queue) : queue[i] \in Deployments
  BY DEF TypeOK, QueueTyped
<1>1. ASSUME NEW d \in Deployments, EnqueueJob(d)
      PROVE  QueueInv'
  <2>1. \A i \in 1..Len(queue) : queue[i] # d
    BY <1>1 DEF EnqueueJob, JobsInv
  <2>2. /\ Len(queue') = Len(queue) + 1 /\ queue'[Len(queue) + 1] = d
        /\ \A i \in 1..Len(queue) : queue'[i] = queue[i]
    BY <1>0, <1>1 DEF EnqueueJob
  <2>3. job'[d] = "waiting" /\ \A e \in Deployments \ {d} : job'[e] = job[e]
    BY <1>0, <1>1 DEF EnqueueJob
  <2>4. \A i \in 1..Len(queue') : i = Len(queue) + 1 \/ i \in 1..Len(queue)
    BY <1>0, <2>2
  <2> QED
    BY <1>0, <2>1, <2>2, <2>3, <2>4 DEF QueueInv
<1>2. ASSUME NEW d \in Deployments, RequeueStalled(d)
      PROVE  QueueInv'
  <2>1. \A i \in 1..Len(queue) : queue[i] # d
    BY <1>2 DEF RequeueStalled, QueueInv
  <2>2. \A e \in Deployments \ {d} : job'[e] = job[e]
    BY <1>0, <1>2 DEF RequeueStalled
  <2>3. CASE UNCHANGED queue
    BY <1>0, <2>1, <2>2, <2>3 DEF QueueInv
  <2>4. CASE queue' = <<d>> \o queue /\ job' = [job EXCEPT ![d] = "waiting"]
    <3>1. /\ Len(queue') = Len(queue) + 1 /\ queue'[1] = d
          /\ \A i \in 2..Len(queue') : i - 1 \in 1..Len(queue) /\ queue'[i] = queue[i - 1]
      BY <1>0, <2>4
    <3>2. \A i \in 1..Len(queue') : i = 1 \/ i \in 2..Len(queue')
      BY <1>0, <3>1
    <3>3. job'[d] = "waiting"
      BY <1>0, <2>4
    <3>4. \A i \in 1..Len(queue') : job'[queue'[i]] = "waiting"
      BY <1>0, <2>1, <2>2, <3>1, <3>2, <3>3 DEF QueueInv
    <3>5. ASSUME NEW i \in 1..Len(queue'), NEW j \in 1..Len(queue'), queue'[i] = queue'[j]
          PROVE  i = j
      <4>1. CASE i = 1 \/ j = 1
        BY <2>1, <3>1, <3>2, <3>5, <4>1
      <4>2. CASE i # 1 /\ j # 1
        <5>1. i - 1 = j - 1
          BY <3>1, <3>2, <3>5, <4>2 DEF QueueInv
        <5> QED
          BY <5>1
      <4> QED
        BY <4>1, <4>2
    <3> QED
      BY <3>4, <3>5 DEF QueueInv
  <2> QED
    BY <1>2, <2>3, <2>4 DEF RequeueStalled
<1>3. CASE TakeJob
  <2>1. \A i \in 1..Len(queue') : i + 1 \in 1..Len(queue) /\ queue'[i] = queue[i + 1]
    BY <1>0, <1>3 DEF TakeJob
  <2>2. 1 \in 1..Len(queue) /\ Head(queue) = queue[1]
    BY <1>0, <1>3 DEF TakeJob
  <2>3. \A i \in 1..Len(queue') : queue'[i] # Head(queue)
    BY <2>1, <2>2 DEF QueueInv
  <2>4. \A e \in Deployments : e # Head(queue) => job'[e] = job[e]
    BY <1>0, <1>3 DEF TakeJob
  <2>5. ASSUME NEW i \in 1..Len(queue'), NEW j \in 1..Len(queue'), queue'[i] = queue'[j]
        PROVE  i = j
    <3>1. i + 1 = j + 1
      BY <2>1, <2>5 DEF QueueInv
    <3> QED
      BY <3>1
  <2> QED
    BY <1>0, <2>1, <2>3, <2>4, <2>5 DEF QueueInv
<1>4. CASE /\ UNCHANGED queue
           /\ \A d \in Deployments : job'[d] # job[d] => job[d] = "active"
  BY <1>0, <1>4 DEF QueueInv
<1> QED
  BY <1>1, <1>2, <1>3, <1>4, JobSteps

LEMMA StepTogether == TypeOK /\ JobsInv /\ TogetherInv /\ [Next]_vars => TogetherInv'
<1> SUFFICES ASSUME TypeOK, JobsInv, TogetherInv, [Next]_vars
             PROVE  TogetherInv'
  OBVIOUS
<1>1. ASSUME NEW k, NEW c, NEW g, InsertRow(k, c, g)
      PROVE  TogetherInv'
  <2>1. created + 1 \in Deployments /\ created \in Nat
    BY <1>1, PipelineAssumption DEF InsertRow, Deployments, TypeOK, RowsTyped
  <2>2. \A d \in Deployments : d <= created + 1 => status'[d] # "none"
    BY <1>1, <2>1 DEF InsertRow, TypeOK, RowsTyped, TogetherInv, Exists, Deployments
  <2> QED
    BY <1>1, <2>1, <2>2 DEF InsertRow, TogetherInv, Exists
<1>2. CASE DeleteRows
  BY <1>2 DEF DeleteRows, TogetherInv, Exists
<1>3. ASSUME \A d \in Deployments : Exists(d)' <=> Exists(d), ~ DeleteRows,
             \A k, c, g : ~ InsertRow(k, c, g)
      PROVE  TogetherInv'
  <2>1. UNCHANGED created /\ (app' = "deleted" <=> app = "deleted")
    BY <1>3, StepKinds DEF Outside, Request, RequestDeploy, RequestRollbackToCommit,
       RequestRollbackToImage, DeleteTearDown, EnqueueJob, LoseJob, RequeueStalled, Closing,
       ThrowOutsideTry, Announce, AppError, ThrowInCatch, Crash, Local, MarkRunning, MarkDeploying,
       Prepare, ConnectionGone, FinishOk, AppRunning, ThrowInsideTry, FinishFailed, RemoteStep,
       Checkout, Retag, Build, TagImage, PreDeploy, StopOld, RunNew, Route, HealthWait, PostDeploy,
       Trim, TakeJob, Load, Connect, SetApp, rowVars, vars
  <2> QED
    BY <1>3, <2>1 DEF TogetherInv
<1> QED
  BY <1>1, <1>2, <1>3, RowsStay

\* A row that nobody works on stays as it was inserted, until it is deleted.
LEMMA UntouchedStays ==
  ASSUME TypeOK, JobsInv, [Next]_vars, NEW d \in Deployments, Untouched(d), d = w.dep => w.pc = "load"
  PROVE  Untouched(d)'
<1>1. CASE RequestDeploy \/ \E t \in Deployments : RequestRollbackToCommit(t) \/ RequestRollbackToImage(t)
  BY <1>1 DEF RequestDeploy, RequestRollbackToCommit, RequestRollbackToImage, InsertRow, Untouched,
     TypeOK, RowsTyped
<1>2. CASE DeleteRows
  BY <1>2 DEF DeleteRows, Untouched
<1>3. CASE MarkRunning \/ FinishOk \/ FinishFailed
  BY <1>3 DEF MarkRunning, FinishOk, FinishFailed, SetStatus, Untouched, At, TypeOK, RowsTyped
<1>4. CASE Checkout
  BY <1>4 DEF Checkout, OverConnection, Untouched, At, TypeOK, RowsTyped
<1>5. CASE UNCHANGED <<status, commit, fromImage, kind>>
  BY <1>5 DEF Untouched
<1>6. \/ Request \/ DeleteRows \/ MarkRunning \/ FinishOk \/ FinishFailed \/ Checkout
      \/ UNCHANGED <<status, commit, fromImage, kind>>
  BY StepKinds DEF Outside, Request, DeleteTearDown, EnqueueJob, LoseJob,
     RequeueStalled, Closing, ThrowOutsideTry, Announce, AppError, ThrowInCatch, Crash, Local,
     MarkDeploying, Prepare, ConnectionGone, AppRunning, ThrowInsideTry, RemoteStep, Retag, Build,
     TagImage, PreDeploy, StopOld, RunNew, Route, HealthWait, PostDeploy, Trim, TakeJob, Load, Connect,
     vars, rowVars
<1> QED
  BY <1>1, <1>2, <1>3, <1>4, <1>5, <1>6 DEF Request

\* The worker's part of what is known before the first crash.
LEMMA StepCalm ==
  TypeOK /\ JobsInv /\ QueueInv /\ CalmInv /\ [Next]_vars => CalmInv'
<1> SUFFICES ASSUME TypeOK, JobsInv, QueueInv, CalmInv, [Next]_vars, faults'.crash = 0
             PROVE  /\ \A d \in Deployments : job'[d] # "stalled" /\ stalls'[d] = 0
                    /\ \A d \in Deployments :
                          job'[d] \in {"none", "waiting"} \/ (w'.pc = "load" /\ w'.dep = d) => Untouched(d)'
                    /\ w'.pc = "markRunning" => status'[w'.dep] \in {"none", "queued"}
                    /\ w'.pc \notin {"idle", "load"} /\ kind'[w'.dep] = "deploy" => ~ IsRollback'
  BY DEF CalmInv
<1>0. faults.crash = 0 /\ ~ Crash
  <2>1. faults.crash \in Nat /\ (Crash => faults'.crash = faults.crash + 1)
    BY PipelineAssumption DEF TypeOK, HistoryTyped, Crash
  <2>2. ~ Crash
    BY <2>1
  <2>3. faults'.crash = faults.crash
    BY <2>2, CrashCounted
  <2> QED
    BY <2>2, <2>3
<1>1. /\ \A d \in Deployments : job[d] # "stalled" /\ stalls[d] = 0
      /\ \A d \in Deployments :
            job[d] \in {"none", "waiting"} \/ (w.pc = "load" /\ w.dep = d) => Untouched(d)
      /\ w.pc = "markRunning" => status[w.dep] \in {"none", "queued"}
      /\ w.pc \notin {"idle", "load"} /\ kind[w.dep] = "deploy" => ~ IsRollback
  BY <1>0 DEF CalmInv
<1>2. w.pc # "idle" => w.dep \in Deployments
  BY BusyHasJob DEF TypeOK
<1>3. ASSUME NEW d \in Deployments
      PROVE  job'[d] # "stalled" /\ stalls'[d] = 0
  <2>1. ~ RequeueStalled(d) /\ \A e \in Deployments : ~ RequeueStalled(e)
    BY <1>1 DEF RequeueStalled
  <2>2. UNCHANGED stalls
    BY <1>0, <2>1, StepKinds DEF Outside, Request, RequestDeploy, RequestRollbackToCommit,
       RequestRollbackToImage, InsertRow, DeleteTearDown, DeleteRows, EnqueueJob, LoseJob,
       Closing, ThrowOutsideTry, Announce, AppError, ThrowInCatch, Local, MarkRunning,
       MarkDeploying, Prepare, ConnectionGone, FinishOk, AppRunning, ThrowInsideTry, FinishFailed,
       RemoteStep, Checkout, Retag, Build, TagImage, PreDeploy, StopOld, RunNew, Route, HealthWait,
       PostDeploy, Trim, TakeJob, Load, Connect, vars, queueVars
  <2>3. job'[d] # "stalled"
    BY <1>0, <1>1, <2>1, JobSteps DEF TakeJob, EnqueueJob, TypeOK, QueueTyped
  <2> QED
    BY <1>1, <2>2, <2>3
<1>4. ASSUME NEW d \in Deployments, job'[d] \in {"none", "waiting"}
      PROVE  Untouched(d)'
  <2>1. job[d] \in {"none", "waiting"}
    <3>1. ASSUME NEW e \in Deployments, EnqueueJob(e)
          PROVE  job[d] \in {"none", "waiting"}
      BY <1>4, <3>1 DEF EnqueueJob, JobsInv, TypeOK, QueueTyped
    <3>2. \A e \in Deployments : ~ RequeueStalled(e)
      BY <1>1 DEF RequeueStalled
    <3>3. CASE TakeJob
      BY <1>4, <3>3 DEF TakeJob, TypeOK, QueueTyped
    <3> QED
      BY <1>0, <1>4, <3>1, <3>2, <3>3, JobSteps
  <2>2. d # w.dep
    BY <2>1 DEF JobsInv
  <2> QED
    BY <1>1, <2>1, <2>2, UntouchedStays
<1>5. CASE w' = w
  <2>1. \A d \in Deployments : w.pc = "load" /\ w.dep = d => Untouched(d)'
    BY <1>1, UntouchedStays
  <2>2. w.pc # "idle" => /\ kind'[w.dep] = kind[w.dep]
                         /\ status'[w.dep] \in {"none", "queued", status[w.dep]}
    <3>1. ASSUME NEW k, NEW c, NEW g, InsertRow(k, c, g), w.pc # "idle"
          PROVE  kind'[w.dep] = kind[w.dep] /\ status'[w.dep] = status[w.dep]
      <4>1. w.dep # created + 1
        BY PipelineAssumption DEF JobsInv, TypeOK, RowsTyped, WorkerTyped
      <4> QED
        BY <1>2, <3>1, <4>1 DEF InsertRow, TypeOK, RowsTyped
    <3>2. CASE DeleteRows
      BY <1>2, <3>2 DEF DeleteRows
    <3>3. ASSUME \A k, c, g : ~ InsertRow(k, c, g), ~ DeleteRows
          PROVE  UNCHANGED <<kind, status>>
      <4>1. ~ MarkRunning /\ ~ FinishOk /\ ~ FinishFailed
        BY <1>5, LocalMoves DEF Local
      <4> QED
        BY <3>3, <4>1, StepKinds DEF Outside, Request, RequestDeploy, RequestRollbackToCommit,
           RequestRollbackToImage, DeleteTearDown, EnqueueJob, LoseJob, RequeueStalled, Closing,
           ThrowOutsideTry, Announce, AppError, ThrowInCatch, Crash, Local, MarkDeploying, Prepare,
           ConnectionGone, AppRunning, ThrowInsideTry, RemoteStep, Checkout, Retag, Build, TagImage,
           PreDeploy, StopOld, RunNew, Route, HealthWait, PostDeploy, Trim, TakeJob, Load, Connect,
           vars, rowVars
    <3> QED
      BY <3>1, <3>2, <3>3
  <2> QED
    BY <1>1, <1>3, <1>4, <1>5, <2>1, <2>2 DEF IsRollback
<1>6. CASE TakeJob
  <2>1. Head(queue) \in Deployments /\ job[Head(queue)] = "waiting"
    BY <1>6 DEF TakeJob, QueueInv, TypeOK, QueueTyped
  <2>2. Head(queue) # w.dep
    BY <2>1 DEF JobsInv
  <2>3. \A d \in Deployments : d = Head(queue) => Untouched(d)'
    BY <1>1, <2>1, <2>2, UntouchedStays
  <2> QED
    BY <1>3, <1>4, <1>6, <2>3, TakeMoves
<1>7. CASE Load
  <2>1. UNCHANGED rowVars
    BY <1>7 DEF Load
  <2>2. Untouched(w.dep) /\ w.dep \in Deployments
    BY <1>1, <1>2, <1>7 DEF Load, At
  <2> QED
    BY <1>3, <1>4, <1>7, <2>1, <2>2, LoadMoves DEF Untouched, IsRollback, rowVars
<1>8. CASE Closing
  BY <1>3, <1>4, <1>8, ClosingMoves
<1>9. CASE Local \/ Connect \/ RemoteStep
  <2>1. /\ w'.dep = w.dep /\ w'.target = w.target /\ w'.img = w.img
        /\ w.pc \notin {"idle", "load"} /\ w'.pc \notin {"load", "markRunning"}
    BY <1>9, LocalMoves, ConnectMoves, RemoteMoves DEF Local, Connect, At, OverSsh, AfterSsh
  <2>2. UNCHANGED kind
    BY <1>9 DEF Local, MarkRunning, MarkDeploying, Prepare, ConnectionGone, FinishOk, AppRunning,
       ThrowInsideTry, FinishFailed, RemoteStep, Checkout, Retag, Build, TagImage, PreDeploy,
       StopOld, RunNew, Route, HealthWait, PostDeploy, Trim, Connect, rowVars
  <2> QED
    BY <1>1, <1>3, <1>4, <2>1, <2>2 DEF IsRollback
<1> QED
  BY <1>5, <1>6, <1>7, <1>8, <1>9, StepKinds, OutsideFrame DEF vars

-----------------------------------------------------------------------------
(* Facts the invariants below share.                                       *)

LEMMA FaultsGrow ==
  ASSUME TypeOK, [Next]_vars
  PROVE  /\ faults.crash \in Nat /\ faults.drop \in Nat /\ faults.db \in Nat
         /\ faults'.crash \in Nat /\ faults'.drop \in Nat /\ faults'.db \in Nat
         /\ faults'.crash >= faults.crash /\ faults'.drop >= faults.drop /\ faults'.db >= faults.db
         /\ Crash => faults'.crash > 0
         /\ ThrowOutsideTry \/ ThrowInsideTry \/ ThrowInCatch => faults'.db > 0
<1>1. /\ faults.crash \in Nat /\ faults.drop \in Nat /\ faults.db \in Nat
      /\ faults \in [crash : Nat, drop : Nat, db : Nat, lost : Nat]
  BY PipelineAssumption DEF TypeOK, HistoryTyped
<1>2. /\ Crash => faults'.crash = faults.crash + 1
      /\ ThrowOutsideTry \/ ThrowInsideTry \/ ThrowInCatch => faults'.db = faults.db + 1
  BY <1>1 DEF Crash, ThrowOutsideTry, ThrowInsideTry, ThrowInCatch
<1>3. CASE UNCHANGED faults
  BY <1>1, <1>2, <1>3
<1>4. CASE \E d \in Deployments : LoseJob(d)
  <2>1. /\ faults'.crash = faults.crash /\ faults'.drop = faults.drop /\ faults'.db = faults.db
    BY <1>1, <1>4 DEF LoseJob
  <2> QED
    BY <1>1, <1>2, <2>1
<1>5. CASE Crash \/ ThrowOutsideTry \/ ThrowInsideTry \/ ThrowInCatch
  <2>1. /\ faults'.crash \in {faults.crash, faults.crash + 1} /\ faults'.drop = faults.drop
        /\ faults'.db \in {faults.db, faults.db + 1}
    BY <1>1, <1>5 DEF Crash, ThrowOutsideTry, ThrowInsideTry, ThrowInCatch
  <2> QED
    BY <1>1, <1>2, <2>1
<1>6. CASE RemoteStep
  <2>1. PICK p \in Onward : (Goto(p) /\ UNCHANGED faults) \/ Dropped(p)
    BY <1>6, RemoteGoesOn DEF RemoteShape
  <2>2. /\ faults'.drop \in {faults.drop, faults.drop + 1}
        /\ faults'.crash = faults.crash /\ faults'.db = faults.db
    BY <1>1, <2>1 DEF Dropped
  <2> QED
    BY <1>1, <1>2, <2>2
<1>7. UNCHANGED faults \/ (\E d \in Deployments : LoseJob(d)) \/ RemoteStep
      \/ Crash \/ ThrowOutsideTry \/ ThrowInsideTry \/ ThrowInCatch
  BY StepKinds DEF Outside, Request, RequestDeploy, RequestRollbackToCommit,
     RequestRollbackToImage, InsertRow, DeleteTearDown, DeleteRows, EnqueueJob,
     RequeueStalled, Closing, Announce, AppError, Local, MarkRunning, MarkDeploying, Prepare,
     ConnectionGone, FinishOk, AppRunning, FinishFailed, TakeJob, Load, Connect, vars
<1> QED
  BY <1>3, <1>4, <1>5, <1>6, <1>7

\* Where each remote command leads to.
LEMMA RemoteFrom ==
  ASSUME TypeOK
  PROVE  /\ Checkout => w.pc = "checkout" /\ w'.pc \in {"build", "finishFailed"}
         /\ Retag => w.pc = "retag" /\ w'.pc \in {"tag", "preDeploy", "stopOld", "finishFailed"}
         /\ Build => w.pc = "build" /\ w'.pc \in {"tag", "preDeploy", "stopOld", "finishFailed"}
         /\ TagImage => w.pc = "tag" /\ w'.pc \in {"preDeploy", "stopOld", "finishFailed"}
         /\ PreDeploy => w.pc = "preDeploy" /\ w'.pc \in {"stopOld", "finishFailed"}
         /\ StopOld => w.pc = "stopOld" /\ w'.pc = "runNew"
         /\ RunNew => w.pc = "runNew" /\ w'.pc \in {"route", "finishFailed"}
         /\ Route => w.pc = "route" /\ w'.pc \in {AfterRoute, "finishFailed"}
         /\ HealthWait => w.pc = "health" /\ w'.pc \in {AfterHealth, "finishFailed"}
         /\ PostDeploy => w.pc = "postDeploy" /\ w'.pc = AfterPost
         /\ Trim => w.pc = "trim" /\ w'.pc = "finishOk" /\ w'.alive = w.alive
<1>1. AfterImage \in {"tag", "preDeploy", "stopOld"} /\ AfterTag \in {"preDeploy", "stopOld"}
  BY DEF AfterImage, AfterTag
<1>2. Checkout => w.pc = "checkout" /\ w'.pc \in {"build", "finishFailed"}
  BY CompletedPc, DroppedPc, FailedPc DEF Checkout, OverConnection, At
<1>3. /\ Retag => w.pc = "retag" /\ w'.pc \in {AfterImage, "finishFailed"}
      /\ Build => w.pc = "build" /\ w'.pc \in {AfterImage, "finishFailed"}
      /\ TagImage => w.pc = "tag" /\ w'.pc \in {AfterTag, "finishFailed"}
  BY CompletedPc, DroppedPc, FailedPc DEF Retag, Build, TagImage, OverConnection, At
<1>4. /\ PreDeploy => w.pc = "preDeploy" /\ w'.pc \in {"stopOld", "finishFailed"}
      /\ StopOld => w.pc = "stopOld" /\ w'.pc = "runNew"
      /\ RunNew => w.pc = "runNew" /\ w'.pc \in {"route", "finishFailed"}
  BY CompletedPc, DroppedPc, FailedPc DEF PreDeploy, StopOld, RunNew, OverConnection, At
<1>5. /\ Route => w.pc = "route" /\ w'.pc \in {AfterRoute, "finishFailed"}
      /\ HealthWait => w.pc = "health" /\ w'.pc \in {AfterHealth, "finishFailed"}
      /\ PostDeploy => w.pc = "postDeploy" /\ w'.pc = AfterPost
  BY CompletedPc, DroppedPc, FailedPc DEF Route, HealthWait, PostDeploy, OverConnection, At
<1>6. Trim => w.pc = "trim" /\ w'.pc = "finishOk" /\ w'.alive = w.alive
  BY GotoSets DEF Trim, At, TypeOK
<1> QED
  BY <1>1, <1>2, <1>3, <1>4, <1>5, <1>6

LEMMA AfterKinds ==
    /\ AfterRoute \in {"health", "postDeploy", "trim", "finishOk"}
    /\ HasHealth => AfterRoute = "health"
    /\ AfterHealth \in {"postDeploy", "trim", "finishOk"}
    /\ AfterPost \in {"trim", "finishOk"}
    /\ Keep > 0 => AfterPost = "trim"
  BY DEF AfterRoute, AfterHealth, AfterPost

\* The rows that were there before a request or a deletion.
LEMMA RowsOfOthers ==
  ASSUME TypeOK, [Next]_vars, w' = w, NEW d \in Deployments, d <= created
  PROVE  kind'[d] = kind[d] /\ status'[d] \in {"none", status[d]}
<1>1. ASSUME NEW k, NEW c, NEW g, InsertRow(k, c, g)
      PROVE  kind'[d] = kind[d] /\ status'[d] = status[d]
  BY <1>1, PipelineAssumption DEF InsertRow, TypeOK, RowsTyped, Deployments
<1>2. CASE DeleteRows
  BY <1>2 DEF DeleteRows
<1>3. ASSUME \A k, c, g : ~ InsertRow(k, c, g), ~ DeleteRows
      PROVE  UNCHANGED <<kind, status>>
  <2>1. ~ MarkRunning /\ ~ FinishOk /\ ~ FinishFailed
    BY LocalMoves DEF Local
  <2> QED
    BY <1>3, <2>1, StepKinds DEF Outside, Request, RequestDeploy, RequestRollbackToCommit,
       RequestRollbackToImage, DeleteTearDown, EnqueueJob, LoseJob, RequeueStalled, Closing,
       ThrowOutsideTry, Announce, AppError, ThrowInCatch, Crash, Local, MarkDeploying, Prepare,
       ConnectionGone, AppRunning, ThrowInsideTry, RemoteStep, Checkout, Retag, Build, TagImage,
       PreDeploy, StopOld, RunNew, Route, HealthWait, PostDeploy, Trim, TakeJob, Load, Connect,
       vars, rowVars
<1> QED
  BY <1>1, <1>2, <1>3

\* The row of the job in progress is one of them.
LEMMA JobHasRow ==
  ASSUME TypeOK, JobsInv, w.pc # "idle"
  PROVE  w.dep \in Deployments /\ w.dep <= created
  BY BusyHasJob DEF TypeOK, JobsInv

\* Within a job only three steps write deployments.status.
LEMMA StatusKept ==
  ASSUME [Next]_vars, RemoteStep \/ Connect \/ (Local /\ ~ MarkRunning /\ ~ FinishOk /\ ~ FinishFailed)
                        \/ Closing \/ TakeJob \/ Load
  PROVE  UNCHANGED <<status, kind, created, fromImage>>
  BY DEF Local, Connect, ConnectionGone, MarkDeploying, Prepare, AppRunning, ThrowInsideTry,
     RemoteStep, Checkout, Retag, Build, TagImage, PreDeploy, StopOld, RunNew, Route, HealthWait,
     PostDeploy, Trim, Closing, ThrowOutsideTry, Announce, AppError, ThrowInCatch, Crash, TakeJob,
     Load, rowVars

-----------------------------------------------------------------------------
(* The health gate.                                                        *)

\* Behind the health wait, and from the success on, the container was seen healthy.
HealthInv ==
    faults.drop = 0 /\ HasHealth =>
        /\ \A d \in Deployments : status[d] = "success" => d \in sawHealthy
        /\ w.pc \in {"postDeploy", "trim", "finishOk"} => w.dep \in sawHealthy

LEMMA SawHealthyGrows ==
  ASSUME [Next]_vars
  PROVE  sawHealthy \subseteq sawHealthy'
<1>1. CASE Outside
  BY <1>1, OutsideFrame
<1>2. CASE Closing \/ Local \/ TakeJob \/ Load \/ Connect \/ UNCHANGED vars
  BY <1>2 DEF Local, MarkRunning, MarkDeploying, Prepare, ConnectionGone, FinishOk, AppRunning,
     ThrowInsideTry, FinishFailed, Connect, Closing, ThrowOutsideTry, Announce, AppError, ThrowInCatch,
     Crash, TakeJob, Load, vars, historyVars
<1>3. CASE RemoteStep
  BY <1>3 DEF RemoteStep, Checkout, Retag, Build, TagImage, PreDeploy, StopOld, RunNew, Route,
     HealthWait, PostDeploy, Trim, historyVars
<1> QED
  BY <1>1, <1>2, <1>3, StepKinds

\* The only row that becomes a success is the one whose outcome is written.
LEMMA NewSuccess ==
  ASSUME TypeOK, [Next]_vars, NEW d \in Deployments, status'[d] = "success"
  PROVE  status[d] = "success" \/ (FinishOk /\ d = w.dep /\ w.pc = "finishOk")
<1>1. CASE RequestDeploy \/ \E t \in Deployments : RequestRollbackToCommit(t) \/ RequestRollbackToImage(t)
  BY <1>1 DEF RequestDeploy, RequestRollbackToCommit, RequestRollbackToImage, InsertRow, TypeOK, RowsTyped
<1>2. CASE DeleteRows
  BY <1>2 DEF DeleteRows
<1>3. CASE MarkRunning \/ FinishFailed
  BY <1>3 DEF MarkRunning, FinishFailed, SetStatus, TypeOK, RowsTyped
<1>4. CASE FinishOk
  BY <1>4 DEF FinishOk, SetStatus, At, TypeOK, RowsTyped
<1> QED
  BY <1>1, <1>2, <1>3, <1>4, StatusSteps DEF Request

LEMMA StepHealth == TypeOK /\ HealthInv /\ [Next]_vars => HealthInv'
<1> SUFFICES ASSUME TypeOK, HealthInv, [Next]_vars, faults'.drop = 0, HasHealth
             PROVE  /\ \A d \in Deployments : status'[d] = "success" => d \in sawHealthy'
                    /\ w'.pc \in {"postDeploy", "trim", "finishOk"} => w'.dep \in sawHealthy'
  BY DEF HealthInv
<1>1. /\ \A d \in Deployments : status[d] = "success" => d \in sawHealthy
      /\ w.pc \in {"postDeploy", "trim", "finishOk"} => w.dep \in sawHealthy
  BY FaultsGrow DEF HealthInv
<1>2. \A d \in Deployments : status'[d] = "success" => d \in sawHealthy'
  BY <1>1, NewSuccess, SawHealthyGrows
<1>3. CASE RemoteStep
  <2>1. w'.dep = w.dep
    BY <1>3, RemoteMoves
  <2>2. CASE HealthWait
    <3>1. \A p : ~ Dropped(p)
      BY <1>3, FaultsGrow DEF Dropped, TypeOK, HistoryTyped
    <3>2. w'.pc = "finishFailed" \/ sawHealthy' = sawHealthy \cup {w.dep}
      BY <2>2, <3>1, FailedPc DEF HealthWait
    <3> QED
      BY <1>2, <2>1, <3>2
  <2>3. CASE ~ HealthWait
    <3>1. w'.pc \in {"postDeploy", "trim", "finishOk"} => w.pc \in {"postDeploy", "trim"}
      BY <1>3, <2>3, RemoteFrom, AfterKinds DEF RemoteStep
    <3> QED
      BY <1>1, <1>2, <2>1, <3>1, SawHealthyGrows
  <2> QED
    BY <2>2, <2>3
<1>4. CASE w' = w
  BY <1>1, <1>2, <1>4, SawHealthyGrows
<1>5. CASE Closing \/ Local \/ TakeJob \/ Load \/ Connect
  <2>1. w'.pc \notin {"postDeploy", "trim", "finishOk"}
    BY <1>5, ClosingMoves, LocalMoves, TakeMoves, LoadMoves, ConnectMoves DEF Local
  <2> QED
    BY <1>2, <2>1
<1> QED
  BY <1>3, <1>4, <1>5, StepKinds, OutsideFrame DEF vars

-----------------------------------------------------------------------------
(* The mark of the job in progress, and the application that is served.    *)

\* From the mark on, the row of the job in progress is running until its end is written.
Working == {"markDeploying", "prepare", "connect", "finishOk", "finishFailed"} \cup OverSsh
MarkedInv == faults.db = 0 /\ w.pc \in Working => status[w.dep] \in {"none", "running"}

LEMMA StepMarked == TypeOK /\ JobsInv /\ MarkedInv /\ [Next]_vars => MarkedInv'
<1> SUFFICES ASSUME TypeOK, JobsInv, MarkedInv, [Next]_vars, faults'.db = 0, w'.pc \in Working
             PROVE  status'[w'.dep] \in {"none", "running"}
  BY DEF MarkedInv
<1>1. w.pc \in Working => status[w.dep] \in {"none", "running"}
  BY FaultsGrow DEF MarkedInv
<1>2. CASE w' = w
  <2>1. w.dep \in Deployments /\ w.dep <= created
    BY <1>2, JobHasRow DEF Working, OverSsh
  <2> QED
    BY <1>1, <1>2, <2>1, RowsOfOthers
<1>3. CASE MarkRunning
  <2>1. w.dep \in Deployments /\ w'.dep = w.dep
    BY <1>3, JobHasRow, LocalMoves DEF MarkRunning, At, Local
  <2> QED
    BY <1>3, <2>1 DEF MarkRunning, SetStatus, Exists, TypeOK, RowsTyped
<1>4. CASE RemoteStep \/ Connect \/ (Local /\ ~ MarkRunning /\ ~ FinishOk /\ ~ FinishFailed)
  <2>0. status' = status
    BY <1>4, StatusKept
  <2>1. w'.dep = w.dep /\ w.pc \in Working
    <3>1. CASE RemoteStep
      BY <3>1, RemoteMoves DEF Working
    <3>2. CASE Connect
      BY <3>2, ConnectMoves DEF Working, Connect, At
    <3>3. CASE Local /\ ~ MarkRunning /\ ~ FinishOk /\ ~ FinishFailed
      <4>1. ~ ThrowInsideTry
        BY FaultsGrow
      <4>2. w'.dep = w.dep
        BY <3>3, LocalMoves
      <4>3. MarkDeploying \/ Prepare \/ AppRunning \/ ConnectionGone
        BY <3>3, <4>1 DEF Local
      <4>4. w.pc \in Working
        BY <3>3, <4>3, LocalMoves DEF Working, OverSsh
      <4> QED
        BY <4>2, <4>4
    <3> QED
      BY <1>4, <3>1, <3>2, <3>3
  <2> QED
    BY <1>1, <2>0, <2>1
<1>5. CASE Closing \/ TakeJob \/ Load \/ FinishOk \/ FinishFailed
  BY <1>5, ClosingMoves, TakeMoves, LoadMoves, LocalMoves DEF Working, OverSsh, Local
<1> QED
  BY <1>2, <1>3, <1>4, <1>5, StepKinds, OutsideFrame DEF vars

\* While a job replaces the container the application does not count as running, and behind
\* the start of the new container one is up, unless the application was torn down.
Behind == {"health", "postDeploy", "trim", "finishOk", "appRunning"}
Replacing == {"prepare", "connect", "finishOk", "appRunning"} \cup OverSsh
ServeInv ==
    /\ w.pc \in Replacing => app # "running"
    /\ del = "idle" /\ (w.pc \in Behind \/ (w.pc = "route" /\ w.alive)) => container.state = "running"
    /\ AppRunningIsServing

\* Who changes applications.status, and who the container.
LEMMA AppSteps ==
  ASSUME [Next]_vars
  PROVE  \/ MarkDeploying \/ AppRunning \/ AppError
         \/ UNCHANGED app \/ app' = "deleted"
  BY StepKinds DEF Outside, Request, RequestDeploy, RequestRollbackToCommit, RequestRollbackToImage,
     InsertRow, DeleteTearDown, DeleteRows, EnqueueJob, LoseJob, RequeueStalled, Closing,
     ThrowOutsideTry, Announce, ThrowInCatch, Crash, Local, MarkRunning, Prepare,
     ConnectionGone, FinishOk, ThrowInsideTry, FinishFailed, RemoteStep, Checkout,
     Retag, Build, TagImage, PreDeploy, StopOld, RunNew, Route, HealthWait, PostDeploy, Trim, TakeJob,
     Load, Connect, rowVars, vars

LEMMA ContainerSteps ==
  ASSUME [Next]_vars
  PROVE  /\ StopOld \/ RunNew \/ Route \/ DeleteTearDown \/ UNCHANGED container
         /\ DeleteTearDown \/ DeleteRows \/ UNCHANGED del
  BY StepKinds DEF Outside, Request, RequestDeploy, RequestRollbackToCommit, RequestRollbackToImage,
     InsertRow, DeleteRows, EnqueueJob, LoseJob, RequeueStalled, Closing,
     ThrowOutsideTry, Announce, AppError, ThrowInCatch, Crash, Local, MarkRunning, MarkDeploying, Prepare,
     ConnectionGone, FinishOk, AppRunning, ThrowInsideTry, FinishFailed, RemoteStep, Checkout,
     Retag, Build, TagImage, PreDeploy, StopOld, RunNew, Route, HealthWait, PostDeploy, Trim, TakeJob,
     Load, Connect, serverVars, deleteVars, vars

LEMMA StepServe == TypeOK /\ ServeInv /\ [Next]_vars => ServeInv'
<1> SUFFICES ASSUME TypeOK, ServeInv, [Next]_vars
             PROVE  ServeInv'
  OBVIOUS
\* The worker's positions.
<1>1. w'.pc \in Replacing => \/ w.pc \in Replacing \/ MarkDeploying
  BY StepKinds, OutsideFrame, ClosingMoves, TakeMoves, LoadMoves, LocalMoves, RemoteMoves
  DEF Replacing, Local, Connect, At, AppRunning, OverSsh, vars
<1>2. w'.pc \in Replacing => app' # "running"
  <2>1. CASE MarkDeploying
    BY <2>1 DEF MarkDeploying, SetApp
  <2>2. CASE AppRunning
    BY <2>2, LocalMoves DEF Local, Replacing, OverSsh
  <2>3. CASE AppError
    BY <2>3 DEF AppError, SetApp
  <2> QED
    BY <1>1, <2>1, <2>2, <2>3, AppSteps DEF ServeInv
<1>3. ASSUME del' = "idle"
      PROVE  del = "idle" /\ ~ DeleteTearDown /\ ~ DeleteRows
  BY <1>3, ContainerSteps DEF DeleteTearDown, DeleteRows
\* The container, once the new one was started.
<1>4. ASSUME del' = "idle", w'.pc \in Behind \/ (w'.pc = "route" /\ w'.alive)
      PROVE  container'.state = "running"
  <2>1. CASE Route
    <3>1. \/ container' = Started(container)
          \/ w'.pc = "finishFailed" \/ (container' \in {container, Started(container)})
      BY <2>1, FailedPc DEF Route
    <3>2. w.pc = "route" /\ w.alive
      BY <2>1 DEF Route, OverConnection, At
    <3>3. container.state = "running"
      BY <1>3, <1>4, <3>2 DEF ServeInv
    <3> QED
      BY <1>4, <3>1, <3>3 DEF Started, Behind, TypeOK, ServerTyped
  <2>2. CASE RunNew
    <3>1. w'.pc = "route" /\ w'.alive
      BY <1>4, <2>2, RemoteFrom DEF Behind
    <3>2. container.state = "absent" /\ container' = NewContainer("running")
      BY <2>2, <3>1, DroppedPc, FailedPc DEF RunNew
    <3> QED
      BY <3>2 DEF NewContainer
  <2>3. ~ StopOld
    BY <1>4, RemoteFrom DEF Behind
  <2>4. CASE UNCHANGED container /\ ~ Route /\ ~ RunNew
    <3>1. w.pc \in Behind \/ (w.pc = "route" /\ w.alive)
      BY <1>4, <2>4, StepKinds, OutsideFrame, ClosingMoves, TakeMoves, LoadMoves, ConnectMoves,
         LocalMoves, RemoteFrom, AfterKinds
      DEF RemoteStep, Local, Behind, vars
    <3> QED
      BY <1>3, <1>4, <2>4, <3>1 DEF ServeInv
  <2> QED
    BY <1>3, <1>4, <2>1, <2>2, <2>3, <2>4, ContainerSteps
<1>5. ASSUME app' = "running", del' = "idle"
      PROVE  container'.state = "running"
  <2>1. CASE AppRunning
    <3>1. UNCHANGED container /\ w.pc = "appRunning"
      BY <2>1 DEF AppRunning, serverVars, At
    <3> QED
      BY <1>3, <1>5, <3>1 DEF ServeInv, Behind
  <2>2. CASE app = "running" /\ ~ AppRunning
    <3>1. container.state = "running" /\ w.pc \notin Replacing
      BY <1>3, <1>5, <2>2 DEF ServeInv, AppRunningIsServing
    <3>2. ~ StopOld /\ ~ RunNew /\ ~ Route
      BY <3>1 DEF StopOld, RunNew, Route, OverConnection, At, Replacing, OverSsh
    <3> QED
      BY <1>3, <1>5, <3>1, <3>2, ContainerSteps
  <2>3. ~ MarkDeploying /\ ~ AppError
    BY <1>5 DEF MarkDeploying, AppError, SetApp
  <2> QED
    BY <1>5, <2>1, <2>2, <2>3, AppSteps
<1> QED
  BY <1>2, <1>4, <1>5 DEF ServeInv, AppRunningIsServing

-----------------------------------------------------------------------------
(* An application that is being deployed has somebody who deploys it.      *)

OwnedInv == DeployingIsOwned /\ (w.pc = "announce" => app # "deploying")

Owner(d) ==
    \/ job[d] \in {"active", "stalled"}
    \/ job[d] = "waiting" /\ stalls[d] > 0
    \/ Abandoned(d)

\* The counter of a job that BullMQ found stalled only grows.
LEMMA StallsGrow ==
  ASSUME TypeOK, [Next]_vars
  PROVE  \A d \in Deployments :
            /\ stalls[d] \in Nat /\ stalls'[d] \in Nat /\ stalls'[d] >= stalls[d]
            /\ RequeueStalled(d) => stalls'[d] = stalls[d] + 1
<1>1. CASE \E d \in Deployments : RequeueStalled(d)
  BY <1>1 DEF RequeueStalled, TypeOK, QueueTyped
<1>2. CASE \A d \in Deployments : ~ RequeueStalled(d)
  <2>1. UNCHANGED stalls
    BY <1>2, StepKinds DEF Outside, Request, RequestDeploy, RequestRollbackToCommit,
       RequestRollbackToImage, InsertRow, DeleteTearDown, DeleteRows, EnqueueJob, LoseJob,
       Closing, ThrowOutsideTry, Announce, AppError, ThrowInCatch, Crash, Local, MarkRunning,
       MarkDeploying, Prepare, ConnectionGone, FinishOk, AppRunning, ThrowInsideTry, FinishFailed,
       RemoteStep, Checkout, Retag, Build, TagImage, PreDeploy, StopOld, RunNew, Route, HealthWait,
       PostDeploy, Trim, TakeJob, Load, Connect, vars, queueVars
  <2> QED
    BY <1>2, <2>1 DEF TypeOK, QueueTyped
<1> QED
  BY <1>1, <1>2

\* Whoever owns the deploying application goes on owning it until the status is changed.
LEMMA OwnerStays ==
  ASSUME TypeOK, JobsInv, TogetherInv, OwnedInv, [Next]_vars, app = "deploying", app' = "deploying",
         NEW d \in Deployments, Owner(d)
  PROVE  Owner(d)'
<1>0. /\ job \in [Deployments -> JobState] /\ stalls[d] \in Nat /\ stalls'[d] \in Nat
      /\ stalls'[d] >= stalls[d] /\ MaxStalls \in Nat
      /\ faults.db \in Nat /\ faults'.db \in Nat /\ faults'.db >= faults.db
  BY StallsGrow, FaultsGrow, PipelineAssumption DEF TypeOK, QueueTyped
<1>1. ASSUME job'[d] = job[d]
      PROVE  Owner(d)'
  BY <1>0, <1>1 DEF Owner, Abandoned
<1>2. CASE TakeJob
  <2>1. job'[d] \in {job[d], "active"}
    BY <1>0, <1>2 DEF TakeJob
  <2> QED
    BY <1>1, <2>1 DEF Owner
<1>3. ASSUME NEW e \in Deployments, EnqueueJob(e)
      PROVE  job'[d] = job[d]
  BY <1>0, <1>3 DEF EnqueueJob, JobsInv, Owner, Abandoned
<1>4. ASSUME NEW e \in Deployments, RequeueStalled(e)
      PROVE  Owner(d)'
  <2>1. CASE e = d
    <3>1. stalls'[d] = stalls[d] + 1
      BY <1>4, <2>1, StallsGrow
    <3>2. \/ job'[d] = "waiting"
          \/ job'[d] = "failed" /\ stalls[d] >= MaxStalls
      BY <1>0, <1>4, <2>1 DEF RequeueStalled
    <3> QED
      BY <1>0, <3>1, <3>2 DEF Owner, Abandoned
  <2>2. CASE e # d
    BY <1>0, <1>1, <1>4, <2>2 DEF RequeueStalled
  <2> QED
    BY <2>1, <2>2
<1>5. ASSUME job'[d] # job[d], d = w.dep, job[d] = "active", w'.pc = "idle",
             job'[d] \in {"done", "failed"} \/ (Crash /\ job'[d] = "stalled")
      PROVE  Owner(d)'
  <2>1. CASE Crash
    BY <1>0, <1>5, <2>1 DEF Owner, Crash
  <2>2. CASE ThrowOutsideTry \/ ThrowInCatch
    <3>1. job'[d] = "failed"
      BY <1>0, <1>5, <2>2 DEF ThrowOutsideTry, ThrowInCatch, CloseJob
    <3> QED
      BY <2>2, <3>1, FaultsGrow DEF Owner, Abandoned
  <2>3. ~ Announce
    BY DEF OwnedInv, Announce, At
  <2>4. ~ AppError
    BY DEF AppError, SetApp
  <2>5. CASE Load
    <3>1. ~ Exists(w.dep)
      BY <1>5, <2>5, LoadMoves
    <3>2. w.dep <= created
      BY DEF JobsInv
    <3> QED
      BY <1>5, <3>1, <3>2 DEF TogetherInv
  <2>6. w.pc # "idle"
    BY <1>5 DEF TypeOK, WorkerTyped, Deployments
  <2>7. \/ Closing \/ Load
    <3>1. w'.pc # w.pc
      BY <1>5, <2>6
    <3> QED
      BY <1>5, <3>1, StepKinds, OutsideFrame, TakeMoves, LocalMoves, RemoteMoves, ConnectMoves
      DEF Local, vars
  <2> QED
    BY <2>1, <2>2, <2>3, <2>4, <2>5, <2>7 DEF Closing
<1> QED
  BY <1>1, <1>2, <1>3, <1>4, <1>5, JobSteps

LEMMA StepOwned ==
  TypeOK /\ JobsInv /\ TogetherInv /\ OwnedInv /\ [Next]_vars => OwnedInv'
<1> SUFFICES ASSUME TypeOK, JobsInv, TogetherInv, OwnedInv, [Next]_vars
             PROVE  OwnedInv'
  OBVIOUS
<1>1. ASSUME app' = "deploying"
      PROVE  \E d \in Deployments : Owner(d)'
  <2>1. CASE MarkDeploying
    <3>1. w.dep \in Deployments /\ job[w.dep] = "active" /\ UNCHANGED job
      BY <2>1, JobHasRow DEF MarkDeploying, At, JobsInv, queueVars
    <3> QED
      BY <3>1 DEF Owner
  <2>2. CASE app = "deploying"
    <3>1. \E d \in Deployments : Owner(d)
      BY <2>2 DEF OwnedInv, DeployingIsOwned, Owner
    <3> QED
      BY <1>1, <2>2, <3>1, OwnerStays
  <2>3. ~ AppRunning /\ ~ AppError
    BY <1>1 DEF AppRunning, AppError, SetApp
  <2> QED
    BY <1>1, <2>1, <2>2, <2>3, AppSteps
<1>2. ASSUME w'.pc = "announce"
      PROVE  app' # "deploying"
  <2>1. w.pc = "announce" \/ AppRunning
    BY <1>2, StepKinds, OutsideFrame, ClosingMoves, TakeMoves, LoadMoves, LocalMoves, RemoteMoves,
       ConnectMoves DEF Local, vars
  <2>2. CASE AppRunning
    BY <2>2 DEF AppRunning, SetApp
  <2>3. CASE w.pc = "announce"
    <3>1. ~ MarkDeploying /\ ~ AppError
      BY <2>3 DEF MarkDeploying, AppError, At
    <3> QED
      BY <2>2, <2>3, <3>1, AppSteps DEF OwnedInv
  <2> QED
    BY <2>1, <2>2, <2>3
<1> QED
  BY <1>1, <1>2 DEF OwnedInv, DeployingIsOwned, Owner

-----------------------------------------------------------------------------
(* The pre-deploy gate.                                                    *)

\* The two histories only grow.
LEMMA PreRanGrows ==
  ASSUME [Next]_vars
  PROVE  preRan \subseteq preRan'
<1>1. CASE Outside
  BY <1>1, OutsideFrame
<1>2. CASE Closing \/ Local \/ TakeJob \/ Load \/ Connect \/ UNCHANGED vars
  BY <1>2 DEF Local, MarkRunning, MarkDeploying, Prepare, ConnectionGone, FinishOk, AppRunning,
     ThrowInsideTry, FinishFailed, Connect, Closing, ThrowOutsideTry, Announce, AppError, ThrowInCatch,
     Crash, TakeJob, Load, vars, historyVars
<1>3. CASE RemoteStep
  BY <1>3 DEF RemoteStep, Checkout, Retag, Build, TagImage, PreDeploy, StopOld, RunNew, Route,
     HealthWait, PostDeploy, Trim, historyVars
<1> QED
  BY <1>1, <1>2, <1>3, StepKinds

\* What a request asked for is never rewritten.
LEMMA KindStays ==
  ASSUME TypeOK, [Next]_vars, NEW d \in Deployments, d <= created
  PROVE  kind'[d] = kind[d]
<1>1. ASSUME NEW k, NEW c, NEW g, InsertRow(k, c, g)
      PROVE  kind'[d] = kind[d]
  BY <1>1, PipelineAssumption DEF InsertRow, TypeOK, RowsTyped, Deployments
<1>2. ASSUME \A k, c, g : ~ InsertRow(k, c, g)
      PROVE  UNCHANGED kind
  BY <1>2, StepKinds DEF Outside, Request, RequestDeploy, RequestRollbackToCommit,
     RequestRollbackToImage, DeleteTearDown, DeleteRows, EnqueueJob, LoseJob, RequeueStalled, Closing,
     ThrowOutsideTry, Announce, AppError, ThrowInCatch, Crash, Local, MarkRunning, MarkDeploying,
     Prepare, ConnectionGone, FinishOk, AppRunning, ThrowInsideTry, FinishFailed, RemoteStep, Checkout,
     Retag, Build, TagImage, PreDeploy, StopOld, RunNew, Route, HealthWait, PostDeploy, Trim, TakeJob,
     Load, Connect, vars, rowVars
<1> QED
  BY <1>1, <1>2

LEMMA StepPreDeploy ==
  TypeOK /\ JobsInv /\ GateInv /\ CalmInv /\ PreDeployGate /\ [Next]_vars => PreDeployGate'
<1> SUFFICES ASSUME TypeOK, JobsInv, GateInv, CalmInv, PreDeployGate, [Next]_vars, faults'.crash = 0,
                    NEW d \in Deployments, container'.dep = d, kind'[d] = "deploy", HasPreDeploy
             PROVE  d \in preRan'
  BY DEF PreDeployGate, PreDeployRan
<1>1. faults.crash = 0
  BY FaultsGrow
<1>2. container'.dep = container.dep \/ container'.dep = 0 \/ (RunNew /\ container'.dep = w.dep)
  <2>1. StopOld \/ Route \/ DeleteTearDown => container'.dep \in {container.dep, 0}
    BY DEF StopOld, Route, DeleteTearDown, Started, Stopped, NoContainer, TypeOK, ServerTyped
  <2>2. RunNew => container'.dep \in {container.dep, w.dep}
    BY DEF RunNew, NewContainer
  <2> QED
    BY <2>1, <2>2, ContainerSteps
<1>3. CASE container.dep = d
  <2>1. kind[d] = "deploy"
    BY <1>3, KindStays DEF JobsInv
  <2> QED
    BY <1>1, <1>3, <2>1, PreRanGrows DEF PreDeployGate, PreDeployRan
<1>4. CASE RunNew /\ d = w.dep
  <2>1. w.pc = "runNew" /\ w.alive
    BY <1>4 DEF RunNew, OverConnection, At
  <2>2. kind[d] = "deploy"
    BY <1>4, KindStays DEF JobsInv
  <2>3. ~ IsRollback
    BY <1>1, <1>4, <2>1, <2>2 DEF CalmInv
  <2> QED
    BY <1>4, <2>1, <2>3, PreRanGrows DEF GateInv
<1> QED
  BY <1>2, <1>3, <1>4 DEF Deployments

-----------------------------------------------------------------------------
(* The images that can be gone back to.                                    *)

Later(S, d) == {e \in S : e > d}

\* The successful deployments, the one whose success is about to be written included.
Ok == {d \in Deployments : status[d] = "success" \/ (At("finishOk") /\ d = w.dep)}

NewestKept ==
    \A d \in Ok : Exists(d) /\ Cardinality(Later(Ok, d)) < Keep => retained[d] # None

\* The job has tagged the image of its version and not trimmed yet.
Tagged ==
    \/ w.pc \in {"health", "postDeploy", "trim"}
    \/ w.pc \in {"preDeploy", "stopOld", "runNew", "route"} /\ w.alive
OwnKept == Tagged /\ Keep > 0 /\ Exists(w.dep) => retained[w.dep] # None

KeptInv == faults.crash = 0 /\ faults.db = 0 => OwnKept /\ NewestKept

LEMMA LaterGrows ==
  ASSUME NEW S \in SUBSET Deployments, NEW T \in SUBSET Deployments, S \subseteq T,
         NEW d \in Deployments
  PROVE  /\ Cardinality(Later(S, d)) \in Nat /\ Cardinality(Later(T, d)) \in Nat
         /\ Cardinality(Later(S, d)) <= Cardinality(Later(T, d))
<1>1. IsFiniteSet(Deployments)
  BY FS_Interval, PipelineAssumption DEF Deployments
<1>2. Later(S, d) \subseteq Later(T, d) /\ Later(T, d) \subseteq Deployments
  BY DEF Later
<1>3. IsFiniteSet(Later(T, d)) /\ IsFiniteSet(Later(S, d))
  BY <1>1, <1>2, FS_Subset
<1> QED
  BY <1>2, <1>3, FS_Subset, FS_CardinalityType

LEMMA KeptStays ==
  ASSUME NewestKept, Ok \subseteq Ok',
         \A d \in Ok' : Exists(d)' => d \in Ok /\ Exists(d) /\ retained'[d] = retained[d]
  PROVE  NewestKept'
<1> SUFFICES ASSUME NEW d \in Ok', Exists(d)', Cardinality(Later(Ok', d)) < Keep
             PROVE  retained'[d] # None
  BY DEF NewestKept, Later
<1>1. d \in Ok /\ Exists(d) /\ retained'[d] = retained[d] /\ d \in Deployments
  BY DEF Ok
<1>2. Ok \in SUBSET Deployments /\ Ok' \in SUBSET Deployments
  BY DEF Ok
<1>3. Cardinality(Later(Ok, d)) <= Cardinality(Later(Ok', d))
      /\ Cardinality(Later(Ok, d)) \in Nat /\ Cardinality(Later(Ok', d)) \in Nat
  BY <1>1, <1>2, LaterGrows
<1>4. Cardinality(Later(Ok, d)) < Keep
  BY <1>3, PipelineAssumption
<1> QED
  BY <1>1, <1>4 DEF NewestKept

\* With retained images on, an image is tagged before anything else is done with it, and a deploy
\* trims before it counts as a success.
LEMMA TagAndTrim ==
  ASSUME TypeOK, Keep > 0
  PROVE  /\ Retag \/ Build => w'.pc \in {"tag", "finishFailed"}
         /\ Route \/ HealthWait \/ PostDeploy => w'.pc # "finishOk"
<1>1. Retag \/ Build => w'.pc \in {AfterImage, "finishFailed"}
  BY CompletedPc, DroppedPc, FailedPc DEF Retag, Build
<1>2. AfterImage = "tag"
  BY DEF AfterImage
<1>3. AfterHealth # "finishOk" /\ AfterRoute # "finishOk" /\ AfterPost # "finishOk"
  BY DEF AfterRoute, AfterHealth, AfterPost
<1> QED
  BY <1>1, <1>2, <1>3, RemoteFrom

LEMMA RetainedSteps ==
  ASSUME [Next]_vars
  PROVE  TagImage \/ Trim \/ UNCHANGED retained
  BY StepKinds, OutsideFrame DEF Closing, ThrowOutsideTry, Announce, AppError, ThrowInCatch, Crash, Local,
     MarkRunning, MarkDeploying, Prepare, ConnectionGone, FinishOk, AppRunning, ThrowInsideTry,
     FinishFailed, RemoteStep, Checkout, Retag, Build, PreDeploy, StopOld, RunNew, Route, HealthWait,
     PostDeploy, TakeJob, Load, Connect, serverVars, vars

LEMMA StepOwnKept ==
  ASSUME TypeOK, JobsInv, LocalsInv, OwnKept, [Next]_vars
  PROVE  OwnKept'
<1> SUFFICES ASSUME Tagged', Keep > 0, status'[w'.dep] # "none"
             PROVE  retained'[w'.dep] # None
  BY DEF OwnKept, Exists
<1>1. CASE w' = w
  <2>1. w.dep \in Deployments /\ w.dep <= created
    BY <1>1, JobHasRow DEF Tagged
  <2>2. Exists(w.dep)
    BY <1>1, <2>1, NoRebirth DEF Exists
  <2>3. UNCHANGED retained
    BY <1>1, RetainedSteps, RemoteFrom DEF Tagged
  <2> QED
    BY <1>1, <2>2, <2>3 DEF OwnKept, Tagged
<1>2. CASE RemoteStep
  <2>1. w'.dep = w.dep /\ w.dep \in Deployments /\ (w'.alive => w.alive) /\ Exists(w.dep)
        /\ (Trim \/ w.alive)
    BY <1>2, RemoteMoves, StatusKept, JobHasRow DEF Exists, OverSsh
  <2>2. CASE TagImage
    <3>1. w.pc = "tag" /\ w.alive /\ w'.alive
      BY <2>2, RemoteFrom DEF TagImage, OverConnection, Tagged
    <3>2. retained' = [retained EXCEPT ![w.dep] = latest]
      BY <2>2, <3>1, DroppedPc, FailedPc, RemoteFrom DEF TagImage, Tagged
    <3>3. latest # None
      BY <2>1, <3>1 DEF LocalsInv, At, ImagePcs
    <3> QED
      BY <2>1, <3>2, <3>3 DEF TypeOK, ServerTyped
  <2>3. CASE ~ TagImage
    <3>1. ~ Trim /\ ~ Retag /\ ~ Build /\ ~ Checkout
      BY RemoteFrom, TagAndTrim DEF Tagged
    <3>2. Tagged
      BY <1>2, <2>1, <2>3, <3>1, RemoteFrom DEF RemoteStep, Tagged
    <3> QED
      BY <2>1, <2>3, <3>1, <3>2, RetainedSteps DEF OwnKept
  <2> QED
    BY <2>2, <2>3
<1>3. CASE Closing \/ Local \/ TakeJob \/ Load \/ Connect
  BY <1>3, ClosingMoves, LocalMoves, TakeMoves, LoadMoves, ConnectMoves DEF Tagged, Local
<1> QED
  BY <1>1, <1>2, <1>3, StepKinds, OutsideFrame DEF vars

\* A step that leaves the rows and the retained images alone and ends no deployment.
LEMMA OkSame ==
  ASSUME NewestKept, UNCHANGED <<status, retained>>, w.pc # "finishOk", w'.pc # "finishOk"
  PROVE  NewestKept'
<1>1. Ok = Ok'
  BY DEF Ok, At
<1> QED
  BY <1>1, KeptStays DEF Exists, Ok

LEMMA TrimKeeps ==
  ASSUME TypeOK, JobsInv, TogetherInv, OwnKept, NewestKept, Trim
  PROVE  NewestKept'
<1> SUFFICES ASSUME NEW d \in Ok', Exists(d)', Cardinality(Later(Ok', d)) < Keep
             PROVE  retained'[d] # None
  BY DEF NewestKept, Later
<1>0. /\ w.pc = "trim" /\ w'.pc = "finishOk" /\ w'.dep = w.dep /\ status' = status
      /\ w.dep \in Deployments /\ w.dep <= created /\ d \in Deployments
  BY JobHasRow, RemoteFrom, RemoteMoves, StatusKept DEF RemoteStep, Trim, At, Ok, rowVars
<1>1. Exists(d) /\ Exists(w.dep)
  BY <1>0 DEF Exists, TogetherInv
<1>2. Ok' = Succeeded
  BY <1>0, <1>1 DEF Ok, Succeeded, At
<1>3. Ok \subseteq Ok' /\ (d # w.dep => d \in Ok)
  BY <1>0 DEF Ok, At
<1>4. Ok \in SUBSET Deployments /\ Ok' \in SUBSET Deployments
  BY DEF Ok
<1>5. Cardinality(Later(Ok, d)) <= Cardinality(Later(Ok', d))
      /\ Cardinality(Later(Ok, d)) \in Nat /\ Cardinality(Later(Ok', d)) \in Nat
  BY <1>0, <1>3, <1>4, LaterGrows
<1>6. Keep > 0 /\ Cardinality(Later(Ok, d)) < Keep
  BY <1>5, PipelineAssumption
<1>7. retained[d] # None
  <2>1. CASE d = w.dep
    BY <1>0, <1>1, <1>6, <2>1 DEF OwnKept, Tagged
  <2>2. CASE d # w.dep
    BY <1>1, <1>3, <1>6, <2>2 DEF NewestKept
  <2> QED
    BY <2>1, <2>2
<1>8. d \in Retain
  <2>1. {e \in Succeeded : e > d} = Later(Ok', d)
    BY <1>2 DEF Later
  <2> QED
    BY <1>2, <2>1 DEF Retain
<1> QED
  BY <1>0, <1>7, <1>8 DEF Trim

LEMMA StepKept ==
  TypeOK /\ JobsInv /\ LocalsInv /\ TogetherInv /\ CalmInv /\ MarkedInv /\ KeptInv /\ [Next]_vars
    => KeptInv'
<1> SUFFICES ASSUME TypeOK, JobsInv, LocalsInv, TogetherInv, CalmInv, MarkedInv, KeptInv, [Next]_vars,
                    faults'.crash = 0, faults'.db = 0
             PROVE  OwnKept' /\ NewestKept'
  BY DEF KeptInv
<1>0. /\ faults.crash = 0 /\ faults.db = 0 /\ OwnKept /\ NewestKept
      /\ ~ Crash /\ ~ ThrowInsideTry /\ ~ ThrowOutsideTry /\ ~ ThrowInCatch
  BY FaultsGrow DEF KeptInv
<1> SUFFICES NewestKept'
  BY <1>0, StepOwnKept
<1>2. CASE w' = w
  <2>1. UNCHANGED retained
    <3>1. ~ Trim /\ ~ TagImage
      BY <1>2, RemoteFrom
    <3> QED
      BY <3>1, RetainedSteps
  <2>2. w.pc = "finishOk" => w.dep \in Deployments /\ w.dep <= created
    BY JobHasRow
  <2>3. ASSUME NEW k, NEW c, NEW g, InsertRow(k, c, g)
        PROVE  NewestKept'
    <3>1. /\ created + 1 \in Deployments /\ created \in Nat /\ status[created + 1] = "none"
          /\ status' = [status EXCEPT ![created + 1] = "queued"]
      BY <2>3, PipelineAssumption DEF InsertRow, JobsInv, Fresh, Deployments, TypeOK, RowsTyped
    <3>2. /\ \A d \in Deployments : d # created + 1 => status'[d] = status[d]
          /\ status'[created + 1] = "queued"
      BY <3>1 DEF TypeOK, RowsTyped
    <3>3. w.pc = "finishOk" => w.dep # created + 1
      BY <2>2, <3>1
    <3>4. Ok' = Ok /\ created + 1 \notin Ok
      BY <1>2, <3>1, <3>2, <3>3 DEF Ok, At
    <3>5. \A d \in Ok' : d \in Deployments /\ d # created + 1
      BY <3>4 DEF Ok
    <3> QED
      BY <1>0, <2>1, <3>2, <3>4, <3>5, KeptStays DEF Exists
  <2>4. CASE DeleteRows
    BY <2>4 DEF DeleteRows, NewestKept, Exists, Ok
  <2>5. ASSUME \A k, c, g : ~ InsertRow(k, c, g), ~ DeleteRows
        PROVE  NewestKept'
    <3>1. UNCHANGED status
      <4>1. ~ MarkRunning /\ ~ FinishOk /\ ~ FinishFailed
        BY <1>2, LocalMoves DEF Local
      <4> QED
        BY <2>5, <4>1, StatusSteps DEF Request, RequestDeploy, RequestRollbackToCommit,
           RequestRollbackToImage
    <3>2. Ok = Ok'
      BY <1>2, <3>1 DEF Ok, At
    <3> QED
      BY <1>0, <2>1, <3>1, <3>2, KeptStays DEF Exists, Ok
  <2> QED
    BY <2>3, <2>4, <2>5
<1>3. CASE FinishOk
  <2>1. /\ w.pc = "finishOk" /\ w'.pc = "appRunning" /\ UNCHANGED retained
        /\ w.dep \in Deployments /\ w.dep <= created
    BY <1>3, JobHasRow, LocalMoves DEF FinishOk, At, Local, serverVars
  <2>2. CASE Exists(w.dep)
    <3>1. \A d \in Deployments : status'[d] = IF d = w.dep THEN "success" ELSE status[d]
      BY <1>3, <2>1, <2>2 DEF FinishOk, SetStatus, TypeOK, RowsTyped
    <3>2. Ok = Ok'
      BY <2>1, <3>1 DEF Ok, At
    <3>3. \A d \in Deployments : Exists(d)' => Exists(d)
      BY <2>2, <3>1 DEF Exists
    <3> QED
      BY <1>0, <2>1, <3>2, <3>3, KeptStays DEF Ok
  <2>3. CASE ~ Exists(w.dep)
    <3>1. \A d \in Deployments : d <= created => ~ Exists(d)
      BY <2>1, <2>3 DEF TogetherInv
    <3>2. status' = status
      BY <1>3, <2>3 DEF FinishOk, SetStatus
    <3>3. \A d \in Deployments : ~ Exists(d)'
      BY <3>1, <3>2, PipelineAssumption DEF Exists, JobsInv, Fresh, TypeOK, RowsTyped, Deployments
    <3> QED
      BY <3>3 DEF NewestKept, Ok
  <2> QED
    BY <2>2, <2>3
<1>4. CASE MarkRunning \/ FinishFailed
  <2>1. /\ w.pc \in {"markRunning", "finishFailed"} /\ w'.pc \in {"markDeploying", "appError"}
        /\ UNCHANGED retained /\ w.dep \in Deployments
    BY <1>4, JobHasRow, LocalMoves DEF MarkRunning, FinishFailed, At, Local, serverVars
  <2>2. status[w.dep] # "success"
    BY <1>0, <2>1 DEF CalmInv, MarkedInv, Working
  <2>3. PICK s \in {"running", "failed"} : SetStatus(w.dep, s)
    BY <1>4 DEF MarkRunning, FinishFailed
  <2>4. /\ \A d \in Deployments : d # w.dep => status'[d] = status[d]
        /\ status'[w.dep] # "success"
    BY <2>1, <2>2, <2>3 DEF SetStatus, TypeOK, RowsTyped
  <2>5. Ok = Ok' /\ w.dep \notin Ok
    BY <2>1, <2>2, <2>4 DEF Ok, At
  <2>6. \A d \in Ok' : d \in Deployments /\ d # w.dep
    BY <2>5 DEF Ok
  <2> QED
    BY <1>0, <2>1, <2>4, <2>5, <2>6, KeptStays DEF Exists
<1>5. CASE Trim
  BY <1>0, <1>5, TrimKeeps
<1>6. CASE TagImage
  <2>1. w.pc = "tag" /\ w'.pc # "finishOk" /\ w.dep \in Deployments /\ UNCHANGED status
    BY <1>6, RemoteFrom, JobHasRow, StatusKept DEF RemoteStep
  <2>2. status[w.dep] # "success"
    BY <1>0, <2>1 DEF MarkedInv, Working, OverSsh
  <2>3. Ok = Ok' /\ \A d \in Ok' : d \in Deployments /\ d # w.dep
    BY <2>1, <2>2 DEF Ok, At
  <2>4. \A d \in Deployments : d # w.dep => retained'[d] = retained[d]
    BY <1>6 DEF TagImage, TypeOK, ServerTyped
  <2> QED
    BY <1>0, <2>1, <2>3, <2>4, KeptStays DEF Exists
<1>7. CASE RemoteStep /\ ~ Trim /\ ~ TagImage
  <2>1. UNCHANGED <<status, retained>> /\ w.pc # "finishOk"
    BY <1>7, RemoteMoves, StatusKept, RetainedSteps DEF OverSsh
  <2>2. CASE w'.pc # "finishOk"
    BY <1>0, <2>1, <2>2, OkSame
  <2>3. CASE w'.pc = "finishOk"
    <3>1. ~ (Keep > 0)
      BY <1>7, <2>3, TagAndTrim, RemoteFrom DEF RemoteStep
    <3>2. Ok' \in SUBSET Deployments
      BY DEF Ok
    <3>3. \A d \in Deployments : Cardinality(Later(Ok', d)) \in Nat
      BY <3>2, LaterGrows
    <3>4. \A d \in Deployments : ~ (Cardinality(Later(Ok', d)) < Keep)
      BY <3>1, <3>3, PipelineAssumption
    <3> QED
      BY <3>2, <3>4 DEF NewestKept, Later
  <2> QED
    BY <2>2, <2>3
<1>8. CASE Announce \/ AppError \/ TakeJob \/ Load \/ Connect \/ MarkDeploying \/ Prepare
            \/ ConnectionGone \/ AppRunning
  <2>1. UNCHANGED <<status, retained>>
    BY <1>8 DEF Announce, AppError, TakeJob, Load, Connect, MarkDeploying, Prepare, ConnectionGone,
       AppRunning, rowVars, serverVars
  <2>2. w.pc # "finishOk"
    BY <1>8 DEF Announce, AppError, TakeJob, Load, Connect, MarkDeploying, Prepare, ConnectionGone,
       AppRunning, At, OverSsh
  <2>3. w'.pc # "finishOk"
    BY <1>8, ClosingMoves, TakeMoves, LoadMoves, ConnectMoves, LocalMoves DEF Closing, Local
  <2> QED
    BY <1>0, <2>1, <2>2, <2>3, OkSame
<1> QED
  BY <1>0, <1>2, <1>3, <1>4, <1>5, <1>6, <1>7, <1>8, StepKinds, OutsideFrame
  DEF Closing, Local, vars

-----------------------------------------------------------------------------
(* The invariant, and what follows from it.                                *)

DeployInv == TypeOK /\ JobsInv /\ ProvInv /\ GateInv
StatusInv ==
    /\ QueueInv /\ TogetherInv /\ CalmInv /\ MarkedInv /\ HealthInv
    /\ ServeInv /\ OwnedInv /\ PreDeployGate /\ KeptInv

LEMMA InitStatus == Init => StatusInv
<1> SUFFICES ASSUME Init PROVE StatusInv
  OBVIOUS
<1>1. /\ w.pc = "idle" /\ container.dep = 0 /\ app = "idle" /\ created = 0 /\ queue = <<>>
      /\ \A d \in Deployments : status[d] = "none" /\ job[d] = "none" /\ stalls[d] = 0
                                /\ commit[d] = None /\ fromImage[d] = 0
  BY DEF Init, IdleWorker, NoContainer
<1>2. QueueInv /\ TogetherInv
  BY <1>1, PipelineAssumption DEF QueueInv, TogetherInv, Exists, Deployments
<1>3. CalmInv /\ MarkedInv /\ HealthInv
  BY <1>1 DEF CalmInv, Untouched, MarkedInv, Working, OverSsh, HealthInv
<1>4. ServeInv /\ OwnedInv
  BY <1>1 DEF ServeInv, Replacing, Behind, OverSsh, AppRunningIsServing, OwnedInv, DeployingIsOwned
<1>5. PreDeployGate /\ KeptInv
  BY <1>1 DEF PreDeployGate, PreDeployRan, KeptInv, OwnKept, Tagged, NewestKept, Ok, At, Exists, Deployments
<1> QED
  BY <1>2, <1>3, <1>4, <1>5 DEF StatusInv

LEMMA StepStatus == DeployInv /\ StatusInv /\ [Next]_vars => StatusInv'
  BY StepQueue, StepTogether, StepCalm, StepMarked, StepHealth, StepServe, StepOwned, StepPreDeploy,
     StepKept DEF DeployInv, ProvInv, StatusInv

LEMMA StatusInvariant == Spec => [](DeployInv /\ StatusInv)
<1>1. Init => StatusInv
  BY InitStatus
<1>2. DeployInv /\ StatusInv /\ [Next]_vars => StatusInv'
  BY StepStatus
<1>3. Spec => []DeployInv
  BY DeployInvariant DEF DeployInv
<1> QED
  BY <1>1, <1>2, <1>3, PTL DEF Spec

\* As long as no worker died, no version of a plain deploy serves without its pre-deploy command
\* having completed (deployApplication.ts runs it before the switch, and skips it for rollbacks).
THEOREM PreDeployAlwaysGates == Spec => []PreDeployGate
<1>1. StatusInv => PreDeployGate
  BY DEF StatusInv
<1> QED
  BY <1>1, StatusInvariant, PTL

\* As long as no connection was lost, a success of an application with a health path means that
\* the container reported healthy.
THEOREM HealthAlwaysGates == Spec => []HealthGate
<1>1. StatusInv => HealthGate
  BY DEF StatusInv, HealthInv, HealthGate, SuccessMeansHealthy
<1> QED
  BY <1>1, StatusInvariant, PTL

\* The lifecycle route refuses every action while an application is "deploying": that status always
\* belongs to a deploy job that still has to end, or that a failed query or the death of the worker cut off.
THEOREM DeployingAlwaysOwned == Spec => []DeployingIsOwned
<1>1. StatusInv => DeployingIsOwned
  BY DEF StatusInv, OwnedInv
<1> QED
  BY <1>1, StatusInvariant, PTL

\* An application that is "running" in the panel has a container up, at every step of every deploy
\* and through crashes, until it is torn down.
THEOREM RunningAlwaysServes == Spec => []AppRunningIsServing
<1>1. StatusInv => AppRunningIsServing
  BY DEF StatusInv, ServeInv
<1> QED
  BY <1>1, StatusInvariant, PTL

\* The newest rollback_images successful deployments keep their images, for every number of them.
THEOREM ImagesAlwaysKept == Spec => []RollbackImageKept
<1>1. StatusInv => RollbackImageKept
  <2> SUFFICES ASSUME StatusInv, faults.crash = 0, faults.db = 0, NEW d \in Deployments,
                      status[d] = "success", Cardinality({e \in Ok : e > d}) < Keep
               PROVE  retained[d] # None
    BY DEF RollbackImageKept, Ok
  <2>1. d \in Ok /\ Exists(d)
    BY DEF Ok, Exists
  <2> QED
    BY <2>1 DEF StatusInv, KeptInv, NewestKept, Later
<1> QED
  BY <1>1, StatusInvariant, PTL

-----------------------------------------------------------------------------
(* The rows implement the log of deployments.                              *)

LEMMA LogDefs == Log!Rows = Deployments
  BY DEF Log!Rows, Deployments

LEMMA LogFrame ==
  ASSUME UNCHANGED <<created, status>>, app' = "deleted" <=> app = "deleted",
         (faults.crash > 0)' <=> faults.crash > 0
  PROVE  UNCHANGED Log!logVars
  BY DEF Log!logVars

\* What the worker writes into the row of its job is a start, an end or, behind a crash, a new
\* start of it.
LEMMA StartIsLogged ==
  ASSUME DeployInv, StatusInv, [Next]_vars, faults.db = 0, MarkRunning
  PROVE  Log!LogNext \/ UNCHANGED status
<1>0. /\ w.pc = "markRunning" /\ w.dep \in Deployments /\ SetStatus(w.dep, "running")
      /\ UNCHANGED <<app, created, faults>> /\ faults.crash \in Nat
      /\ status \in [Deployments -> RowStatus]
  BY JobHasRow, FaultsGrow DEF DeployInv, MarkRunning, At, TypeOK, RowsTyped
<1>1. CASE ~ Exists(w.dep)
  BY <1>0, <1>1 DEF SetStatus
<1>2. CASE status[w.dep] = "running"
  <2>1. status' = status
    BY <1>0, <1>2 DEF SetStatus
  <2> QED
    BY <2>1
<1>3. ASSUME status[w.dep] \in {"success", "failed"}
      PROVE  Log!Again(w.dep)
  <2>1. faults.crash > 0
    BY <1>0, <1>3 DEF StatusInv, CalmInv
  <2>2. status' = [status EXCEPT ![w.dep] = "running"]
    BY <1>0, <1>3 DEF SetStatus, Exists
  <2> QED
    BY <1>0, <1>3, <2>1, <2>2 DEF Log!Again
<1>4. ASSUME status[w.dep] = "queued"
      PROVE  Log!Start(w.dep)
  <2>1. status' = [status EXCEPT ![w.dep] = "running"]
    BY <1>0, <1>4 DEF SetStatus, Exists
  <2>2. ASSUME faults.crash = 0, NEW e \in Deployments, status[e] = "running"
        PROVE  FALSE
    <3>1. job[e] \in {"active", "stalled", "waiting"} \/ Abandoned(e)
      BY <2>2 DEF DeployInv, JobsInv, RunningIsOwned
    <3>2. job[e] # "stalled" /\ stalls[e] = 0 /\ job[e] # "waiting"
      BY <2>2 DEF StatusInv, CalmInv, Untouched
    <3>3. ~ Abandoned(e)
      BY <1>4, <3>2, PipelineAssumption DEF Abandoned
    <3>4. e = w.dep
      BY <3>1, <3>2, <3>3 DEF DeployInv, JobsInv
    <3> QED
      BY <1>4, <2>2, <3>4
  <2>3. faults.crash > 0 \/ \A e \in Log!Rows : status[e] # "running"
    BY <1>0, <2>2, LogDefs
  <2> QED
    BY <1>0, <1>4, <2>1, <2>3 DEF Log!Start
<1> QED
  BY <1>0, <1>1, <1>2, <1>3, <1>4, LogDefs DEF Log!LogNext, Exists, RowStatus

LEMMA EndIsLogged ==
  ASSUME DeployInv, StatusInv, [Next]_vars, faults.db = 0, FinishOk \/ FinishFailed
  PROVE  Log!LogNext \/ UNCHANGED status
<1>0. /\ w.pc \in {"finishOk", "finishFailed"} /\ w.dep \in Deployments
      /\ SetStatus(w.dep, "success") \/ SetStatus(w.dep, "failed")
      /\ UNCHANGED <<app, created, faults>>
  BY JobHasRow DEF DeployInv, FinishOk, FinishFailed, At
<1>1. status[w.dep] \in {"none", "running"}
  BY <1>0 DEF StatusInv, MarkedInv, Working
<1>2. CASE status[w.dep] = "none"
  BY <1>0, <1>2 DEF SetStatus, Exists
<1>3. CASE status[w.dep] = "running"
  <2>1. \E outcome \in {"success", "failed"} : status' = [status EXCEPT ![w.dep] = outcome]
    BY <1>0, <1>3 DEF SetStatus, Exists
  <2>2. Log!Finish(w.dep)
    BY <1>0, <1>3, <2>1 DEF Log!Finish
  <2> QED
    BY <1>0, <2>2, LogDefs DEF Log!LogNext
<1> QED
  BY <1>1, <1>2, <1>3

LEMMA LogStep ==
  ASSUME DeployInv, StatusInv, [Next]_vars, faults.db = 0
  PROVE  [Log!LogNext]_(Log!logVars)
<1>1. ASSUME NEW k, NEW c, NEW g, InsertRow(k, c, g)
      PROVE  Log!LogNext
  <2>1. Log!Create
    BY <1>1 DEF InsertRow, Log!Create
  <2> QED
    BY <2>1 DEF Log!LogNext
<1>2. CASE DeleteRows
  <2>1. CASE app # "deleted"
    <3>1. Log!Remove
      BY <1>2, <2>1 DEF DeleteRows, Log!Remove, Log!Rows, Deployments
    <3> QED
      BY <3>1 DEF Log!LogNext
  <2>2. CASE app = "deleted"
    <3>1. status' = status
      BY <1>2, <2>2 DEF DeleteRows, StatusInv, TogetherInv, DeployInv, TypeOK, RowsTyped, Exists
    <3> QED
      BY <1>2, <2>2, <3>1, LogFrame DEF DeleteRows
  <2> QED
    BY <2>1, <2>2
<1>3. CASE Crash
  <2>1. /\ faults.crash \in Nat /\ faults'.crash > 0 /\ UNCHANGED <<app, created, status>>
    BY <1>3, FaultsGrow DEF DeployInv, Crash, rowVars
  <2>2. Log!WorkerDied
    BY <2>1 DEF Log!WorkerDied
  <2> QED
    BY <2>2 DEF Log!LogNext
<1>4. CASE MarkRunning \/ FinishOk \/ FinishFailed
  <2>1. UNCHANGED <<app, created, faults>>
    BY <1>4 DEF MarkRunning, FinishOk, FinishFailed
  <2> QED
    BY <1>4, <2>1, StartIsLogged, EndIsLogged, LogFrame
<1>5. ASSUME \A k, c, g : ~ InsertRow(k, c, g), ~ DeleteRows, ~ Crash,
             ~ MarkRunning, ~ FinishOk, ~ FinishFailed
      PROVE  UNCHANGED Log!logVars
  <2>1. UNCHANGED <<created, status>> /\ (app' = "deleted" <=> app = "deleted")
    BY <1>5, StepKinds DEF Outside, Request, RequestDeploy, RequestRollbackToCommit,
       RequestRollbackToImage, DeleteTearDown, EnqueueJob, LoseJob, RequeueStalled, Closing,
       ThrowOutsideTry, Announce, AppError, ThrowInCatch, Local, MarkDeploying, Prepare,
       ConnectionGone, AppRunning, ThrowInsideTry, RemoteStep, Checkout, Retag, Build, TagImage,
       PreDeploy, StopOld, RunNew, Route, HealthWait, PostDeploy, Trim, TakeJob, Load, Connect,
       SetApp, vars, rowVars
  <2>2. faults'.crash = faults.crash
    BY <1>5, CrashCounted DEF DeployInv
  <2> QED
    BY <2>1, <2>2, LogFrame
<1> QED
  BY <1>1, <1>2, <1>3, <1>4, <1>5

\* The deployments table implements the log its readers rely on, whatever crashes, lost connections and
\* redeliveries do: every step, until a query of the worker has thrown, is a step of the log.
THEOREM LogImplemented ==
  Spec => Log!LogInit /\ [][Log!LogNext \/ faults.db > 0]_(Log!logVars)
<1>1. Init => Log!LogInit
  BY DEF Init, Log!LogInit, Log!Rows, Deployments
<1>2. DeployInv /\ StatusInv /\ [Next]_vars => [Log!LogNext \/ faults.db > 0]_(Log!logVars)
  <2> SUFFICES ASSUME DeployInv, StatusInv, [Next]_vars
               PROVE  [Log!LogNext \/ faults.db > 0]_(Log!logVars)
    OBVIOUS
  <2>1. faults.db = 0 \/ faults.db > 0
    BY FaultsGrow DEF DeployInv
  <2> QED
    BY <2>1, LogStep
<1> QED
  BY <1>1, <1>2, StatusInvariant, PTL DEF Spec

\* So where queries do not fail, which is what the run of this refinement assumes, every step is one.
THEOREM LogRefinedWithoutThrows ==
  ASSUME MaxDbFaults = 0
  PROVE  Spec => Log!LogInit /\ [][Log!LogNext]_(Log!logVars)
<1>1. Init => Log!LogInit
  BY DEF Init, Log!LogInit, Log!Rows, Deployments
<1>2. DeployInv /\ StatusInv /\ [Next]_vars => [Log!LogNext]_(Log!logVars)
  <2> SUFFICES ASSUME DeployInv, StatusInv, [Next]_vars
               PROVE  [Log!LogNext]_(Log!logVars)
    OBVIOUS
  <2>1. faults.db = 0
    BY DEF DeployInv, TypeOK, HistoryTyped
  <2> QED
    BY <2>1, LogStep
<1> QED
  BY <1>1, <1>2, StatusInvariant, PTL DEF Spec
=============================================================================
