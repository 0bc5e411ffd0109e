--------------------------- MODULE DeployPipeline ---------------------------
(***************************************************************************)
(* The deployment pipeline of one application: the API handlers that       *)
(* insert a deployments row and queue a job, the worker's deploy processor *)
(* (apps/worker/src/jobs/deployApplication.ts), the BullMQ queue between   *)
(* them and the part of the managed server the job changes (the image, the *)
(* retained rollback images and the container).                            *)
(*                                                                         *)
(* The worker takes one deploy job at a time; every await of the processor *)
(* that another process can run in between is a step of its own.  Remote   *)
(* commands can fail, the SSH connection can be lost in the middle of one  *)
(* (the missing exit code then reads as 0), the worker can die and BullMQ  *)
(* redeliver the job, the database can refuse a query and the API can die  *)
(* between the insert and the queue.                                       *)
(***************************************************************************)
EXTENDS Naturals, Sequences, FiniteSets

CONSTANTS
    MaxDeployments,  \* bound: deployments rows ever created, in createdAt order
    Commits,         \* heads the branch may have when it is fetched
    None,            \* a null column
    HasPreDeploy,    \* applications.pre_deploy_command is set
    HasHealth,       \* applications.health_path is set
    HasPostDeploy,   \* applications.post_deploy_command is set
    Keep,            \* applications.rollback_images (0 = off)
    MaxStalls,       \* BullMQ's maxStalledCount
    MaxCrashes,      \* bound: worker crashes in the middle of a job
    MaxDrops,        \* bound: SSH connections lost during a command
    MaxDbFaults,     \* bound: queries that throw in the deploy processor
    MaxLostAdds      \* bound: API crashes between the insert and the queue

ASSUME PipelineAssumption ==
    /\ MaxDeployments \in Nat /\ Keep \in Nat /\ MaxStalls \in Nat
    /\ MaxCrashes \in Nat /\ MaxDrops \in Nat
    /\ MaxDbFaults \in Nat /\ MaxLostAdds \in Nat
    /\ HasPreDeploy \in BOOLEAN /\ HasHealth \in BOOLEAN
    /\ HasPostDeploy \in BOOLEAN
    /\ None \notin Commits

VARIABLES
    app,        \* applications.status, or "deleted"
    deployed,   \* applications.deployed_config is not null
    status,     \* deployments.status, or "none" when there is no row
    commit,     \* deployments.commit_sha
    fromImage,  \* deployments.rollback_image: the deployment it names, or 0
    kind,       \* what the request that created the row asked for (history)
    created,    \* how many rows were ever inserted
    adding,     \* rows inserted by a request that has not queued its job yet
    queue,      \* the wait list of the application-deploy queue
    job,        \* BullMQ's state of the job of each deployment
    stalls,     \* BullMQ's stalled counter of each job
    w,          \* the deploy processor: pc and local variables
    tree,       \* commit checked out in the application's repo directory
    latest,     \* commit in the image the container is run from
    retained,   \* commit in the image tagged dep-<deployment>, or None
    container,  \* the container yeah-app-<id> on the server
    del,        \* the DELETE handler: "idle", "rows" or "done"
    tornDown,   \* its teardown reached the server (history)
    preRan,     \* deployments whose pre-deploy command completed (history)
    sawHealthy, \* deployments whose health wait saw "healthy" (history)
    faults      \* faults injected so far

rowVars     == <<app, deployed, status, commit, fromImage, kind, created>>
queueVars   == <<adding, queue, job, stalls>>
serverVars  == <<tree, latest, retained, container>>
deleteVars  == <<del, tornDown>>
historyVars == <<preRan, sawHealthy>>
vars == <<rowVars, queueVars, w, serverVars, deleteVars, historyVars, faults>>

Deployments == 1..MaxDeployments
MaybeCommit == Commits \cup {None}

AppStatus    == {"idle", "deploying", "running", "stopped", "error", "deleted"}
RowStatus    == {"none", "queued", "running", "success", "failed"}
JobState     == {"none", "waiting", "active", "stalled", "done", "failed"}
DeleteStep   == {"idle", "rows", "done"}
BeforeTry    == {"load", "markRunning", "markDeploying", "prepare"}
OverSsh      == {"checkout", "retag", "build", "tag", "preDeploy", "stopOld",
                 "runNew", "route", "health", "postDeploy", "trim"}
AfterSsh     == {"finishOk", "appRunning", "announce"}
OnFailure    == {"finishFailed", "appError"}
WorkerPc     == {"idle", "connect"} \cup BeforeTry \cup OverSsh
                    \cup AfterSsh \cup OnFailure

IdleWorker == [pc |-> "idle", dep |-> 0, target |-> None, img |-> 0, alive |-> FALSE]
NoContainer == [state |-> "absent", dep |-> 0, commit |-> None]

Exists(d)     == status[d] # "none"
\* Mutant: the UPDATE has lost its where clause.
SetEveryStatus(d, s) == status' = [e \in Deployments |-> IF Exists(e) THEN s ELSE status[e]]
SetStatus(d, s) == status' = IF Exists(d) THEN [status EXCEPT ![d] = s] ELSE status
SetApp(s)     == app' = IF app = "deleted" THEN app ELSE s
Started(c)    == IF c.state = "absent" THEN c ELSE [c EXCEPT !.state = "running"]
Stopped(c)    == IF c.state = "absent" THEN c ELSE [c EXCEPT !.state = "exited"]
\* Mutant: commit_sha is read again after the checkout recorded it.
IsRollbackReread == commit[w.dep] # None \/ w.img # 0
IsRollback    == w.target # None \/ w.img # 0

Init ==
    /\ app = "idle" /\ deployed = FALSE
    /\ status = [d \in Deployments |-> "none"]
    /\ commit = [d \in Deployments |-> None]
    /\ fromImage = [d \in Deployments |-> 0]
    /\ kind = [d \in Deployments |-> "none"]
    /\ created = 0
    /\ adding = {} /\ queue = <<>>
    /\ job = [d \in Deployments |-> "none"]
    /\ stalls = [d \in Deployments |-> 0]
    /\ w = IdleWorker
    /\ tree = None /\ latest = None
    /\ retained = [d \in Deployments |-> None]
    /\ container = NoContainer
    /\ del = "idle" /\ tornDown = FALSE
    /\ preRan = {} /\ sawHealthy = {}
    /\ faults = [crash |-> 0, drop |-> 0, db |-> 0, lost |-> 0]
-----------------------------------------------------------------------------
(* The API: deploy, rollback and delete.                                   *)

\* INSERT INTO deployments; the job is queued by a later await.
InsertRow(k, c, img) ==
    /\ app # "deleted"
    /\ created < MaxDeployments
    /\ LET d == created + 1 IN
          /\ created' = d
          /\ status' = [status EXCEPT ![d] = "queued"]
          /\ commit' = [commit EXCEPT ![d] = c]
          /\ fromImage' = [fromImage EXCEPT ![d] = img]
          /\ kind' = [kind EXCEPT ![d] = k]
          /\ adding' = adding \cup {d}
    /\ UNCHANGED <<app, deployed, queue, job, stalls, w, serverVars,
                   deleteVars, historyVars, faults>>

RequestDeploy == InsertRow("deploy", None, 0)

\* Only a deployment that finished successfully can be gone back to.
RollbackTarget(t) == status[t] = "success"

RequestRollbackToCommit(t) ==
    /\ RollbackTarget(t)
    /\ commit[t] # None
    /\ InsertRow("rollback", commit[t], 0)

\* Mutant: the new row does not get the commit of the row it goes back to.
RequestRollbackWithoutCommit(t) ==
    RollbackTarget(t) /\ Keep > 0 /\ InsertRow("rollback", None, t)

\* The image was there when the API asked for it over SSH, some awaits earlier: a trim
\* may have removed it since.
RequestRollbackToImage(t) ==
    /\ RollbackTarget(t)
    /\ Keep > 0
    /\ InsertRow("rollback", commit[t], t)

EnqueueJob(d) ==
    /\ d \in adding
    /\ adding' = adding \ {d}
    /\ queue' = Append(queue, d)
    /\ job' = [job EXCEPT ![d] = "waiting"]
    /\ UNCHANGED <<rowVars, stalls, w, serverVars, deleteVars, historyVars, faults>>

\* The API process dies after the insert: the row stays, no job is ever queued.
LoseJob(d) ==
    /\ d \in adding
    /\ faults.lost < MaxLostAdds
    /\ faults' = [faults EXCEPT !.lost = @ + 1]
    /\ adding' = adding \ {d}
    /\ UNCHANGED <<rowVars, queue, job, stalls, w, serverVars, deleteVars, historyVars>>

\* tearDownApplication over SSH; an error is returned and logged, not thrown.
DeleteTearDown ==
    /\ app # "deleted" /\ del = "idle"
    /\ del' = "rows"
    /\ \/ container' = NoContainer /\ tree' = None /\ tornDown' = TRUE
       \/ UNCHANGED <<container, tree, tornDown>>
    /\ UNCHANGED <<rowVars, queueVars, w, latest, retained, historyVars, faults>>

\* The application row goes and the deployments rows cascade with it.
DeleteRows ==
    /\ del = "rows"
    /\ del' = "done"
    /\ app' = "deleted" /\ deployed' = FALSE
    /\ status' = [d \in Deployments |-> "none"]
    /\ commit' = [d \in Deployments |-> None]
    /\ fromImage' = [d \in Deployments |-> 0]
    /\ UNCHANGED <<kind, created, queueVars, w, serverVars, tornDown, historyVars, faults>>
-----------------------------------------------------------------------------
(* The deploy processor, one step per await that others can run in between. *)

At(p)   == w.pc = p
Goto(p) == w' = [w EXCEPT !.pc = p]
Raise   == Goto("finishFailed")

\* The processor returned or threw: BullMQ closes the job ("attempts" is 1).
\* Mutant: the local variables of the last job are kept.
CloseJobKeepLocals(outcome) == /\ job' = [job EXCEPT ![w.dep] = outcome]
                               /\ Goto("idle")
CloseJob(outcome) == /\ job' = [job EXCEPT ![w.dep] = outcome]
                     /\ w' = IdleWorker

\* A remote command that reported exit code 0: it ran, or the connection was
\* lost under it and the missing exit code reads as 0.
Completed(p) == Goto(p) /\ UNCHANGED faults
Dropped(p)   == /\ faults.drop < MaxDrops
                /\ faults' = [faults EXCEPT !.drop = @ + 1]
                /\ w' = [w EXCEPT !.pc = p, !.alive = FALSE]
Failed       == Raise /\ UNCHANGED faults
OverConnection(p) == At(p) /\ w.alive

TakeJob ==
    /\ At("idle") /\ queue # <<>>
    /\ queue' = Tail(queue)
    /\ job' = [job EXCEPT ![Head(queue)] = "active"]
    /\ w' = [IdleWorker EXCEPT !.pc = "load", !.dep = Head(queue)]
    /\ UNCHANGED <<rowVars, adding, stalls, serverVars, deleteVars, historyVars, faults>>

\* Mutant: a job whose row is no longer queued counts as a duplicate.
LoadQueuedOnly ==
    /\ At("load")
    /\ \/ /\ status[w.dep] = "queued"
          /\ w' = [w EXCEPT !.pc = "markRunning", !.target = commit[w.dep],
                            !.img = fromImage[w.dep]]
          /\ UNCHANGED job
       \/ status[w.dep] # "queued" /\ CloseJob("done")
    /\ UNCHANGED <<rowVars, adding, queue, stalls, serverVars, deleteVars, historyVars, faults>>

\* Mutant: only a rollback to an image counts, so a commit is checked out afresh.
LoadTargetOfImageOnly ==
    /\ At("load")
    /\ \/ /\ Exists(w.dep)
          /\ w' = [w EXCEPT !.pc = "markRunning", !.img = fromImage[w.dep]]
          /\ UNCHANGED job
       \/ ~ Exists(w.dep) /\ CloseJob("done")
    /\ UNCHANGED <<rowVars, adding, queue, stalls, serverVars, deleteVars, historyVars, faults>>

\* A commit_sha that is already there makes the deployment a rollback.
Load ==
    /\ At("load")
    /\ \/ /\ Exists(w.dep)
          /\ w' = [w EXCEPT !.pc = "markRunning", !.target = commit[w.dep],
                            !.img = fromImage[w.dep]]
          /\ UNCHANGED job
       \/ ~ Exists(w.dep) /\ CloseJob("done")
    /\ UNCHANGED <<rowVars, adding, queue, stalls, serverVars, deleteVars, historyVars, faults>>

MarkRunning ==
    /\ At("markRunning")
    /\ SetStatus(w.dep, "running")
    /\ Goto("markDeploying")
    /\ UNCHANGED <<app, deployed, commit, fromImage, kind, created, queueVars,
                   serverVars, deleteVars, historyVars, faults>>

\* Mutant: the application keeps its status while it is deployed.
MarkDeployingRowOnly == At("markDeploying") /\ Goto("prepare")
    /\ UNCHANGED <<rowVars, queueVars, serverVars, deleteVars, historyVars, faults>>

MarkDeploying ==
    /\ At("markDeploying")
    /\ SetApp("deploying")
    /\ Goto("prepare")
    /\ UNCHANGED <<deployed, status, commit, fromImage, kind, created, queueVars,
                   serverVars, deleteVars, historyVars, faults>>

\* Domain, volumes, registry and build server are read; deployed_config is saved.
Prepare ==
    /\ At("prepare")
    /\ deployed' = (app # "deleted")
    /\ Goto("connect")
    /\ UNCHANGED <<app, status, commit, fromImage, kind, created, queueVars,
                   serverVars, deleteVars, historyVars, faults>>

\* A throw before the try block: nothing marks the deployment failed.
ThrowOutsideTry ==
    /\ w.pc \in BeforeTry
    /\ faults.db < MaxDbFaults
    /\ faults' = [faults EXCEPT !.db = @ + 1]
    /\ CloseJob("failed")
    /\ UNCHANGED <<rowVars, adding, queue, stalls, serverVars, deleteVars, historyVars>>

Connect ==
    /\ At("connect")
    /\ \/ w' = [w EXCEPT !.alive = TRUE, !.pc = IF w.img # 0 THEN "retag" ELSE "checkout"]
       \/ Raise
    /\ UNCHANGED <<rowVars, queueVars, serverVars, deleteVars, historyVars, faults>>

\* Clone or fetch and reset; then the commit that was checked out is recorded.
\* After a lost connection "git rev-parse" throws, so the row keeps its commit.
Checkout ==
    /\ OverConnection("checkout")
    /\ \E c \in (IF w.target = None THEN Commits ELSE {w.target}) :
          \/ /\ tree' = c
             /\ commit' = IF Exists(w.dep) THEN [commit EXCEPT ![w.dep] = c] ELSE commit
             /\ Completed("build")
          \/ /\ tree' \in {tree, c}
             /\ Dropped("build") \/ Failed
             /\ UNCHANGED commit
    /\ UNCHANGED <<app, deployed, status, fromImage, kind, created, queueVars,
                   latest, retained, container, deleteVars, historyVars>>

AfterPost   == IF Keep > 0 THEN "trim" ELSE "finishOk"
AfterHealth == IF HasPostDeploy /\ ~ IsRollback THEN "postDeploy" ELSE AfterPost
\* Mutant: rollbacks skip the health wait the way they skip the commands.
AfterRouteOfRollback == IF HasHealth /\ ~ IsRollback THEN "health" ELSE AfterHealth
AfterRoute  == IF HasHealth THEN "health" ELSE AfterHealth
AfterTag    == IF HasPreDeploy /\ ~ IsRollback THEN "preDeploy" ELSE "stopOld"
AfterImage  == IF Keep > 0 THEN "tag" ELSE AfterTag

\* A rollback to a retained image: no clone and no build.
Retag ==
    /\ OverConnection("retag")
    /\ \/ retained[w.img] # None /\ latest' = retained[w.img] /\ Completed(AfterImage)
       \/ latest' \in {latest} \cup ({retained[w.img]} \ {None}) /\ Dropped(AfterImage)
       \/ Failed /\ UNCHANGED latest
    /\ UNCHANGED <<rowVars, queueVars, tree, retained, container, deleteVars, historyVars>>

\* docker build, or the pull of the image an earlier build of this commit pushed.
Build ==
    /\ OverConnection("build")
    /\ \/ tree # None /\ latest' = tree /\ Completed(AfterImage)
       \/ tree # None /\ latest' \in {latest, tree} /\ Dropped(AfterImage)
       \/ Failed /\ UNCHANGED latest
    /\ UNCHANGED <<rowVars, queueVars, tree, retained, container, deleteVars, historyVars>>

TagImage ==
    /\ OverConnection("tag")
    /\ \/ retained' = [retained EXCEPT ![w.dep] = latest] /\ Completed(AfterTag)
       \/ retained' \in {retained, [retained EXCEPT ![w.dep] = latest]} /\ Dropped(AfterTag)
       \/ Failed /\ UNCHANGED retained
    /\ UNCHANGED <<rowVars, queueVars, tree, latest, container, deleteVars, historyVars>>

\* Mutant: the command is run with allowFailure, as the post-deploy one is.
PreDeployAllowFailure ==
    /\ OverConnection("preDeploy")
    /\ preRan' \in {preRan, preRan \cup {w.dep}} /\ Completed("stopOld")
    /\ UNCHANGED <<rowVars, queueVars, serverVars, deleteVars, sawHealthy>>

\* Migrations, in a throwaway container of the new image.
PreDeploy ==
    /\ OverConnection("preDeploy")
    /\ \/ preRan' = preRan \cup {w.dep} /\ Completed("stopOld")
       \/ preRan' \in {preRan, preRan \cup {w.dep}} /\ Dropped("stopOld")
       \/ Failed /\ UNCHANGED preRan
    /\ UNCHANGED <<rowVars, queueVars, serverVars, deleteVars, sawHealthy>>

\* docker stop; docker rm -f ... || true: its failure does not end the deploy.
StopOld ==
    /\ OverConnection("stopOld")
    /\ container' \in {container, Stopped(container), NoContainer}
    /\ Completed("runNew") \/ Dropped("runNew")
    /\ UNCHANGED <<rowVars, queueVars, tree, latest, retained, deleteVars, historyVars>>

NewContainer(s) == [state |-> s, dep |-> w.dep, commit |-> latest]

\* docker run --name: refused while a container of that name is there, and the
\* container it created stays behind when starting it fails.
RunNew ==
    /\ OverConnection("runNew")
    /\ LET free == container.state = "absent" IN
       \/ free /\ container' = NewContainer("running") /\ Completed("route")
       \/ /\ container' \in {container} \cup
                (IF free THEN {NewContainer("running"), NewContainer("exited")} ELSE {})
          /\ Dropped("route")
       \/ /\ container' \in {container} \cup
                (IF free THEN {NewContainer("exited")} ELSE {})
          /\ Failed
    /\ UNCHANGED <<rowVars, queueVars, tree, latest, retained, deleteVars, historyVars>>

\* Environment network and writeAppRouting, which ends with "docker start".
Route ==
    /\ OverConnection("route")
    /\ \/ container' = Started(container) /\ Completed(AfterRoute)
       \/ container' \in {container, Started(container)} /\ Dropped(AfterRoute)
       \/ Failed /\ UNCHANGED container
    /\ UNCHANGED <<rowVars, queueVars, tree, latest, retained, deleteVars, historyVars>>

\* Polls the container's healthcheck; only "healthy" ends with exit code 0.
HealthWait ==
    /\ OverConnection("health")
    /\ \/ /\ container.state = "running"
          /\ sawHealthy' = sawHealthy \cup {w.dep}
          /\ Completed(AfterHealth)
       \/ (Dropped(AfterHealth) \/ Failed) /\ UNCHANGED sawHealthy
    /\ UNCHANGED <<rowVars, queueVars, serverVars, deleteVars, preRan>>

\* allowFailure: whatever its exit code, the deploy goes on.
PostDeploy ==
    /\ OverConnection("postDeploy")
    /\ Completed(AfterPost) \/ Dropped(AfterPost)
    /\ UNCHANGED <<rowVars, queueVars, serverVars, deleteVars, historyVars>>

\* Mutant: the row that is about to succeed does not count.
SucceededRowsOnly == {d \in Deployments : status[d] = "success"}
\* deploymentsToRetain: the newest Keep successful ones, this one included.
Succeeded == {d \in Deployments : status[d] = "success" \/ (d = w.dep /\ Exists(d))}
Retain    == {d \in Succeeded : Cardinality({e \in Succeeded : e > d}) < Keep}

\* Untags the images of older deployments; any failure is swallowed.
Trim ==
    /\ At("trim")
    /\ \/ /\ w.alive
          /\ retained' = [d \in Deployments |-> IF d \in Retain THEN retained[d] ELSE None]
       \/ UNCHANGED retained
    /\ Goto("finishOk")
    /\ UNCHANGED <<rowVars, queueVars, tree, latest, container, deleteVars, historyVars, faults>>

\* exec on a lost connection throws.
ConnectionGone ==
    /\ w.pc \in OverSsh \ {"trim"}
    /\ ~ w.alive
    /\ Raise
    /\ UNCHANGED <<rowVars, queueVars, serverVars, deleteVars, historyVars, faults>>

FinishOk ==
    /\ At("finishOk")
    /\ SetStatus(w.dep, "success")
    /\ Goto("appRunning")
    /\ UNCHANGED <<app, deployed, commit, fromImage, kind, created, queueVars,
                   serverVars, deleteVars, historyVars, faults>>

AppRunning ==
    /\ At("appRunning")
    /\ SetApp("running")
    /\ Goto("announce")
    /\ UNCHANGED <<deployed, status, commit, fromImage, kind, created, queueVars,
                   serverVars, deleteVars, historyVars, faults>>

\* Events, the pull request comment, notifications and log drains.
Announce ==
    /\ At("announce")
    /\ CloseJob("done")
    /\ UNCHANGED <<rowVars, adding, queue, stalls, serverVars, deleteVars, historyVars, faults>>

\* A query of the success path throws: the catch block still runs.
ThrowInsideTry ==
    /\ w.pc \in AfterSsh
    /\ faults.db < MaxDbFaults
    /\ faults' = [faults EXCEPT !.db = @ + 1]
    /\ Raise
    /\ UNCHANGED <<rowVars, queueVars, serverVars, deleteVars, historyVars>>

FinishFailed ==
    /\ At("finishFailed")
    /\ SetStatus(w.dep, "failed")
    /\ Goto("appError")
    /\ UNCHANGED <<app, deployed, commit, fromImage, kind, created, queueVars,
                   serverVars, deleteVars, historyVars, faults>>

\* Mutant: the catch block forgets the application's status.
AppErrorRowOnly == At("appError") /\ CloseJob("done")
    /\ UNCHANGED <<rowVars, adding, queue, stalls, serverVars, deleteVars, historyVars, faults>>

AppError ==
    /\ At("appError")
    /\ SetApp("error")
    /\ CloseJob("done")
    /\ UNCHANGED <<deployed, status, commit, fromImage, kind, created, adding, queue,
                   stalls, serverVars, deleteVars, historyVars, faults>>

\* A query of the catch block throws: the processor rejects.
ThrowInCatch ==
    /\ w.pc \in OnFailure
    /\ faults.db < MaxDbFaults
    /\ faults' = [faults EXCEPT !.db = @ + 1]
    /\ CloseJob("failed")
    /\ UNCHANGED <<rowVars, adding, queue, stalls, serverVars, deleteVars, historyVars>>
-----------------------------------------------------------------------------
(* The worker process dies; BullMQ finds the job without a lock later on.   *)

Crash ==
    /\ ~ At("idle")
    /\ faults.crash < MaxCrashes
    /\ faults' = [faults EXCEPT !.crash = @ + 1]
    /\ job' = [job EXCEPT ![w.dep] = "stalled"]
    /\ w' = IdleWorker
    /\ UNCHANGED <<rowVars, adding, queue, stalls, serverVars, deleteVars, historyVars>>

RequeueStalled(d) ==
    /\ job[d] = "stalled"
    /\ stalls' = [stalls EXCEPT ![d] = @ + 1]
    /\ \/ /\ stalls[d] < MaxStalls
          /\ job' = [job EXCEPT ![d] = "waiting"]
          /\ queue' = <<d>> \o queue
       \/ /\ stalls[d] >= MaxStalls
          /\ job' = [job EXCEPT ![d] = "failed"]
          /\ UNCHANGED queue
    /\ UNCHANGED <<rowVars, adding, w, serverVars, deleteVars, historyVars, faults>>
-----------------------------------------------------------------------------
Request ==
    \/ RequestDeploy
    \/ \E t \in Deployments : RequestRollbackToCommit(t) \/ RequestRollbackToImage(t)

RemoteStep == Checkout \/ Retag \/ Build \/ TagImage \/ PreDeploy \/ StopOld \/ RunNew
                \/ Route \/ HealthWait \/ PostDeploy \/ Trim

WorkerStep ==
    \/ Load \/ MarkRunning \/ MarkDeploying \/ Prepare \/ Connect
    \/ RemoteStep \/ ConnectionGone
    \/ FinishOk \/ AppRunning \/ Announce \/ FinishFailed \/ AppError

Fault == \/ ThrowOutsideTry \/ ThrowInsideTry \/ ThrowInCatch \/ Crash
         \/ \E d \in Deployments : LoseJob(d)

Next ==
    \/ Request
    \/ \E d \in Deployments : EnqueueJob(d) \/ RequeueStalled(d)
    \/ DeleteTearDown \/ DeleteRows
    \/ TakeJob \/ WorkerStep
    \/ Fault

Spec == Init /\ [][Next]_vars

\* Remote commands end and the queue and the API make progress.
Fairness ==
    /\ WF_vars(TakeJob) /\ WF_vars(WorkerStep)
    /\ \A d \in Deployments : WF_vars(EnqueueJob(d)) /\ WF_vars(RequeueStalled(d))

FairSpec == Spec /\ Fairness
-----------------------------------------------------------------------------
(* Properties.                                                             *)

RowsTyped ==
    /\ app \in AppStatus /\ deployed \in BOOLEAN
    /\ status \in [Deployments -> RowStatus]
    /\ commit \in [Deployments -> MaybeCommit]
    /\ fromImage \in [Deployments -> 0..MaxDeployments]
    /\ kind \in [Deployments -> {"none", "deploy", "rollback"}]
    /\ created \in 0..MaxDeployments
QueueTyped ==
    /\ adding \subseteq Deployments
    /\ queue \in Seq(Deployments)
    /\ job \in [Deployments -> JobState]
    /\ stalls \in [Deployments -> Nat]
WorkerTyped ==
    /\ w \in [pc : WorkerPc, dep : 0..MaxDeployments, target : MaybeCommit,
              img : 0..MaxDeployments, alive : BOOLEAN]
    /\ (w.pc = "idle") <=> (w.dep = 0)
    /\ w.pc = "retag" => w.img # 0
ServerTyped ==
    /\ tree \in MaybeCommit /\ latest \in MaybeCommit
    /\ retained \in [Deployments -> MaybeCommit]
    /\ container \in [state : {"absent", "running", "exited"},
                      dep : 0..MaxDeployments, commit : MaybeCommit]
    /\ (container.state = "absent") <=> (container.dep = 0)
HistoryTyped ==
    /\ del \in DeleteStep /\ tornDown \in BOOLEAN
    /\ preRan \subseteq Deployments /\ sawHealthy \subseteq Deployments
    /\ faults \in [crash : 0..MaxCrashes, drop : 0..MaxDrops,
                   db : 0..MaxDbFaults, lost : 0..MaxLostAdds]

\* Every variable has its type, the worker has a job exactly when it is not idle, and
\* it retags an image only for a row that names one (deployApplication.ts:310-315).
TypeOK == RowsTyped /\ QueueTyped /\ WorkerTyped /\ ServerTyped /\ HistoryTyped

\* The two ways a job can end without its catch block having the last word: a
\* query threw outside it, or the worker died in it more often than BullMQ retries.
Abandoned(d) == job[d] = "failed" /\ (faults.db > 0 \/ stalls[d] > MaxStalls)

\* A row that says "running" has a job that is being worked on or will be again
\* (deployApplication.ts must not leave a deployment running forever).
RunningIsOwned ==
    \A d \in Deployments : status[d] = "running" =>
        job[d] \in {"active", "stalled", "waiting"} \/ Abandoned(d)

\* The lifecycle route refuses every action while the application is "deploying":
\* that status must belong to a deploy job that still has to end.
DeployingIsOwned ==
    app = "deploying" =>
        \E d \in Deployments :
            \/ job[d] \in {"active", "stalled"}
            \/ job[d] = "waiting" /\ stalls[d] > 0
            \/ Abandoned(d)

\* "running" in the panel means that a container of the application is up, at every
\* step of every deploy and through crashes, until the application is torn down.
AppRunningIsServing ==
    app = "running" /\ del = "idle" => container.state = "running"

\* commit_sha is "the commit that actually got built and run" (schema/deployments.ts):
\* also for rollbacks to a retained image and after a redelivery.
CommitIsWhatRuns ==
    container.state # "absent" /\ Exists(container.dep) =>
        container.commit = commit[container.dep]

\* Once recorded, a deployment's commit_sha stays: rollbacks are made from the rows, so no
\* later deploy and no redelivery of the job may write another commit over it.
CommitNeverReplaced ==
    [][ \A d \in Deployments :
          commit[d] # None /\ Exists(d) /\ Exists(d)' => commit'[d] = commit[d] ]_vars

\* A deployment that counts as a success, and can be gone back to, names its commit: through
\* lost connections, redeliveries and rollbacks to an image (applications.ts:1600, 1640).
SuccessNamesCommit ==
    \A d \in Deployments : status[d] = "success" => commit[d] # None

\* As long as no worker died, no version that a plain deploy built serves without its
\* pre-deploy command having completed, lost connections included.
PreDeployRan ==
    \A d \in Deployments :
        container.dep = d /\ kind[d] = "deploy" /\ HasPreDeploy => d \in preRan
PreDeployGate == faults.crash = 0 => PreDeployRan

\* A success with a health path means the container reported healthy, as long as no
\* connection was lost.
SuccessMeansHealthy ==
    \A d \in Deployments : status[d] = "success" /\ HasHealth => d \in sawHealthy
HealthGate == faults.drop = 0 => SuccessMeansHealthy

\* rollback_images: the newest Keep successful deployments can be gone back to without a
\* build (unless a crash or a failed query hit the job after it trimmed).
RollbackImageKept ==
    LET ok == {d \in Deployments : status[d] = "success" \/ (At("finishOk") /\ d = w.dep)}
    IN  faults.crash = 0 /\ faults.db = 0 =>
            \A d \in Deployments :
                /\ status[d] = "success"
                /\ Cardinality({e \in ok : e > d}) < Keep
                => retained[d] # None

\* The worker takes the serving container down only when the image of the new version is
\* built and its pre-deploy command has completed: until then the old version stays up.
SwitchOnlyWhenReady ==
    [][ container.state = "running" /\ container'.state # "running" /\ del' = del =>
            /\ w.alive
            /\ Exists(w.dep) => latest = commit[w.dep]
            /\ HasPreDeploy /\ ~ IsRollback => w.dep \in preRan ]_vars

\* Deleting an application whose teardown reached the server leaves no container behind
\* once the worker is idle ("their containers would otherwise be orphaned").
DeletedLeavesNoContainer ==
    app = "deleted" /\ tornDown /\ At("idle") => container.state = "absent"

\* Every queued deployment ends (or is deleted), lost connections and one worker crash included.
EveryDeploymentEnds ==
    \A d \in Deployments :
        status[d] = "queued" ~> status[d] \in {"success", "failed", "none"}

\* The application does not stay "deploying", which would lock its lifecycle buttons.
AppLeavesDeploying == app = "deploying" ~> app # "deploying"

\* The rows implement the abstract log of deployments.
Log == INSTANCE DeploymentLog WITH open <- app # "deleted", crashed <- faults.crash > 0
LogRefined == Log!LogSpec
=============================================================================
