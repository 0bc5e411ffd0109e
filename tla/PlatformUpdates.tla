--------------------------- MODULE PlatformUpdates ---------------------------
(***************************************************************************)
(* Updates of the panel and of its host.  A system update runs inside its  *)
(* job.  A panel update rebuilds the containers the worker itself runs in, *)
(* so its job launches it on the host, detached, and later jobs poll the   *)
(* log file it writes for the marker of its end.                           *)
(*                                                                         *)
(* There is one log file: a launch removes it and starts another, and an   *)
(* update that is still running goes on writing to the file that is gone.  *)
(***************************************************************************)
EXTENDS Integers, FiniteSets

CONSTANTS
    UpdateRows,      \* operations that are ever requested
    MaxLaunches,     \* panel updates started on the host
    MaxUpdateFaults, \* lost or failed commands
    MaxUpdateDeaths  \* deaths of the worker other than the update's own restart

ASSUME UpdateAssumption == UpdateRows \in Nat /\ MaxLaunches \in Nat /\ MaxUpdateFaults \in Nat /\ MaxUpdateDeaths \in Nat

VARIABLES
    pop,       \* the rows of platform_operations
    pjobs,     \* how many jobs of each row wait; polls are delayed, so they come due in any order
    pjob,      \* the job in progress
    process,   \* the panel updates on the host
    hostLog,   \* the log file: the update that writes it and the marker it ends with
    preq,      \* a request between its check and its insert
    pused,     \* what was used up of the bounds
    mixed,     \* history: two operations were under way at once
    stranded   \* history: the rows whose job was given up or threw

updateVars == <<pop, pjobs, pjob, process, hostLog, preq, pused, mixed, stranded>>

UpdateIds == 1..UpdateRows
Launches == 1..MaxLaunches
NoUpdate == [status |-> "absent", kind |-> "panel"]
NoUpdateJob == [id |-> 0, pc |-> "rest", run |-> 0]
NoProcess == [of |-> 0, phase |-> "none"]

UpdateTypeOK ==
    /\ pop \in [UpdateIds -> [status : {"absent", "queued", "running", "success", "failed"}, kind : {"panel", "system"}]]
    /\ pjobs \in [UpdateIds -> [fresh : Nat, again : Nat]]
    /\ pjob.id \in 0..UpdateRows /\ pjob.pc \in {"rest", "launch", "mark", "requeue", "poll", "system"} /\ pjob.run \in 0..1
    /\ process \in [Launches -> [of : 0..UpdateRows, phase : {"none", "building", "restarted", "ok", "failed"}]]
    /\ hostLog.by \in 0..MaxLaunches /\ hostLog.marker \in {"none", "ok", "failed"}
    /\ preq \in {"none", "panel", "system"}
    /\ pused \in [fault : Nat, death : Nat]
    /\ mixed \in BOOLEAN /\ stranded \subseteq UpdateIds

UpdateFault == pused.fault < MaxUpdateFaults /\ pused' = [pused EXCEPT !.fault = @ + 1]
Fresh == {i \in UpdateIds : pop[i].status = "absent"}
NextUpdate(i) == i \in Fresh /\ \A j \in Fresh : i <= j
Requeued(i) == [pjobs EXCEPT ![i].fresh = @ + 1]
OpenUpdates == {i \in UpdateIds : pop[i].status \in {"queued", "running"}}

----------------------------------------------------------------------------
(* Requests                                                                *)

\* startPlatformOperation looks for a row that says running
CheckIdle(kind) ==
    /\ preq = "none" /\ Fresh # {}
    /\ \A i \in UpdateIds : pop[i].status # "running"
    /\ preq' = kind
    /\ UNCHANGED <<pop, pjobs, pjob, process, hostLog, pused, mixed, stranded>>

\* and inserts the new one, with its job
InsertUpdate ==
    /\ preq # "none"
    /\ \E i \in UpdateIds :
          /\ NextUpdate(i)
          /\ pop' = [pop EXCEPT ![i] = [status |-> "queued", kind |-> preq]]
          /\ pjobs' = Requeued(i)
    /\ preq' = "none"
    /\ mixed' = (mixed \/ OpenUpdates # {})
    /\ UNCHANGED <<pjob, process, hostLog, pused, stranded>>

----------------------------------------------------------------------------
(* The job                                                                 *)

FirstUpdateStep(i) ==
    IF pop[i].kind = "system" THEN "system"
    ELSE CASE pop[i].status = "queued" -> "launch" [] pop[i].status = "running" -> "poll" [] OTHER -> "rest"

\* a system update is marked running as it starts, whatever its row said
TakeUpdateJob(i, run) ==
    /\ pjob.pc = "rest"
    /\ IF run = 0 THEN pjobs[i].fresh > 0 /\ pjobs' = [pjobs EXCEPT ![i].fresh = @ - 1]
       ELSE pjobs[i].again > 0 /\ pjobs' = [pjobs EXCEPT ![i].again = @ - 1]
    /\ pjob' = IF FirstUpdateStep(i) = "rest" THEN NoUpdateJob ELSE [id |-> i, pc |-> FirstUpdateStep(i), run |-> run]
    /\ pop' = IF pop[i].kind = "system" THEN [pop EXCEPT ![i].status = "running"] ELSE pop
    /\ UNCHANGED <<process, hostLog, preq, pused, mixed, stranded>>

FinishUpdate(status) == pop' = [pop EXCEPT ![pjob.id].status = status] /\ pjob' = NoUpdateJob

\* apt upgrade: an exit code; a connection that is lost reads as exit code 0
EndSystemUpdate(status) ==
    /\ pjob.pc = "system"
    /\ FinishUpdate(status)
    /\ UNCHANGED <<pjobs, process, hostLog, preq, pused, mixed, stranded>>

Launched ==
    \E k \in Launches :
        /\ process[k].phase = "none" /\ \A l \in Launches : process[l].phase = "none" => k <= l
        /\ process' = [process EXCEPT ![k] = [of |-> pjob.id, phase |-> "building"]]
        /\ hostLog' = [by |-> k, marker |-> "none"]

LaunchUpdate ==
    /\ pjob.pc = "launch"
    /\ Launched
    /\ pjob' = [pjob EXCEPT !.pc = "mark"]
    /\ UNCHANGED <<pop, pjobs, preq, pused, mixed, stranded>>

\* no connection, or a command that fails; or the answer is lost, and the update runs though its row says failed
LaunchFails(lost) ==
    /\ pjob.pc = "launch"
    /\ UpdateFault
    /\ IF lost THEN Launched ELSE UNCHANGED <<process, hostLog>>
    /\ FinishUpdate("failed")
    /\ UNCHANGED <<pjobs, preq, mixed, stranded>>

\* the row says running, then the first poll is queued
MarkLaunched ==
    /\ pjob.pc = "mark"
    /\ pop' = [pop EXCEPT ![pjob.id].status = "running"]
    /\ pjob' = [pjob EXCEPT !.pc = "requeue"]
    /\ UNCHANGED <<pjobs, process, hostLog, preq, pused, mixed, stranded>>

\* mutant: the launching job queues no poll
QueuePollNever ==
    /\ pjob.pc = "requeue"
    /\ pjob' = NoUpdateJob
    /\ UNCHANGED <<pop, pjobs, process, hostLog, preq, pused, mixed, stranded>>

QueuePoll ==
    /\ pjob.pc = "requeue"
    /\ pjobs' = Requeued(pjob.id)
    /\ pjob' = NoUpdateJob
    /\ UNCHANGED <<pop, process, hostLog, preq, pused, mixed, stranded>>

\* mutant: a log without the failure marker is a success
MarkerSaysDone == IF hostLog.marker = "failed" THEN "failed" ELSE "success"

\* what the log says of the update that is polled, whoever wrote it
MarkerSays == CASE hostLog.marker = "ok" -> "success" [] hostLog.marker = "failed" -> "failed" [] OTHER -> "running"

PollUpdate ==
    /\ pjob.pc = "poll"
    /\ FinishUpdate(MarkerSays)
    /\ pjobs' = IF MarkerSays = "running" THEN Requeued(pjob.id) ELSE pjobs
    /\ UNCHANGED <<process, hostLog, preq, pused, mixed, stranded>>

\* no connection, or the log is cut off: another poll
PollFindsNothing ==
    /\ pjob.pc = "poll"
    /\ UpdateFault
    /\ pjobs' = Requeued(pjob.id) /\ pjob' = NoUpdateJob
    /\ UNCHANGED <<pop, process, hostLog, preq, mixed, stranded>>

\* fifteen minutes have passed
PollTimesOut ==
    /\ pjob.pc = "poll"
    /\ UpdateFault
    /\ FinishUpdate("failed")
    /\ UNCHANGED <<pjobs, process, hostLog, preq, mixed, stranded>>

\* an error in a poll is caught by nobody: the chain of polls ends
PollThrows ==
    /\ pjob.pc = "poll"
    /\ UpdateFault
    /\ pjob' = NoUpdateJob /\ stranded' = stranded \cup {pjob.id}
    /\ UNCHANGED <<pop, pjobs, process, hostLog, preq, mixed>>

----------------------------------------------------------------------------
(* The host                                                                *)

\* the worker dies: its job is started again once, then given up
WorkerGone ==
    /\ pjobs' = IF pjob.pc # "rest" /\ pjob.run = 0 THEN [pjobs EXCEPT ![pjob.id].again = @ + 1] ELSE pjobs
    /\ stranded' = IF pjob.pc # "rest" /\ pjob.run = 1 THEN stranded \cup {pjob.id} ELSE stranded
    /\ pjob' = NoUpdateJob

\* docker compose up: the update restarts the worker that launched it
UpdateRestartsWorker(k) ==
    /\ process[k].phase = "building"
    /\ process' = [process EXCEPT ![k].phase = "restarted"]
    /\ WorkerGone
    /\ UNCHANGED <<pop, hostLog, preq, pused, mixed>>

UpdateWorkerDies ==
    /\ pjob.pc # "rest"
    /\ pused.death < MaxUpdateDeaths /\ pused' = [pused EXCEPT !.death = @ + 1]
    /\ WorkerGone
    /\ UNCHANGED <<pop, process, hostLog, preq, mixed>>

\* the last command of the update writes its marker, to the file it opened
UpdateEnds(k, how) ==
    /\ process[k].phase = "restarted" \/ (process[k].phase = "building" /\ how = "failed")
    /\ process' = [process EXCEPT ![k].phase = how]
    /\ hostLog' = IF hostLog.by = k THEN [hostLog EXCEPT !.marker = how] ELSE hostLog
    /\ UNCHANGED <<pop, pjobs, pjob, preq, pused, mixed, stranded>>

----------------------------------------------------------------------------
(* Specification                                                           *)

UpdateInit ==
    /\ pop = [i \in UpdateIds |-> NoUpdate] /\ pjobs = [i \in UpdateIds |-> [fresh |-> 0, again |-> 0]]
    /\ pjob = NoUpdateJob
    /\ process = [k \in Launches |-> NoProcess] /\ hostLog = [by |-> 0, marker |-> "none"]
    /\ preq = "none" /\ pused = [fault |-> 0, death |-> 0] /\ mixed = FALSE /\ stranded = {}

\* the two routes, for the panel and for the host
UpdateRequests == InsertUpdate \/ \E kind \in {"panel", "system"} : CheckIdle(kind)

UpdateJobs ==
    \/ \E i \in UpdateIds, run \in 0..1 : TakeUpdateJob(i, run)
    \/ \E status \in {"success", "failed"} : EndSystemUpdate(status)
    \/ LaunchUpdate \/ MarkLaunched \/ QueuePoll \/ PollUpdate \/ PollFindsNothing \/ PollTimesOut \/ PollThrows
    \/ \E lost \in BOOLEAN : LaunchFails(lost)

HostSteps ==
    \/ UpdateWorkerDies
    \/ \E k \in Launches : UpdateRestartsWorker(k) \/ UpdateEnds(k, "ok") \/ UpdateEnds(k, "failed")

UpdateNext == UpdateRequests \/ UpdateJobs \/ HostSteps

UpdateSpec == UpdateInit /\ [][UpdateNext]_updateVars

----------------------------------------------------------------------------
(* Properties                                                              *)

\* An operation that is not over has a job that waits or is in progress, through the restart of the worker by the
\* update itself; only a second death or an error in a poll strands it (platformOperation.ts, updates.ts).
UpdatesAreOwned ==
    \A i \in UpdateIds : pop[i].status \in {"queued", "running"} /\ i \notin stranded
        => pjobs[i].fresh + pjobs[i].again > 0 \/ pjob.id = i

\* A panel update recorded as a success ended with its marker on the host, unless another operation overlapped it
\* (platformOperation.ts pollPlatformUpdate).
UpdateSuccessIsReal ==
    ~mixed => \A i \in UpdateIds : pop[i].kind = "panel" /\ pop[i].status = "success"
                  => \E k \in Launches : process[k] = [of |-> i, phase |-> "ok"]

\* What the rows of the operations can be trusted for.
UpdatesSound == UpdatesAreOwned /\ UpdateSuccessIsReal

=============================================================================
