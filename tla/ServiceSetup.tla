---------------------------- MODULE ServiceSetup -----------------------------
(***************************************************************************)
(* The services of a team: compose stacks and single containers of the     *)
(* catalogue.  Requests write the row and queue jobs of service-provision  *)
(* (deploy, start, stop, restart, routing), which run one at a time and    *)
(* read the row when they start.  In maintenance mode a router of higher   *)
(* priority claims the hostnames of the service; only a "routing" job      *)
(* writes or removes its files.                                            *)
(***************************************************************************)
EXTENDS Naturals, Sequences, FiniteSets

CONSTANTS
    Svcs,            \* services
    Stacks,          \* the compose stacks; the others are single containers
    Hosts,           \* hostnames
    MaxSvcRequests,  \* requests
    MaxSvcFaults     \* failed or lost commands and deaths of the worker

ASSUME ServiceSetupAssumption == Stacks \subseteq Svcs /\ "none" \notin Svcs

VARIABLES
    svcRow,     \* the services row
    svcUp,      \* the containers: none, up, partly up, stopped
    svcFiles,   \* the hostnames the maintenance router claims on the server
    svcQueue,   \* waiting jobs: service, action, tries
    svcJob,     \* the job in progress, with what it read of the row
    svcReq,     \* a change of the domains between its reads and its writes
    svcDel,     \* a delete in progress
    svcMissed,  \* history: services whose routing is behind the row: a routing job failed or was lost, the
                \* compose file dropped a hostname, or maintenance was switched under a change of domains
    svcLost,    \* history: services whose job died twice
    svcDropped, \* history: services whose last job lost its connection
    svcCalm,    \* history: services deleted with no job or other request around
    svcUsed     \* what was used up of the bounds

svcVars == <<svcRow, svcUp, svcFiles, svcQueue, svcJob, svcReq, svcDel, svcMissed, svcLost, svcDropped, svcCalm, svcUsed>>

NoSvc == "none"
NoServiceRow == [status |-> "absent", ready |-> TRUE, hosts |-> {}, maint |-> FALSE]
NoSvcJob == [svc |-> NoSvc, act |-> "none", pc |-> "rest", tries |-> 0, row |-> NoServiceRow]
NoSvcReq == [svc |-> NoSvc, hosts |-> {}, maint |-> FALSE]
NoSvcDel == [svc |-> NoSvc, pc |-> "rest"]
Lifecycle == {"start", "stop", "restart"}

SvcTypeOK ==
    /\ \A s \in Svcs :
        /\ svcRow[s].status \in {"absent", "idle", "provisioning", "running", "stopped", "error", "deleted"}
        /\ {svcRow[s].ready, svcRow[s].maint} \subseteq BOOLEAN
        /\ svcRow[s].hosts \subseteq Hosts /\ (s \notin Stacks => Cardinality(svcRow[s].hosts) <= 1)
        /\ svcUp[s] \in {"none", "up", "partly", "stopped"} /\ svcFiles[s] \subseteq Hosts
    /\ \A i \in DOMAIN svcQueue : svcQueue[i].svc \in Svcs /\ svcQueue[i].act \in Lifecycle \cup {"deploy", "routing"}
    /\ svcJob.pc \in {"rest", "write", "up", "join", "lifecycle", "routing", "done", "failed"}
    /\ svcReq.hosts \subseteq Hosts /\ svcDel.pc \in {"rest", "teardown", "row"}
    /\ {svcMissed, svcLost, svcDropped, svcCalm} \subseteq SUBSET Svcs

HasService(s) == svcRow[s].status \notin {"absent", "deleted"}
Waiting(s, acts) == \E i \in DOMAIN svcQueue : svcQueue[i].svc = s /\ svcQueue[i].act \in acts
Working(s, acts) == Waiting(s, acts) \/ (svcJob.svc = s /\ svcJob.act \in acts)
Changing == Lifecycle \cup {"deploy"}
Any == Changing \cup {"routing"}
SvcAsk == svcUsed.request < MaxSvcRequests /\ svcUsed' = [svcUsed EXCEPT !.request = @ + 1]
SvcFault == svcUsed.fault < MaxSvcFaults /\ svcUsed' = [svcUsed EXCEPT !.fault = @ + 1]
Add(s, act) == Append(svcQueue, [svc |-> s, act |-> act, tries |-> 0])
Upset(s) == svcCalm' = svcCalm \ {s}

\* claimedHosts: what the services of the team answer on, except one
ClaimedHosts(s) == UNION {svcRow[t].hosts : t \in {u \in Svcs \ {s} : HasService(u)}}
\* serviceMaintenanceFiles: nothing to claim means no files
MaintenanceHosts(row) == IF row.maint THEN row.hosts ELSE {}

----------------------------------------------------------------------------
(* Requests                                                                *)

\* POST /: a stack may come up with a generated hostname, and waits when a mandatory variable is empty
CreateService(s, H, ready) ==
    /\ SvcAsk /\ svcRow[s].status = "absent"
    /\ IF s \in Stacks THEN Cardinality(H) <= 1 /\ H \cap ClaimedHosts(s) = {} ELSE H = {} /\ ready
    /\ svcRow' = [svcRow EXCEPT ![s] = [status |-> "idle", ready |-> ready, hosts |-> H, maint |-> FALSE]]
    /\ svcQueue' = IF ready THEN Add(s, "deploy") ELSE svcQueue
    /\ UNCHANGED <<svcUp, svcFiles, svcJob, svcReq, svcDel, svcMissed, svcLost, svcDropped, svcCalm>>

\* PUT /env and restore-defaults: read by the next deploy
SetServiceEnv(s) ==
    /\ SvcAsk /\ HasService(s) /\ s \in Stacks
    /\ svcRow' = [svcRow EXCEPT ![s].ready = ~@]
    /\ UNCHANGED <<svcUp, svcFiles, svcQueue, svcJob, svcReq, svcDel, svcMissed, svcLost, svcDropped, svcCalm>>

\* PUT /domain: one hostname of a single container, not compared with the claimed ones
SetServiceDomain(s, H) ==
    /\ SvcAsk /\ HasService(s) /\ s \notin Stacks /\ Cardinality(H) <= 1
    /\ svcRow' = [svcRow EXCEPT ![s].hosts = H]
    /\ svcQueue' = IF svcRow[s].maint THEN Add(s, "routing") ELSE svcQueue
    /\ Upset(s)
    /\ UNCHANGED <<svcUp, svcFiles, svcJob, svcReq, svcDel, svcMissed, svcLost, svcDropped>>

\* PUT /domains: the claims and the maintenance flag are read first
BeginDomains(s, H) ==
    /\ SvcAsk /\ HasService(s) /\ s \in Stacks /\ svcReq = NoSvcReq
    /\ H \cap ClaimedHosts(s) = {}
    /\ svcReq' = [svc |-> s, hosts |-> H, maint |-> svcRow[s].maint]
    /\ Upset(s)
    /\ UNCHANGED <<svcRow, svcUp, svcFiles, svcQueue, svcJob, svcDel, svcMissed, svcLost, svcDropped>>

\* mutant: the maintenance router is not rewritten
CommitDomainsOnly ==
    /\ svcReq # NoSvcReq /\ svcReq' = NoSvcReq
    /\ svcRow' = IF HasService(svcReq.svc) THEN [svcRow EXCEPT ![svcReq.svc].hosts = svcReq.hosts] ELSE svcRow
    /\ UNCHANGED <<svcUp, svcFiles, svcQueue, svcJob, svcDel, svcMissed, svcLost, svcDropped, svcCalm, svcUsed>>

CommitDomains ==
    /\ svcReq # NoSvcReq /\ svcReq' = NoSvcReq
    /\ svcRow' = IF HasService(svcReq.svc) THEN [svcRow EXCEPT ![svcReq.svc].hosts = svcReq.hosts] ELSE svcRow
    /\ svcQueue' = IF svcReq.maint THEN Add(svcReq.svc, "routing") ELSE svcQueue
    /\ svcMissed' = IF svcRow[svcReq.svc].maint # svcReq.maint THEN svcMissed \cup {svcReq.svc} ELSE svcMissed
    /\ UNCHANGED <<svcUp, svcFiles, svcJob, svcDel, svcLost, svcDropped, svcCalm, svcUsed>>

\* PUT /compose: the domains of services that are no longer in the file are dropped, the router is not rewritten
SetCompose(s, H, ready) ==
    /\ SvcAsk /\ HasService(s) /\ s \in Stacks /\ H \subseteq svcRow[s].hosts
    /\ svcRow' = [svcRow EXCEPT ![s].hosts = H, ![s].ready = ready]
    /\ svcMissed' = IF H # svcRow[s].hosts THEN svcMissed \cup {s} ELSE svcMissed
    /\ UNCHANGED <<svcUp, svcFiles, svcQueue, svcJob, svcReq, svcDel, svcLost, svcDropped, svcCalm>>

SetMaintenance(s) ==
    /\ SvcAsk /\ HasService(s)
    /\ svcRow' = [svcRow EXCEPT ![s].maint = ~@]
    /\ svcQueue' = Add(s, "routing") /\ Upset(s)
    /\ UNCHANGED <<svcUp, svcFiles, svcJob, svcReq, svcDel, svcMissed, svcLost, svcDropped>>

\* POST /lifecycle: refused while a deployment is in progress; POST /redeploy is not
ServiceLifecycle(s, act) ==
    /\ SvcAsk /\ HasService(s) /\ s \in Stacks /\ svcRow[s].status # "provisioning"
    /\ svcRow' = [svcRow EXCEPT ![s].status = "provisioning"]
    /\ svcQueue' = Add(s, act) /\ Upset(s)
    /\ UNCHANGED <<svcUp, svcFiles, svcJob, svcReq, svcDel, svcMissed, svcLost, svcDropped>>

Deploys(s) ==
    /\ SvcAsk /\ HasService(s)
    /\ svcRow' = [svcRow EXCEPT ![s].status = "provisioning"]
    /\ svcQueue' = Add(s, "deploy") /\ Upset(s)
    /\ UNCHANGED <<svcUp, svcFiles, svcJob, svcReq, svcDel, svcMissed, svcLost, svcDropped>>

Redeploy(s) == Deploys(s)
\* images/apply: the row is given the latest tag and deployed
ApplyServiceImage(s) == Deploys(s)

BeginDeleteService(s) ==
    /\ SvcAsk /\ HasService(s) /\ svcDel = NoSvcDel
    /\ svcDel' = [svc |-> s, pc |-> "teardown"]
    /\ svcCalm' = IF Working(s, Any) \/ svcReq.svc = s THEN svcCalm ELSE svcCalm \cup {s}
    /\ UNCHANGED <<svcRow, svcUp, svcFiles, svcQueue, svcJob, svcReq, svcMissed, svcLost, svcDropped>>

\* mutant: the teardown leaves the maintenance router
TearDownKeepsRouter ==
    /\ svcDel.pc = "teardown" /\ svcDel' = [svcDel EXCEPT !.pc = "row"]
    /\ svcUp' = [svcUp EXCEPT ![svcDel.svc] = "none"]
    /\ UNCHANGED <<svcRow, svcFiles, svcQueue, svcJob, svcReq, svcMissed, svcLost, svcDropped, svcCalm, svcUsed>>

TearDownService ==
    /\ svcDel.pc = "teardown" /\ svcDel' = [svcDel EXCEPT !.pc = "row"]
    /\ \/ /\ svcUp' = [svcUp EXCEPT ![svcDel.svc] = "none"] /\ svcFiles' = [svcFiles EXCEPT ![svcDel.svc] = {}]
          /\ UNCHANGED <<svcUsed, svcCalm>>
       \/ SvcFault /\ Upset(svcDel.svc) /\ UNCHANGED <<svcUp, svcFiles>>
    /\ UNCHANGED <<svcRow, svcQueue, svcJob, svcReq, svcMissed, svcLost, svcDropped>>

DeleteServiceRow ==
    /\ svcDel.pc = "row" /\ svcDel' = NoSvcDel
    /\ svcRow' = [svcRow EXCEPT ![svcDel.svc] = [NoServiceRow EXCEPT !.status = "deleted"]]
    /\ UNCHANGED <<svcUp, svcFiles, svcQueue, svcJob, svcReq, svcMissed, svcLost, svcDropped, svcCalm, svcUsed>>

----------------------------------------------------------------------------
(* The job                                                                 *)

FirstPc(act) == CASE act = "routing" -> "routing" [] act = "deploy" -> "write" [] OTHER -> "lifecycle"

TakeServiceJob ==
    /\ svcJob = NoSvcJob /\ svcQueue # <<>>
    /\ LET j == svcQueue[1] IN
       /\ svcJob' = IF HasService(j.svc)
                    THEN [svc |-> j.svc, act |-> j.act, pc |-> FirstPc(j.act), tries |-> j.tries, row |-> svcRow[j.svc]]
                    ELSE NoSvcJob
       /\ svcDropped' = IF j.act = "routing" THEN svcDropped ELSE svcDropped \ {j.svc}
    /\ svcQueue' = Tail(svcQueue)
    /\ UNCHANGED <<svcRow, svcUp, svcFiles, svcReq, svcDel, svcMissed, svcLost, svcCalm, svcUsed>>

\* the files and the images; a single container is one docker rm -f and docker run
WriteService ==
    /\ svcJob.pc = "write" /\ svcJob' = [svcJob EXCEPT !.pc = "up"]
    /\ UNCHANGED <<svcRow, svcUp, svcFiles, svcQueue, svcReq, svcDel, svcMissed, svcLost, svcDropped, svcCalm, svcUsed>>

AfterUp(s) == IF s \in Stacks THEN "join" ELSE "done"

\* up --wait: compose refuses a stack with a mandatory variable left empty; when a container does not become
\* healthy in time the stack still counts as running if every container is up
UpService ==
    /\ svcJob.pc = "up"
    /\ IF svcJob.row.ready
       THEN svcUp' = [svcUp EXCEPT ![svcJob.svc] = "up"] /\ svcJob' = [svcJob EXCEPT !.pc = AfterUp(svcJob.svc)]
       ELSE svcJob' = [svcJob EXCEPT !.pc = "failed"] /\ UNCHANGED svcUp
    /\ UNCHANGED <<svcRow, svcFiles, svcQueue, svcReq, svcDel, svcMissed, svcLost, svcDropped, svcCalm, svcUsed>>

\* a container that exits, and everyContainerUp says no
UpServicePartly ==
    /\ svcJob.pc = "up" /\ SvcFault
    /\ svcUp' = [svcUp EXCEPT ![svcJob.svc] = "partly"] /\ svcJob' = [svcJob EXCEPT !.pc = "failed"]
    /\ UNCHANGED <<svcRow, svcFiles, svcQueue, svcReq, svcDel, svcMissed, svcLost, svcDropped, svcCalm>>

\* `|| true`: a container that cannot join is skipped
JoinNetwork ==
    /\ svcJob.pc = "join" /\ svcJob' = [svcJob EXCEPT !.pc = "done"]
    /\ UNCHANGED <<svcRow, svcUp, svcFiles, svcQueue, svcReq, svcDel, svcMissed, svcLost, svcDropped, svcCalm, svcUsed>>

\* there must be a container to act on
RunLifecycle ==
    LET s == svcJob.svc IN
    /\ svcJob.pc = "lifecycle"
    /\ svcUp' = IF svcUp[s] = "none" THEN svcUp ELSE [svcUp EXCEPT ![s] = IF svcJob.act = "stop" THEN "stopped" ELSE "up"]
    /\ svcJob' = [svcJob EXCEPT !.pc = IF svcUp[s] = "none" THEN "failed" ELSE "done"]
    /\ UNCHANGED <<svcRow, svcFiles, svcQueue, svcReq, svcDel, svcMissed, svcLost, svcDropped, svcCalm, svcUsed>>

\* the connection is lost under the last command, which reads as success
LoseService ==
    LET s == svcJob.svc IN
    /\ svcJob.pc = "lifecycle" \/ (svcJob.pc = "up" /\ s \notin Stacks)
    /\ \E left \in {svcUp[s], "none", "up", "partly", "stopped"} : svcUp' = [svcUp EXCEPT ![s] = left]
    /\ SvcFault /\ svcDropped' = svcDropped \cup {s}
    /\ svcJob' = [svcJob EXCEPT !.pc = "done"]
    /\ UNCHANGED <<svcRow, svcFiles, svcQueue, svcReq, svcDel, svcMissed, svcLost, svcCalm>>

\* applyServiceMaintenance: the router of the hostnames the job read, or no files
ApplyMaintenance ==
    /\ svcJob.pc = "routing" /\ svcJob' = NoSvcJob
    /\ svcFiles' = [svcFiles EXCEPT ![svcJob.svc] = MaintenanceHosts(svcJob.row)]
    /\ svcMissed' = IF svcJob.row.hosts = svcRow[svcJob.svc].hosts THEN svcMissed \ {svcJob.svc} ELSE svcMissed
    /\ UNCHANGED <<svcRow, svcUp, svcQueue, svcReq, svcDel, svcLost, svcDropped, svcCalm, svcUsed>>

\* no connection (thrown again, and not retried), or one lost under the removal, which reads as success
MaintenanceFails ==
    /\ svcJob.pc = "routing" /\ SvcFault /\ svcJob' = NoSvcJob
    /\ svcMissed' = svcMissed \cup {svcJob.svc}
    /\ UNCHANGED <<svcRow, svcUp, svcFiles, svcQueue, svcReq, svcDel, svcLost, svcDropped, svcCalm>>

ServiceStepFails ==
    /\ svcJob.pc \in {"write", "join", "lifecycle"} /\ SvcFault
    /\ svcJob' = [svcJob EXCEPT !.pc = "failed"]
    /\ UNCHANGED <<svcRow, svcUp, svcFiles, svcQueue, svcReq, svcDel, svcMissed, svcLost, svcDropped, svcCalm>>

EndServiceJob ==
    LET s == svcJob.svc IN
    /\ svcJob.pc \in {"done", "failed"} /\ svcJob' = NoSvcJob
    /\ svcRow' = IF ~HasService(s) THEN svcRow
                 ELSE [svcRow EXCEPT ![s].status = IF svcJob.pc = "failed" THEN "error"
                                                   ELSE IF svcJob.act = "stop" THEN "stopped" ELSE "running"]
    /\ UNCHANGED <<svcUp, svcFiles, svcQueue, svcReq, svcDel, svcMissed, svcLost, svcDropped, svcCalm, svcUsed>>

ServiceWorkerDies ==
    /\ svcJob # NoSvcJob /\ SvcFault /\ svcJob' = NoSvcJob
    /\ IF svcJob.tries = 0
       THEN /\ svcQueue' = <<[svc |-> svcJob.svc, act |-> svcJob.act, tries |-> 1]>> \o svcQueue
            /\ UNCHANGED <<svcLost, svcMissed>>
       ELSE IF svcJob.act = "routing"
       THEN svcMissed' = svcMissed \cup {svcJob.svc} /\ UNCHANGED <<svcQueue, svcLost>>
       ELSE svcLost' = svcLost \cup {svcJob.svc} /\ UNCHANGED <<svcQueue, svcMissed>>
    /\ UNCHANGED <<svcRow, svcUp, svcFiles, svcReq, svcDel, svcDropped, svcCalm>>

SvcInit ==
    /\ svcRow = [s \in Svcs |-> NoServiceRow] /\ svcUp = [s \in Svcs |-> "none"] /\ svcFiles = [s \in Svcs |-> {}]
    /\ svcQueue = <<>> /\ svcJob = NoSvcJob /\ svcReq = NoSvcReq /\ svcDel = NoSvcDel
    /\ svcMissed = {} /\ svcLost = {} /\ svcDropped = {} /\ svcCalm = {}
    /\ svcUsed = [request |-> 0, fault |-> 0]

SvcRequests ==
    \/ \E s \in Svcs :
        \/ \E H \in SUBSET Hosts :
            \/ \E ready \in BOOLEAN : CreateService(s, H, ready) \/ SetCompose(s, H, ready)
            \/ SetServiceDomain(s, H) \/ BeginDomains(s, H)
        \/ \E act \in Lifecycle : ServiceLifecycle(s, act)
        \/ SetServiceEnv(s) \/ SetMaintenance(s) \/ Redeploy(s) \/ ApplyServiceImage(s) \/ BeginDeleteService(s)
    \/ CommitDomains \/ TearDownService \/ DeleteServiceRow

SvcJobs ==
    \/ TakeServiceJob \/ WriteService \/ UpService \/ UpServicePartly \/ JoinNetwork \/ RunLifecycle
    \/ LoseService \/ ApplyMaintenance \/ MaintenanceFails \/ ServiceStepFails \/ EndServiceJob \/ ServiceWorkerDies

SvcNext == SvcRequests \/ SvcJobs
SvcSpec == SvcInit /\ [][SvcNext]_svcVars

----------------------------------------------------------------------------
(* Properties                                                              *)

\* A service recorded as provisioning has a deploy or lifecycle job waiting or running, unless the queue gave
\* that job up: the lifecycle route refuses while "provisioning", so a status nobody owns would lock the service.
ServiceWorkIsOwned ==
    \A s \in Svcs : svcRow[s].status = "provisioning" => Working(s, Changing) \/ s \in svcLost

\* Once no deploy or lifecycle job is pending, "running" means every container is up and "stopped" means they
\* are stopped, however requests and jobs interleaved; a command whose connection was lost, and a job given up
\* after an earlier one wrote its status, are exempt.
ServiceStatusIsReal ==
    \A s \in Svcs \ (svcDropped \cup svcLost) :
        ~Working(s, Changing) /\ svcDel.svc # s =>
            /\ svcRow[s].status = "running" => svcUp[s] = "up"
            /\ svcRow[s].status = "stopped" => svcUp[s] = "stopped"

\* With no routing job pending, the maintenance router claims exactly the hostnames of a service in maintenance
\* and nothing else: a router left on a hostname answers 503 for whoever has it next.  Exempt is what the code
\* is known to leave behind (svcMissed).
MaintenanceFollowsRow ==
    \A s \in Svcs \ svcMissed :
        HasService(s) /\ ~Working(s, {"routing"}) /\ svcDel.svc # s => svcFiles[s] = MaintenanceHosts(svcRow[s])

\* A service deleted with no job and no other request around leaves no container and no maintenance router.
DeletedServiceIsGone ==
    \A s \in Svcs : svcRow[s].status = "deleted" /\ s \in svcCalm => svcUp[s] = "none" /\ svcFiles[s] = {}
============================================================================
