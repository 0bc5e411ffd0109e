----------------------------- MODULE AppControl -----------------------------
(***************************************************************************)
(* One application between two servers: its settings, its lifecycle and    *)
(* routing jobs, the parts of a deploy that touch what they touch, moving  *)
(* it to another server and deleting it.                                   *)
(*                                                                         *)
(* The three jobs run in queues of their own, one job of a queue at a      *)
(* time, and write the same files: the proxy's file with the routing and   *)
(* the waker's file.  A job works from the row it read when it started.    *)
(* OneAtATime is the bound the runs put on how far they overlap.           *)
(***************************************************************************)
EXTENDS Integers, Sequences, FiniteSets

CONSTANTS
    Servers,       \* servers of the team
    Wildcard,      \* those with an active proxy and a wildcard domain
    Fields,        \* settings that take effect with the next deploy
    MaxAppRequests,   \* requests that change something
    MaxDeploys,    \* deploys
    MaxAppFaults      \* failed or lost commands and deaths of the worker

ASSUME ControlAssumption ==
    /\ IsFiniteSet(Servers) /\ Wildcard \subseteq Servers
    /\ Fields \subseteq {"env", "limits", "advanced", "volumes"}
    /\ MaxAppRequests \in Nat /\ MaxDeploys \in Nat /\ MaxAppFaults \in Nat

VARIABLES
    app,         \* the applications row
    container,   \* the container on each server
    proxy,       \* the proxy's routing file on each server
    wake,        \* the waker's file on each server
    lifecycle,   \* application-lifecycle: waiting actions and the job in progress
    routing,     \* application-routing
    deploy,      \* application-deploy
    req,         \* a request between its reads and its write
    lastOk,      \* history: the last deploy that started ended as a success
    appUsed         \* what was used up of the bounds

appVars == <<app, container, proxy, wake, lifecycle, routing, deploy, req, lastOk, appUsed>>

Domain == {"none", "a", "b", "wild"}
Route == [domain : Domain, sleep : BOOLEAN, maintenance : BOOLEAN, auth : BOOLEAN]
NoRoute == [domain |-> "none", sleep |-> FALSE, maintenance |-> FALSE, auth |-> FALSE]
Status == {"idle", "deploying", "running", "stopped", "error"}

\* a snapshot is the sequence of at most one configuration: deployed_config or null
Snapshot == {<<>>} \cup {<<c>> : c \in SUBSET Fields}
AppRow == [exists : BOOLEAN, status : Status, server : Servers, route : Route, conf : SUBSET Fields, deployed : Snapshot]

NoContainer == [state |-> "absent", conf |-> {}]
NoFile == [domain |-> "none", backend |-> "none", auth |-> FALSE]
NoWake == [present |-> FALSE, idle |-> FALSE, maintenance |-> FALSE]
RouteFile == [domain : Domain, backend : {"none", "container", "waker"}, auth : BOOLEAN]
WakeFile == [present : BOOLEAN, idle : BOOLEAN, maintenance : BOOLEAN]

Resting == [pc |-> "rest", action |-> "none", loaded |-> <<>>]
NoAppReq == [op |-> "none", route |-> NoRoute, server |-> <<>>, force |-> FALSE]
Action == {"start", "stop", "restart"}

AppTypeOK ==
    /\ app \in AppRow
    /\ container \in [Servers -> [state : {"absent", "running", "stopped"}, conf : SUBSET Fields]]
    /\ proxy \in [Servers -> RouteFile]
    /\ wake \in [Servers -> WakeFile]
    /\ lifecycle.queue \in Seq(Action) /\ routing.queue \in Nat /\ deploy.queue \in Nat
    /\ \A job \in {lifecycle.job, routing.job, deploy.job} :
          /\ job.pc \in {"rest", "mark", "switch", "exec", "ok", "failed", "remove", "wake", "dynamic", "direct", "cleanup",
                         "done"}
          /\ job.loaded = <<>> \/ Head(job.loaded) \in AppRow
    /\ req.op \in {"none", "sleep", "protection", "move", "commitMove", "delete", "commitDelete"}
    /\ lastOk \in BOOLEAN
    /\ appUsed \in [{"request", "deploy", "fault"} -> Nat]

UseApp(what, bound) == appUsed[what] < bound /\ appUsed' = [appUsed EXCEPT ![what] = @ + 1]

----------------------------------------------------------------------------
(* AppSettings                                                                *)

\* pendingFor, pendingChanges: the settings that differ from what the last deploy ran with
pendingChanges == IF app.deployed = <<>> THEN {} ELSE (app.conf \ app.deployed[1]) \cup (app.deployed[1] \ app.conf)

\* a settings route: load the application, write one column
Edit(field) ==
    /\ app.exists /\ field \in Fields
    /\ UseApp("request", MaxAppRequests)
    /\ app' = [app EXCEPT !.conf = IF field \in @ THEN @ \ {field} ELSE @ \cup {field}]
    /\ UNCHANGED <<container, proxy, wake, lifecycle, routing, deploy, req, lastOk>>

SetEnv == Edit("env")
SetLimits == Edit("limits")
SetAdvanced == Edit("advanced")
AddVolume == Edit("volumes") /\ "volumes" \notin app.conf
EditVolume == Edit("volumes") /\ "volumes" \in app.conf
\* the row goes first; the docker volume stays when the container still has it mounted
RemoveVolume == Edit("volumes") /\ "volumes" \in app.conf

QueueRouting == routing' = [routing EXCEPT !.queue = @ + 1]

\* PUT domain: without a domain there is no sleep; a deployed application gets its routing at once
SetDomain(d) ==
    /\ app.exists /\ d # app.route.domain
    /\ UseApp("request", MaxAppRequests)
    /\ app' = [app EXCEPT !.route.domain = d, !.route.sleep = IF d = "none" THEN FALSE ELSE @]
    /\ IF app.deployed # <<>> THEN QueueRouting ELSE UNCHANGED routing
    /\ UNCHANGED <<container, proxy, wake, lifecycle, deploy, req, lastOk>>

\* PUT sleep: the domain is checked on the row that was read, the write comes later
BeginSleep(on) ==
    /\ app.exists /\ req = NoAppReq
    /\ on => app.route.domain # "none"
    /\ UseApp("request", MaxAppRequests)
    /\ req' = [NoAppReq EXCEPT !.op = "sleep", !.route.sleep = on]
    /\ UNCHANGED <<app, container, proxy, wake, lifecycle, routing, deploy, lastOk>>

WriteSleep ==
    /\ req.op = "sleep"
    /\ req' = NoAppReq
    /\ app' = IF app.exists THEN [app EXCEPT !.route.sleep = req.route.sleep] ELSE app
    /\ IF app.exists /\ app.route.domain # "none" THEN QueueRouting ELSE UNCHANGED routing
    /\ UNCHANGED <<container, proxy, wake, lifecycle, deploy, lastOk, appUsed>>

\* PUT protection: basic auth and maintenance mode, for applications with a domain
BeginProtection(auth, maintenance) ==
    /\ app.exists /\ req = NoAppReq
    /\ app.route.domain # "none"
    /\ UseApp("request", MaxAppRequests)
    /\ req' = [NoAppReq EXCEPT !.op = "protection", !.route.auth = auth, !.route.maintenance = maintenance]
    /\ UNCHANGED <<app, container, proxy, wake, lifecycle, routing, deploy, lastOk>>

WriteProtection ==
    /\ req.op = "protection"
    /\ req' = NoAppReq
    /\ app' = IF app.exists
              THEN [app EXCEPT !.route.auth = req.route.auth, !.route.maintenance = req.route.maintenance] ELSE app
    /\ IF app.exists THEN QueueRouting ELSE UNCHANGED routing
    /\ UNCHANGED <<container, proxy, wake, lifecycle, deploy, lastOk, appUsed>>

----------------------------------------------------------------------------
(* Moving and deleting                                                     *)

\* PUT server: refused while a deployment is in progress
BeginMove(target, force) ==
    /\ app.exists /\ req = NoAppReq
    /\ app.status # "deploying" /\ target # app.server
    /\ UseApp("request", MaxAppRequests)
    /\ req' = [NoAppReq EXCEPT !.op = "move", !.server = <<app.server, target>>, !.force = force]
    /\ UNCHANGED <<app, container, proxy, wake, lifecycle, routing, deploy, lastOk>>

BeginDelete ==
    /\ app.exists /\ req = NoAppReq
    /\ UseApp("request", MaxAppRequests)
    /\ req' = [NoAppReq EXCEPT !.op = "delete", !.server = <<app.server>>]
    /\ UNCHANGED <<app, container, proxy, wake, lifecycle, routing, deploy, lastOk>>

\* tearDownApplication: the container and the proxy's file go, the waker's file stays
TornDown(s) ==
    /\ container' = [container EXCEPT ![s] = NoContainer]
    /\ proxy' = [proxy EXCEPT ![s] = NoFile]

TearDown ==
    /\ req.op \in {"move", "delete"}
    /\ TornDown(req.server[1])
    /\ req' = [req EXCEPT !.op = IF @ = "move" THEN "commitMove" ELSE "commitDelete"]
    /\ UNCHANGED <<app, wake, lifecycle, routing, deploy, lastOk, appUsed>>

\* no connection: a move is given up unless it is forced, a deletion goes on.  A connection lost under the command
\* reads as a teardown that succeeded
TearDownFails(lost) ==
    /\ req.op \in {"move", "delete"}
    /\ UseApp("fault", MaxAppFaults)
    /\ req' = IF req.op = "delete" THEN [req EXCEPT !.op = "commitDelete"]
              ELSE IF lost \/ req.force THEN [req EXCEPT !.op = "commitMove"] ELSE NoAppReq
    /\ UNCHANGED <<app, container, proxy, wake, lifecycle, routing, deploy, lastOk>>

CommitMove ==
    /\ req.op = "commitMove"
    /\ req' = NoAppReq
    /\ app' = [app EXCEPT !.server = req.server[2], !.status = "idle", !.deployed = <<>>]
    /\ UNCHANGED <<container, proxy, wake, lifecycle, routing, deploy, lastOk, appUsed>>

CommitDelete ==
    /\ req.op = "commitDelete"
    /\ req' = NoAppReq
    /\ app' = [app EXCEPT !.exists = FALSE]
    /\ UNCHANGED <<container, proxy, wake, lifecycle, routing, deploy, lastOk, appUsed>>

----------------------------------------------------------------------------
(* Lifecycle jobs                                                          *)

RequestLifecycle(action) ==
    /\ app.exists
    /\ app.status # "deploying"
    /\ UseApp("request", MaxAppRequests)
    /\ lifecycle' = [lifecycle EXCEPT !.queue = Append(@, action)]
    /\ UNCHANGED <<app, container, proxy, wake, routing, deploy, req, lastOk>>

TakeLifecycle ==
    /\ lifecycle.job.pc = "rest" /\ lifecycle.queue # <<>>
    /\ lifecycle' = [queue |-> Tail(lifecycle.queue),
                     job |-> IF app.exists THEN [pc |-> "exec", action |-> Head(lifecycle.queue), loaded |-> <<app>>]
                             ELSE Resting]
    /\ UNCHANGED <<app, container, proxy, wake, routing, deploy, req, lastOk, appUsed>>

\* buildLifecycleCommand, lifecycleResultStatus
ResultState(action) == IF action = "stop" THEN "stopped" ELSE "running"

\* docker start, stop or restart: fails without a container
ExecLifecycle ==
    LET job == lifecycle.job
        s == job.loaded[1].server
        found == container[s].state # "absent"
    IN  /\ job.pc = "exec"
        /\ lifecycle' = [lifecycle EXCEPT !.job.pc = IF found THEN "ok" ELSE "failed"]
        /\ container' = IF found THEN [container EXCEPT ![s].state = ResultState(job.action)] ELSE container
        /\ UNCHANGED <<app, proxy, wake, routing, deploy, req, lastOk, appUsed>>

\* the command fails, or its connection is lost and it reads as exit code 0
LifecycleFault(pc) ==
    /\ lifecycle.job.pc = "exec"
    /\ UseApp("fault", MaxAppFaults)
    /\ lifecycle' = [lifecycle EXCEPT !.job.pc = pc]
    /\ UNCHANGED <<app, container, proxy, wake, routing, deploy, req, lastOk>>

SetLifecycleStatus ==
    /\ lifecycle.job.pc \in {"ok", "failed"}
    /\ app' = [app EXCEPT !.status = IF ~app.exists THEN @
                                     ELSE IF lifecycle.job.pc = "ok" THEN ResultState(lifecycle.job.action) ELSE "error"]
    /\ lifecycle' = [lifecycle EXCEPT !.job = Resting]
    /\ UNCHANGED <<container, proxy, wake, routing, deploy, req, lastOk, appUsed>>

----------------------------------------------------------------------------
(* Routing: a job of its own, and a step of a deploy                       *)

\* what writeAppRouting is to write for an application row
Backend(r) == IF r.sleep \/ r.maintenance THEN "waker" ELSE "container"
WantedFile(r) == IF r.domain = "none" THEN NoFile ELSE [domain |-> r.domain, backend |-> Backend(r), auth |-> r.auth]
WantedWake(r) == IF r.domain = "none" \/ Backend(r) = "container" THEN NoWake
                 ELSE [present |-> TRUE, idle |-> r.sleep, maintenance |-> r.maintenance]

\* mutant: the proxy is pointed at the waker before the waker knows the application
FirstWriteProxyFirst(r) == IF r.domain = "none" THEN "remove" ELSE IF Backend(r) = "waker" THEN "dynamic" ELSE "direct"

\* where writeAppRouting begins
FirstWrite(r) == IF r.domain = "none" THEN "remove" ELSE IF Backend(r) = "waker" THEN "wake" ELSE "direct"

Started(s) == [container EXCEPT ![s].state = IF @ = "absent" THEN @ ELSE "running"]

\* one step of writeAppRouting of a job: the next pc and what it does to the server's files and container
WriteStep(job) ==
    LET r == job.loaded[1].route
        s == job.loaded[1].server
    IN  \/ /\ job.pc = "remove"
           /\ proxy' = [proxy EXCEPT ![s] = NoFile] /\ wake' = [wake EXCEPT ![s] = NoWake] /\ container' = Started(s)
        \/ /\ job.pc = "wake"
           /\ wake' = [wake EXCEPT ![s] = WantedWake(r)] /\ UNCHANGED <<proxy, container>>
        \/ /\ job.pc \in {"dynamic", "direct"}
           /\ proxy' = [proxy EXCEPT ![s] = WantedFile(r)] /\ UNCHANGED <<wake, container>>
        \/ /\ job.pc = "cleanup"
           /\ wake' = [wake EXCEPT ![s] = NoWake] /\ container' = Started(s) /\ UNCHANGED proxy

NextWrite(pc) == CASE pc = "wake" -> "dynamic" [] pc = "direct" -> "cleanup" [] OTHER -> "done"

Writing(job) == job.pc \in {"remove", "wake", "dynamic", "direct", "cleanup"}

\* mutant: the route's middleware is left out of what the job writes
TakeRoutingNoAuth ==
    /\ routing.job.pc = "rest" /\ routing.queue > 0
    /\ routing' = [queue |-> routing.queue - 1,
                   job |-> IF app.exists THEN [pc |-> FirstWrite(app.route), action |-> "none",
                                               loaded |-> <<[app EXCEPT !.route.auth = FALSE]>>]
                           ELSE Resting]
    /\ UNCHANGED <<app, container, proxy, wake, lifecycle, deploy, req, lastOk, appUsed>>

\* mutant: a job is taken twice off the queue
TakeRoutingTwice ==
    /\ routing.job.pc = "rest" /\ routing.queue > 0
    /\ routing' = [queue |-> routing.queue - 2, job |-> Resting]
    /\ UNCHANGED <<app, container, proxy, wake, lifecycle, deploy, req, lastOk, appUsed>>

\* applicationRouting: works from the row's own domain
TakeRouting ==
    /\ routing.job.pc = "rest" /\ routing.queue > 0
    /\ routing' = [queue |-> routing.queue - 1,
                   job |-> IF app.exists THEN [pc |-> FirstWrite(app.route), action |-> "none", loaded |-> <<app>>]
                           ELSE Resting]
    /\ UNCHANGED <<app, container, proxy, wake, lifecycle, deploy, req, lastOk, appUsed>>

WriteRouting ==
    /\ Writing(routing.job)
    /\ WriteStep(routing.job)
    /\ routing' = [routing EXCEPT !.job.pc = NextWrite(@)]
    /\ UNCHANGED <<app, lifecycle, deploy, req, lastOk, appUsed>>

EndRouting ==
    /\ routing.job.pc = "done"
    /\ routing' = [routing EXCEPT !.job = Resting]
    /\ UNCHANGED <<app, container, proxy, wake, lifecycle, deploy, req, lastOk, appUsed>>

\* the job throws and is not tried again
RoutingFault ==
    /\ Writing(routing.job)
    /\ UseApp("fault", MaxAppFaults)
    /\ routing' = [routing EXCEPT !.job = Resting]
    /\ UNCHANGED <<app, container, proxy, wake, lifecycle, deploy, req, lastOk>>

----------------------------------------------------------------------------
(* Deploys, as far as they share state with the rest                       *)

RequestDeploy ==
    /\ app.exists
    /\ UseApp("deploy", MaxDeploys)
    /\ deploy' = [deploy EXCEPT !.queue = @ + 1]
    /\ UNCHANGED <<app, container, proxy, wake, lifecycle, routing, req, lastOk>>

\* resolveDomain: a deploy falls back to the server's wildcard domain
ResolveDomain(r, s) == IF r.domain # "none" THEN r.domain ELSE IF s \in Wildcard THEN "wild" ELSE "none"

TakeDeploy ==
    /\ deploy.job.pc = "rest" /\ deploy.queue > 0
    /\ deploy' = [queue |-> deploy.queue - 1,
                  job |-> IF app.exists THEN [pc |-> "mark", action |-> "none", loaded |-> <<app>>] ELSE Resting]
    /\ UNCHANGED <<app, container, proxy, wake, lifecycle, routing, req, lastOk, appUsed>>

\* mutant: the baseline is taken from the row as it is by then
MarkDeployingLate ==
    /\ deploy.job.pc = "mark"
    /\ app' = [app EXCEPT !.status = "deploying", !.deployed = <<app.conf>>]
    /\ deploy' = [deploy EXCEPT !.job.pc = "switch"]
    /\ lastOk' = FALSE
    /\ UNCHANGED <<container, proxy, wake, lifecycle, routing, req, appUsed>>

\* the status, and the baseline of the pending changes: what this deploy runs with
MarkDeploying ==
    /\ deploy.job.pc = "mark"
    /\ app' = IF app.exists THEN [app EXCEPT !.status = "deploying", !.deployed = <<deploy.job.loaded[1].conf>>] ELSE app
    /\ deploy' = [deploy EXCEPT !.job.pc = "switch"]
    /\ lastOk' = FALSE
    /\ UNCHANGED <<container, proxy, wake, lifecycle, routing, req, appUsed>>

\* the old container is replaced by one with the settings that were read
Switch ==
    LET read == deploy.job.loaded[1]
        r == [read.route EXCEPT !.domain = ResolveDomain(read.route, read.server)]
    IN  /\ deploy.job.pc = "switch"
        /\ container' = [container EXCEPT ![read.server] = [state |-> "running", conf |-> read.conf]]
        /\ deploy' = [deploy EXCEPT !.job.pc = FirstWrite(r), !.job.loaded = <<[read EXCEPT !.route = r]>>]
        /\ UNCHANGED <<app, proxy, wake, lifecycle, routing, req, lastOk, appUsed>>

DeployRouting ==
    /\ Writing(deploy.job)
    /\ WriteStep(deploy.job)
    /\ deploy' = [deploy EXCEPT !.job.pc = NextWrite(@)]
    /\ UNCHANGED <<app, lifecycle, routing, req, lastOk, appUsed>>

DeployDone ==
    /\ deploy.job.pc = "done"
    /\ app' = IF app.exists THEN [app EXCEPT !.status = "running"] ELSE app
    /\ deploy' = [deploy EXCEPT !.job = Resting]
    /\ lastOk' = TRUE
    /\ UNCHANGED <<container, proxy, wake, lifecycle, routing, req, appUsed>>

\* the catch block: any step after the row was marked may fail
DeployFails ==
    /\ Writing(deploy.job) \/ deploy.job.pc = "switch"
    /\ UseApp("fault", MaxAppFaults)
    /\ app' = IF app.exists THEN [app EXCEPT !.status = "error"] ELSE app
    /\ deploy' = [deploy EXCEPT !.job = Resting]
    /\ UNCHANGED <<container, proxy, wake, lifecycle, routing, req, lastOk>>

\* the worker dies: BullMQ starts every job that was in progress again
AppWorkerDies ==
    LET Again(q) == [queue |-> IF q.job = Resting THEN q.queue ELSE q.queue + 1, job |-> Resting]
    IN  /\ UseApp("fault", MaxAppFaults)
        /\ <<lifecycle.job, routing.job, deploy.job>> # <<Resting, Resting, Resting>>
        /\ routing' = Again(routing) /\ deploy' = Again(deploy)
        /\ lifecycle' = [queue |-> IF lifecycle.job = Resting THEN lifecycle.queue
                                   ELSE <<lifecycle.job.action>> \o lifecycle.queue, job |-> Resting]
        /\ UNCHANGED <<app, container, proxy, wake, req, lastOk>>

----------------------------------------------------------------------------
(* Specification                                                           *)

AppInit ==
    /\ \E s \in Servers :
          app = [exists |-> TRUE, status |-> "idle", server |-> s, route |-> NoRoute, conf |-> {}, deployed |-> <<>>]
    /\ container = [s \in Servers |-> NoContainer]
    /\ proxy = [s \in Servers |-> NoFile] /\ wake = [s \in Servers |-> NoWake]
    /\ lifecycle = [queue |-> <<>>, job |-> Resting]
    /\ routing = [queue |-> 0, job |-> Resting] /\ deploy = [queue |-> 0, job |-> Resting]
    /\ req = NoAppReq /\ lastOk = FALSE
    /\ appUsed = [what \in {"request", "deploy", "fault"} |-> 0]

AppSettings ==
    \/ SetEnv \/ SetLimits \/ SetAdvanced \/ AddVolume \/ EditVolume \/ RemoveVolume
    \/ \E d \in {"none", "a", "b"} : SetDomain(d)
    \/ \E on \in BOOLEAN : BeginSleep(on)
    \/ \E auth, maintenance \in BOOLEAN : BeginProtection(auth, maintenance)
    \/ WriteSleep \/ WriteProtection

MoveOrDelete ==
    \/ \E target \in Servers, force \in BOOLEAN : BeginMove(target, force)
    \/ BeginDelete \/ TearDown \/ CommitMove \/ CommitDelete
    \/ \E lost \in BOOLEAN : TearDownFails(lost)

AppJobs ==
    \/ \E action \in Action : RequestLifecycle(action)
    \/ TakeLifecycle \/ ExecLifecycle \/ SetLifecycleStatus
    \/ \E pc \in {"ok", "failed"} : LifecycleFault(pc)
    \/ TakeRouting \/ WriteRouting \/ EndRouting \/ RoutingFault
    \/ RequestDeploy \/ TakeDeploy \/ MarkDeploying \/ Switch \/ DeployRouting \/ DeployDone \/ DeployFails
    \/ AppWorkerDies

AppNext == AppSettings \/ MoveOrDelete \/ AppJobs

AppSpec == AppInit /\ [][AppNext]_appVars

\* Bound of the runs, which nothing in the code enforces: a deploy and a routing job do not run at the same time, no domain
\* comes between the load of an application's first deploy and its mark, and no move overlaps a deploy.  See the hazards
\* of a deploy that writes the routing of a row it read before.
OneAtATime ==
    /\ deploy.job.pc # "rest" => routing.job.pc = "rest"
    /\ deploy.job.pc = "mark" /\ app.exists /\ app.deployed = <<>> => app.route = deploy.job.loaded[1].route
    /\ req.op \in {"move", "commitMove"} => deploy.job.pc = "rest"

----------------------------------------------------------------------------
(* Properties                                                              *)

AppQuiet == /\ req = NoAppReq /\ routing = [queue |-> 0, job |-> Resting] /\ deploy = [queue |-> 0, job |-> Resting]

\* Whatever order settings and jobs come in, once nothing is left to do and nothing failed, the files on the server
\* say what the row of a deployed application says (applications.ts, applicationRouting.ts).
RoutingSettles ==
    AppQuiet /\ appUsed["fault"] = 0 /\ app.exists /\ app.deployed # <<>> /\ app.route.domain # "none"
        => proxy[app.server] = WantedFile(app.route) /\ wake[app.server] = WantedWake(app.route)

\* The proxy never sends an application's traffic to a waker that has no entry for it, also between the writes of
\* writeAppRouting, when one of them fails, and when the worker dies (appRouting.ts).
WakerKnowsItsApps == \A s \in Servers : proxy[s].backend = "waker" => wake[s].present

\* The banner of pending changes is empty after a deploy that succeeded only if the container runs with the settings
\* of the row (applications.ts pendingFor, deployApplication.ts).
NothingPendingMeansCurrent ==
    AppQuiet /\ lastOk /\ app.exists /\ app.deployed # <<>> /\ pendingChanges = {}
        => container[app.server].conf = app.conf

=============================================================================
