----------------------------- MODULE ServerSetup -----------------------------
(***************************************************************************)
(* One server of a team: its connection check, the proxy and its settings, *)
(* the panel's own domain, the Cloudflare tunnel, a registry's certificate *)
(* authority, the schedule of the Docker cleanup, system updates, and the  *)
(* removal of the server.                                                  *)
(*                                                                         *)
(* A request writes the row and queues a job; the job reads the row when   *)
(* it starts and writes its outcome when it ends.  Jobs of one queue run   *)
(* one at a time, jobs of different queues and requests at any time.       *)
(***************************************************************************)
EXTENDS Integers, Sequences, FiniteSets

CONSTANTS
    MaxOps,           \* requests
    MaxServerFaults   \* failed or lost commands and deaths of the worker

VARIABLES
    srv,        \* the servers row
    resources,  \* applications, databases and services on the server
    host,       \* the machine: containers and files
    pq, tq, cq, \* proxy-provision, cloudflare-tunnel and ca-certificate: waiting jobs and the one in progress
    ca,         \* the ca_certificates row
    cleanup,    \* the docker_cleanups row, its scheduler and the pass of ensureDefaultCleanups
    panel,      \* the panel's domain in instance_settings
    ask,        \* a request between its reads and its writes
    clean,      \* history: no request overlapped another operation, and nothing failed
    ops         \* what was used up of the bounds

serverVars == <<srv, resources, host, pq, tq, cq, ca, cleanup, panel, ask, clean, ops>>

ProxyStatus == {"inactive", "provisioning", "active", "error"}
Flags == [traffic : BOOLEAN, page : BOOLEAN]
NoFlags == [traffic |-> FALSE, page |-> FALSE]
IdleJob == [queue |-> <<>>, job |-> "none", pc |-> "rest", flags |-> NoFlags]
NoAsk == [op |-> "none", on |-> FALSE]

ServerTypeOK ==
    /\ srv.exists \in BOOLEAN /\ srv.status \in {"pending", "connected", "error"} /\ srv.email \in BOOLEAN
    /\ srv.flags \in Flags /\ srv.proxy \in ProxyStatus /\ srv.tunnel \in ProxyStatus /\ srv.token \in BOOLEAN
    /\ srv.auto \in BOOLEAN /\ srv.security \in 0 .. 2 /\ srv.notified \in 0 .. 2
    /\ resources \in 0 .. 1
    /\ host.proxy \in {"absent", "running"} /\ host.ran \in Flags /\ host.static \in Flags
    /\ {host.pageFile, host.wakerPage, host.panelFile, host.tunnel, host.ca, host.auto} \subseteq BOOLEAN
    /\ pq.queue \in Seq({"provision", "restart", "panel"}) /\ tq.queue \in Seq({"install", "remove"})
    /\ cq.queue \in Seq({"install", "remove"})
    /\ pq.pc \in {"rest", "static", "page", "run", "waker", "restart", "panel", "done", "failed"}
    /\ ca \in {"none", "queued", "success", "failed"}
    /\ cleanup.row \in {"none", "on", "off"} /\ cleanup.scheduler \in BOOLEAN
    /\ cleanup.pass \in {"rest", "insert", "schedule"}
    /\ panel \in BOOLEAN /\ clean \in BOOLEAN
    /\ ask.op \in {"none", "cleanup", "cleanupWrite", "delete"}

Busy == pq # IdleJob \/ tq # IdleJob \/ cq # IdleJob \/ ask # NoAsk \/ cleanup.pass # "rest"

Use(what, bound) == ops[what] < bound /\ ops' = [ops EXCEPT ![what] = @ + 1]
ServerAsk == srv.exists /\ Use("request", MaxOps) /\ clean' = (clean /\ ~Busy)
Fault == Use("fault", MaxServerFaults) /\ clean' = FALSE
Queued(q, what) == [q EXCEPT !.queue = Append(@, what)]

----------------------------------------------------------------------------
(* Requests                                                                *)

SetServerDomain ==
    /\ ServerAsk /\ srv' = [srv EXCEPT !.email = ~@]
    /\ UNCHANGED <<resources, host, pq, tq, cq, ca, cleanup, panel, ask>>

\* mutant: the proxy is not provisioned again
SetProxyFlagsOnly(flag) ==
    /\ ServerAsk /\ srv' = [srv EXCEPT !.flags[flag] = ~@]
    /\ UNCHANGED <<resources, host, pq, tq, cq, ca, cleanup, panel, ask>>

\* traffic analytics and the error page: an active proxy is provisioned again
SetProxyFlags(flag) ==
    /\ ServerAsk /\ srv' = [srv EXCEPT !.flags[flag] = ~@]
    /\ pq' = IF srv.proxy = "active" THEN Queued(pq, "provision") ELSE pq
    /\ UNCHANGED <<resources, host, tq, cq, ca, cleanup, panel, ask>>

ActivateProxy ==
    /\ ServerAsk /\ srv.email
    /\ srv' = [srv EXCEPT !.proxy = "provisioning"] /\ pq' = Queued(pq, "provision")
    /\ UNCHANGED <<resources, host, tq, cq, ca, cleanup, panel, ask>>

RestartProxy ==
    /\ ServerAsk /\ srv.proxy \in {"active", "error"}
    /\ srv' = [srv EXCEPT !.proxy = "provisioning"] /\ pq' = Queued(pq, "restart")
    /\ UNCHANGED <<resources, host, tq, cq, ca, cleanup, panel, ask>>

\* the panel's domain: setting it needs an active proxy with an e-mail, removing it does not
SetPanelDomain ==
    /\ ServerAsk
    /\ panel \/ (srv.proxy = "active" /\ srv.email)
    /\ panel' = ~panel /\ pq' = Queued(pq, "panel")
    /\ UNCHANGED <<srv, resources, host, tq, cq, ca, cleanup, ask>>

SetTunnel ==
    /\ ServerAsk
    /\ srv' = [srv EXCEPT !.token = TRUE, !.tunnel = "provisioning"] /\ tq' = Queued(tq, "install")
    /\ UNCHANGED <<resources, host, pq, cq, ca, cleanup, panel, ask>>

RemoveTunnel ==
    /\ ServerAsk
    /\ srv' = [srv EXCEPT !.tunnel = "provisioning"] /\ tq' = Queued(tq, "remove")
    /\ UNCHANGED <<resources, host, pq, cq, ca, cleanup, panel, ask>>

AddCaCertificate ==
    /\ ServerAsk /\ ca = "none"
    /\ ca' = "queued" /\ cq' = Queued(cq, "install")
    /\ UNCHANGED <<srv, resources, host, pq, tq, cleanup, panel, ask>>

RemoveCaCertificate ==
    /\ ServerAsk /\ ca # "none"
    /\ ca' = "queued" /\ cq' = Queued(cq, "remove")
    /\ UNCHANGED <<srv, resources, host, pq, tq, cleanup, panel, ask>>

\* automatic security updates: the command, and then what the machine really says
SetAutoUpdates ==
    /\ ServerAsk
    /\ host' = [host EXCEPT !.auto = ~@] /\ srv' = [srv EXCEPT !.auto = ~host.auto]
    /\ UNCHANGED <<resources, pq, tq, cq, ca, cleanup, panel, ask>>

\* checkServer: the test of the connection
CheckServer(ok) ==
    /\ ServerAsk /\ srv' = [srv EXCEPT !.status = IF ok THEN "connected" ELSE "error"]
    /\ UNCHANGED <<resources, host, pq, tq, cq, ca, cleanup, panel, ask>>

\* checkServerPatches: announced once per number of updates, and again after they were all installed
CheckPatches(n) ==
    /\ ServerAsk /\ srv.status = "connected"
    /\ srv' = [srv EXCEPT !.security = n, !.notified = IF n = 0 THEN 0 ELSE IF n > @ THEN n ELSE @]
    /\ UNCHANGED <<resources, host, pq, tq, cq, ca, cleanup, panel, ask>>

\* something is created on the server, or leaves it
ChangeResources ==
    /\ ServerAsk /\ resources' = 1 - resources
    /\ UNCHANGED <<srv, host, pq, tq, cq, ca, cleanup, panel, ask>>

\* DELETE server: counts what is on it first; the rows that hang on it go with it
BeginDeleteServer ==
    /\ ServerAsk /\ ask = NoAsk /\ resources = 0
    /\ ask' = [NoAsk EXCEPT !.op = "delete"]
    /\ UNCHANGED <<srv, resources, host, pq, tq, cq, ca, cleanup, panel>>

DeleteServer ==
    /\ ask.op = "delete"
    /\ srv' = [srv EXCEPT !.exists = FALSE]
    /\ resources' = 0 /\ ca' = "none" /\ cleanup' = [cleanup EXCEPT !.row = "none"]
    /\ ask' = NoAsk
    /\ UNCHANGED <<host, pq, tq, cq, panel, clean, ops>>

----------------------------------------------------------------------------
(* The schedule of the Docker cleanup                                      *)

\* PUT docker-cleanup: the scheduler first, then the row
BeginCleanup(on) ==
    /\ ServerAsk /\ ask = NoAsk
    /\ ask' = [op |-> "cleanup", on |-> on]
    /\ UNCHANGED <<srv, resources, host, pq, tq, cq, ca, cleanup, panel>>

ScheduleCleanup ==
    /\ ask.op = "cleanup"
    /\ cleanup' = [cleanup EXCEPT !.scheduler = ask.on]
    /\ ask' = [ask EXCEPT !.op = "cleanupWrite"]
    /\ UNCHANGED <<srv, resources, host, pq, tq, cq, ca, panel, clean, ops>>

WriteCleanup ==
    /\ ask.op = "cleanupWrite"
    /\ cleanup' = IF srv.exists THEN [cleanup EXCEPT !.row = IF ask.on THEN "on" ELSE "off"] ELSE cleanup
    /\ ask' = NoAsk
    /\ UNCHANGED <<srv, resources, host, pq, tq, cq, ca, panel, clean, ops>>

\* ensureDefaultCleanups: a server without a row gets one that is on, and a scheduler
DefaultCleanup ==
    /\ srv.exists /\ cleanup.pass = "rest" /\ cleanup.row = "none"
    /\ cleanup' = [cleanup EXCEPT !.pass = "insert"]
    /\ clean' = (clean /\ ask = NoAsk)
    /\ UNCHANGED <<srv, resources, host, pq, tq, cq, ca, panel, ask, ops>>

\* mutant: the row without its scheduler
InsertDefaultOnly ==
    /\ cleanup.pass = "insert"
    /\ cleanup' = [cleanup EXCEPT !.row = IF srv.exists /\ @ = "none" THEN "on" ELSE @, !.pass = "rest"]
    /\ UNCHANGED <<srv, resources, host, pq, tq, cq, ca, panel, ask, clean, ops>>

InsertDefault ==
    /\ cleanup.pass = "insert"
    /\ cleanup' = [cleanup EXCEPT !.row = IF srv.exists /\ @ = "none" THEN "on" ELSE @,
                                  !.pass = IF srv.exists THEN "schedule" ELSE "rest"]
    /\ UNCHANGED <<srv, resources, host, pq, tq, cq, ca, panel, ask, clean, ops>>

ScheduleDefault ==
    /\ cleanup.pass = "schedule"
    /\ cleanup' = [cleanup EXCEPT !.scheduler = TRUE, !.pass = "rest"]
    /\ UNCHANGED <<srv, resources, host, pq, tq, cq, ca, panel, ask, clean, ops>>

----------------------------------------------------------------------------
(* Jobs                                                                    *)

\* the first step of a proxy job: provisioning without an e-mail fails at once
FirstStep(what) ==
    CASE what = "provision" -> IF srv.email THEN "static" ELSE "failed"
      [] OTHER              -> what

TakeProxyJob ==
    /\ pq.pc = "rest" /\ pq.queue # <<>>
    /\ pq' = IF srv.exists
             THEN [queue |-> Tail(pq.queue), job |-> Head(pq.queue), pc |-> FirstStep(Head(pq.queue)), flags |-> srv.flags]
             ELSE [IdleJob EXCEPT !.queue = Tail(pq.queue)]
    /\ UNCHANGED <<srv, resources, host, tq, cq, ca, cleanup, panel, ask, clean, ops>>

\* what one step of a proxy job does to the machine
StepOnHost ==
    CASE pq.pc = "static"  -> [host EXCEPT !.static = pq.flags]
      [] pq.pc = "page"    -> [host EXCEPT !.pageFile = pq.flags.page]
      [] pq.pc = "run"     -> [host EXCEPT !.proxy = "running", !.ran = pq.flags]
      [] pq.pc = "waker"   -> [host EXCEPT !.wakerPage = pq.flags.page]
      [] pq.pc = "panel"   -> [host EXCEPT !.panelFile = panel]
      [] pq.pc = "restart" -> host

NextStep(pc) ==
    CASE pc = "static" -> "page" [] pc = "page" -> "run" [] pc = "run" -> "waker"
      [] pc = "restart" -> IF host.proxy = "running" THEN "done" ELSE "failed"
      [] OTHER -> "done"

Stepping == pq.pc \in {"static", "page", "run", "waker", "panel", "restart"}

ProxyStep ==
    /\ Stepping
    /\ host' = StepOnHost /\ pq' = [pq EXCEPT !.pc = NextStep(@)]
    /\ UNCHANGED <<srv, resources, tq, cq, ca, cleanup, panel, ask, clean, ops>>

\* a step throws, or its connection is lost and it reads as exit code 0
ProxyFault(lost) ==
    /\ Stepping /\ Fault
    /\ pq' = [pq EXCEPT !.pc = IF lost THEN NextStep(@) ELSE "failed"]
    /\ UNCHANGED <<srv, resources, host, tq, cq, ca, cleanup, panel, ask>>

\* mutant: a restart that fails leaves the status alone
EndProxyJobSilently ==
    /\ pq.pc \in {"done", "failed"}
    /\ srv' = IF srv.exists /\ pq.job # "panel" /\ ~(pq.job = "restart" /\ pq.pc = "failed")
              THEN [srv EXCEPT !.proxy = IF pq.pc = "done" THEN "active" ELSE "error"] ELSE srv
    /\ pq' = [IdleJob EXCEPT !.queue = pq.queue] /\ clean' = (clean /\ pq.pc = "done")
    /\ UNCHANGED <<resources, host, tq, cq, ca, cleanup, panel, ask, ops>>

\* the status of the proxy; the panel's route only sends a notification when it fails
EndProxyJob ==
    /\ pq.pc \in {"done", "failed"}
    /\ srv' = IF srv.exists /\ pq.job # "panel"
              THEN [srv EXCEPT !.proxy = IF pq.pc = "done" THEN "active" ELSE "error"] ELSE srv
    /\ pq' = [IdleJob EXCEPT !.queue = pq.queue] /\ clean' = (clean /\ pq.pc = "done")
    /\ UNCHANGED <<resources, host, tq, cq, ca, cleanup, panel, ask, ops>>

TakeTunnelJob ==
    /\ tq.pc = "rest" /\ tq.queue # <<>>
    /\ tq' = IF srv.exists THEN [IdleJob EXCEPT !.queue = Tail(tq.queue), !.job = Head(tq.queue), !.pc = "exec"]
             ELSE [IdleJob EXCEPT !.queue = Tail(tq.queue)]
    /\ UNCHANGED <<srv, resources, host, pq, cq, ca, cleanup, panel, ask, clean, ops>>

TunnelExec ==
    /\ tq.pc = "exec"
    /\ host' = [host EXCEPT !.tunnel = tq.job = "install"] /\ tq' = [tq EXCEPT !.pc = "done"]
    /\ UNCHANGED <<srv, resources, pq, cq, ca, cleanup, panel, ask, clean, ops>>

TunnelFault(lost) ==
    /\ tq.pc = "exec" /\ Fault
    /\ tq' = [tq EXCEPT !.pc = IF lost THEN "done" ELSE "failed"]
    /\ UNCHANGED <<srv, resources, host, pq, cq, ca, cleanup, panel, ask>>

\* the tunnel's status; a removed tunnel loses its token
EndTunnelJob ==
    /\ tq.pc \in {"done", "failed"}
    /\ srv' = IF ~srv.exists THEN srv
              ELSE IF tq.pc = "failed" THEN [srv EXCEPT !.tunnel = "error"]
              ELSE IF tq.job = "install" THEN [srv EXCEPT !.tunnel = "active"]
              ELSE [srv EXCEPT !.tunnel = "inactive", !.token = FALSE]
    /\ tq' = [IdleJob EXCEPT !.queue = tq.queue]
    /\ UNCHANGED <<resources, host, pq, cq, ca, cleanup, panel, ask, clean, ops>>

\* caCertificate: the file on the machine and the row, or the row's error
CaJob(ok) ==
    /\ cq.queue # <<>>
    /\ IF ok THEN UNCHANGED <<clean, ops>> ELSE Fault
    /\ LET install == Head(cq.queue) = "install" IN
          /\ host' = IF ok /\ srv.exists THEN [host EXCEPT !.ca = install] ELSE host
          /\ ca' = IF ~srv.exists \/ ca = "none" THEN ca
                   ELSE IF ~ok THEN "failed" ELSE IF install THEN "success" ELSE "none"
    /\ cq' = [cq EXCEPT !.queue = Tail(@)]
    /\ UNCHANGED <<srv, resources, pq, tq, cleanup, panel, ask>>

\* the worker dies: the jobs in progress are started again, a pass of ensureDefaultCleanups is made at the start
ServerWorkerDies ==
    LET Again(q) == IF q.pc = "rest" THEN q ELSE [IdleJob EXCEPT !.queue = <<q.job>> \o q.queue]
    IN  /\ Fault /\ (pq.pc # "rest" \/ tq.pc # "rest" \/ cleanup.pass # "rest")
        /\ pq' = Again(pq) /\ tq' = Again(tq) /\ cleanup' = [cleanup EXCEPT !.pass = "rest"]
        /\ UNCHANGED <<srv, resources, host, cq, ca, panel, ask>>

----------------------------------------------------------------------------
(* Specification                                                           *)

\* POST servers: a new row, nothing on the machine
ServerInit ==
    /\ srv = [exists |-> TRUE, status |-> "pending", email |-> FALSE, flags |-> NoFlags, proxy |-> "inactive",
              tunnel |-> "inactive", token |-> FALSE, auto |-> FALSE, security |-> 0, notified |-> 0]
    /\ resources = 0
    /\ host = [proxy |-> "absent", ran |-> NoFlags, static |-> NoFlags, pageFile |-> FALSE, wakerPage |-> FALSE,
               panelFile |-> FALSE, tunnel |-> FALSE, ca |-> FALSE, auto |-> FALSE]
    /\ pq = IdleJob /\ tq = IdleJob /\ cq = IdleJob
    /\ ca = "none" /\ cleanup = [row |-> "none", scheduler |-> FALSE, pass |-> "rest"]
    /\ panel = FALSE /\ ask = NoAsk /\ clean = TRUE
    /\ ops = [what \in {"request", "fault"} |-> 0]

ServerRequests ==
    \/ SetServerDomain \/ ActivateProxy \/ RestartProxy \/ SetPanelDomain \/ SetTunnel \/ RemoveTunnel
    \/ AddCaCertificate \/ RemoveCaCertificate \/ SetAutoUpdates \/ ChangeResources \/ BeginDeleteServer
    \/ \E flag \in {"traffic", "page"} : SetProxyFlags(flag)
    \/ \E ok \in BOOLEAN : CheckServer(ok)
    \/ \E n \in 0 .. 2 : CheckPatches(n)
    \/ \E on \in BOOLEAN : BeginCleanup(on)

ServerSteps ==
    \/ DeleteServer \/ ScheduleCleanup \/ WriteCleanup \/ DefaultCleanup \/ InsertDefault \/ ScheduleDefault
    \/ TakeProxyJob \/ ProxyStep \/ EndProxyJob \/ TakeTunnelJob \/ TunnelExec \/ EndTunnelJob
    \/ \E lost \in BOOLEAN : ProxyFault(lost) \/ TunnelFault(lost)
    \/ \E ok \in BOOLEAN : CaJob(ok)
    \/ ServerWorkerDies

ServerNext == ServerRequests \/ ServerSteps

ServerSpec == ServerInit /\ [][ServerNext]_serverVars

----------------------------------------------------------------------------
(* Properties                                                              *)

\* A proxy or a tunnel that is shown as being provisioned has a job that will say how it ended, also when the worker
\* dies in the middle of one and when requests overlap (servers.ts, provisionProxy.ts, cloudflareTunnel.ts).
ProvisioningIsOwned ==
    /\ srv.exists /\ srv.proxy = "provisioning" => pq.job \in {"provision", "restart"}
                                                     \/ \E i \in DOMAIN pq.queue : pq.queue[i] # "panel"
    /\ srv.exists /\ srv.tunnel = "provisioning" => tq # IdleJob

\* As long as users wait for one thing to end before they ask for the next and nothing fails (also not a provisioning
\* that finds the e-mail gone: a restart shows such a proxy as active with its old settings), the machine is what the
\* rows say once nothing is left to do: the proxy runs with the settings of the row, the panel's route, the tunnel and
\* the certificate are there or not, and a cleanup that is on has a scheduler (servers.ts, instance.ts,
\* caCertificates.ts, dockerCleanup.ts and their jobs).
MachineFollowsRows ==
    clean /\ ~Busy /\ srv.exists =>
        /\ srv.proxy = "active" => host.proxy = "running" /\ host.ran = srv.flags /\ host.pageFile = srv.flags.page
        /\ host.panelFile = panel
        /\ (srv.tunnel = "active") = host.tunnel /\ host.tunnel = srv.token
        /\ (ca = "success") = host.ca
        /\ cleanup.scheduler = (cleanup.row = "on")
        /\ srv.auto = host.auto

=============================================================================
