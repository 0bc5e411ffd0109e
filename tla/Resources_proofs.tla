-------------------------- MODULE Resources_proofs ---------------------------
(***************************************************************************)
(* Theorems about what the panel keeps on servers, for any number of       *)
(* requests and faults and any databases and services: work that a row     *)
(* says is under way is owned, the machine is what the rows say once the   *)
(* jobs are through, and an application is served as it is configured.     *)
(* One part per component, with the invariants of that component alone;    *)
(* the components share no state.                                          *)
(***************************************************************************)
EXTENDS MCResources, SequenceTheorems, FiniteSetTheorems, TLAPS

----------------------------------------------------------------------------
(* A step of the composite is a step of one component, and none of the     *)
(* others.                                                                 *)

LEMMA ResourceSteps ==
  ASSUME [ResourcesNext]_<<vars, appVars, serverVars, dbVars, svcVars, focus>>
  PROVE  [AppNext]_appVars /\ [ServerNext]_serverVars /\ [DbNext]_dbVars /\ [SvcNext]_svcVars
  BY DEF ResourcesNext, NotBackups, NotApps, NotServers, NotDatabases, NotServices

----------------------------------------------------------------------------
(* Queues                                                                  *)

In(q) == {q[i] : i \in DOMAIN q}

LEMMA QueueGrows ==
  ASSUME NEW S, NEW q \in Seq(S), NEW e \in S
  PROVE  Append(q, e) \in Seq(S) /\ In(Append(q, e)) = In(q) \cup {e}
<1>1. /\ Append(q, e) \in Seq(S) /\ Len(Append(q, e)) = Len(q) + 1 /\ Append(q, e)[Len(q) + 1] = e
      /\ \A i \in 1 .. Len(q) : Append(q, e)[i] = q[i]
  BY AppendProperties
<1>2. DOMAIN q = 1 .. Len(q) /\ DOMAIN Append(q, e) = 1 .. Len(q) + 1 /\ Len(q) \in Nat
  BY <1>1
<1>3. \A i : i \in 1 .. Len(q) + 1 <=> i \in 1 .. Len(q) \/ i = Len(q) + 1
  BY <1>2
<1> QED
  BY <1>1, <1>2, <1>3 DEF In

LEMMA QueueShrinks ==
  ASSUME NEW S, NEW q \in Seq(S), q # <<>>
  PROVE  q[1] \in S /\ Head(q) = q[1] /\ Tail(q) \in Seq(S) /\ In(q) = In(Tail(q)) \cup {q[1]} /\ Len(Tail(q)) = Len(q) - 1
<1>1. /\ q[1] \in S /\ Head(q) = q[1] /\ Tail(q) \in Seq(S) /\ Len(Tail(q)) = Len(q) - 1
      /\ \A i \in 1 .. Len(Tail(q)) : Tail(q)[i] = q[i + 1]
  BY HeadTailProperties
<1>2. DOMAIN q = 1 .. Len(q) /\ DOMAIN Tail(q) = 1 .. Len(q) - 1 /\ Len(q) \in Nat /\ Len(q) > 0
  BY <1>1, EmptySeq
<1>3. In(q) \subseteq In(Tail(q)) \cup {q[1]}
  <2> SUFFICES ASSUME NEW i \in 1 .. Len(q), i # 1 PROVE q[i] \in In(Tail(q))
    BY <1>2 DEF In
  <2>1. i - 1 \in 1 .. Len(q) - 1 /\ Tail(q)[i - 1] = q[i]
    BY <1>1, <1>2
  <2> QED
    BY <1>2, <2>1 DEF In
<1>4. In(Tail(q)) \cup {q[1]} \subseteq In(q)
  <2>1. \A i \in 1 .. Len(q) - 1 : Tail(q)[i] = q[i + 1] /\ i + 1 \in 1 .. Len(q)
    BY <1>1, <1>2
  <2>2. 1 \in 1 .. Len(q)
    BY <1>2
  <2> QED
    BY <1>2, <2>1, <2>2 DEF In
<1> QED
  BY <1>1, <1>3, <1>4

LEMMA QueueAgain ==
  ASSUME NEW S, NEW q \in Seq(S), NEW e \in S
  PROVE  <<e>> \o q \in Seq(S) /\ In(<<e>> \o q) = {e} \cup In(q)
<1> DEFINE p == <<e>>
<1>1. p \in Seq(S) /\ Len(p) = 1 /\ p[1] = e
  OBVIOUS
<1> HIDE DEF p
<1>2. /\ p \o q \in Seq(S) /\ Len(p \o q) = 1 + Len(q) /\ (p \o q)[1] = e
      /\ \A i \in 2 .. Len(q) + 1 : (p \o q)[i] = q[i - 1]
  <2>1. /\ p \o q \in Seq(S) /\ Len(p \o q) = Len(p) + Len(q)
        /\ \A i \in 1 .. Len(p) + Len(q) : (p \o q)[i] = IF i <= Len(p) THEN p[i] ELSE q[i - Len(p)]
    BY <1>1, ConcatProperties
  <2>2. Len(q) \in Nat
    OBVIOUS
  <2> QED
    BY <1>1, <2>1, <2>2
<1>3. DOMAIN q = 1 .. Len(q) /\ DOMAIN (p \o q) = 1 .. Len(q) + 1 /\ Len(q) \in Nat
  BY <1>2
<1>4. In(p \o q) \subseteq {e} \cup In(q)
  <2> SUFFICES ASSUME NEW i \in 2 .. Len(q) + 1 PROVE (p \o q)[i] \in In(q)
    BY <1>2, <1>3 DEF In
  <2>1. i - 1 \in 1 .. Len(q)
    BY <1>3
  <2> QED
    BY <1>2, <1>3, <2>1 DEF In
<1>5. {e} \cup In(q) \subseteq In(p \o q)
  <2>1. \A i \in 1 .. Len(q) : (p \o q)[i + 1] = q[i] /\ i + 1 \in 1 .. Len(q) + 1
    BY <1>2, <1>3
  <2>2. 1 \in 1 .. Len(q) + 1
    BY <1>3
  <2> QED
    <3>1. ASSUME NEW i \in 1 .. Len(q) PROVE q[i] \in In(p \o q)
      BY <1>3, <2>1 DEF In
    <3>2. e \in In(p \o q)
      BY <1>2, <1>3, <2>2 DEF In
    <3> QED
      BY <1>3, <3>1, <3>2 DEF In
<1> QED
  BY <1>2, <1>4, <1>5 DEF p

LEMMA EmptyQueue == ASSUME NEW S PROVE <<>> \in Seq(S) /\ In(<<>>) = {}
  BY DEF In

----------------------------------------------------------------------------
(* A server                                                                *)

ProxyWork == {"provision", "restart", "panel"}
LinkWork == {"install", "remove"}
ServerRow == [exists : BOOLEAN, status : {"pending", "connected", "error"}, email : BOOLEAN, flags : Flags,
              proxy : ProxyStatus, tunnel : ProxyStatus, token : BOOLEAN, auto : BOOLEAN, security : 0..2, notified : 0..2]
Machine == [proxy : {"absent", "running"}, ran : Flags, static : Flags, pageFile : BOOLEAN, wakerPage : BOOLEAN,
            panelFile : BOOLEAN, tunnel : BOOLEAN, ca : BOOLEAN, auto : BOOLEAN]

\* The rows, the machine and the requests.
MachineTyped ==
    /\ srv \in ServerRow /\ resources \in 0..1 /\ host \in Machine
    /\ ca \in {"none", "queued", "success", "failed"}
    /\ cleanup \in [row : {"none", "on", "off"}, scheduler : BOOLEAN, pass : {"rest", "insert", "schedule"}]
    /\ panel \in BOOLEAN /\ clean \in BOOLEAN
    /\ ask \in [op : {"none", "cleanup", "cleanupWrite", "delete"}, on : BOOLEAN]

\* The queues: a job in progress is at one of its own steps.
ProxyTyped ==
    /\ pq \in [queue : Seq(ProxyWork), job : ProxyWork \cup {"none"}, flags : Flags,
               pc : {"rest", "static", "page", "run", "waker", "restart", "panel", "done", "failed"}]
    /\ pq.job = "none"      => pq.pc = "rest" /\ pq.flags = NoFlags
    /\ pq.job = "provision" => pq.pc \in {"static", "page", "run", "waker", "done", "failed"}
    /\ pq.job = "restart"   => pq.pc \in {"restart", "done", "failed"}
    /\ pq.job = "panel"     => pq.pc \in {"panel", "done", "failed"}
TunnelTyped ==
    /\ tq \in [queue : Seq(LinkWork), job : LinkWork \cup {"none"}, flags : {NoFlags}, pc : {"rest", "exec", "done", "failed"}]
    /\ (tq.job = "none") <=> (tq.pc = "rest")
CaTyped == cq \in [queue : Seq(LinkWork), job : {"none"}, flags : {NoFlags}, pc : {"rest"}]
ServerTyped == MachineTyped /\ ProxyTyped /\ TunnelTyped /\ CaTyped

LEMMA IdleQueues ==
  ASSUME ServerTyped
  PROVE  /\ pq = IdleJob <=> pq.queue = <<>> /\ pq.job = "none"
         /\ tq = IdleJob <=> tq.queue = <<>> /\ tq.job = "none"
         /\ cq = IdleJob <=> cq.queue = <<>>
<1>1. pq = [queue |-> pq.queue, job |-> pq.job, pc |-> pq.pc, flags |-> pq.flags]
  BY DEF ServerTyped, ProxyTyped
<1>2. tq = [queue |-> tq.queue, job |-> tq.job, pc |-> tq.pc, flags |-> tq.flags]
  BY DEF ServerTyped, TunnelTyped
<1>3. cq = [queue |-> cq.queue, job |-> cq.job, pc |-> cq.pc, flags |-> cq.flags]
  BY DEF ServerTyped, CaTyped
<1>4. pq = IdleJob <=> pq.queue = <<>> /\ pq.job = "none"
  BY <1>1 DEF ServerTyped, ProxyTyped, IdleJob
<1>5. tq = IdleJob <=> tq.queue = <<>> /\ tq.job = "none"
  BY <1>2 DEF ServerTyped, TunnelTyped, IdleJob
<1>6. cq = IdleJob <=> cq.queue = <<>>
  BY <1>3 DEF ServerTyped, CaTyped, IdleJob
<1> QED
  BY <1>4, <1>5, <1>6

\* Whatever waits in the queue of the proxy is its work, and so on.
LEMMA ServerWork ==
  ASSUME ServerTyped
  PROVE  /\ \A x \in ProxyWork : Append(pq.queue, x) \in Seq(ProxyWork) /\ In(Append(pq.queue, x)) = In(pq.queue) \cup {x}
         /\ \A x \in ProxyWork : <<x>> \o pq.queue \in Seq(ProxyWork) /\ In(<<x>> \o pq.queue) = {x} \cup In(pq.queue)
         /\ pq.queue # <<>> => /\ Head(pq.queue) \in ProxyWork /\ Tail(pq.queue) \in Seq(ProxyWork)
                               /\ In(pq.queue) = In(Tail(pq.queue)) \cup {Head(pq.queue)}
         /\ \A x \in LinkWork : Append(tq.queue, x) \in Seq(LinkWork) /\ <<x>> \o tq.queue \in Seq(LinkWork)
         /\ tq.queue # <<>> => Head(tq.queue) \in LinkWork /\ Tail(tq.queue) \in Seq(LinkWork)
         /\ \A x \in LinkWork : Append(cq.queue, x) \in Seq(LinkWork)
         /\ cq.queue # <<>> => Head(cq.queue) \in LinkWork /\ Tail(cq.queue) \in Seq(LinkWork)
<1>1. pq.queue \in Seq(ProxyWork) /\ tq.queue \in Seq(LinkWork) /\ cq.queue \in Seq(LinkWork)
  BY DEF ServerTyped, ProxyTyped, TunnelTyped, CaTyped
<1> QED
  BY <1>1, QueueGrows, QueueShrinks, QueueAgain

LEMMA ServerActions ==
  ASSUME ServerNext
  PROVE  \/ SetServerDomain \/ ActivateProxy \/ RestartProxy \/ SetPanelDomain \/ SetTunnel \/ RemoveTunnel
         \/ AddCaCertificate \/ RemoveCaCertificate \/ SetAutoUpdates \/ ChangeResources \/ BeginDeleteServer
         \/ (\E flag \in {"traffic", "page"} : SetProxyFlags(flag)) \/ (\E ok \in BOOLEAN : CheckServer(ok))
         \/ (\E n \in 0 .. 2 : CheckPatches(n)) \/ (\E on \in BOOLEAN : BeginCleanup(on))
         \/ DeleteServer \/ ScheduleCleanup \/ WriteCleanup \/ DefaultCleanup \/ InsertDefault \/ ScheduleDefault
         \/ TakeProxyJob \/ ProxyStep \/ EndProxyJob \/ TakeTunnelJob \/ TunnelExec \/ EndTunnelJob
         \/ (\E lost \in BOOLEAN : ProxyFault(lost)) \/ (\E lost \in BOOLEAN : TunnelFault(lost))
         \/ (\E ok \in BOOLEAN : CaJob(ok)) \/ ServerWorkerDies
  BY DEF ServerNext, ServerRequests, ServerSteps

LEMMA MachineStaysTyped ==
  ASSUME ServerTyped, ServerNext
  PROVE  MachineTyped'
<1> USE DEF ServerTyped, MachineTyped
<1>1. resources' \in 0..1 /\ panel' \in BOOLEAN /\ ca' \in {"none", "queued", "success", "failed"}
  <2>1. resources' = resources \/ resources' = 1 - resources \/ resources' = 0
    BY ServerActions DEF SetServerDomain, ActivateProxy, RestartProxy, SetPanelDomain, SetTunnel, RemoveTunnel, AddCaCertificate,
     RemoveCaCertificate, SetAutoUpdates, ChangeResources, BeginDeleteServer, SetProxyFlags, CheckServer, CheckPatches,
     BeginCleanup, DeleteServer, ScheduleCleanup, WriteCleanup, DefaultCleanup, InsertDefault, ScheduleDefault,
     TakeProxyJob, ProxyStep, EndProxyJob, TakeTunnelJob, TunnelExec, EndTunnelJob, ProxyFault, TunnelFault, CaJob,
     ServerWorkerDies
  <2>2. panel' = panel \/ panel' = ~panel
    BY ServerActions DEF SetServerDomain, ActivateProxy, RestartProxy, SetPanelDomain, SetTunnel, RemoveTunnel, AddCaCertificate,
     RemoveCaCertificate, SetAutoUpdates, ChangeResources, BeginDeleteServer, SetProxyFlags, CheckServer, CheckPatches,
     BeginCleanup, DeleteServer, ScheduleCleanup, WriteCleanup, DefaultCleanup, InsertDefault, ScheduleDefault,
     TakeProxyJob, ProxyStep, EndProxyJob, TakeTunnelJob, TunnelExec, EndTunnelJob, ProxyFault, TunnelFault, CaJob,
     ServerWorkerDies
  <2>3. ca' = ca \/ ca' \in {"none", "queued", "success", "failed"}
    BY ServerActions DEF SetServerDomain, ActivateProxy, RestartProxy, SetPanelDomain, SetTunnel, RemoveTunnel, AddCaCertificate,
     RemoveCaCertificate, SetAutoUpdates, ChangeResources, BeginDeleteServer, SetProxyFlags, CheckServer, CheckPatches,
     BeginCleanup, DeleteServer, ScheduleCleanup, WriteCleanup, DefaultCleanup, InsertDefault, ScheduleDefault,
     TakeProxyJob, ProxyStep, EndProxyJob, TakeTunnelJob, TunnelExec, EndTunnelJob, ProxyFault, TunnelFault, CaJob,
     ServerWorkerDies
  <2>4. panel' \in BOOLEAN
    BY <2>2, Zenon
  <2> QED
    BY <2>1, <2>3, <2>4
<1>6. clean' \in BOOLEAN
  <2>1. \/ clean' = clean \/ clean' = (clean /\ ~Busy) \/ clean' = (clean /\ ask = NoAsk) \/ clean' = (clean /\ pq.pc = "done")
        \/ clean' = FALSE
    BY ServerActions DEF SetServerDomain, ActivateProxy, RestartProxy, SetPanelDomain, SetTunnel, RemoveTunnel, AddCaCertificate,
     RemoveCaCertificate, SetAutoUpdates, ChangeResources, BeginDeleteServer, SetProxyFlags, CheckServer, CheckPatches,
     BeginCleanup, DeleteServer, ScheduleCleanup, WriteCleanup, DefaultCleanup, InsertDefault, ScheduleDefault,
     TakeProxyJob, ProxyStep, EndProxyJob, TakeTunnelJob, TunnelExec, EndTunnelJob, ProxyFault, TunnelFault, CaJob,
     ServerWorkerDies, ServerAsk, Fault
  <2> QED
    BY <2>1, Zenon
<1>2. ask' \in [op : {"none", "cleanup", "cleanupWrite", "delete"}, on : BOOLEAN]
  <2>1. CASE BeginDeleteServer \/ DeleteServer \/ WriteCleanup
    <3>1. NoAsk \in [op : {"none", "cleanup", "cleanupWrite", "delete"}, on : BOOLEAN]
      BY DEF NoAsk
    <3>2. ask' = [NoAsk EXCEPT !.op = "delete"] \/ ask' = NoAsk
      BY <2>1 DEF BeginDeleteServer, DeleteServer, WriteCleanup
    <3> QED
      BY <3>1, <3>2
  <2>2. CASE (\E on \in BOOLEAN : BeginCleanup(on)) \/ ScheduleCleanup
    BY <2>2 DEF BeginCleanup, ScheduleCleanup
  <2>3. CASE UNCHANGED ask
    BY <2>3
  <2> QED
    BY <2>1, <2>2, <2>3, ServerActions DEF SetServerDomain, ActivateProxy, RestartProxy, SetPanelDomain, SetTunnel, RemoveTunnel, AddCaCertificate,
       RemoveCaCertificate, SetAutoUpdates, ChangeResources, SetProxyFlags, CheckServer, CheckPatches,
       DefaultCleanup, InsertDefault, ScheduleDefault,
       TakeProxyJob, ProxyStep, EndProxyJob, TakeTunnelJob, TunnelExec, EndTunnelJob, ProxyFault, TunnelFault, CaJob,
       ServerWorkerDies
<1>3. cleanup' \in [row : {"none", "on", "off"}, scheduler : BOOLEAN, pass : {"rest", "insert", "schedule"}]
  <2>1. CASE DeleteServer \/ DefaultCleanup \/ ScheduleDefault \/ ServerWorkerDies
    BY <2>1 DEF DeleteServer, DefaultCleanup, ScheduleDefault, ServerWorkerDies
  <2>2. CASE WriteCleanup \/ ScheduleCleanup
    BY <2>2 DEF WriteCleanup, ScheduleCleanup
  <2>3. CASE InsertDefault
    BY <2>3 DEF InsertDefault
  <2>4. CASE UNCHANGED cleanup
    BY <2>4
  <2> QED
    BY <2>1, <2>2, <2>3, <2>4, ServerActions DEF SetServerDomain, ActivateProxy, RestartProxy, SetPanelDomain, SetTunnel, RemoveTunnel, AddCaCertificate,
       RemoveCaCertificate, SetAutoUpdates, ChangeResources, BeginDeleteServer, SetProxyFlags, CheckServer, CheckPatches,
       BeginCleanup,
       TakeProxyJob, ProxyStep, EndProxyJob, TakeTunnelJob, TunnelExec, EndTunnelJob, ProxyFault, TunnelFault, CaJob
<1>4. host' \in Machine
  <2>1. CASE SetAutoUpdates \/ TunnelExec \/ \E ok \in BOOLEAN : CaJob(ok)
    <3>1. host \in Machine
      OBVIOUS
    <3>2. host' = host \/ \E b \in BOOLEAN : host' \in {[host EXCEPT !.auto = b], [host EXCEPT !.tunnel = b], [host EXCEPT !.ca = b]}
      <4>1. ASSUME SetAutoUpdates PROVE \E b \in BOOLEAN : host' = [host EXCEPT !.auto = b]
        <5>1. host.auto \in BOOLEAN
          BY <3>1 DEF Machine
        <5>2. host' = [host EXCEPT !.auto = ~ host.auto]
          BY <4>1 DEF SetAutoUpdates
        <5>3. CASE host.auto
          BY <5>1, <5>2, <5>3
        <5>4. CASE ~ host.auto
          BY <5>1, <5>2, <5>4
        <5> QED
          BY <5>3, <5>4
      <4>2. ASSUME TunnelExec
            PROVE  host' = [host EXCEPT !.tunnel = (tq.job = "install")] /\ (tq.job = "install") \in BOOLEAN
        BY <4>2 DEF TunnelExec
      <4>3. ASSUME NEW ok \in BOOLEAN, CaJob(ok)
            PROVE  /\ host' = host \/ host' = [host EXCEPT !.ca = (Head(cq.queue) = "install")]
                   /\ (Head(cq.queue) = "install") \in BOOLEAN
        BY <4>3 DEF CaJob
      <4> HIDE DEF ServerTyped, MachineTyped
      <4> QED
        BY <2>1, <4>1, <4>2, <4>3
    <3> HIDE DEF ServerTyped, MachineTyped
    <3> QED
      BY <3>1, <3>2 DEF Machine
  <2>2. CASE ProxyStep
    BY <2>2 DEF ProxyStep, StepOnHost, Stepping, Machine, ProxyTyped, Flags
  <2>3. CASE UNCHANGED host
    BY <2>3
  <2> QED
    BY <2>1, <2>2, <2>3, ServerActions DEF SetServerDomain, ActivateProxy, RestartProxy, SetPanelDomain, SetTunnel, RemoveTunnel,
       AddCaCertificate, RemoveCaCertificate, ChangeResources, BeginDeleteServer, SetProxyFlags, CheckServer, CheckPatches,
       BeginCleanup, DeleteServer, ScheduleCleanup, WriteCleanup, DefaultCleanup, InsertDefault, ScheduleDefault,
       TakeProxyJob, EndProxyJob, TakeTunnelJob, EndTunnelJob, ProxyFault, TunnelFault, ServerWorkerDies
<1>5. srv' \in ServerRow
  <2>1. CASE SetServerDomain \/ ActivateProxy \/ RestartProxy \/ SetTunnel \/ RemoveTunnel \/ DeleteServer \/ EndProxyJob
    <3>1. srv' \in {srv, [srv EXCEPT !.email = ~ srv.email], [srv EXCEPT !.token = TRUE, !.tunnel = "provisioning"],
                    [srv EXCEPT !.tunnel = "provisioning"], [srv EXCEPT !.exists = FALSE]}
          \/ \E x \in {"provisioning", "active", "error"} : srv' = [srv EXCEPT !.proxy = x]
      BY <2>1 DEF SetServerDomain, ActivateProxy, RestartProxy, SetTunnel, RemoveTunnel, DeleteServer, EndProxyJob
    <3>2. srv \in ServerRow
      OBVIOUS
    <3>3. CASE \E x \in {"provisioning", "active", "error"} : srv' = [srv EXCEPT !.proxy = x]
      BY <3>2, <3>3 DEF ServerRow, ProxyStatus
    <3>4. CASE srv' \in {srv, [srv EXCEPT !.email = ~ srv.email], [srv EXCEPT !.exists = FALSE]}
      <4>1. srv.email \in BOOLEAN
        BY <3>2 DEF ServerRow
      <4> QED
        BY <3>2, <3>4, <4>1 DEF ServerRow
    <3>5. CASE srv' \in {[srv EXCEPT !.token = TRUE, !.tunnel = "provisioning"], [srv EXCEPT !.tunnel = "provisioning"]}
      BY <3>2, <3>5 DEF ServerRow, ProxyStatus
    <3> QED
      BY <3>1, <3>3, <3>4, <3>5
  <2>2. CASE SetAutoUpdates
    BY <2>2 DEF SetAutoUpdates, ServerRow, Machine
  <2>3. ASSUME NEW flag \in {"traffic", "page"}, SetProxyFlags(flag) PROVE srv' \in ServerRow
    <3>1. srv' = [srv EXCEPT !.flags = [srv.flags EXCEPT ![flag] = ~ srv.flags[flag]]]
      BY <2>3 DEF SetProxyFlags
    <3>2. srv.flags \in Flags
      BY DEF ServerRow
    <3>3. [srv.flags EXCEPT ![flag] = ~ srv.flags[flag]] \in Flags
      BY <3>2 DEF Flags
    <3> QED
      BY <3>1, <3>3 DEF ServerRow
  <2>4. ASSUME NEW ok \in BOOLEAN, CheckServer(ok) PROVE srv' \in ServerRow
    BY <2>4 DEF CheckServer, ServerRow
  <2>5. ASSUME NEW n \in 0 .. 2, CheckPatches(n) PROVE srv' \in ServerRow
    BY <2>5 DEF CheckPatches, ServerRow
  <2>6. CASE EndTunnelJob
    BY <2>6 DEF EndTunnelJob, ServerRow, ProxyStatus
  <2>7. CASE UNCHANGED srv
    BY <2>7
  <2> QED
    BY <2>1, <2>2, <2>3, <2>4, <2>5, <2>6, <2>7, ServerActions DEF SetPanelDomain, AddCaCertificate, RemoveCaCertificate,
       ChangeResources, BeginDeleteServer, BeginCleanup, ScheduleCleanup, WriteCleanup, DefaultCleanup, InsertDefault,
       ScheduleDefault, TakeProxyJob, ProxyStep, TakeTunnelJob, TunnelExec, ProxyFault, TunnelFault, CaJob, ServerWorkerDies
<1> QED
  BY <1>1, <1>2, <1>3, <1>4, <1>5, <1>6

LEMMA QueuesStayTyped ==
  ASSUME ServerTyped, ServerNext
  PROVE  ProxyTyped' /\ TunnelTyped' /\ CaTyped'
<1> USE DEF ServerTyped
<1>s. srv.flags \in Flags /\ NoFlags \in Flags
  BY DEF MachineTyped, ServerRow, NoFlags, Flags
<1>1. ProxyTyped'
  <2> USE DEF ProxyTyped
  <2>1. ASSUME NEW x \in ProxyWork, pq' = Queued(pq, x) PROVE ProxyTyped'
    <3>1. Append(pq.queue, x) \in Seq(ProxyWork)
      BY ServerWork
    <3>2. pq' = [pq EXCEPT !.queue = Append(pq.queue, x)]
      BY <2>1 DEF Queued
    <3> QED
      BY <3>1, <3>2
  <2>2. CASE TakeProxyJob
    <3>1. Tail(pq.queue) \in Seq(ProxyWork) /\ Head(pq.queue) \in ProxyWork
      BY <2>2, ServerWork DEF TakeProxyJob
    <3>2. CASE srv.exists
      <4>1. pq' = [queue |-> Tail(pq.queue), job |-> Head(pq.queue), pc |-> FirstStep(Head(pq.queue)), flags |-> srv.flags]
        BY <2>2, <3>2 DEF TakeProxyJob
      <4> QED
        BY <1>s, <3>1, <4>1 DEF FirstStep, ProxyWork
    <3>3. CASE ~ srv.exists
      <4>1. pq' = [queue |-> Tail(pq.queue), job |-> "none", pc |-> "rest", flags |-> NoFlags]
        BY <2>2, <3>3 DEF TakeProxyJob, IdleJob
      <4> QED
        BY <1>s, <3>1, <4>1
    <3> QED
      BY <3>2, <3>3
  <2>3. CASE ProxyStep \/ \E lost \in BOOLEAN : ProxyFault(lost)
    <3>1. pq' = [pq EXCEPT !.pc = NextStep(pq.pc)] \/ pq' = [pq EXCEPT !.pc = "failed"]
      BY <2>3 DEF ProxyStep, ProxyFault
    <3>2. pq.pc \in {"static", "page", "run", "waker", "panel", "restart"}
      BY <2>3 DEF ProxyStep, ProxyFault, Stepping
    <3> QED
      BY <3>1, <3>2 DEF NextStep, ProxyWork
  <2>4. CASE EndProxyJob
    <3>1. pq' = [queue |-> pq.queue, job |-> "none", pc |-> "rest", flags |-> NoFlags]
      BY <2>4 DEF EndProxyJob, IdleJob
    <3> QED
      BY <1>s, <3>1
  <2>5. CASE ServerWorkerDies
    <3>1. CASE pq.pc = "rest"
      BY <2>5, <3>1 DEF ServerWorkerDies
    <3>2. CASE pq.pc # "rest"
      <4>1. pq.job \in ProxyWork /\ <<pq.job>> \o pq.queue \in Seq(ProxyWork)
        BY <3>2, ServerWork
      <4>2. pq' = [queue |-> <<pq.job>> \o pq.queue, job |-> "none", pc |-> "rest", flags |-> NoFlags]
        BY <2>5, <3>2 DEF ServerWorkerDies, IdleJob
      <4> QED
        BY <1>s, <4>1, <4>2
    <3> QED
      BY <3>1, <3>2
  <2>6. CASE UNCHANGED pq
    BY <2>6
  <2>7. ActivateProxy \/ RestartProxy \/ SetPanelDomain \/ (\E flag \in {"traffic", "page"} : SetProxyFlags(flag))
        => UNCHANGED pq \/ \E x \in ProxyWork : pq' = Queued(pq, x)
    BY DEF ActivateProxy, RestartProxy, SetPanelDomain, SetProxyFlags, ProxyWork
  <2>8. SetServerDomain \/ SetTunnel \/ RemoveTunnel \/ AddCaCertificate \/ RemoveCaCertificate \/ SetAutoUpdates
        \/ ChangeResources \/ BeginDeleteServer \/ (\E ok \in BOOLEAN : CheckServer(ok)) \/ (\E n \in 0 .. 2 : CheckPatches(n))
        \/ (\E on \in BOOLEAN : BeginCleanup(on)) \/ DeleteServer \/ ScheduleCleanup \/ WriteCleanup \/ DefaultCleanup
        \/ InsertDefault \/ ScheduleDefault \/ TakeTunnelJob \/ TunnelExec \/ EndTunnelJob
        \/ (\E lost \in BOOLEAN : TunnelFault(lost)) \/ (\E ok \in BOOLEAN : CaJob(ok))
        => UNCHANGED pq
    BY DEF SetServerDomain, SetTunnel, RemoveTunnel, AddCaCertificate, RemoveCaCertificate, SetAutoUpdates, ChangeResources,
       BeginDeleteServer, CheckServer, CheckPatches, BeginCleanup, DeleteServer, ScheduleCleanup, WriteCleanup, DefaultCleanup,
       InsertDefault, ScheduleDefault, TakeTunnelJob, TunnelExec, EndTunnelJob, TunnelFault, CaJob
  <2> HIDE DEF ProxyTyped, ServerTyped
  <2> QED
    BY <2>1, <2>2, <2>3, <2>4, <2>5, <2>6, <2>7, <2>8, ServerActions
<1>2. TunnelTyped'
  <2> USE DEF TunnelTyped
  <2>1. ASSUME NEW x \in LinkWork, tq' = Queued(tq, x) PROVE TunnelTyped'
    <3>1. Append(tq.queue, x) \in Seq(LinkWork)
      BY ServerWork
    <3>2. tq' = [tq EXCEPT !.queue = Append(tq.queue, x)]
      BY <2>1 DEF Queued
    <3> QED
      BY <3>1, <3>2
  <2>2. CASE TakeTunnelJob
    <3>1. Tail(tq.queue) \in Seq(LinkWork) /\ Head(tq.queue) \in LinkWork
      BY <2>2, ServerWork DEF TakeTunnelJob
    <3>2. tq' = [queue |-> Tail(tq.queue), job |-> Head(tq.queue), pc |-> "exec", flags |-> NoFlags]
          \/ tq' = [queue |-> Tail(tq.queue), job |-> "none", pc |-> "rest", flags |-> NoFlags]
      BY <2>2 DEF TakeTunnelJob, IdleJob
    <3> QED
      BY <3>1, <3>2 DEF LinkWork
  <2>3. CASE TunnelExec \/ \E lost \in BOOLEAN : TunnelFault(lost)
    <3>1. tq.pc = "exec" /\ \E x \in {"done", "failed"} : tq' = [tq EXCEPT !.pc = x]
      BY <2>3 DEF TunnelExec, TunnelFault
    <3> QED
      BY <3>1
  <2>4. CASE EndTunnelJob
    <3>1. tq' = [queue |-> tq.queue, job |-> "none", pc |-> "rest", flags |-> NoFlags]
      BY <2>4 DEF EndTunnelJob, IdleJob
    <3> QED
      BY <3>1
  <2>5. CASE ServerWorkerDies
    <3>1. CASE tq.pc = "rest"
      BY <2>5, <3>1 DEF ServerWorkerDies
    <3>2. CASE tq.pc # "rest"
      <4>1. tq.job \in LinkWork /\ <<tq.job>> \o tq.queue \in Seq(LinkWork)
        BY <3>2, ServerWork
      <4>2. tq' = [queue |-> <<tq.job>> \o tq.queue, job |-> "none", pc |-> "rest", flags |-> NoFlags]
        BY <2>5, <3>2 DEF ServerWorkerDies, IdleJob
      <4> QED
        BY <4>1, <4>2
    <3> QED
      BY <3>1, <3>2
  <2>6. CASE UNCHANGED tq
    BY <2>6
  <2>7. SetTunnel \/ RemoveTunnel => \E x \in LinkWork : tq' = Queued(tq, x)
    BY DEF SetTunnel, RemoveTunnel, LinkWork
  <2>8. SetServerDomain \/ ActivateProxy \/ RestartProxy \/ SetPanelDomain \/ AddCaCertificate \/ RemoveCaCertificate
        \/ SetAutoUpdates \/ ChangeResources \/ BeginDeleteServer \/ (\E flag \in {"traffic", "page"} : SetProxyFlags(flag))
        \/ (\E ok \in BOOLEAN : CheckServer(ok)) \/ (\E n \in 0 .. 2 : CheckPatches(n))
        \/ (\E on \in BOOLEAN : BeginCleanup(on)) \/ DeleteServer \/ ScheduleCleanup \/ WriteCleanup \/ DefaultCleanup
        \/ InsertDefault \/ ScheduleDefault \/ TakeProxyJob \/ ProxyStep \/ EndProxyJob
        \/ (\E lost \in BOOLEAN : ProxyFault(lost)) \/ (\E ok \in BOOLEAN : CaJob(ok))
        => UNCHANGED tq
    BY DEF SetServerDomain, ActivateProxy, RestartProxy, SetPanelDomain, AddCaCertificate, RemoveCaCertificate, SetAutoUpdates,
       ChangeResources, BeginDeleteServer, SetProxyFlags, CheckServer, CheckPatches, BeginCleanup, DeleteServer, ScheduleCleanup,
       WriteCleanup, DefaultCleanup, InsertDefault, ScheduleDefault, TakeProxyJob, ProxyStep, EndProxyJob, ProxyFault, CaJob
  <2> HIDE DEF TunnelTyped, ServerTyped
  <2> QED
    BY <2>1, <2>2, <2>3, <2>4, <2>5, <2>6, <2>7, <2>8, ServerActions
<1>3. CaTyped'
  <2> USE DEF CaTyped
  <2>1. ASSUME NEW x \in LinkWork, cq' = Queued(cq, x) PROVE CaTyped'
    <3>1. Append(cq.queue, x) \in Seq(LinkWork)
      BY ServerWork
    <3> QED
      BY <2>1, <3>1 DEF Queued
  <2>2. ASSUME NEW ok \in BOOLEAN, CaJob(ok) PROVE CaTyped'
    <3>1. Tail(cq.queue) \in Seq(LinkWork) /\ cq' = [cq EXCEPT !.queue = Tail(cq.queue)]
      BY <2>2, ServerWork DEF CaJob
    <3> QED
      BY <3>1
  <2>3. CASE UNCHANGED cq
    BY <2>3
  <2>4. AddCaCertificate \/ RemoveCaCertificate => \E x \in LinkWork : cq' = Queued(cq, x)
    BY DEF AddCaCertificate, RemoveCaCertificate, LinkWork
  <2>5. SetServerDomain \/ ActivateProxy \/ RestartProxy \/ SetPanelDomain \/ SetTunnel \/ RemoveTunnel \/ SetAutoUpdates
        \/ ChangeResources \/ BeginDeleteServer \/ (\E flag \in {"traffic", "page"} : SetProxyFlags(flag))
        \/ (\E ok \in BOOLEAN : CheckServer(ok)) \/ (\E n \in 0 .. 2 : CheckPatches(n))
        \/ (\E on \in BOOLEAN : BeginCleanup(on)) \/ DeleteServer \/ ScheduleCleanup \/ WriteCleanup \/ DefaultCleanup
        \/ InsertDefault \/ ScheduleDefault \/ TakeProxyJob \/ ProxyStep \/ EndProxyJob \/ TakeTunnelJob \/ TunnelExec
        \/ EndTunnelJob \/ (\E lost \in BOOLEAN : ProxyFault(lost)) \/ (\E lost \in BOOLEAN : TunnelFault(lost))
        \/ ServerWorkerDies
        => UNCHANGED cq
    BY DEF SetServerDomain, ActivateProxy, RestartProxy, SetPanelDomain, SetTunnel, RemoveTunnel, SetAutoUpdates,
       ChangeResources, BeginDeleteServer, SetProxyFlags, CheckServer, CheckPatches, BeginCleanup, DeleteServer, ScheduleCleanup,
       WriteCleanup, DefaultCleanup, InsertDefault, ScheduleDefault, TakeProxyJob, ProxyStep, EndProxyJob, TakeTunnelJob,
       TunnelExec, EndTunnelJob, ProxyFault, TunnelFault, ServerWorkerDies
  <2> HIDE DEF CaTyped, ServerTyped
  <2> QED
    BY <2>1, <2>2, <2>3, <2>4, <2>5, ServerActions
<1> QED
  BY <1>1, <1>2, <1>3

\* What a proxy that is being provisioned waits for, told of the queue as a set.
ProxyOwned == pq.job \in {"provision", "restart"} \/ \E x \in In(pq.queue) : x # "panel"

LEMMA ProvisioningByQueue ==
  ProvisioningIsOwned <=> /\ srv.exists /\ srv.proxy = "provisioning" => ProxyOwned
                          /\ srv.exists /\ srv.tunnel = "provisioning" => tq # IdleJob
<1>1. (\E i \in DOMAIN pq.queue : pq.queue[i] # "panel") <=> \E x \in In(pq.queue) : x # "panel"
  BY DEF In
<1> QED
  BY <1>1 DEF ProvisioningIsOwned, ProxyOwned

LEMMA ProvisioningStaysOwned ==
  ASSUME ServerTyped, ProvisioningIsOwned, ServerNext
  PROVE  ProvisioningIsOwned'
<1>h. srv \in ServerRow /\ ServerTyped /\ ServerTyped'
  BY MachineStaysTyped, QueuesStayTyped DEF ServerTyped, MachineTyped
<1>q. /\ pq.queue \in Seq(ProxyWork) /\ (pq.job = "none" => pq.pc = "rest") /\ (pq.pc = "rest" => pq.job = "none")
      /\ pq.job \in ProxyWork \cup {"none"}
      /\ pq = [queue |-> pq.queue, job |-> pq.job, pc |-> pq.pc, flags |-> pq.flags]
      /\ tq = [queue |-> tq.queue, job |-> tq.job, pc |-> tq.pc, flags |-> tq.flags]
      /\ tq.queue \in Seq(LinkWork) /\ (tq.job = "none" <=> tq.pc = "rest")
  BY DEF ServerTyped, ProxyTyped, TunnelTyped, ProxyWork
<1>o. /\ srv.exists /\ srv.proxy = "provisioning" => ProxyOwned
      /\ srv.exists /\ srv.tunnel = "provisioning" => tq # IdleJob
  BY ProvisioningByQueue
<1>1. srv'.exists /\ srv'.proxy = "provisioning" => ProxyOwned'
  <2>1. CASE ActivateProxy \/ RestartProxy
    <3>1. \E x \in {"provision", "restart"} : pq' = [pq EXCEPT !.queue = Append(pq.queue, x)]
      BY <2>1 DEF ActivateProxy, RestartProxy, Queued
    <3>2. \E x \in {"provision", "restart"} : x \in In(pq'.queue)
      BY <3>1, <1>q, <1>h, ServerWork DEF ProxyWork
    <3> QED
      BY <3>2 DEF ProxyOwned
  <2>2. CASE SetPanelDomain \/ \E flag \in {"traffic", "page"} : SetProxyFlags(flag)
    <3>1. srv'.exists = srv.exists /\ srv'.proxy = srv.proxy
      BY <2>2, <1>h DEF SetPanelDomain, SetProxyFlags, ServerRow
    <3>2. pq' = pq \/ \E x \in ProxyWork : pq' = [pq EXCEPT !.queue = Append(pq.queue, x)]
      BY <2>2 DEF SetPanelDomain, SetProxyFlags, ProxyWork, Queued
    <3>3. In(pq.queue) \subseteq In(pq'.queue) /\ pq'.job = pq.job
      BY <3>2, <1>q, <1>h, ServerWork
    <3> QED
      BY <1>o, <3>1, <3>3 DEF ProxyOwned
  <2>3. CASE TakeProxyJob
    <3>1. srv' = srv /\ pq.queue # <<>> /\ pq.job = "none"
      BY <2>3, <1>q DEF TakeProxyJob
    <3>2. srv.exists => pq'.queue = Tail(pq.queue) /\ pq'.job = Head(pq.queue)
      BY <2>3 DEF TakeProxyJob
    <3>3. Head(pq.queue) \in ProxyWork /\ In(pq.queue) = In(Tail(pq.queue)) \cup {Head(pq.queue)}
      BY <3>1, <1>h, ServerWork
    <3> QED
      BY <1>o, <3>1, <3>2, <3>3 DEF ProxyOwned, ProxyWork
  <2>4. CASE ProxyStep \/ \E lost \in BOOLEAN : ProxyFault(lost)
    <3>1. srv' = srv /\ \E x : pq' = [pq EXCEPT !.pc = x]
      BY <2>4 DEF ProxyStep, ProxyFault
    <3>2. pq'.queue = pq.queue /\ pq'.job = pq.job
      BY <3>1, <1>q
    <3> QED
      BY <1>o, <3>1, <3>2 DEF ProxyOwned
  <2>5. CASE EndProxyJob
    <3>1. pq.job # "none" /\ pq'.queue = pq.queue
      BY <2>5, <1>q DEF EndProxyJob, IdleJob
    <3>2. CASE srv.exists /\ pq.job # "panel"
      BY <2>5, <3>2, <1>h DEF EndProxyJob, ServerRow
    <3>3. CASE ~(srv.exists /\ pq.job # "panel")
      <4>1. srv' = srv
        BY <2>5, <3>3 DEF EndProxyJob
      <4> QED
        BY <1>o, <4>1, <3>1, <3>3 DEF ProxyOwned
    <3> QED
      BY <3>2, <3>3
  <2>6. CASE ServerWorkerDies
    <3>1. CASE pq.pc = "rest"
      BY <2>6, <3>1, <1>o DEF ServerWorkerDies, ProxyOwned
    <3>2. CASE pq.pc # "rest"
      <4>1. srv' = srv /\ pq'.queue = <<pq.job>> \o pq.queue
        BY <2>6, <3>2 DEF ServerWorkerDies, IdleJob
      <4>2. In(<<pq.job>> \o pq.queue) = {pq.job} \cup In(pq.queue)
        BY <3>2, <1>q, <1>h, ServerWork
      <4> QED
        BY <1>o, <4>1, <4>2 DEF ProxyOwned
    <3> QED
      BY <3>1, <3>2
  <2>7. CASE UNCHANGED pq /\ (srv'.exists => srv.exists) /\ srv'.proxy = srv.proxy
    BY <2>7, <1>o DEF ProxyOwned
  <2>8. SetServerDomain \/ SetTunnel \/ RemoveTunnel \/ AddCaCertificate \/ RemoveCaCertificate \/ SetAutoUpdates
        \/ ChangeResources \/ BeginDeleteServer \/ (\E ok \in BOOLEAN : CheckServer(ok)) \/ (\E n \in 0 .. 2 : CheckPatches(n))
        \/ (\E on \in BOOLEAN : BeginCleanup(on)) \/ DeleteServer \/ ScheduleCleanup \/ WriteCleanup \/ DefaultCleanup
        \/ InsertDefault \/ ScheduleDefault \/ TakeTunnelJob \/ TunnelExec \/ EndTunnelJob
        \/ (\E lost \in BOOLEAN : TunnelFault(lost)) \/ (\E ok \in BOOLEAN : CaJob(ok))
        => UNCHANGED pq /\ (srv'.exists => srv.exists) /\ srv'.proxy = srv.proxy
    BY <1>h DEF ServerRow, SetServerDomain, SetTunnel, RemoveTunnel, AddCaCertificate, RemoveCaCertificate, SetAutoUpdates,
       ChangeResources, BeginDeleteServer, CheckServer, CheckPatches, BeginCleanup, DeleteServer, ScheduleCleanup,
       WriteCleanup, DefaultCleanup, InsertDefault, ScheduleDefault, TakeTunnelJob, TunnelExec, EndTunnelJob, TunnelFault, CaJob
  <2> QED
    BY <2>1, <2>2, <2>3, <2>4, <2>5, <2>6, <2>7, <2>8, ServerActions
<1>2. srv'.exists /\ srv'.tunnel = "provisioning" => tq' # IdleJob
  <2>i. tq' = IdleJob <=> tq'.queue = <<>> /\ tq'.job = "none"
    <3>1. tq' = [queue |-> tq'.queue, job |-> tq'.job, pc |-> tq'.pc, flags |-> tq'.flags]
      BY <1>h DEF ServerTyped, TunnelTyped
    <3>2. tq'.flags = NoFlags /\ (tq'.job = "none" <=> tq'.pc = "rest")
      BY <1>h DEF ServerTyped, TunnelTyped
    <3> QED
      BY <3>1, <3>2 DEF IdleJob
  <2>1. CASE SetTunnel \/ RemoveTunnel
    <3>1. \E x \in LinkWork : tq' = [tq EXCEPT !.queue = Append(tq.queue, x)]
      BY <2>1 DEF SetTunnel, RemoveTunnel, Queued, LinkWork
    <3>2. tq'.queue # <<>>
      BY <3>1, <1>q
    <3> QED
      BY <2>i, <3>2
  <2>2. CASE TakeTunnelJob
    <3>1. srv' = srv /\ (srv.exists => tq'.job = Head(tq.queue)) /\ tq.queue # <<>>
      BY <2>2, <1>q DEF TakeTunnelJob, IdleJob
    <3>2. Head(tq.queue) # "none"
      BY <3>1, <1>h, ServerWork DEF LinkWork
    <3> QED
      BY <2>i, <3>1, <3>2
  <2>3. CASE TunnelExec \/ \E lost \in BOOLEAN : TunnelFault(lost)
    <3>1. srv' = srv /\ \E x : tq' = [tq EXCEPT !.pc = x]
      BY <2>3 DEF TunnelExec, TunnelFault
    <3>2. tq'.queue = tq.queue /\ tq'.job = tq.job
      BY <3>1, <1>q
    <3> QED
      BY <2>i, <3>1, <3>2, <1>o, <1>h, IdleQueues
  <2>4. CASE EndTunnelJob
    BY <2>4, <1>h DEF EndTunnelJob, ServerRow
  <2>5. CASE ServerWorkerDies
    <3>1. CASE tq.pc = "rest"
      BY <2>5, <3>1, <1>o DEF ServerWorkerDies
    <3>2. CASE tq.pc # "rest"
      <4>1. tq'.queue = <<tq.job>> \o tq.queue
        BY <2>5, <3>2 DEF ServerWorkerDies, IdleJob
      <4>2. <<tq.job>> \o tq.queue # <<>>
        BY <1>q
      <4> QED
        BY <2>i, <4>1, <4>2
    <3> QED
      BY <3>1, <3>2
  <2>6. CASE UNCHANGED tq /\ (srv'.exists => srv.exists) /\ srv'.tunnel = srv.tunnel
    BY <2>6, <1>o
  <2>7. SetServerDomain \/ ActivateProxy \/ RestartProxy \/ SetPanelDomain \/ AddCaCertificate \/ RemoveCaCertificate
        \/ SetAutoUpdates \/ ChangeResources \/ BeginDeleteServer \/ (\E flag \in {"traffic", "page"} : SetProxyFlags(flag))
        \/ (\E ok \in BOOLEAN : CheckServer(ok)) \/ (\E n \in 0 .. 2 : CheckPatches(n))
        \/ (\E on \in BOOLEAN : BeginCleanup(on)) \/ DeleteServer \/ ScheduleCleanup \/ WriteCleanup \/ DefaultCleanup
        \/ InsertDefault \/ ScheduleDefault \/ TakeProxyJob \/ ProxyStep \/ EndProxyJob
        \/ (\E lost \in BOOLEAN : ProxyFault(lost)) \/ (\E ok \in BOOLEAN : CaJob(ok))
        => UNCHANGED tq /\ (srv'.exists => srv.exists) /\ srv'.tunnel = srv.tunnel
    BY <1>h DEF ServerRow, SetServerDomain, ActivateProxy, RestartProxy, SetPanelDomain, AddCaCertificate, RemoveCaCertificate,
       SetAutoUpdates, ChangeResources, BeginDeleteServer, SetProxyFlags, CheckServer, CheckPatches, BeginCleanup, DeleteServer,
       ScheduleCleanup, WriteCleanup, DefaultCleanup, InsertDefault, ScheduleDefault, TakeProxyJob, ProxyStep, EndProxyJob,
       ProxyFault, CaJob
  <2> QED
    BY <2>1, <2>2, <2>3, <2>4, <2>5, <2>6, <2>7, ServerActions
<1> QED
  <2>1. (srv'.exists /\ srv'.proxy = "provisioning" => ProxyOwned') /\ (srv'.exists /\ srv'.tunnel = "provisioning" => tq' # IdleJob')
    BY <1>1, <1>2 DEF IdleJob, NoFlags
  <2>2. ProvisioningIsOwned' <=> /\ srv'.exists /\ srv'.proxy = "provisioning" => ProxyOwned'
                                 /\ srv'.exists /\ srv'.tunnel = "provisioning" => tq' # IdleJob'
    <3>1. (\E i \in DOMAIN pq'.queue : pq'.queue[i] # "panel") <=> \E x \in In(pq'.queue) : x # "panel"
      BY DEF In
    <3> QED
      BY <3>1 DEF ProvisioningIsOwned, ProxyOwned
  <2> QED
    BY <2>1, <2>2

\* As long as nothing overlapped and nothing failed, one thing is under way at a time ...
Serves(flags) == host.proxy = "running" /\ host.ran = flags /\ host.pageFile = flags.page
Lone(q) == q.queue = <<>> \/ (q.job = "none" /\ Len(q.queue) = 1)
Holds(q, what) == q.job = what \/ q.queue = <<what>>
OneThing ==
    /\ Lone(pq) /\ Lone(tq) /\ Lone(cq)
    /\ pq # IdleJob => tq = IdleJob /\ cq = IdleJob /\ ask = NoAsk
    /\ tq # IdleJob => cq = IdleJob /\ ask = NoAsk
    /\ cq # IdleJob => ask = NoAsk
    /\ cleanup.pass # "rest" => ask = NoAsk

\* ... the proxy runs with the settings of the row, or the job that provisions it is still to come,
ProxyFollows ==
    /\ srv.proxy # "error"
    /\ srv.proxy = "active" \/ Holds(pq, "restart") => Holds(pq, "provision") \/ Serves(srv.flags)
    /\ pq.job = "provision" => /\ pq.flags = srv.flags
                               /\ pq.pc = "run" => host.pageFile = pq.flags.page
                               /\ pq.pc \in {"waker", "done"} => Serves(pq.flags)
    /\ host.panelFile = panel \/ pq.queue = <<"panel">> \/ pq.pc = "panel"

\* ... the tunnel and the certificate are as recorded, or their jobs are,
LinksFollow ==
    /\ tq = IdleJob => (srv.tunnel = "active") = host.tunnel /\ host.tunnel = srv.token
    /\ tq.pc # "failed" /\ (Holds(tq, "install") => srv.token)
    /\ tq.pc = "done" => host.tunnel = (tq.job = "install")
    /\ IF cq.queue = <<>> THEN (ca = "success") = host.ca ELSE ca # "none"

\* ... and a cleanup that is on has its scheduler.
CleanupFollows ==
    /\ ask.op = "cleanupWrite" => cleanup.scheduler = ask.on
    /\ cleanup.pass = "insert" => cleanup.row = "none"
    /\ cleanup.pass = "schedule" => cleanup.row = "on"
    /\ ask.op \notin {"cleanup", "cleanupWrite"} /\ cleanup.pass = "rest" => cleanup.scheduler = (cleanup.row = "on")

ServerCalm == OneThing /\ ProxyFollows /\ LinksFollow /\ CleanupFollows /\ srv.auto = host.auto
ServerInv == ServerTyped /\ ProvisioningIsOwned /\ (clean /\ srv.exists => ServerCalm)

\* The steps that leave the history clean: a request that finds everything at rest, or a step that does not fail.
CalmRequest == ServerRequests /\ ~Busy
LEMMA CalmSteps ==
  ASSUME ServerTyped, ServerNext, clean'
  PROVE  /\ clean
         /\ \/ CalmRequest \/ DeleteServer \/ ScheduleCleanup \/ WriteCleanup \/ (DefaultCleanup /\ ask = NoAsk)
            \/ InsertDefault \/ ScheduleDefault \/ TakeProxyJob \/ ProxyStep \/ (EndProxyJob /\ pq.pc = "done")
            \/ TakeTunnelJob \/ TunnelExec \/ EndTunnelJob \/ CaJob(TRUE)
<1>1. CASE ServerRequests
  <2>1. clean' = (clean /\ ~Busy)
    BY <1>1 DEF ServerRequests, SetServerDomain, ActivateProxy, RestartProxy, SetPanelDomain, SetTunnel, RemoveTunnel,
       AddCaCertificate, RemoveCaCertificate, SetAutoUpdates, ChangeResources, BeginDeleteServer, SetProxyFlags, CheckServer,
       CheckPatches, BeginCleanup, ServerAsk
  <2> QED
    BY <1>1, <2>1 DEF CalmRequest
<1>2. CASE DeleteServer \/ ScheduleCleanup \/ WriteCleanup \/ InsertDefault \/ ScheduleDefault \/ TakeProxyJob \/ ProxyStep
           \/ TakeTunnelJob \/ TunnelExec \/ EndTunnelJob
  BY <1>2 DEF DeleteServer, ScheduleCleanup, WriteCleanup, InsertDefault, ScheduleDefault, TakeProxyJob, ProxyStep,
     TakeTunnelJob, TunnelExec, EndTunnelJob
<1>3. CASE DefaultCleanup \/ EndProxyJob
  BY <1>3 DEF DefaultCleanup, EndProxyJob
<1>4. CASE ServerWorkerDies \/ \E lost \in BOOLEAN : ProxyFault(lost) \/ TunnelFault(lost)
  BY <1>4 DEF ServerWorkerDies, ProxyFault, TunnelFault, Fault
<1>5. CASE \E ok \in BOOLEAN : CaJob(ok)
  <2>1. PICK ok \in BOOLEAN : CaJob(ok)
    BY <1>5
  <2>2. ok /\ clean' = clean
    BY <2>1 DEF CaJob, Fault
  <2>3. ok = TRUE
    BY <2>2
  <2> QED
    BY <2>1, <2>2, <2>3
<1> QED
  BY <1>1, <1>2, <1>3, <1>4, <1>5 DEF ServerNext, ServerSteps

\* A server that was there before is there: rows are only deleted.
LEMMA ServersAreOld == ASSUME ServerTyped, ServerNext, srv'.exists PROVE srv.exists
<1>1. srv \in ServerRow
  BY DEF ServerTyped, MachineTyped
<1> QED
  BY <1>1, ServerActions DEF ServerRow, SetServerDomain, ActivateProxy, RestartProxy, SetPanelDomain, SetTunnel, RemoveTunnel,
     AddCaCertificate, RemoveCaCertificate, SetAutoUpdates, ChangeResources, BeginDeleteServer, SetProxyFlags, CheckServer,
     CheckPatches, BeginCleanup, DeleteServer, ScheduleCleanup, WriteCleanup, DefaultCleanup, InsertDefault, ScheduleDefault,
     TakeProxyJob, ProxyStep, EndProxyJob, TakeTunnelJob, TunnelExec, EndTunnelJob, ProxyFault, TunnelFault, CaJob,
     ServerWorkerDies

\* What a request that finds everything at rest puts under way.
LEMMA CalmRequestStarts ==
  ASSUME ServerTyped, CalmRequest
  PROVE  /\ pq = IdleJob /\ tq = IdleJob /\ cq = IdleJob /\ ask = NoAsk /\ cleanup.pass = "rest" /\ UNCHANGED cleanup
         /\ \/ UNCHANGED <<pq, tq, cq, ask>>
            \/ UNCHANGED <<tq, cq, ask>> /\ \E x \in ProxyWork : pq' = [IdleJob EXCEPT !.queue = <<x>>]
            \/ UNCHANGED <<pq, cq, ask>> /\ \E x \in LinkWork : tq' = [IdleJob EXCEPT !.queue = <<x>>]
            \/ UNCHANGED <<pq, tq, ask>> /\ \E x \in LinkWork : cq' = [IdleJob EXCEPT !.queue = <<x>>]
            \/ UNCHANGED <<pq, tq, cq>> /\ ask'.op \in {"cleanup", "delete"}
<1>1. pq = IdleJob /\ tq = IdleJob /\ cq = IdleJob /\ ask = NoAsk /\ cleanup.pass = "rest"
  BY DEF CalmRequest, Busy
<1>2. \A x : Queued(IdleJob, x) = [IdleJob EXCEPT !.queue = <<x>>]
  BY DEF Queued, IdleJob
<1>3. CASE SetServerDomain \/ SetAutoUpdates \/ ChangeResources \/ (\E ok \in BOOLEAN : CheckServer(ok))
           \/ (\E n \in 0 .. 2 : CheckPatches(n))
  BY <1>1, <1>3 DEF SetServerDomain, SetAutoUpdates, ChangeResources, CheckServer, CheckPatches
<1>4. CASE ActivateProxy \/ RestartProxy \/ SetPanelDomain \/ \E flag \in {"traffic", "page"} : SetProxyFlags(flag)
  <2>1. UNCHANGED <<tq, cq, ask, cleanup>> /\ (pq' = pq \/ \E x \in ProxyWork : pq' = Queued(pq, x))
    BY <1>4 DEF ActivateProxy, RestartProxy, SetPanelDomain, SetProxyFlags, ProxyWork
  <2> QED
    BY <1>1, <1>2, <2>1
<1>5. CASE SetTunnel \/ RemoveTunnel
  <2>1. UNCHANGED <<pq, cq, ask, cleanup>> /\ \E x \in LinkWork : tq' = Queued(tq, x)
    BY <1>5 DEF SetTunnel, RemoveTunnel, LinkWork
  <2> QED
    BY <1>1, <1>2, <2>1
<1>6. CASE AddCaCertificate \/ RemoveCaCertificate
  <2>1. UNCHANGED <<pq, tq, ask, cleanup>> /\ \E x \in LinkWork : cq' = Queued(cq, x)
    BY <1>6 DEF AddCaCertificate, RemoveCaCertificate, LinkWork
  <2> QED
    BY <1>1, <1>2, <2>1
<1>7. CASE BeginDeleteServer \/ \E on \in BOOLEAN : BeginCleanup(on)
  BY <1>1, <1>7 DEF BeginDeleteServer, BeginCleanup, NoAsk
<1> QED
  BY <1>1, <1>3, <1>4, <1>5, <1>6, <1>7 DEF CalmRequest, ServerRequests

\* An item alone in a queue leaves nothing behind when it is taken.
LEMMA LoneTail ==
  ASSUME NEW S, NEW q \in Seq(S), Len(q) = 1
  PROVE  Tail(q) = <<>> /\ q = <<Head(q)>> /\ q # <<>>
<1>1. q # <<>>
  BY EmptySeq
<1>2. Tail(q) \in Seq(S) /\ Len(Tail(q)) = 0
  BY <1>1, QueueShrinks
<1>3. \A p \in Seq(S) : Len(p) = 0 => p = <<>>
  OBVIOUS
<1>4. q = <<Head(q)>>
  OBVIOUS
<1> QED
  BY <1>1, <1>2, <1>3, <1>4

LEMMA OneThingStays ==
  ASSUME ServerTyped, ServerNext, clean', srv'.exists, OneThing
  PROVE  OneThing'
<1> USE DEF Lone
<1>t. ServerTyped'
  BY MachineStaysTyped, QueuesStayTyped DEF ServerTyped
<1>q. /\ pq.queue \in Seq(ProxyWork) /\ tq.queue \in Seq(LinkWork) /\ cq.queue \in Seq(LinkWork)
      /\ (pq.job = "none" => pq.pc = "rest") /\ (pq.pc = "rest" => pq.job = "none")
      /\ (tq.job = "none" <=> tq.pc = "rest") /\ cq.job = "none"
      /\ pq = [queue |-> pq.queue, job |-> pq.job, pc |-> pq.pc, flags |-> pq.flags]
      /\ tq = [queue |-> tq.queue, job |-> tq.job, pc |-> tq.pc, flags |-> tq.flags]
      /\ cq = [queue |-> cq.queue, job |-> cq.job, pc |-> cq.pc, flags |-> cq.flags]
  BY DEF ServerTyped, ProxyTyped, TunnelTyped, CaTyped, ProxyWork
<1>i. /\ pq = IdleJob <=> pq.queue = <<>> /\ pq.job = "none"
      /\ tq = IdleJob <=> tq.queue = <<>> /\ tq.job = "none"
      /\ cq = IdleJob <=> cq.queue = <<>>
  BY IdleQueues
<1>j. IdleJob' = IdleJob /\ NoAsk' = NoAsk
  BY DEF IdleJob, NoAsk, NoFlags
<1>1. CASE CalmRequest
  <2>1. IdleJob.queue = <<>> /\ \A x : [IdleJob EXCEPT !.queue = <<x>>].queue = <<x>> /\ [IdleJob EXCEPT !.queue = <<x>>].job = "none"
    BY DEF IdleJob
  <2>2. \A x : Len(<<x>>) = 1
    OBVIOUS
  <2>3. cleanup' = cleanup /\ cleanup.pass = "rest" /\ ask = NoAsk /\ pq = IdleJob /\ tq = IdleJob /\ cq = IdleJob
    BY <1>1, CalmRequestStarts
  <2>4. CASE UNCHANGED <<pq, tq, cq, ask>>
    BY <2>4, <2>3, <1>j DEF OneThing
  <2>5. CASE UNCHANGED <<tq, cq, ask>> /\ \E x \in ProxyWork : pq' = [IdleJob EXCEPT !.queue = <<x>>]
    <3>1. Lone(pq)'
      BY <2>1, <2>2, <2>5
    <3> QED
      BY <2>1, <2>5, <2>3, <1>j, <3>1 DEF OneThing
  <2>6. CASE UNCHANGED <<pq, cq, ask>> /\ \E x \in LinkWork : tq' = [IdleJob EXCEPT !.queue = <<x>>]
    <3>1. Lone(tq)'
      BY <2>1, <2>2, <2>6
    <3> QED
      BY <2>1, <2>6, <2>3, <1>j, <3>1 DEF OneThing
  <2>7. CASE UNCHANGED <<pq, tq, ask>> /\ \E x \in LinkWork : cq' = [IdleJob EXCEPT !.queue = <<x>>]
    <3>1. Lone(cq)'
      BY <2>1, <2>2, <2>7
    <3> QED
      BY <2>1, <2>7, <2>3, <1>j, <3>1 DEF OneThing
  <2>8. CASE UNCHANGED <<pq, tq, cq>>
    BY <2>1, <2>3, <2>8, <1>j DEF OneThing
  <2> QED
    BY <1>1, <2>4, <2>5, <2>6, <2>7, <2>8, CalmRequestStarts
<1>2. CASE TakeProxyJob
  <2>1. pq.queue # <<>> /\ pq.job = "none" /\ UNCHANGED <<tq, cq, cleanup, ask>>
    BY <1>2, <1>q DEF TakeProxyJob
  <2>2. Len(pq.queue) = 1
    BY <2>1 DEF OneThing
  <2>3. Tail(pq.queue) = <<>>
    BY <2>2, <1>q, LoneTail
  <2>4. pq'.queue = <<>>
    BY <1>2, <2>3 DEF TakeProxyJob, IdleJob
  <2> QED
    BY <2>1, <2>4, <1>i, <1>j DEF OneThing
<1>3. CASE ProxyStep
  <2>1. pq.job # "none" /\ UNCHANGED <<tq, cq, cleanup, ask>> /\ \E x : pq' = [pq EXCEPT !.pc = x]
    BY <1>3, <1>q DEF ProxyStep, Stepping
  <2>2. pq'.queue = pq.queue /\ pq.queue = <<>>
    BY <2>1, <1>q DEF OneThing
  <2> QED
    BY <2>1, <2>2, <1>i, <1>j DEF OneThing
<1>4. CASE EndProxyJob
  <2>1. pq.job # "none" /\ UNCHANGED <<tq, cq, cleanup, ask>> /\ pq' = [IdleJob EXCEPT !.queue = pq.queue]
    BY <1>4, <1>q DEF EndProxyJob
  <2>2. pq.queue = <<>> /\ pq # IdleJob
    BY <2>1, <1>i DEF OneThing
  <2>3. pq'.queue = <<>>
    BY <2>1, <2>2 DEF IdleJob
  <2> QED
    BY <2>1, <2>2, <2>3, <1>j DEF OneThing
<1>5. CASE TakeTunnelJob
  <2>1. tq.queue # <<>> /\ tq.job = "none" /\ UNCHANGED <<pq, cq, cleanup, ask>>
    BY <1>5, <1>q DEF TakeTunnelJob
  <2>2. Len(tq.queue) = 1
    BY <2>1 DEF OneThing
  <2>3. Tail(tq.queue) = <<>>
    BY <2>2, <1>q, LoneTail
  <2>4. tq'.queue = <<>>
    BY <1>5, <2>3 DEF TakeTunnelJob, IdleJob
  <2> QED
    BY <2>1, <2>4, <1>i, <1>j DEF OneThing
<1>6. CASE TunnelExec
  <2>1. tq.job # "none" /\ UNCHANGED <<pq, cq, cleanup, ask>> /\ \E x : tq' = [tq EXCEPT !.pc = x]
    BY <1>6, <1>q DEF TunnelExec
  <2>2. tq'.queue = tq.queue /\ tq.queue = <<>>
    BY <2>1, <1>q DEF OneThing
  <2> QED
    BY <2>1, <2>2, <1>i, <1>j DEF OneThing
<1>7. CASE EndTunnelJob
  <2>1. tq.job # "none" /\ UNCHANGED <<pq, cq, cleanup, ask>> /\ tq' = [IdleJob EXCEPT !.queue = tq.queue]
    BY <1>7, <1>q DEF EndTunnelJob
  <2>2. tq.queue = <<>> /\ tq # IdleJob
    BY <2>1, <1>i DEF OneThing
  <2>3. tq'.queue = <<>>
    BY <2>1, <2>2 DEF IdleJob
  <2> QED
    BY <2>1, <2>2, <2>3, <1>j DEF OneThing
<1>8. CASE CaJob(TRUE)
  <2>1. cq.queue # <<>> /\ UNCHANGED <<pq, tq, cleanup, ask>> /\ cq' = [cq EXCEPT !.queue = Tail(cq.queue)]
    BY <1>8 DEF CaJob
  <2>2. Len(cq.queue) = 1
    BY <2>1, <1>q DEF OneThing
  <2>3. cq'.queue = <<>>
    BY <2>1, <2>2, <1>q, LoneTail
  <2> QED
    BY <2>1, <2>3, <1>i, <1>j DEF OneThing
<1>9. CASE ScheduleCleanup \/ WriteCleanup \/ (DefaultCleanup /\ ask = NoAsk) \/ InsertDefault \/ ScheduleDefault
  <2>1. UNCHANGED <<pq, tq, cq>>
    BY <1>9 DEF ScheduleCleanup, WriteCleanup, DefaultCleanup, InsertDefault, ScheduleDefault
  <2>2. CASE ScheduleCleanup \/ WriteCleanup
    <3>1. ask.op # "none"
      BY <2>2 DEF ScheduleCleanup, WriteCleanup
    <3>3. ask # NoAsk
      BY <3>1 DEF NoAsk
    <3>2. cleanup'.pass = cleanup.pass
      BY <2>2 DEF ServerTyped, MachineTyped, ScheduleCleanup, WriteCleanup
    <3> QED
      BY <2>1, <3>3, <3>2, <1>j DEF OneThing
  <2>3. CASE (DefaultCleanup /\ ask = NoAsk) \/ InsertDefault \/ ScheduleDefault
    <3>1. ask' = ask /\ (ask = NoAsk \/ cleanup'.pass = "rest")
      BY <2>3 DEF DefaultCleanup, InsertDefault, ScheduleDefault, OneThing
    <3> QED
      BY <2>1, <3>1, <1>j DEF OneThing
  <2> QED
    BY <1>9, <2>2, <2>3
<1>10. CASE DeleteServer
  BY <1>10 DEF DeleteServer, ServerTyped, MachineTyped, ServerRow
<1> HIDE DEF Lone
<1> QED
  BY <1>1, <1>2, <1>3, <1>4, <1>5, <1>6, <1>7, <1>8, <1>9, <1>10, CalmSteps

LEMMA CleanupStillFollows ==
  ASSUME ServerTyped, ServerNext, clean', srv'.exists, OneThing, CleanupFollows
  PROVE  CleanupFollows'
<1>t. /\ cleanup \in [row : {"none", "on", "off"}, scheduler : BOOLEAN, pass : {"rest", "insert", "schedule"}]
      /\ ask \in [op : {"none", "cleanup", "cleanupWrite", "delete"}, on : BOOLEAN]
      /\ NoAsk.op = "none" /\ srv.exists
  BY ServersAreOld DEF ServerTyped, MachineTyped, NoAsk
<1>1. CASE CalmRequest
  <2>1. cleanup' = cleanup /\ cleanup.pass = "rest" /\ ask = NoAsk /\ (ask' = ask \/ ask'.op \in {"cleanup", "delete"})
    BY <1>1, CalmRequestStarts
  <2> QED
    BY <2>1, <1>t DEF CleanupFollows
<1>2. CASE ScheduleCleanup
  <2>1. cleanup.pass = "rest"
    BY <1>2, <1>t DEF ScheduleCleanup, OneThing
  <2>2. cleanup'.pass = "rest" /\ cleanup'.scheduler = ask.on /\ ask'.op = "cleanupWrite" /\ ask'.on = ask.on
    BY <1>2, <1>t, <2>1 DEF ScheduleCleanup
  <2> QED
    BY <2>2 DEF CleanupFollows
<1>3. CASE WriteCleanup
  <2>1. cleanup.pass = "rest" /\ cleanup.scheduler = ask.on
    BY <1>3, <1>t DEF WriteCleanup, OneThing, CleanupFollows
  <2>2. cleanup'.pass = "rest" /\ cleanup'.scheduler = ask.on /\ cleanup'.row = (IF ask.on THEN "on" ELSE "off") /\ ask' = NoAsk
    BY <1>3, <1>t, <2>1 DEF WriteCleanup
  <2> QED
    BY <2>2, <1>t DEF CleanupFollows
<1>4. CASE DefaultCleanup /\ ask = NoAsk
  <2>1. cleanup.row = "none" /\ ask' = ask
    BY <1>4, <1>t DEF DefaultCleanup
  <2>2. cleanup'.pass = "insert" /\ cleanup'.row = "none"
    BY <1>4, <1>t DEF DefaultCleanup
  <2> QED
    BY <2>1, <2>2, <1>4, <1>t DEF CleanupFollows
<1>5. CASE InsertDefault
  <2>1. cleanup.row = "none" /\ ask' = ask /\ ask = NoAsk
    BY <1>5 DEF InsertDefault, CleanupFollows, OneThing
  <2>2. cleanup'.pass = "schedule" /\ cleanup'.row = "on"
    BY <1>5, <1>t, <2>1 DEF InsertDefault
  <2> QED
    BY <2>1, <2>2, <1>t DEF CleanupFollows
<1>6. CASE ScheduleDefault
  <2>1. cleanup.row = "on" /\ ask' = ask /\ ask = NoAsk
    BY <1>6 DEF ScheduleDefault, CleanupFollows, OneThing
  <2>2. cleanup'.pass = "rest" /\ cleanup'.row = "on" /\ cleanup'.scheduler = TRUE
    BY <1>6, <1>t, <2>1 DEF ScheduleDefault
  <2> QED
    BY <2>1, <2>2, <1>t DEF CleanupFollows
<1>7. CASE DeleteServer
  BY <1>7 DEF DeleteServer, ServerTyped, MachineTyped, ServerRow
<1>8. CASE UNCHANGED <<cleanup, ask>>
  BY <1>8 DEF CleanupFollows
<1> QED
  BY <1>1, <1>2, <1>3, <1>4, <1>5, <1>6, <1>7, <1>8, CalmSteps DEF TakeProxyJob, ProxyStep, EndProxyJob, TakeTunnelJob, TunnelExec,
     EndTunnelJob, CaJob

LEMMA LinksStillFollow ==
  ASSUME ServerTyped, ServerNext, clean', srv'.exists, OneThing, LinksFollow
  PROVE  LinksFollow'
<1>t. /\ srv \in ServerRow /\ host \in Machine /\ ca \in {"none", "queued", "success", "failed"} /\ srv.exists
  BY ServersAreOld DEF ServerTyped, MachineTyped
<1>q. /\ tq.queue \in Seq(LinkWork) /\ cq.queue \in Seq(LinkWork) /\ cq.job = "none" /\ (tq.job = "none" <=> tq.pc = "rest")
      /\ tq.job \in LinkWork \cup {"none"} /\ tq.pc \in {"rest", "exec", "done", "failed"}
      /\ tq = [queue |-> tq.queue, job |-> tq.job, pc |-> tq.pc, flags |-> tq.flags]
      /\ cq = [queue |-> cq.queue, job |-> cq.job, pc |-> cq.pc, flags |-> cq.flags]
  BY DEF ServerTyped, TunnelTyped, CaTyped
<1>i. /\ tq = IdleJob <=> tq.queue = <<>> /\ tq.job = "none"
      /\ cq = IdleJob <=> cq.queue = <<>>
  BY IdleQueues
<1>j. /\ IdleJob' = IdleJob /\ IdleJob.queue = <<>> /\ IdleJob.job = "none" /\ IdleJob.pc = "rest"
      /\ \A x : /\ [IdleJob EXCEPT !.queue = <<x>>].queue = <<x>> /\ [IdleJob EXCEPT !.queue = <<x>>].job = "none"
                /\ [IdleJob EXCEPT !.queue = <<x>>].pc = "rest"
  BY DEF IdleJob, NoFlags
<1>k. /\ \A x : <<x>> # <<>>
      /\ <<"remove">> # <<"install">>
  OBVIOUS
<1>1. CASE CalmRequest
  <2>1. tq = IdleJob /\ cq = IdleJob
    BY <1>1, CalmRequestStarts
  <2>2. (srv.tunnel = "active") = host.tunnel /\ host.tunnel = srv.token /\ (ca = "success") = host.ca
    BY <2>1, <1>j DEF LinksFollow
  <2>3. ServerRequests
    BY <1>1 DEF CalmRequest
  <2>4. CASE SetTunnel
    <3>1. tq' = [IdleJob EXCEPT !.queue = <<"install">>] /\ srv'.token = TRUE /\ UNCHANGED <<cq, ca, host>>
      BY <2>1, <2>4, <1>t DEF SetTunnel, Queued, IdleJob, ServerRow
    <3>2. tq'.queue = <<"install">> /\ tq'.job = "none" /\ tq'.pc = "rest" /\ tq' # IdleJob
      BY <3>1, <1>j, <1>k
    <3> QED
      BY <3>1, <3>2, <2>1, <2>2, <1>j DEF LinksFollow
  <2>5. CASE RemoveTunnel
    <3>1. tq' = [IdleJob EXCEPT !.queue = <<"remove">>] /\ UNCHANGED <<cq, ca, host>>
      BY <2>1, <2>5, <1>t DEF RemoveTunnel, Queued, IdleJob
    <3>2. tq'.queue = <<"remove">> /\ tq'.job = "none" /\ tq'.pc = "rest" /\ tq' # IdleJob
      BY <3>1, <1>j, <1>k
    <3>3. ~ Holds(tq, "install")'
      BY <3>2, <1>k DEF Holds
    <3> QED
      BY <3>1, <3>2, <3>3, <2>1, <2>2, <1>j DEF LinksFollow
  <2>6. CASE AddCaCertificate \/ RemoveCaCertificate
    <3>1. /\ cq' = [IdleJob EXCEPT !.queue = <<"install">>] \/ cq' = [IdleJob EXCEPT !.queue = <<"remove">>]
          /\ UNCHANGED <<tq, srv, host>> /\ ca' = "queued"
      BY <2>1, <2>6 DEF AddCaCertificate, RemoveCaCertificate, Queued, IdleJob
    <3>2. cq'.queue # <<>>
      <4>1. \A x : [IdleJob EXCEPT !.queue = <<x>>].queue # <<>>
        BY <1>j, <1>k
      <4> QED
        BY <3>1, <4>1
    <3> QED
      BY <3>1, <3>2, <2>1, <2>2, <1>j DEF LinksFollow, Holds
  <2>7. CASE UNCHANGED <<tq, cq, ca>> /\ srv'.tunnel = srv.tunnel /\ srv'.token = srv.token /\ host'.tunnel = host.tunnel
             /\ host'.ca = host.ca
    BY <2>7, <2>1, <1>j DEF LinksFollow, Holds
  <2>8. CASE SetAutoUpdates
    <3>1. UNCHANGED <<tq, cq, ca>> /\ srv'.tunnel = srv.tunnel /\ srv'.token = srv.token /\ host'.tunnel = host.tunnel
          /\ host'.ca = host.ca
      BY <2>8, <1>t DEF SetAutoUpdates, ServerRow, Machine
    <3> QED
      BY <3>1, <2>7
  <2>9. SetServerDomain \/ ActivateProxy \/ RestartProxy \/ SetPanelDomain \/ ChangeResources \/ BeginDeleteServer
        \/ (\E flag \in {"traffic", "page"} : SetProxyFlags(flag)) \/ (\E ok \in BOOLEAN : CheckServer(ok))
        \/ (\E n \in 0 .. 2 : CheckPatches(n)) \/ (\E on \in BOOLEAN : BeginCleanup(on))
        => UNCHANGED <<tq, cq, ca, host>> /\ srv'.tunnel = srv.tunnel /\ srv'.token = srv.token
    BY <1>t DEF ServerRow, SetServerDomain, ActivateProxy, RestartProxy, SetPanelDomain, ChangeResources, BeginDeleteServer,
       SetProxyFlags, CheckServer, CheckPatches, BeginCleanup
  <2> QED
    BY <2>3, <2>4, <2>5, <2>6, <2>7, <2>8, <2>9 DEF ServerRequests
<1>2. CASE TakeTunnelJob
  <2>1. tq.queue # <<>> /\ tq.job = "none" /\ UNCHANGED <<srv, host, cq, ca>>
    BY <1>2, <1>q DEF TakeTunnelJob
  <2>2. Len(tq.queue) = 1
    BY <2>1, <1>q DEF OneThing, Lone
  <2>3. tq.queue = <<Head(tq.queue)>> /\ Head(tq.queue) \in LinkWork /\ Tail(tq.queue) = <<>>
    BY <2>1, <2>2, <1>q, LoneTail, QueueShrinks
  <2>4. tq'.queue = <<>> /\ tq'.job = Head(tq.queue) /\ tq'.pc = "exec"
    BY <1>2, <1>t, <2>3 DEF TakeTunnelJob, IdleJob
  <2>5. tq' # IdleJob
    BY <2>4, <1>j
  <2>6. Holds(tq, "install")' => Holds(tq, "install")
    BY <2>3, <2>4, <1>k DEF Holds
  <2> QED
    BY <2>1, <2>4, <2>5, <2>6, <1>j DEF LinksFollow
<1>3. CASE TunnelExec
  <2>1. tq.job # "none" /\ UNCHANGED <<srv, cq, ca>> /\ tq' = [tq EXCEPT !.pc = "done"]
    BY <1>3, <1>q DEF TunnelExec
  <2>2. tq'.queue = tq.queue /\ tq'.job = tq.job /\ tq'.pc = "done"
    BY <2>1, <1>q
  <2>3. host'.tunnel = (tq.job = "install") /\ host'.ca = host.ca
    BY <1>3, <1>t DEF TunnelExec, Machine
  <2>4. tq' # IdleJob
    BY <2>2, <1>j
  <2> QED
    BY <2>1, <2>2, <2>3, <2>4, <1>j DEF LinksFollow, Holds
<1>4. CASE EndTunnelJob
  <2>1. tq.pc = "done" /\ tq.job \in LinkWork /\ UNCHANGED <<host, cq, ca>> /\ tq' = [IdleJob EXCEPT !.queue = tq.queue]
    BY <1>4, <1>q DEF EndTunnelJob, LinksFollow
  <2>2. tq.queue = <<>>
    BY <2>1 DEF OneThing, Lone, LinkWork
  <2>3. tq' = IdleJob
    BY <2>1, <2>2 DEF IdleJob
  <2>4. CASE tq.job = "install"
    <3>1. srv'.tunnel = "active" /\ srv'.token = srv.token
      BY <1>4, <1>t, <2>1, <2>4 DEF EndTunnelJob, ServerRow
    <3>2. srv.token /\ host.tunnel
      BY <2>1, <2>4 DEF LinksFollow, Holds
    <3> QED
      BY <3>1, <3>2, <2>1, <2>3, <1>j, <1>k, <1>t DEF LinksFollow, Holds, ServerRow, Machine
  <2>5. CASE tq.job # "install"
    <3>1. srv'.tunnel = "inactive" /\ srv'.token = FALSE
      BY <1>4, <1>t, <2>1, <2>5 DEF EndTunnelJob, ServerRow
    <3>2. host.tunnel = FALSE
      BY <2>1, <2>5 DEF LinksFollow, Holds
    <3>3. tq'.queue = <<>> /\ tq'.job = "none" /\ tq'.pc = "rest" /\ <<>> # <<"install">>
      BY <2>3, <1>j
    <3>4. ~ Holds(tq, "install")'
      BY <3>3 DEF Holds
    <3>5. UNCHANGED <<host, cq, ca>>
      BY <2>1
    <3> QED
      BY <3>1, <3>2, <3>3, <3>4, <3>5 DEF LinksFollow
  <2> QED
    BY <2>4, <2>5
<1>5. CASE CaJob(TRUE)
  <2>1. cq.queue # <<>> /\ UNCHANGED <<tq, srv>> /\ cq' = [cq EXCEPT !.queue = Tail(cq.queue)]
    BY <1>5 DEF CaJob
  <2>2. Len(cq.queue) = 1
    BY <2>1, <1>q DEF OneThing, Lone
  <2>3. cq'.queue = <<>>
    BY <2>1, <2>2, <1>q, LoneTail
  <2>4. host' = [host EXCEPT !.ca = (Head(cq.queue) = "install")]
    BY <1>5, <1>t DEF CaJob
  <2>5. ca # "none"
    BY <2>1 DEF LinksFollow
  <2>6. ca' = IF Head(cq.queue) = "install" THEN "success" ELSE "none"
    BY <1>5, <1>t, <2>5 DEF CaJob
  <2>7. host'.tunnel = host.tunnel /\ host'.ca = (Head(cq.queue) = "install")
    BY <2>4, <1>t DEF Machine
  <2>8. (ca' = "success") = host'.ca
    BY <2>6, <2>7
  <2> QED
    BY <2>1, <2>3, <2>7, <2>8, <1>j DEF LinksFollow, Holds
<1>6. CASE ProxyStep
  <2>1. host'.tunnel = host.tunnel /\ host'.ca = host.ca
    BY <1>6, <1>t DEF ProxyStep, StepOnHost, Stepping, Machine
  <2> QED
    BY <1>6, <2>1, <1>j DEF ProxyStep, LinksFollow, Holds
<1>7. CASE EndProxyJob
  <2>1. srv'.tunnel = srv.tunnel /\ srv'.token = srv.token
    BY <1>7, <1>t DEF EndProxyJob, ServerRow
  <2> QED
    BY <1>7, <2>1, <1>j DEF EndProxyJob, LinksFollow, Holds
<1>8. CASE DeleteServer
  BY <1>8, <1>t DEF DeleteServer, ServerRow
<1>9. CASE UNCHANGED <<srv, host, tq, cq, ca>>
  BY <1>9, <1>j DEF LinksFollow, Holds
<1> QED
  BY <1>1, <1>2, <1>3, <1>4, <1>5, <1>6, <1>7, <1>8, <1>9, CalmSteps DEF ScheduleCleanup, WriteCleanup, DefaultCleanup,
     InsertDefault, ScheduleDefault, TakeProxyJob

LEMMA ProxyStillFollows ==
  ASSUME ServerTyped, ServerNext, clean', srv'.exists, OneThing, ProxyFollows
  PROVE  ProxyFollows'
<1>t. /\ srv \in ServerRow /\ host \in Machine /\ panel \in BOOLEAN /\ srv.exists
  BY ServersAreOld DEF ServerTyped, MachineTyped
<1>q. /\ pq.queue \in Seq(ProxyWork) /\ pq.job \in ProxyWork \cup {"none"} /\ pq.flags \in Flags
      /\ (pq.job = "none" => pq.pc = "rest") /\ (pq.pc = "rest" => pq.job = "none")
      /\ (pq.job = "provision" => pq.pc \in {"static", "page", "run", "waker", "done", "failed"})
      /\ (pq.job = "restart" => pq.pc \in {"restart", "done", "failed"})
      /\ (pq.job = "panel" => pq.pc \in {"panel", "done", "failed"})
      /\ pq = [queue |-> pq.queue, job |-> pq.job, pc |-> pq.pc, flags |-> pq.flags]
  BY DEF ServerTyped, ProxyTyped, ProxyWork
<1>j. /\ IdleJob.queue = <<>> /\ IdleJob.job = "none" /\ IdleJob.pc = "rest"
      /\ \A x : Queued(IdleJob, x).queue = <<x>> /\ Queued(IdleJob, x).job = "none"
  BY DEF IdleJob, Queued
<1>k. /\ <<>> # <<"provision">> /\ <<>> # <<"restart">> /\ <<>> # <<"panel">>
      /\ <<"panel">> # <<"restart">> /\ <<"provision">> # <<"restart">> /\ <<"provision">> # <<"panel">>
  OBVIOUS
<1>1. CASE CalmRequest
  <2>1. pq = IdleJob
    BY <1>1, CalmRequestStarts
  <2>2. /\ srv.proxy # "error" /\ (srv.proxy = "active" => Serves(srv.flags)) /\ host.panelFile = panel
        /\ pq.queue = <<>> /\ pq.job = "none" /\ pq.pc = "rest"
    BY <2>1, <1>j, <1>k DEF ProxyFollows, Holds
  <2>3. ServerRequests
    BY <1>1 DEF CalmRequest
  <2>4. CASE ActivateProxy
    <3>1. /\ pq'.queue = <<"provision">> /\ pq'.job = "none" /\ UNCHANGED <<panel, host>>
          /\ srv'.proxy = "provisioning"
      BY <2>1, <2>4, <1>j, <1>t DEF ActivateProxy, ServerRow
    <3> QED
      BY <3>1, <2>2, <1>k DEF ProxyFollows, Holds
  <2>5. CASE RestartProxy
    <3>1. /\ pq'.queue = <<"restart">> /\ pq'.job = "none" /\ UNCHANGED <<panel, host>>
          /\ srv'.proxy = "provisioning" /\ srv'.flags = srv.flags /\ srv.proxy = "active"
      BY <2>1, <2>5, <1>j, <1>t, <2>2 DEF RestartProxy, ServerRow
    <3> QED
      BY <3>1, <2>2 DEF ProxyFollows, Holds, Serves
  <2>6. CASE SetPanelDomain
    <3>1. /\ pq'.queue = <<"panel">> /\ pq'.job = "none" /\ UNCHANGED <<srv, host>>
      BY <2>1, <2>6, <1>j DEF SetPanelDomain
    <3> QED
      BY <3>1, <2>2, <1>k DEF ProxyFollows, Holds, Serves
  <2>7. ASSUME NEW flag \in {"traffic", "page"}, SetProxyFlags(flag) PROVE ProxyFollows'
    <3>1. srv'.proxy = srv.proxy /\ UNCHANGED <<panel, host>>
      BY <2>7, <1>t DEF SetProxyFlags, ServerRow
    <3>2. CASE srv.proxy = "active"
      <4>1. pq'.queue = <<"provision">> /\ pq'.job = "none"
        BY <2>1, <2>7, <3>2, <1>j DEF SetProxyFlags
      <4> QED
        BY <3>1, <4>1, <2>2, <1>k DEF ProxyFollows, Holds
    <3>3. CASE srv.proxy # "active"
      <4>1. pq' = pq
        BY <2>7, <3>3 DEF SetProxyFlags
      <4> QED
        BY <3>1, <3>3, <4>1, <2>2, <1>k DEF ProxyFollows, Holds
    <3> QED
      BY <3>2, <3>3
  <2>8. CASE SetAutoUpdates
    <3>1. /\ UNCHANGED <<pq, panel>> /\ srv'.proxy = srv.proxy /\ srv'.flags = srv.flags
          /\ host'.proxy = host.proxy /\ host'.ran = host.ran /\ host'.pageFile = host.pageFile /\ host'.panelFile = host.panelFile
      BY <2>8, <1>t DEF SetAutoUpdates, ServerRow, Machine
    <3> QED
      BY <3>1, <2>2, <1>k DEF ProxyFollows, Holds, Serves
  <2>9. CASE SetServerDomain \/ SetTunnel \/ RemoveTunnel \/ AddCaCertificate \/ RemoveCaCertificate \/ ChangeResources
             \/ BeginDeleteServer \/ (\E ok \in BOOLEAN : CheckServer(ok)) \/ (\E n \in 0 .. 2 : CheckPatches(n))
             \/ (\E on \in BOOLEAN : BeginCleanup(on))
    <3>1. UNCHANGED <<pq, panel, host>> /\ srv'.proxy = srv.proxy /\ srv'.flags = srv.flags
      BY <2>9, <1>t DEF ServerRow, SetServerDomain, SetTunnel, RemoveTunnel, AddCaCertificate, RemoveCaCertificate,
         ChangeResources, BeginDeleteServer, CheckServer, CheckPatches, BeginCleanup
    <3> QED
      BY <3>1, <2>2, <1>k DEF ProxyFollows, Holds, Serves
  <2> QED
    BY <2>3, <2>4, <2>5, <2>6, <2>7, <2>8, <2>9 DEF ServerRequests
<1>2. CASE TakeProxyJob
  <2>1. pq.queue # <<>> /\ pq.job = "none" /\ pq.pc = "rest" /\ UNCHANGED <<srv, host, panel>>
    BY <1>2, <1>q DEF TakeProxyJob
  <2>2. Len(pq.queue) = 1
    BY <2>1, <1>q DEF OneThing, Lone
  <2>3. pq.queue = <<Head(pq.queue)>> /\ Head(pq.queue) \in ProxyWork /\ Tail(pq.queue) = <<>>
    BY <2>1, <2>2, <1>q, LoneTail, QueueShrinks
  <2>4. pq'.queue = <<>> /\ pq'.job = Head(pq.queue) /\ pq'.pc = FirstStep(Head(pq.queue)) /\ pq'.flags = srv.flags
    BY <1>2, <1>t, <2>3 DEF TakeProxyJob
  <2>5. \A what : Holds(pq, what)' => Holds(pq, what)
    BY <2>3, <2>4 DEF Holds
  <2>6. \A what \in ProxyWork : Holds(pq, what) => Holds(pq, what)'
    BY <2>1, <2>3, <2>4 DEF Holds, ProxyWork
  <2>7. pq'.job = "provision" => pq'.pc \notin {"run", "waker", "done"}
    BY <2>4 DEF FirstStep
  <2>8. pq.queue = <<"panel">> => pq'.pc = "panel"
    BY <2>3, <2>4 DEF FirstStep
  <2> QED
    BY <2>1, <2>4, <2>5, <2>6, <2>7, <2>8 DEF ProxyFollows, Serves, ProxyWork
<1>3. CASE ProxyStep
  <2>1. /\ Stepping /\ pq.job # "none" /\ UNCHANGED <<srv, panel>> /\ host' = StepOnHost /\ pq' = [pq EXCEPT !.pc = NextStep(pq.pc)]
    BY <1>3, <1>q DEF ProxyStep, Stepping
  <2>2. pq'.queue = pq.queue /\ pq'.job = pq.job /\ pq'.flags = pq.flags /\ pq'.pc = NextStep(pq.pc) /\ pq.queue = <<>>
    BY <2>1, <1>q DEF OneThing, Lone
  <2>3. \A what : Holds(pq, what)' <=> Holds(pq, what)
    BY <2>2 DEF Holds
  <2>4. CASE pq.job = "provision"
    <3>1. pq.flags = srv.flags /\ pq.pc \in {"static", "page", "run", "waker"}
      BY <2>1, <2>4, <1>q DEF Stepping, ProxyFollows
    <3>2. host'.panelFile = host.panelFile /\ host.panelFile = panel
      BY <2>1, <2>2, <3>1, <1>t, <1>k DEF StepOnHost, Machine, ProxyFollows
    <3>3. /\ Holds(pq, "provision")' /\ srv'.proxy # "error" /\ host'.panelFile = panel' /\ pq'.flags = srv'.flags
      BY <2>1, <2>2, <2>3, <2>4, <3>1, <3>2 DEF Holds, ProxyFollows
    <3>4. pq'.pc = "run" => host'.pageFile = pq'.flags.page
      BY <2>1, <2>2, <3>1, <1>t DEF StepOnHost, NextStep, Machine
    <3>5. pq'.pc \in {"waker", "done"} => Serves(pq.flags)'
      <4>1. CASE pq.pc = "static" \/ pq.pc = "page"
        BY <2>2, <4>1 DEF NextStep
      <4>2. CASE pq.pc = "run"
        <5>1. host.pageFile = pq.flags.page
          BY <2>4, <4>2 DEF ProxyFollows
        <5>2. host'.proxy = "running" /\ host'.ran = pq.flags /\ host'.pageFile = host.pageFile
          BY <2>1, <4>2, <1>t DEF StepOnHost, Machine
        <5> QED
          BY <2>2, <5>1, <5>2 DEF Serves
      <4>3. CASE pq.pc = "waker"
        <5>1. Serves(pq.flags)
          BY <2>4, <4>3 DEF ProxyFollows
        <5>2. host'.proxy = host.proxy /\ host'.ran = host.ran /\ host'.pageFile = host.pageFile
          BY <2>1, <4>3, <1>t DEF StepOnHost, Machine
        <5> QED
          BY <2>2, <5>1, <5>2 DEF Serves
      <4> QED
        BY <3>1, <4>1, <4>2, <4>3
    <3> QED
      BY <3>3, <3>4, <3>5 DEF ProxyFollows
  <2>5. CASE pq.job # "provision"
    <3>1. pq.job \in {"restart", "panel"} /\ pq.pc \in {"restart", "panel"} /\ pq'.job # "provision"
      BY <2>1, <2>2, <2>5, <1>q DEF Stepping, ProxyWork
    <3>2. host'.proxy = host.proxy /\ host'.ran = host.ran /\ host'.pageFile = host.pageFile
      BY <2>1, <3>1, <1>t DEF StepOnHost, Machine
    <3>3. host'.panelFile = panel
      BY <2>1, <2>2, <3>1, <1>t, <1>k DEF StepOnHost, Machine, ProxyFollows
    <3>4. Serves(srv.flags)' <=> Serves(srv.flags)
      BY <2>1, <3>2 DEF Serves
    <3> QED
      BY <2>1, <2>3, <3>1, <3>3, <3>4 DEF ProxyFollows
  <2> QED
    BY <2>4, <2>5
<1>4. CASE EndProxyJob /\ pq.pc = "done"
  <2>1. pq.job \in ProxyWork /\ UNCHANGED <<host, panel>> /\ pq' = [IdleJob EXCEPT !.queue = pq.queue]
    BY <1>4, <1>q DEF EndProxyJob
  <2>2. pq.queue = <<>>
    BY <2>1 DEF OneThing, Lone, ProxyWork
  <2>3. pq'.queue = <<>> /\ pq'.job = "none" /\ pq'.pc = "rest"
    BY <2>1, <2>2 DEF IdleJob
  <2>4. host.panelFile = panel
    BY <1>4, <2>2, <1>k DEF ProxyFollows
  <2>5. srv'.flags = srv.flags /\ srv'.proxy = IF pq.job = "panel" THEN srv.proxy ELSE "active"
    BY <1>4, <1>t DEF EndProxyJob, ServerRow
  <2>6. srv'.proxy = "active" => Serves(srv.flags)
    <3>1. CASE pq.job = "provision"
      BY <1>4, <3>1 DEF ProxyFollows
    <3>2. CASE pq.job = "restart"
      BY <2>2, <3>2, <1>k DEF ProxyFollows, Holds
    <3>3. CASE pq.job = "panel"
      BY <2>2, <2>5, <3>3, <1>k DEF ProxyFollows, Holds
    <3> QED
      BY <2>1, <3>1, <3>2, <3>3 DEF ProxyWork
  <2>7. ~ Holds(pq, "restart")'
    BY <2>3, <1>k DEF Holds
  <2> QED
    BY <2>1, <2>3, <2>4, <2>5, <2>6, <2>7 DEF ProxyFollows, Serves
<1>5. CASE DeleteServer
  BY <1>5, <1>t DEF DeleteServer, ServerRow
<1>6. CASE UNCHANGED <<pq, panel>> /\ srv'.proxy = srv.proxy /\ srv'.flags = srv.flags /\ host'.proxy = host.proxy
           /\ host'.ran = host.ran /\ host'.pageFile = host.pageFile /\ host'.panelFile = host.panelFile
  BY <1>6 DEF ProxyFollows, Holds, Serves
<1>7. ScheduleCleanup \/ WriteCleanup \/ DefaultCleanup \/ InsertDefault \/ ScheduleDefault \/ TakeTunnelJob \/ TunnelExec
      \/ EndTunnelJob \/ CaJob(TRUE)
      => UNCHANGED <<pq, panel>> /\ srv'.proxy = srv.proxy /\ srv'.flags = srv.flags /\ host'.proxy = host.proxy
         /\ host'.ran = host.ran /\ host'.pageFile = host.pageFile /\ host'.panelFile = host.panelFile
  BY <1>t DEF ScheduleCleanup, WriteCleanup, DefaultCleanup, InsertDefault, ScheduleDefault, TakeTunnelJob, TunnelExec,
     EndTunnelJob, CaJob, ServerRow, Machine
<1> QED
  BY <1>1, <1>2, <1>3, <1>4, <1>5, <1>6, <1>7, CalmSteps

LEMMA ServerInvInit == ASSUME ServerInit PROVE ServerInv
<1>1. <<>> \in Seq(ProxyWork) /\ <<>> \in Seq(LinkWork) /\ NoFlags \in Flags
  BY EmptyQueue DEF NoFlags, Flags
<1>2. MachineTyped
  <2>1. srv \in ServerRow /\ resources \in 0..1
    BY <1>1 DEF ServerInit, ServerRow, ProxyStatus
  <2>2. host \in Machine
    BY <1>1 DEF ServerInit, Machine
  <2>3. ca \in {"none", "queued", "success", "failed"} /\ panel \in BOOLEAN /\ clean \in BOOLEAN
    BY DEF ServerInit
  <2>4. cleanup \in [row : {"none", "on", "off"}, scheduler : BOOLEAN, pass : {"rest", "insert", "schedule"}]
    BY DEF ServerInit
  <2>5. ask \in [op : {"none", "cleanup", "cleanupWrite", "delete"}, on : BOOLEAN]
    BY DEF ServerInit, NoAsk
  <2> QED
    BY <2>1, <2>2, <2>3, <2>4, <2>5 DEF MachineTyped
<1>3. ProxyTyped /\ TunnelTyped /\ CaTyped
  BY <1>1 DEF ServerInit, ProxyTyped, TunnelTyped, CaTyped, IdleJob, LinkWork
<1>4. ProvisioningIsOwned
  BY DEF ServerInit, ProvisioningIsOwned
<1>5. OneThing
  BY DEF ServerInit, OneThing, Lone, IdleJob
<1>6. ~ Holds(pq, "restart") /\ ~ Holds(tq, "install")
  <2>1. <<>> # <<"restart">> /\ <<>> # <<"install">>
    OBVIOUS
  <2>2. pq.queue = <<>> /\ pq.job = "none" /\ tq.queue = <<>> /\ tq.job = "none"
    BY DEF ServerInit, IdleJob
  <2> QED
    BY <2>1, <2>2 DEF Holds
<1>7. ProxyFollows /\ LinksFollow
  BY <1>6 DEF ServerInit, ProxyFollows, LinksFollow, IdleJob
<1>8. CleanupFollows /\ srv.auto = host.auto
  BY DEF ServerInit, CleanupFollows, NoAsk
<1> QED
  BY <1>2, <1>3, <1>4, <1>5, <1>7, <1>8 DEF ServerInv, ServerTyped, ServerCalm

LEMMA ServerInvStep == ASSUME ServerInv, [ServerNext]_serverVars PROVE ServerInv'
<1>1. CASE ServerNext
  <2>1. ServerTyped /\ ProvisioningIsOwned
    BY DEF ServerInv
  <2>2. ServerTyped' /\ ProvisioningIsOwned'
    BY <1>1, <2>1, MachineStaysTyped, QueuesStayTyped, ProvisioningStaysOwned DEF ServerTyped
  <2>3. ASSUME clean', srv'.exists PROVE ServerCalm'
    <3>1. clean /\ srv.exists
      BY <1>1, <2>1, <2>3, CalmSteps, ServersAreOld
    <3>2. ServerCalm
      BY <3>1 DEF ServerInv
    <3>3. OneThing' /\ ProxyFollows' /\ LinksFollow' /\ CleanupFollows'
      BY <1>1, <2>1, <2>3, <3>2, OneThingStays, ProxyStillFollows, LinksStillFollow, CleanupStillFollows DEF ServerCalm
    <3>4. srv'.auto = host'.auto
      <4>1. srv \in ServerRow /\ host \in Machine /\ srv.auto = host.auto
        BY <2>1, <3>2 DEF ServerTyped, MachineTyped, ServerCalm
      <4>2. CASE SetAutoUpdates
        BY <4>1, <4>2 DEF SetAutoUpdates, ServerRow, Machine
      <4>3. CASE ProxyStep \/ TunnelExec \/ CaJob(TRUE)
        BY <4>1, <4>3 DEF ProxyStep, StepOnHost, Stepping, TunnelExec, CaJob, Machine
      <4>4. CASE EndProxyJob \/ EndTunnelJob \/ DeleteServer
        BY <4>1, <4>4 DEF EndProxyJob, EndTunnelJob, DeleteServer, ServerRow
      <4>5. SetServerDomain \/ ActivateProxy \/ RestartProxy \/ SetPanelDomain \/ SetTunnel \/ RemoveTunnel
            \/ AddCaCertificate \/ RemoveCaCertificate \/ ChangeResources \/ BeginDeleteServer
            \/ (\E flag \in {"traffic", "page"} : SetProxyFlags(flag)) \/ (\E ok \in BOOLEAN : CheckServer(ok))
            \/ (\E n \in 0 .. 2 : CheckPatches(n)) \/ (\E on \in BOOLEAN : BeginCleanup(on))
            => srv'.auto = srv.auto /\ host' = host
        BY <4>1 DEF ServerRow, SetServerDomain, ActivateProxy, RestartProxy, SetPanelDomain, SetTunnel, RemoveTunnel,
           AddCaCertificate, RemoveCaCertificate, ChangeResources, BeginDeleteServer, SetProxyFlags, CheckServer, CheckPatches,
           BeginCleanup
      <4>6. ScheduleCleanup \/ WriteCleanup \/ DefaultCleanup \/ InsertDefault \/ ScheduleDefault \/ TakeProxyJob
            \/ TakeTunnelJob
            => UNCHANGED <<srv, host>>
        BY DEF ScheduleCleanup, WriteCleanup, DefaultCleanup, InsertDefault, ScheduleDefault, TakeProxyJob, TakeTunnelJob
      <4> QED
        BY <1>1, <2>1, <2>3, <4>1, <4>2, <4>3, <4>4, <4>5, <4>6, CalmSteps DEF CalmRequest, ServerRequests
    <3> QED
      BY <3>3, <3>4 DEF ServerCalm
  <2> QED
    BY <2>2, <2>3 DEF ServerInv
<1>2. CASE UNCHANGED serverVars
  BY <1>2 DEF serverVars, ServerInv, ServerTyped, MachineTyped, ProxyTyped, TunnelTyped, CaTyped, ProvisioningIsOwned,
     ServerCalm, OneThing, Lone, Holds, ProxyFollows, Serves, LinksFollow, CleanupFollows, IdleJob, NoAsk, NoFlags
<1> QED
  BY <1>1, <1>2

LEMMA ServerInvSays == ASSUME ServerInv PROVE ProvisioningIsOwned /\ MachineFollowsRows
<1> SUFFICES ASSUME clean, ~ Busy, srv.exists
             PROVE  /\ srv.proxy = "active" => host.proxy = "running" /\ host.ran = srv.flags /\ host.pageFile = srv.flags.page
                    /\ host.panelFile = panel
                    /\ (srv.tunnel = "active") = host.tunnel /\ host.tunnel = srv.token
                    /\ (ca = "success") = host.ca
                    /\ cleanup.scheduler = (cleanup.row = "on")
                    /\ srv.auto = host.auto
  BY DEF ServerInv, MachineFollowsRows
<1>1. pq = IdleJob /\ tq = IdleJob /\ cq = IdleJob /\ ask = NoAsk /\ cleanup.pass = "rest" /\ ServerCalm
  BY DEF Busy, ServerInv
<1>2. /\ IdleJob.queue = <<>> /\ IdleJob.job = "none" /\ IdleJob.pc = "rest" /\ NoAsk.op = "none"
      /\ <<>> # <<"provision">> /\ <<>> # <<"panel">>
  BY DEF IdleJob, NoAsk
<1>3. (srv.proxy = "active" => Serves(srv.flags)) /\ host.panelFile = panel
  BY <1>1, <1>2 DEF ServerCalm, ProxyFollows, Holds
<1>4. (srv.tunnel = "active") = host.tunnel /\ host.tunnel = srv.token /\ (ca = "success") = host.ca
  BY <1>1, <1>2 DEF ServerCalm, LinksFollow
<1>5. cleanup.scheduler = (cleanup.row = "on") /\ srv.auto = host.auto
  BY <1>1, <1>2 DEF ServerCalm, CleanupFollows
<1> QED
  BY <1>3, <1>4, <1>5 DEF Serves

----------------------------------------------------------------------------
(* The databases of a server                                               *)

DbRow == [status : {"absent", "idle", "provisioning", "running", "error", "deleted"}, set : DbSettings]
DbBox == [run : {None, "up", "failed"}, set : DbSettings, volume : BOOLEAN]
DbTyped ==
    /\ dbRow \in [Dbs -> DbRow] /\ dbBox \in [Dbs -> DbBox]
    /\ dbQueue \in Seq(Dbs \X {0, 1})
    /\ dbJob \in [db : Dbs \cup {None}, pc : {"rest", "prepare", "recreate", "health", "done", "failed"}, tries : {0, 1},
                  set : DbSettings]
    /\ (dbJob.db = None) <=> (dbJob.pc = "rest")
    /\ dbJob.db = None => dbJob = NoDbJob
    /\ dbMount \subseteq Dbs /\ dbLost \subseteq Dbs /\ dbDropped \subseteq Dbs /\ dbCalm \subseteq Dbs
    /\ dbReq \in [db : Dbs \cup {None}, op : {None, "settings", "connect", "image"}, set : DbSettings]
    /\ (dbReq.db = None) <=> (dbReq.op = None)
    /\ dbDel \in [db : Dbs \cup {None}, pc : {"rest", "teardown", "mounts", "row"}]
    /\ (dbDel.db = None) <=> (dbDel.pc = "rest")

LEMMA DbConstants ==
  /\ Plain \in DbSettings /\ NoBox \in DbBox /\ None \notin Dbs
  /\ NoDbJob.db = None /\ NoDbJob.pc = "rest" /\ NoDbReq.db = None /\ NoDel.db = None
<1>1. (CHOOSE p \in Ports : TRUE) \in Ports
  BY DatabaseSetupAssumption
<1>2. Plain \in DbSettings
  BY <1>1 DEF Plain, DbSettings
<1> QED
  BY <1>2, DatabaseSetupAssumption DEF NoBox, DbBox, None, NoDbJob, NoDbReq, NoDel

LEMMA DbActions ==
  ASSUME DbNext
  PROVE  \/ (\E d \in Dbs, s \in DbSettings : CreateDatabase(d, s)) \/ (\E d \in Dbs, s \in DbSettings : BeginSettings(d, s))
         \/ (\E d \in Dbs : SetDatabaseLimits(d)) \/ (\E d \in Dbs : BeginDatabaseImage(d)) \/ (\E d \in Dbs : BeginConnect(d))
         \/ (\E d \in Dbs : BeginDeleteDatabase(d)) \/ CommitSettings \/ CommitConnect \/ ApplyDatabaseImage
         \/ TearDownDatabase \/ DropMounts \/ DeleteDatabaseRow
         \/ TakeDatabaseJob \/ PrepareDatabase \/ RecreateDatabase \/ LoseRecreate
         \/ DatabaseHealthy \/ DatabaseStepFails \/ EndDatabaseJob \/ DatabaseWorkerDies
  BY DEF DbNext, DbRequests, DbJobs

\* The database a request, a deletion or a job is about.
LEMMA DbSubjects ==
  ASSUME DbTyped
  PROVE  /\ dbReq.op # None => dbReq.db \in Dbs
         /\ dbDel.pc # "rest" => dbDel.db \in Dbs
         /\ dbJob.pc # "rest" => dbJob.db \in Dbs
         /\ dbJob = [db |-> dbJob.db, pc |-> dbJob.pc, tries |-> dbJob.tries, set |-> dbJob.set]
         /\ dbDel = [db |-> dbDel.db, pc |-> dbDel.pc]
         /\ dbQueue # <<>> => dbQueue[1][1] \in Dbs /\ dbQueue[1][2] \in {0, 1}
<1>1. dbQueue # <<>> => dbQueue[1] \in Dbs \X {0, 1}
  BY QueueShrinks DEF DbTyped
<1>2. dbQueue # <<>> => dbQueue[1][1] \in Dbs /\ dbQueue[1][2] \in {0, 1}
  BY <1>1
<1> QED
  BY <1>2 DEF DbTyped

LEMMA DatabasesStayTyped ==
  ASSUME DbTyped, DbNext
  PROVE  DbTyped'
<1> USE DbConstants, DbSubjects
<1>1. dbRow' \in [Dbs -> DbRow]
  <2> USE DEF DbTyped
  <2>1. ASSUME NEW d \in Dbs, NEW s \in DbSettings, CreateDatabase(d, s) PROVE dbRow' \in [Dbs -> DbRow]
    BY <2>1 DEF CreateDatabase, DbRow
  <2>2. ASSUME NEW d \in Dbs, dbRow' = [dbRow EXCEPT ![d] = [status |-> "provisioning", set |-> dbRow'[d].set]],
               dbRow'[d].set \in DbSettings
        PROVE dbRow' \in [Dbs -> DbRow]
    BY <2>2 DEF DbRow
  <2>3. CASE CommitSettings /\ HasRow(dbReq.db)
    <3>1. dbReq.db \in Dbs /\ dbReq.set \in DbSettings /\ dbRow[dbReq.db].set \in DbSettings
      BY <2>3 DEF CommitSettings, None, DbRow
    <3> DEFINE new == [dbReq.set EXCEPT !.limit = dbRow[dbReq.db].set.limit, !.newer = dbRow[dbReq.db].set.newer]
    <3>2. new \in DbSettings
      BY <3>1 DEF DbSettings
    <3>3. dbRow' = [dbRow EXCEPT ![dbReq.db] = [status |-> "provisioning", set |-> new]]
      BY <2>3 DEF CommitSettings, WithSettings
    <3> HIDE DEF new
    <3> QED
      BY <3>1, <3>2, <3>3 DEF DbRow
  <2>4. ASSUME NEW d \in Dbs, SetDatabaseLimits(d) PROVE dbRow' \in [Dbs -> DbRow]
    <3>1. dbRow[d] \in DbRow /\ dbRow[d].set \in DbSettings
      BY DEF DbRow
    <3> DEFINE new == [dbRow[d].set EXCEPT !.limit = ~ dbRow[d].set.limit]
    <3>2. new \in DbSettings
      BY <3>1 DEF DbSettings
    <3>3. dbRow' = [dbRow EXCEPT ![d] = [status |-> "provisioning", set |-> new]]
      BY <2>4 DEF SetDatabaseLimits
    <3> HIDE DEF new
    <3> QED
      BY <3>2, <3>3 DEF DbRow
  <2>5. CASE ApplyDatabaseImage /\ HasRow(dbReq.db)
    <3>1. dbReq.db \in Dbs /\ dbRow[dbReq.db] \in DbRow /\ dbRow[dbReq.db].set \in DbSettings
      BY <2>5 DEF ApplyDatabaseImage, None, DbRow
    <3> DEFINE new == [dbRow[dbReq.db].set EXCEPT !.newer = TRUE]
    <3>2. new \in DbSettings
      BY <3>1 DEF DbSettings
    <3>3. dbRow' = [dbRow EXCEPT ![dbReq.db] = [status |-> "provisioning", set |-> new]]
      BY <2>5 DEF ApplyDatabaseImage
    <3> HIDE DEF new
    <3> QED
      BY <3>1, <3>2, <3>3 DEF DbRow
  <2>6. CASE DeleteDatabaseRow \/ EndDatabaseJob
    <3>1. dbRow' = dbRow \/ \E d \in Dbs, x \in {"deleted", "running", "error"} : dbRow' = [dbRow EXCEPT ![d].status = x]
      BY <2>6 DEF DeleteDatabaseRow, EndDatabaseJob
    <3> QED
      BY <3>1 DEF DbRow
  <2>7. CASE UNCHANGED dbRow
    BY <2>7
  <2>8. (CommitSettings /\ ~ HasRow(dbReq.db)) \/ (ApplyDatabaseImage /\ ~ HasRow(dbReq.db))
        \/ (\E d \in Dbs, s \in DbSettings : BeginSettings(d, s)) \/ (\E d \in Dbs : BeginDatabaseImage(d))
        \/ (\E d \in Dbs : BeginConnect(d)) \/ (\E d \in Dbs : BeginDeleteDatabase(d)) \/ CommitConnect
        \/ TearDownDatabase \/ DropMounts \/ TakeDatabaseJob \/ PrepareDatabase \/ RecreateDatabase \/ LoseRecreate
        \/ DatabaseHealthy \/ DatabaseStepFails \/ DatabaseWorkerDies
        => UNCHANGED dbRow
    BY DEF CommitSettings, ApplyDatabaseImage, BeginSettings, BeginDatabaseImage, BeginConnect, BeginDeleteDatabase,
       CommitConnect, TearDownDatabase, DropMounts, TakeDatabaseJob, PrepareDatabase, RecreateDatabase, LoseRecreate,
       DatabaseHealthy, DatabaseStepFails, DatabaseWorkerDies
  <2> HIDE DEF DbTyped
  <2> QED
    BY <2>1, <2>3, <2>4, <2>5, <2>6, <2>7, <2>8, DbActions
<1>2. dbBox' \in [Dbs -> DbBox]
  <2> USE DEF DbTyped
  <2>1. dbJob.set \in DbSettings /\ Ran \in DbBox
    BY DEF Ran, DbBox
  <2>2. CASE TearDownDatabase
    BY <2>2 DEF TearDownDatabase
  <2>3. CASE RecreateDatabase
    BY <2>1, <2>3 DEF RecreateDatabase
  <2>4. CASE LoseRecreate
    <3>1. dbJob.db \in Dbs
      BY <2>4 DEF LoseRecreate
    <3> DEFINE stopped == [dbBox[dbJob.db] EXCEPT !.run = None, !.set = Plain]
    <3>2. dbBox[dbJob.db] \in DbBox
      BY <3>1
    <3>3. stopped \in DbBox
      BY <3>2 DEF DbBox
    <3>4. dbBox' = dbBox \/ dbBox' = [dbBox EXCEPT ![dbJob.db] = Ran] \/ dbBox' = [dbBox EXCEPT ![dbJob.db] = stopped]
      BY <2>4 DEF LoseRecreate
    <3> HIDE DEF stopped
    <3> QED
      BY <2>1, <3>1, <3>3, <3>4
  <2>5. CASE UNCHANGED dbBox
    BY <2>5
  <2>6. (\E d \in Dbs, s \in DbSettings : CreateDatabase(d, s)) \/ (\E d \in Dbs, s \in DbSettings : BeginSettings(d, s))
        \/ (\E d \in Dbs : SetDatabaseLimits(d)) \/ (\E d \in Dbs : BeginDatabaseImage(d)) \/ (\E d \in Dbs : BeginConnect(d))
        \/ (\E d \in Dbs : BeginDeleteDatabase(d)) \/ CommitSettings \/ CommitConnect \/ ApplyDatabaseImage
        \/ DropMounts \/ DeleteDatabaseRow \/ TakeDatabaseJob \/ PrepareDatabase
        \/ DatabaseHealthy \/ DatabaseStepFails \/ EndDatabaseJob \/ DatabaseWorkerDies
        => UNCHANGED dbBox
    BY DEF CreateDatabase, BeginSettings, SetDatabaseLimits, BeginDatabaseImage, BeginConnect, BeginDeleteDatabase,
       CommitSettings, CommitConnect, ApplyDatabaseImage, DropMounts, DeleteDatabaseRow, TakeDatabaseJob, PrepareDatabase,
       DatabaseHealthy, DatabaseStepFails, EndDatabaseJob, DatabaseWorkerDies
  <2> HIDE DEF DbTyped
  <2> QED
    BY <2>2, <2>3, <2>4, <2>5, <2>6, DbActions
<1>3. dbQueue' \in Seq(Dbs \X {0, 1})
  <2>q. dbQueue \in Seq(Dbs \X {0, 1})
    BY DEF DbTyped
  <2>1. ASSUME NEW d \in Dbs, Provision(d) PROVE dbQueue' \in Seq(Dbs \X {0, 1})
    <3>1. <<d, 0>> \in Dbs \X {0, 1}
      OBVIOUS
    <3> QED
      BY <2>1, <2>q, <3>1, QueueGrows DEF Provision
  <2>2. CASE TakeDatabaseJob
    BY <2>2, <2>q, QueueShrinks DEF TakeDatabaseJob
  <2>3. CASE DatabaseWorkerDies
    <3>1. dbJob.db \in Dbs
      BY <2>3 DEF DatabaseWorkerDies, DbTyped
    <3>2. <<dbJob.db, 1>> \in Dbs \X {0, 1}
      BY <3>1
    <3>3. <<<<dbJob.db, 1>>>> \o dbQueue \in Seq(Dbs \X {0, 1})
      BY <3>2, <2>q, QueueAgain
    <3> QED
      BY <2>3, <2>q, <3>3 DEF DatabaseWorkerDies
  <2>4. CASE CommitSettings \/ ApplyDatabaseImage
    <3>1. dbReq.db \in Dbs /\ Provision(dbReq.db)
      BY <2>4 DEF CommitSettings, ApplyDatabaseImage, None
    <3> QED
      BY <3>1, <2>1
  <2>5. CASE UNCHANGED dbQueue
    BY <2>q, <2>5
  <2>6. ASSUME NEW d \in Dbs, SetDatabaseLimits(d) \/ \E s \in DbSettings : CreateDatabase(d, s) PROVE Provision(d)
    BY <2>6 DEF SetDatabaseLimits, CreateDatabase
  <2>7. (\E d \in Dbs, s \in DbSettings : BeginSettings(d, s))
        \/ (\E d \in Dbs : BeginDatabaseImage(d)) \/ (\E d \in Dbs : BeginConnect(d))
        \/ (\E d \in Dbs : BeginDeleteDatabase(d)) \/ CommitConnect
        \/ TearDownDatabase \/ DropMounts \/ DeleteDatabaseRow
        \/ PrepareDatabase \/ RecreateDatabase \/ LoseRecreate
        \/ DatabaseHealthy \/ DatabaseStepFails \/ EndDatabaseJob
        => UNCHANGED dbQueue
    BY DEF BeginSettings, BeginDatabaseImage, BeginConnect, BeginDeleteDatabase, CommitConnect, TearDownDatabase, DropMounts,
       DeleteDatabaseRow, PrepareDatabase, RecreateDatabase, LoseRecreate, DatabaseHealthy, DatabaseStepFails, EndDatabaseJob
  <2> QED
    BY <2>1, <2>2, <2>3, <2>4, <2>5, <2>6, <2>7, DbActions
<1>4. /\ dbJob' \in [db : Dbs \cup {None}, pc : {"rest", "prepare", "recreate", "health", "done", "failed"}, tries : {0, 1},
                     set : DbSettings]
      /\ (dbJob'.db = None) <=> (dbJob'.pc = "rest")
      /\ dbJob'.db = None => dbJob' = NoDbJob
  <2> USE DEF DbTyped
  <2>0. NoDbJob \in [db : Dbs \cup {None}, pc : {"rest", "prepare", "recreate", "health", "done", "failed"}, tries : {0, 1},
                     set : DbSettings]
    BY DEF NoDbJob
  <2>1. CASE TakeDatabaseJob
    <3>1. dbQueue[1][1] \in Dbs /\ dbQueue[1][2] \in {0, 1} /\ dbRow[dbQueue[1][1]].set \in DbSettings
      BY <2>1 DEF TakeDatabaseJob, DbRow
    <3>2. \/ dbJob' = [db |-> dbQueue[1][1], pc |-> "prepare", tries |-> dbQueue[1][2], set |-> dbRow[dbQueue[1][1]].set]
          \/ dbJob' = NoDbJob
      BY <2>1 DEF TakeDatabaseJob
    <3> QED
      BY <2>0, <3>1, <3>2
  <2>2. CASE PrepareDatabase \/ RecreateDatabase \/ LoseRecreate \/ DatabaseHealthy \/ DatabaseStepFails
    <3>1. dbJob.db \in Dbs /\ \E x \in {"recreate", "health", "done", "failed"} : dbJob' = [dbJob EXCEPT !.pc = x]
      BY <2>2 DEF PrepareDatabase, RecreateDatabase, LoseRecreate, DatabaseHealthy, DatabaseStepFails, AfterRun
    <3> QED
      BY <3>1
  <2>3. CASE EndDatabaseJob \/ DatabaseWorkerDies
    BY <2>0, <2>3 DEF EndDatabaseJob, DatabaseWorkerDies
  <2>4. CASE UNCHANGED dbJob
    BY <2>4
  <2>5. (\E d \in Dbs, s \in DbSettings : CreateDatabase(d, s)) \/ (\E d \in Dbs, s \in DbSettings : BeginSettings(d, s))
        \/ (\E d \in Dbs : SetDatabaseLimits(d)) \/ (\E d \in Dbs : BeginDatabaseImage(d)) \/ (\E d \in Dbs : BeginConnect(d))
        \/ (\E d \in Dbs : BeginDeleteDatabase(d)) \/ CommitSettings \/ CommitConnect \/ ApplyDatabaseImage
        \/ TearDownDatabase \/ DropMounts \/ DeleteDatabaseRow
        => UNCHANGED dbJob
    BY DEF CreateDatabase, BeginSettings, SetDatabaseLimits, BeginDatabaseImage, BeginConnect, BeginDeleteDatabase,
       CommitSettings, CommitConnect, ApplyDatabaseImage, TearDownDatabase, DropMounts, DeleteDatabaseRow
  <2> HIDE DEF DbTyped
  <2> QED
    BY <2>1, <2>2, <2>3, <2>4, <2>5, DbActions
<1>5. /\ dbReq' \in [db : Dbs \cup {None}, op : {None, "settings", "connect", "image"}, set : DbSettings]
      /\ (dbReq'.db = None) <=> (dbReq'.op = None)
      /\ dbDel' \in [db : Dbs \cup {None}, pc : {"rest", "teardown", "mounts", "row"}]
      /\ (dbDel'.db = None) <=> (dbDel'.pc = "rest")
  <2> USE DEF DbTyped
  <2>0. /\ NoDbReq \in [db : Dbs \cup {None}, op : {None, "settings", "connect", "image"}, set : DbSettings]
        /\ NoDbReq.op = None /\ NoDel \in [db : Dbs \cup {None}, pc : {"rest", "teardown", "mounts", "row"}] /\ NoDel.pc = "rest"
    BY DEF NoDbReq, NoDel
  <2>1. ASSUME NEW d \in Dbs, BeginDatabaseImage(d) \/ BeginConnect(d) \/ \E s \in DbSettings : BeginSettings(d, s)
        PROVE  UNCHANGED dbDel /\ \E o \in {"settings", "connect", "image"}, s \in DbSettings : dbReq' = [db |-> d, op |-> o, set |-> s]
    BY <2>1 DEF BeginDatabaseImage, BeginConnect, BeginSettings
  <2>2. CASE CommitSettings \/ CommitConnect \/ ApplyDatabaseImage
    BY <2>0, <2>2 DEF CommitSettings, CommitConnect, ApplyDatabaseImage
  <2>3. ASSUME NEW d \in Dbs, BeginDeleteDatabase(d) PROVE UNCHANGED dbReq /\ dbDel' = [db |-> d, pc |-> "teardown"]
    BY <2>3 DEF BeginDeleteDatabase
  <2>4. CASE TearDownDatabase \/ DropMounts
    <3>1. UNCHANGED dbReq /\ dbDel.db \in Dbs /\ \E x \in {"mounts", "row"} : dbDel' = [dbDel EXCEPT !.pc = x]
      BY <2>4 DEF TearDownDatabase, DropMounts
    <3> QED
      BY <3>1
  <2>5. CASE DeleteDatabaseRow
    BY <2>0, <2>5 DEF DeleteDatabaseRow
  <2>6. CASE UNCHANGED <<dbReq, dbDel>>
    BY <2>6
  <2>7. ASSUME NEW d \in Dbs, NEW o \in {"settings", "connect", "image"}, NEW s \in DbSettings,
               UNCHANGED dbDel, dbReq' = [db |-> d, op |-> o, set |-> s]
        PROVE  /\ dbReq' \in [db : Dbs \cup {None}, op : {None, "settings", "connect", "image"}, set : DbSettings]
               /\ (dbReq'.db = None) <=> (dbReq'.op = None)
    BY <2>7 DEF None
  <2>8. ASSUME NEW d \in Dbs, dbDel' = [db |-> d, pc |-> "teardown"]
        PROVE  /\ dbDel' \in [db : Dbs \cup {None}, pc : {"rest", "teardown", "mounts", "row"}]
               /\ (dbDel'.db = None) <=> (dbDel'.pc = "rest")
    BY <2>8
  <2>9. (\E d \in Dbs, s \in DbSettings : CreateDatabase(d, s)) \/ (\E d \in Dbs : SetDatabaseLimits(d))
        \/ TakeDatabaseJob \/ PrepareDatabase \/ RecreateDatabase \/ LoseRecreate
        \/ DatabaseHealthy \/ DatabaseStepFails \/ EndDatabaseJob \/ DatabaseWorkerDies
        => UNCHANGED <<dbReq, dbDel>>
    BY DEF CreateDatabase, SetDatabaseLimits, TakeDatabaseJob, PrepareDatabase, RecreateDatabase, LoseRecreate,
       DatabaseHealthy, DatabaseStepFails, EndDatabaseJob, DatabaseWorkerDies
  <2> QED
    BY <2>1, <2>2, <2>3, <2>4, <2>5, <2>6, <2>7, <2>8, <2>9, DbActions
<1>6. dbMount' \subseteq Dbs /\ dbLost' \subseteq Dbs /\ dbDropped' \subseteq Dbs /\ dbCalm' \subseteq Dbs
  <2>0. dbMount \subseteq Dbs /\ dbLost \subseteq Dbs /\ dbDropped \subseteq Dbs /\ dbCalm \subseteq Dbs
    BY DEF DbTyped
  <2>1. dbMount' \subseteq Dbs
    <3>1. CASE CommitConnect
      BY <2>0, <3>1 DEF CommitConnect, None
    <3>2. CASE DropMounts
      BY <2>0, <3>2 DEF DropMounts
    <3>3. (\E d \in Dbs, s \in DbSettings : CreateDatabase(d, s))
          \/ (\E d \in Dbs, s \in DbSettings : BeginSettings(d, s)) \/ (\E d \in Dbs : SetDatabaseLimits(d))
          \/ (\E d \in Dbs : BeginDatabaseImage(d)) \/ (\E d \in Dbs : BeginConnect(d))
          \/ (\E d \in Dbs : BeginDeleteDatabase(d)) \/ CommitSettings \/ ApplyDatabaseImage \/ TearDownDatabase
          \/ DeleteDatabaseRow \/ TakeDatabaseJob \/ PrepareDatabase \/ RecreateDatabase \/ LoseRecreate \/ DatabaseHealthy
          \/ DatabaseStepFails \/ EndDatabaseJob \/ DatabaseWorkerDies
          => UNCHANGED dbMount
      BY DEF CreateDatabase, BeginSettings, SetDatabaseLimits, BeginDatabaseImage, BeginConnect,
         BeginDeleteDatabase, CommitSettings, ApplyDatabaseImage, TearDownDatabase, DeleteDatabaseRow, TakeDatabaseJob,
         PrepareDatabase, RecreateDatabase, LoseRecreate, DatabaseHealthy, DatabaseStepFails, EndDatabaseJob,
         DatabaseWorkerDies
    <3> QED
      BY <2>0, <3>1, <3>2, <3>3, DbActions
  <2>2. dbLost' \subseteq Dbs
    <3>1. CASE DatabaseWorkerDies
      BY <2>0, <3>1 DEF DatabaseWorkerDies, DbTyped
    <3>3. (\E d \in Dbs, s \in DbSettings : CreateDatabase(d, s))
          \/ (\E d \in Dbs, s \in DbSettings : BeginSettings(d, s)) \/ (\E d \in Dbs : SetDatabaseLimits(d))
          \/ (\E d \in Dbs : BeginDatabaseImage(d)) \/ (\E d \in Dbs : BeginConnect(d))
          \/ (\E d \in Dbs : BeginDeleteDatabase(d)) \/ CommitSettings \/ CommitConnect \/ ApplyDatabaseImage
          \/ TearDownDatabase \/ DropMounts \/ DeleteDatabaseRow \/ TakeDatabaseJob \/ PrepareDatabase \/ RecreateDatabase
          \/ LoseRecreate \/ DatabaseHealthy \/ DatabaseStepFails \/ EndDatabaseJob
          => UNCHANGED dbLost
      BY DEF CreateDatabase, BeginSettings, SetDatabaseLimits, BeginDatabaseImage, BeginConnect,
         BeginDeleteDatabase, CommitSettings, CommitConnect, ApplyDatabaseImage, TearDownDatabase, DropMounts,
         DeleteDatabaseRow, TakeDatabaseJob, PrepareDatabase, RecreateDatabase, LoseRecreate, DatabaseHealthy,
         DatabaseStepFails, EndDatabaseJob
    <3> QED
      BY <2>0, <3>1, <3>3, DbActions
  <2>3. dbDropped' \subseteq Dbs
    <3>1. CASE TakeDatabaseJob
      BY <2>0, <3>1 DEF TakeDatabaseJob
    <3>2. CASE LoseRecreate
      BY <2>0, <3>2 DEF LoseRecreate
    <3>3. (\E d \in Dbs, s \in DbSettings : CreateDatabase(d, s))
          \/ (\E d \in Dbs, s \in DbSettings : BeginSettings(d, s)) \/ (\E d \in Dbs : SetDatabaseLimits(d))
          \/ (\E d \in Dbs : BeginDatabaseImage(d)) \/ (\E d \in Dbs : BeginConnect(d))
          \/ (\E d \in Dbs : BeginDeleteDatabase(d)) \/ CommitSettings \/ CommitConnect \/ ApplyDatabaseImage
          \/ TearDownDatabase \/ DropMounts \/ DeleteDatabaseRow \/ PrepareDatabase \/ RecreateDatabase \/ DatabaseHealthy
          \/ DatabaseStepFails \/ EndDatabaseJob \/ DatabaseWorkerDies
          => UNCHANGED dbDropped
      BY DEF CreateDatabase, BeginSettings, SetDatabaseLimits, BeginDatabaseImage, BeginConnect,
         BeginDeleteDatabase, CommitSettings, CommitConnect, ApplyDatabaseImage, TearDownDatabase, DropMounts,
         DeleteDatabaseRow, PrepareDatabase, RecreateDatabase, DatabaseHealthy, DatabaseStepFails, EndDatabaseJob,
         DatabaseWorkerDies
    <3> QED
      BY <2>0, <3>1, <3>2, <3>3, DbActions
  <2>4. dbCalm' \subseteq Dbs
    <3>1. ASSUME NEW d \in Dbs, BeginDatabaseImage(d) \/ BeginConnect(d) \/ SetDatabaseLimits(d) \/ BeginDeleteDatabase(d)
                                \/ \E s \in DbSettings : BeginSettings(d, s)
          PROVE  dbCalm' \subseteq Dbs
      BY <2>0, <3>1 DEF BeginDatabaseImage, BeginConnect, SetDatabaseLimits, BeginDeleteDatabase, BeginSettings, Disturb
    <3>2. CASE TearDownDatabase
      BY <2>0, <3>2 DEF TearDownDatabase, Disturb
    <3>3. (\E d \in Dbs, s \in DbSettings : CreateDatabase(d, s)) \/ CommitSettings \/ CommitConnect
          \/ ApplyDatabaseImage \/ DropMounts \/ DeleteDatabaseRow \/ TakeDatabaseJob \/ PrepareDatabase
          \/ RecreateDatabase \/ LoseRecreate \/ DatabaseHealthy \/ DatabaseStepFails \/ EndDatabaseJob
          \/ DatabaseWorkerDies
          => UNCHANGED dbCalm
      BY DEF CreateDatabase, CommitSettings, CommitConnect, ApplyDatabaseImage, DropMounts, DeleteDatabaseRow,
         TakeDatabaseJob, PrepareDatabase, RecreateDatabase, LoseRecreate, DatabaseHealthy, DatabaseStepFails,
         EndDatabaseJob, DatabaseWorkerDies
    <3> QED
      BY <2>0, <3>1, <3>2, <3>3, DbActions
  <2> QED
    BY <2>1, <2>2, <2>3, <2>4
<1> QED
  BY <1>1, <1>2, <1>3, <1>4, <1>5, <1>6 DEF DbTyped

\* A database that waits in the queue, told of the queue as a set.
Awaited(d) == \E x \in In(dbQueue) : x[1] = d

LEMMA DbPendingByQueue ==
  ASSUME NEW d
  PROVE  /\ DbPending(d) <=> dbJob.db = d \/ Awaited(d)
         /\ DbPending(d)' <=> dbJob'.db = d \/ Awaited(d)'
  BY DEF DbPending, Awaited, In

LEMMA DbQueueSteps ==
  ASSUME DbTyped, NEW e
  PROVE  /\ \A d \in Dbs : Provision(d) => (Awaited(e)' <=> Awaited(e) \/ e = d)
         /\ TakeDatabaseJob => (Awaited(e) <=> Awaited(e)' \/ e = dbQueue[1][1])
         /\ DatabaseWorkerDies /\ dbJob.tries = 0 => (Awaited(e)' <=> Awaited(e) \/ e = dbJob.db)
         /\ UNCHANGED dbQueue => (Awaited(e)' <=> Awaited(e))
<1>q. dbQueue \in Seq(Dbs \X {0, 1})
  BY DEF DbTyped
<1>1. ASSUME NEW d \in Dbs, Provision(d) PROVE Awaited(e)' <=> Awaited(e) \/ e = d
  <2>1. <<d, 0>> \in Dbs \X {0, 1} /\ <<d, 0>>[1] = d
    OBVIOUS
  <2>2. In(Append(dbQueue, <<d, 0>>)) = In(dbQueue) \cup {<<d, 0>>}
    BY <1>q, <2>1, QueueGrows
  <2>3. In(dbQueue)' = In(Append(dbQueue, <<d, 0>>))
    BY <1>1 DEF Provision, In
  <2> QED
    BY <2>1, <2>2, <2>3 DEF Awaited
<1>2. ASSUME TakeDatabaseJob PROVE Awaited(e) <=> Awaited(e)' \/ e = dbQueue[1][1]
  <2>1. In(dbQueue) = In(dbQueue)' \cup {dbQueue[1]}
    BY <1>2, <1>q, QueueShrinks DEF TakeDatabaseJob, In
  <2> QED
    BY <2>1 DEF Awaited
<1>3. ASSUME DatabaseWorkerDies, dbJob.tries = 0 PROVE Awaited(e)' <=> Awaited(e) \/ e = dbJob.db
  <2>1. dbJob.db \in Dbs
    BY <1>3 DEF DatabaseWorkerDies, DbTyped
  <2>2. <<dbJob.db, 1>> \in Dbs \X {0, 1} /\ <<dbJob.db, 1>>[1] = dbJob.db
    BY <2>1
  <2>3. In(<<<<dbJob.db, 1>>>> \o dbQueue) = {<<dbJob.db, 1>>} \cup In(dbQueue)
    BY <1>q, <2>2, QueueAgain
  <2>4. In(dbQueue)' = In(<<<<dbJob.db, 1>>>> \o dbQueue)
    BY <1>3 DEF DatabaseWorkerDies, In
  <2> QED
    BY <2>2, <2>3, <2>4 DEF Awaited
<1>4. UNCHANGED dbQueue => (Awaited(e)' <=> Awaited(e))
  BY DEF Awaited, In
<1> QED
  BY <1>1, <1>2, <1>3, <1>4

\* The job in progress has the settings of the row, or another waits that will; once its command ran, so does the container.
JobRunsRow ==
    \A d \in Dbs : dbJob.db = d =>
        /\ dbRow[d].status # "absent"
        /\ HasRow(d) =>
              /\ Awaited(d) \/ dbJob.set = dbRow[d].set
              /\ dbJob.pc \in {"health", "done"} /\ d \notin dbDropped /\ dbDel.db # d
                   => dbBox[d].run = "up" /\ dbBox[d].set = dbJob.set

\* A deletion is about a database that is there; one that began with nothing around finds nothing around.
DbDeleteUnderWay ==
    /\ \A d \in Dbs : dbDel.db = d => HasRow(d)
    /\ \A d \in dbCalm :
        /\ dbDel.db = d \/ dbRow[d].status = "deleted"
        /\ ~ DbPending(d) /\ dbReq.db # d
        /\ dbDel.db = d /\ dbDel.pc \in {"mounts", "row"} => dbBox[d] = NoBox
        /\ dbDel.db = d /\ dbDel.pc = "row" => d \notin dbMount

DbInv == DbTyped /\ DatabaseWorkIsOwned /\ JobRunsRow /\ DatabaseRunsAsRecorded /\ DbDeleteUnderWay /\ DeletedDatabaseIsGone

\* The rows after a step.
LEMMA DbRowSteps ==
  ASSUME DbTyped, DbNext, NEW d \in Dbs
  PROVE  \/ dbRow'[d] = dbRow[d]
         \/ (\E s \in DbSettings : CreateDatabase(d, s)) /\ dbRow'[d].status = "idle" /\ dbRow[d].status = "absent" /\ Provision(d)
         \/ /\ (CommitSettings /\ dbReq.db = d) \/ SetDatabaseLimits(d) \/ (ApplyDatabaseImage /\ dbReq.db = d)
            /\ dbRow'[d].status = "provisioning" /\ HasRow(d) /\ Provision(d)
         \/ DeleteDatabaseRow /\ dbDel.db = d /\ dbRow'[d].status = "deleted"
         \/ /\ EndDatabaseJob /\ dbJob.db = d /\ HasRow(d) /\ dbRow'[d].set = dbRow[d].set
            /\ dbRow'[d].status = IF dbJob.pc = "done" THEN "running" ELSE "error"
<1>t. dbRow \in [Dbs -> DbRow] /\ dbRow[d] = [status |-> dbRow[d].status, set |-> dbRow[d].set]
  BY DEF DbTyped, DbRow
<1>1. ASSUME NEW e \in Dbs, NEW s \in DbSettings, CreateDatabase(e, s) PROVE dbRow' = [dbRow EXCEPT ![e] = [status |-> "idle", set |-> s]]
  BY <1>1 DEF CreateDatabase
<1>2. CASE \E e \in Dbs, s \in DbSettings : CreateDatabase(e, s)
  <2>1. PICK e \in Dbs, s \in DbSettings : CreateDatabase(e, s)
    BY <1>2
  <2> QED
    BY <1>t, <1>1, <2>1 DEF CreateDatabase
<1>3. CASE CommitSettings
  BY <1>t, <1>3, DbSubjects DEF CommitSettings, WithSettings, None
<1>4. ASSUME NEW e \in Dbs, SetDatabaseLimits(e)
      PROVE  \/ dbRow'[d] = dbRow[d]
             \/ SetDatabaseLimits(d) /\ dbRow'[d].status = "provisioning" /\ HasRow(d) /\ Provision(d)
  BY <1>t, <1>4 DEF SetDatabaseLimits
<1>5. CASE ApplyDatabaseImage
  BY <1>t, <1>5, DbSubjects DEF ApplyDatabaseImage, None
<1>6. CASE DeleteDatabaseRow
  BY <1>t, <1>6 DEF DeleteDatabaseRow
<1>7. CASE EndDatabaseJob
  BY <1>t, <1>7 DEF EndDatabaseJob
<1>8. (\E e \in Dbs, s \in DbSettings : BeginSettings(e, s)) \/ (\E e \in Dbs : BeginDatabaseImage(e))
      \/ (\E e \in Dbs : BeginConnect(e)) \/ (\E e \in Dbs : BeginDeleteDatabase(e)) \/ CommitConnect
      \/ TearDownDatabase \/ DropMounts \/ TakeDatabaseJob \/ PrepareDatabase \/ RecreateDatabase \/ LoseRecreate
      \/ DatabaseHealthy \/ DatabaseStepFails \/ DatabaseWorkerDies
      => UNCHANGED dbRow
  BY DEF BeginSettings, BeginDatabaseImage, BeginConnect, BeginDeleteDatabase, CommitConnect, TearDownDatabase, DropMounts,
     TakeDatabaseJob, PrepareDatabase, RecreateDatabase, LoseRecreate, DatabaseHealthy, DatabaseStepFails, DatabaseWorkerDies
<1> QED
  BY <1>2, <1>3, <1>4, <1>5, <1>6, <1>7, <1>8, DbActions

\* What a step does to a database that waits or is being worked on.
LEMMA DbPendingSteps ==
  ASSUME DbTyped, DbNext, NEW d \in Dbs, DbPending(d), ~ DbPending(d)'
  PROVE  \/ TakeDatabaseJob /\ dbQueue[1][1] = d /\ ~ HasRow(d)
         \/ EndDatabaseJob /\ dbJob.db = d
         \/ DatabaseWorkerDies /\ dbJob.db = d /\ dbLost' = dbLost \cup {d}
<1>1. CASE TakeDatabaseJob
  <2>1. dbJob.db # d /\ (HasRow(dbQueue[1][1]) => dbJob'.db = dbQueue[1][1])
    BY <1>1, DbConstants DEF TakeDatabaseJob
  <2>2. Awaited(d) /\ ~ Awaited(d)' /\ dbJob'.db # d
    BY <2>1, DbPendingByQueue
  <2> QED
    BY <1>1, <2>1, <2>2, DbQueueSteps
<1>2. CASE DatabaseWorkerDies
  <2>1. dbJob.tries # 0 /\ UNCHANGED dbQueue /\ dbLost' = dbLost \cup {dbJob.db}
    <3>1. dbJob.tries = 0 => (Awaited(d)' <=> Awaited(d) \/ d = dbJob.db)
      BY <1>2, DbQueueSteps
    <3>2. dbJob.tries # 0
      BY <3>1, DbPendingByQueue
    <3> QED
      BY <1>2, <3>2 DEF DatabaseWorkerDies
  <2>2. Awaited(d)' <=> Awaited(d)
    BY <2>1, DbQueueSteps
  <2> QED
    BY <1>2, <2>1, <2>2, DbPendingByQueue
<1>3. CASE EndDatabaseJob
  <2>1. Awaited(d)' <=> Awaited(d)
    BY <1>3, DbQueueSteps DEF EndDatabaseJob
  <2> QED
    BY <1>3, <2>1, DbPendingByQueue
<1>4. ASSUME NEW e \in Dbs, Provision(e), UNCHANGED dbJob PROVE FALSE
  BY <1>4, DbQueueSteps, DbPendingByQueue
<1>5. ASSUME UNCHANGED dbQueue, dbJob'.db = dbJob.db PROVE FALSE
  BY <1>5, DbQueueSteps, DbPendingByQueue
<1>6. \A e \in Dbs : SetDatabaseLimits(e) \/ (\E s \in DbSettings : CreateDatabase(e, s)) => Provision(e) /\ UNCHANGED dbJob
  BY DEF SetDatabaseLimits, CreateDatabase
<1>7. CommitSettings \/ ApplyDatabaseImage => Provision(dbReq.db) /\ UNCHANGED dbJob /\ dbReq.db \in Dbs
  BY DbSubjects DEF CommitSettings, ApplyDatabaseImage, None
<1>8. PrepareDatabase \/ RecreateDatabase \/ LoseRecreate \/ DatabaseHealthy \/ DatabaseStepFails => UNCHANGED dbQueue /\ dbJob'.db = dbJob.db
  BY DbSubjects DEF PrepareDatabase, RecreateDatabase, LoseRecreate, DatabaseHealthy, DatabaseStepFails
<1>9. (\E e \in Dbs, s \in DbSettings : BeginSettings(e, s)) \/ (\E e \in Dbs : BeginDatabaseImage(e))
      \/ (\E e \in Dbs : BeginConnect(e)) \/ (\E e \in Dbs : BeginDeleteDatabase(e)) \/ CommitConnect
      \/ TearDownDatabase \/ DropMounts \/ DeleteDatabaseRow
      => UNCHANGED <<dbQueue, dbJob>>
  BY DEF BeginSettings, BeginDatabaseImage, BeginConnect, BeginDeleteDatabase, CommitConnect, TearDownDatabase, DropMounts,
     DeleteDatabaseRow
<1> QED
  BY <1>1, <1>2, <1>3, <1>4, <1>5, <1>6, <1>7, <1>8, <1>9, DbActions

\* What a step changes of one database on its server, and which requests it begins or ends.
LEMMA DbServerSteps ==
  ASSUME DbTyped, DbNext, NEW d \in Dbs
  PROVE  /\ \/ dbBox'[d] = dbBox[d]
            \/ TearDownDatabase /\ dbDel.db = d /\ dbBox'[d] = NoBox
            \/ (RecreateDatabase \/ LoseRecreate) /\ dbJob.db = d
         /\ d \in dbMount' => d \in dbMount \/ dbReq.db = d
         /\ dbLost \subseteq dbLost'
         /\ d \in dbDropped \ dbDropped' => TakeDatabaseJob /\ dbQueue[1][1] = d
<1>t. dbBox \in [Dbs -> DbBox]
  BY DEF DbTyped
<1>1. \/ dbBox'[d] = dbBox[d]
      \/ TearDownDatabase /\ dbDel.db = d /\ dbBox'[d] = NoBox
      \/ (RecreateDatabase \/ LoseRecreate) /\ dbJob.db = d
  <2>1. CASE TearDownDatabase
    BY <1>t, <2>1 DEF TearDownDatabase
  <2>2. CASE RecreateDatabase
    BY <1>t, <2>2 DEF RecreateDatabase
  <2>3. CASE LoseRecreate
    <3> DEFINE stopped == [dbBox[dbJob.db] EXCEPT !.run = None, !.set = Plain]
    <3>1. dbJob.db \in Dbs
      BY <2>3, DbSubjects DEF LoseRecreate
    <3>2. dbBox' = dbBox \/ dbBox' = [dbBox EXCEPT ![dbJob.db] = Ran] \/ dbBox' = [dbBox EXCEPT ![dbJob.db] = stopped]
      BY <1>t, <2>3, <3>1 DEF LoseRecreate
    <3> HIDE DEF stopped
    <3> QED
      BY <1>t, <2>3, <3>1, <3>2
  <2>4. (\E e \in Dbs, s \in DbSettings : CreateDatabase(e, s)) \/ (\E e \in Dbs, s \in DbSettings : BeginSettings(e, s))
        \/ (\E e \in Dbs : SetDatabaseLimits(e)) \/ (\E e \in Dbs : BeginDatabaseImage(e)) \/ (\E e \in Dbs : BeginConnect(e))
        \/ (\E e \in Dbs : BeginDeleteDatabase(e)) \/ CommitSettings \/ CommitConnect \/ ApplyDatabaseImage
        \/ DropMounts \/ DeleteDatabaseRow \/ TakeDatabaseJob \/ PrepareDatabase
        \/ DatabaseHealthy \/ DatabaseStepFails \/ EndDatabaseJob \/ DatabaseWorkerDies
        => UNCHANGED dbBox
    BY DEF CreateDatabase, BeginSettings, SetDatabaseLimits, BeginDatabaseImage, BeginConnect, BeginDeleteDatabase,
       CommitSettings, CommitConnect, ApplyDatabaseImage, DropMounts, DeleteDatabaseRow, TakeDatabaseJob, PrepareDatabase,
       DatabaseHealthy, DatabaseStepFails, EndDatabaseJob, DatabaseWorkerDies
  <2> QED
    BY <2>1, <2>2, <2>3, <2>4, DbActions
<1>2. dbMount' \subseteq dbMount \cup {dbReq.db}
  <2>1. CommitConnect \/ DropMounts => dbMount' \subseteq dbMount \cup {dbReq.db}
    BY DEF CommitConnect, DropMounts
  <2>2. (\E e \in Dbs, s \in DbSettings : CreateDatabase(e, s)) \/ (\E e \in Dbs, s \in DbSettings : BeginSettings(e, s))
        \/ (\E e \in Dbs : SetDatabaseLimits(e)) \/ (\E e \in Dbs : BeginDatabaseImage(e)) \/ (\E e \in Dbs : BeginConnect(e))
        \/ (\E e \in Dbs : BeginDeleteDatabase(e)) \/ CommitSettings \/ ApplyDatabaseImage \/ TearDownDatabase
        \/ DeleteDatabaseRow \/ TakeDatabaseJob \/ PrepareDatabase \/ RecreateDatabase \/ LoseRecreate \/ DatabaseHealthy
        \/ DatabaseStepFails \/ EndDatabaseJob \/ DatabaseWorkerDies
        => UNCHANGED dbMount
    BY DEF CreateDatabase, BeginSettings, SetDatabaseLimits, BeginDatabaseImage, BeginConnect, BeginDeleteDatabase,
       CommitSettings, ApplyDatabaseImage, TearDownDatabase, DeleteDatabaseRow, TakeDatabaseJob, PrepareDatabase,
       RecreateDatabase, LoseRecreate, DatabaseHealthy, DatabaseStepFails, EndDatabaseJob, DatabaseWorkerDies
  <2> QED
    BY <2>1, <2>2, DbActions
<1>3. dbLost \subseteq dbLost'
  <2>1. DatabaseWorkerDies => dbLost \subseteq dbLost'
    BY DEF DatabaseWorkerDies
  <2>2. (\E e \in Dbs, s \in DbSettings : CreateDatabase(e, s)) \/ (\E e \in Dbs, s \in DbSettings : BeginSettings(e, s))
        \/ (\E e \in Dbs : SetDatabaseLimits(e)) \/ (\E e \in Dbs : BeginDatabaseImage(e)) \/ (\E e \in Dbs : BeginConnect(e))
        \/ (\E e \in Dbs : BeginDeleteDatabase(e)) \/ CommitSettings \/ CommitConnect \/ ApplyDatabaseImage
        \/ TearDownDatabase \/ DropMounts \/ DeleteDatabaseRow \/ TakeDatabaseJob \/ PrepareDatabase \/ RecreateDatabase
        \/ LoseRecreate \/ DatabaseHealthy \/ DatabaseStepFails \/ EndDatabaseJob
        => UNCHANGED dbLost
    BY DEF CreateDatabase, BeginSettings, SetDatabaseLimits, BeginDatabaseImage, BeginConnect, BeginDeleteDatabase,
       CommitSettings, CommitConnect, ApplyDatabaseImage, TearDownDatabase, DropMounts, DeleteDatabaseRow, TakeDatabaseJob,
       PrepareDatabase, RecreateDatabase, LoseRecreate, DatabaseHealthy, DatabaseStepFails, EndDatabaseJob
  <2> QED
    BY <2>1, <2>2, DbActions
<1>4. d \in dbDropped \ dbDropped' => TakeDatabaseJob /\ dbQueue[1][1] = d
  <2>1. TakeDatabaseJob => dbDropped' = dbDropped \ {dbQueue[1][1]}
    BY DEF TakeDatabaseJob
  <2>2. LoseRecreate => dbDropped \subseteq dbDropped'
    BY DEF LoseRecreate
  <2>3. (\E e \in Dbs, s \in DbSettings : CreateDatabase(e, s)) \/ (\E e \in Dbs, s \in DbSettings : BeginSettings(e, s))
        \/ (\E e \in Dbs : SetDatabaseLimits(e)) \/ (\E e \in Dbs : BeginDatabaseImage(e)) \/ (\E e \in Dbs : BeginConnect(e))
        \/ (\E e \in Dbs : BeginDeleteDatabase(e)) \/ CommitSettings \/ CommitConnect \/ ApplyDatabaseImage
        \/ TearDownDatabase \/ DropMounts \/ DeleteDatabaseRow \/ PrepareDatabase \/ RecreateDatabase
        \/ DatabaseHealthy \/ DatabaseStepFails \/ EndDatabaseJob \/ DatabaseWorkerDies
        => UNCHANGED dbDropped
    BY DEF CreateDatabase, BeginSettings, SetDatabaseLimits, BeginDatabaseImage, BeginConnect, BeginDeleteDatabase,
       CommitSettings, CommitConnect, ApplyDatabaseImage, TearDownDatabase, DropMounts, DeleteDatabaseRow,
       PrepareDatabase, RecreateDatabase, DatabaseHealthy, DatabaseStepFails, EndDatabaseJob, DatabaseWorkerDies
  <2> QED
    BY <2>1, <2>2, <2>3, DbActions
<1> QED
  BY <1>1, <1>2, <1>3, <1>4

\* What a step changes of the requests and deletions of one database, and when it queues a job for it.
LEMMA DbRequestSteps ==
  ASSUME DbTyped, DbNext, NEW d \in Dbs
  PROVE  /\ dbDel'.db = d => dbDel.db = d \/ BeginDeleteDatabase(d)
         /\ dbDel.db = d => /\ dbDel'.db = d \/ DeleteDatabaseRow
                            /\ ~ BeginDeleteDatabase(d)
                            /\ \/ dbDel'.pc = dbDel.pc
                               \/ TearDownDatabase /\ dbDel'.pc = "mounts"
                               \/ DropMounts /\ dbDel.pc = "mounts" /\ dbDel'.pc = "row" /\ d \notin dbMount'
                               \/ DeleteDatabaseRow
         /\ d \in dbCalm' \ dbCalm => BeginDeleteDatabase(d) /\ ~ DbPending(d) /\ dbReq.db # d
         /\ dbReq'.db = d => dbReq.db = d \/ d \notin dbCalm'
         /\ TearDownDatabase /\ dbDel.db = d => dbBox'[d] = NoBox \/ d \notin dbCalm'
         /\ SetDatabaseLimits(d) => d \notin dbCalm'
         /\ BeginDeleteDatabase(d) => HasRow(d) /\ dbDel' = [db |-> d, pc |-> "teardown"] /\ UNCHANGED <<dbRow, dbBox, dbQueue, dbJob, dbReq, dbMount>>
<1> USE DbConstants
<1>1. /\ dbDel'.db = d => dbDel.db = d \/ BeginDeleteDatabase(d)
      /\ dbDel.db = d => /\ dbDel'.db = d \/ DeleteDatabaseRow
                         /\ ~ BeginDeleteDatabase(d)
                         /\ \/ dbDel'.pc = dbDel.pc
                            \/ TearDownDatabase /\ dbDel'.pc = "mounts"
                            \/ DropMounts /\ dbDel.pc = "mounts" /\ dbDel'.pc = "row" /\ d \notin dbMount'
                            \/ DeleteDatabaseRow
  <2>0. ~ (BeginDeleteDatabase(d) /\ dbDel.db = d)
    BY DEF BeginDeleteDatabase
  <2>1. ASSUME NEW e \in Dbs, BeginDeleteDatabase(e) PROVE dbDel = NoDel /\ dbDel'.db = e
    BY <2>1 DEF BeginDeleteDatabase
  <2>2. TearDownDatabase => dbDel'.db = dbDel.db /\ dbDel'.pc = "mounts"
    BY DbSubjects DEF TearDownDatabase
  <2>3. DropMounts => dbDel'.db = dbDel.db /\ dbDel.pc = "mounts" /\ dbDel'.pc = "row" /\ dbDel.db \notin dbMount'
    BY DbSubjects DEF DropMounts
  <2>4. DeleteDatabaseRow => dbDel' = NoDel
    BY DEF DeleteDatabaseRow
  <2>5. (\E e \in Dbs, s \in DbSettings : CreateDatabase(e, s)) \/ (\E e \in Dbs, s \in DbSettings : BeginSettings(e, s))
        \/ (\E e \in Dbs : SetDatabaseLimits(e)) \/ (\E e \in Dbs : BeginDatabaseImage(e)) \/ (\E e \in Dbs : BeginConnect(e))
        \/ CommitSettings \/ CommitConnect \/ ApplyDatabaseImage \/ TakeDatabaseJob \/ PrepareDatabase
        \/ RecreateDatabase \/ LoseRecreate \/ DatabaseHealthy \/ DatabaseStepFails \/ EndDatabaseJob \/ DatabaseWorkerDies
        => UNCHANGED dbDel
    BY DEF CreateDatabase, BeginSettings, SetDatabaseLimits, BeginDatabaseImage, BeginConnect, CommitSettings, CommitConnect,
       ApplyDatabaseImage, TakeDatabaseJob, PrepareDatabase, RecreateDatabase, LoseRecreate, DatabaseHealthy,
       DatabaseStepFails, EndDatabaseJob, DatabaseWorkerDies
  <2>6. CASE \E e \in Dbs : BeginDeleteDatabase(e)
    <3>1. PICK e \in Dbs : BeginDeleteDatabase(e)
      BY <2>6
    <3>2. dbDel = NoDel /\ dbDel'.db = e
      BY <2>1, <3>1
    <3> QED
      BY <3>1, <3>2
  <2>7. CASE TearDownDatabase
    BY <2>0, <2>2, <2>7
  <2>8. CASE DropMounts
    BY <2>0, <2>3, <2>8
  <2>9. CASE DeleteDatabaseRow
    BY <2>0, <2>4, <2>9
  <2>10. CASE UNCHANGED dbDel
    BY <2>0, <2>10
  <2> QED
    BY <2>5, <2>6, <2>7, <2>8, <2>9, <2>10, DbActions
<1>2. d \in dbCalm' \ dbCalm => BeginDeleteDatabase(d) /\ ~ DbPending(d) /\ dbReq.db # d
  <2>1. ASSUME NEW e \in Dbs, BeginDeleteDatabase(e), d \in dbCalm' \ dbCalm
        PROVE BeginDeleteDatabase(d) /\ ~ DbPending(d) /\ dbReq.db # d
    <3>1. e = d /\ ~ (DbPending(e) \/ dbReq.db = e)
      BY <2>1 DEF BeginDeleteDatabase
    <3> QED
      BY <2>1, <3>1
  <2>2. ASSUME NEW e \in Dbs, BeginDatabaseImage(e) \/ BeginConnect(e) \/ SetDatabaseLimits(e)
                              \/ \E s \in DbSettings : BeginSettings(e, s)
        PROVE  dbCalm' \subseteq dbCalm
    BY <2>2 DEF BeginDatabaseImage, BeginConnect, SetDatabaseLimits, BeginSettings, Disturb
  <2>3. TearDownDatabase => dbCalm' \subseteq dbCalm
    BY DEF TearDownDatabase, Disturb
  <2>4. (\E e \in Dbs, s \in DbSettings : CreateDatabase(e, s)) \/ CommitSettings \/ CommitConnect
        \/ ApplyDatabaseImage \/ DropMounts \/ DeleteDatabaseRow \/ TakeDatabaseJob \/ PrepareDatabase
        \/ RecreateDatabase \/ LoseRecreate \/ DatabaseHealthy \/ DatabaseStepFails \/ EndDatabaseJob
        \/ DatabaseWorkerDies
        => UNCHANGED dbCalm
    BY DEF CreateDatabase, CommitSettings, CommitConnect, ApplyDatabaseImage, DropMounts, DeleteDatabaseRow,
       TakeDatabaseJob, PrepareDatabase, RecreateDatabase, LoseRecreate, DatabaseHealthy, DatabaseStepFails,
       EndDatabaseJob, DatabaseWorkerDies
  <2> QED
    BY <2>1, <2>2, <2>3, <2>4, DbActions
<1>3. dbReq'.db = d => dbReq.db = d \/ d \notin dbCalm'
  <2>1. ASSUME NEW e \in Dbs, BeginDatabaseImage(e) \/ BeginConnect(e) \/ \E s \in DbSettings : BeginSettings(e, s)
        PROVE  dbReq'.db = e /\ e \notin dbCalm'
    BY <2>1 DEF BeginDatabaseImage, BeginConnect, BeginSettings, Disturb
  <2>2. CommitSettings \/ CommitConnect \/ ApplyDatabaseImage => dbReq' = NoDbReq
    BY DEF CommitSettings, CommitConnect, ApplyDatabaseImage
  <2>3. (\E e \in Dbs, s \in DbSettings : CreateDatabase(e, s)) \/ (\E e \in Dbs : SetDatabaseLimits(e))
        \/ (\E e \in Dbs : BeginDeleteDatabase(e)) \/ TearDownDatabase \/ DropMounts \/ DeleteDatabaseRow
        \/ TakeDatabaseJob \/ PrepareDatabase \/ RecreateDatabase \/ LoseRecreate
        \/ DatabaseHealthy \/ DatabaseStepFails \/ EndDatabaseJob \/ DatabaseWorkerDies
        => UNCHANGED dbReq
    BY DEF CreateDatabase, SetDatabaseLimits, BeginDeleteDatabase, TearDownDatabase, DropMounts, DeleteDatabaseRow,
       TakeDatabaseJob, PrepareDatabase, RecreateDatabase, LoseRecreate, DatabaseHealthy, DatabaseStepFails, EndDatabaseJob,
       DatabaseWorkerDies
  <2> QED
    BY <2>1, <2>2, <2>3, DbActions
<1>4. TearDownDatabase /\ dbDel.db = d => dbBox'[d] = NoBox \/ d \notin dbCalm'
  <2>1. dbBox \in [Dbs -> DbBox]
    BY DEF DbTyped
  <2> QED
    BY <2>1 DEF TearDownDatabase, Disturb
<1>5. SetDatabaseLimits(d) => d \notin dbCalm'
  BY DEF SetDatabaseLimits, Disturb
<1>6. BeginDeleteDatabase(d) => HasRow(d) /\ dbDel' = [db |-> d, pc |-> "teardown"] /\ UNCHANGED <<dbRow, dbBox, dbQueue, dbJob, dbReq, dbMount>>
  BY DEF BeginDeleteDatabase
<1> QED
  BY <1>1, <1>2, <1>3, <1>4, <1>5, <1>6

\* A step queues a job only for a database that a request is about, and only with the job before it out of the way.
LEMMA DbPendingStarts ==
  ASSUME DbTyped, DbNext, NEW d \in Dbs, ~ DbPending(d), DbPending(d)'
  PROVE  \/ \E s \in DbSettings : CreateDatabase(d, s)
         \/ SetDatabaseLimits(d)
         \/ (CommitSettings \/ ApplyDatabaseImage) /\ dbReq.db = d
<1> USE DbConstants
<1>1. dbJob.db # d /\ ~ Awaited(d) /\ (dbJob'.db = d \/ Awaited(d)')
  BY DbPendingByQueue
<1>2. CASE \E e \in Dbs : SetDatabaseLimits(e) \/ \E s \in DbSettings : CreateDatabase(e, s)
  <2>1. PICK e \in Dbs : SetDatabaseLimits(e) \/ \E s \in DbSettings : CreateDatabase(e, s)
    BY <1>2
  <2>2. Provision(e) /\ UNCHANGED dbJob
    BY <2>1 DEF SetDatabaseLimits, CreateDatabase
  <2>3. e = d
    BY <1>1, <2>2, DbQueueSteps
  <2> QED
    BY <2>1, <2>3
<1>3. CASE CommitSettings \/ ApplyDatabaseImage
  <2>1. dbReq.db \in Dbs /\ Provision(dbReq.db) /\ UNCHANGED dbJob
    BY <1>3, DbSubjects DEF CommitSettings, ApplyDatabaseImage, None
  <2> QED
    BY <1>1, <1>3, <2>1, DbQueueSteps
<1>4. CASE TakeDatabaseJob
  <2>1. Awaited(d) <=> Awaited(d)' \/ d = dbQueue[1][1]
    BY <1>4, DbQueueSteps
  <2>2. dbJob'.db \in {dbQueue[1][1], None}
    BY <1>4 DEF TakeDatabaseJob
  <2> QED
    BY <1>1, <2>1, <2>2
<1>5. CASE DatabaseWorkerDies
  <2>1. dbJob' = NoDbJob /\ (dbJob.tries = 0 \/ UNCHANGED dbQueue)
    BY <1>5 DEF DatabaseWorkerDies
  <2> QED
    BY <1>1, <1>5, <2>1, DbQueueSteps
<1>6. CASE UNCHANGED dbQueue /\ dbJob'.db \in {dbJob.db, None}
  BY <1>1, <1>6, DbQueueSteps
<1>7. PrepareDatabase \/ RecreateDatabase \/ LoseRecreate \/ DatabaseHealthy \/ DatabaseStepFails \/ EndDatabaseJob
      => UNCHANGED dbQueue /\ dbJob'.db \in {dbJob.db, None}
  BY DbSubjects DEF PrepareDatabase, RecreateDatabase, LoseRecreate, DatabaseHealthy, DatabaseStepFails, EndDatabaseJob
<1>8. (\E e \in Dbs, s \in DbSettings : BeginSettings(e, s)) \/ (\E e \in Dbs : BeginDatabaseImage(e))
      \/ (\E e \in Dbs : BeginConnect(e)) \/ (\E e \in Dbs : BeginDeleteDatabase(e)) \/ CommitConnect
      \/ TearDownDatabase \/ DropMounts \/ DeleteDatabaseRow
      => UNCHANGED <<dbQueue, dbJob>>
  BY DEF BeginSettings, BeginDatabaseImage, BeginConnect, BeginDeleteDatabase, CommitConnect, TearDownDatabase, DropMounts,
     DeleteDatabaseRow
<1> QED
  BY <1>2, <1>3, <1>4, <1>5, <1>6, <1>7, <1>8, DbActions

\* A request that provisions a database puts it in the queue.
LEMMA ProvisionedIsAwaited == ASSUME DbTyped, NEW d \in Dbs, Provision(d) PROVE Awaited(d)' /\ DbPending(d)'
<1>1. Awaited(d)'
  BY DbQueueSteps
<1> QED
  BY <1>1, DbPendingByQueue

\* Only a worker that takes the job takes a database out of the queue.
LEMMA AwaitedStays ==
  ASSUME DbTyped, DbNext, NEW d \in Dbs, ~ TakeDatabaseJob, Awaited(d)
  PROVE  Awaited(d)'
<1>1. CASE \E e \in Dbs : SetDatabaseLimits(e) \/ \E s \in DbSettings : CreateDatabase(e, s)
  <2>1. PICK e \in Dbs : Provision(e)
    BY <1>1 DEF SetDatabaseLimits, CreateDatabase
  <2> QED
    BY <2>1, DbQueueSteps
<1>2. CASE CommitSettings \/ ApplyDatabaseImage
  <2>1. dbReq.db \in Dbs /\ Provision(dbReq.db)
    BY <1>2, DbSubjects DEF CommitSettings, ApplyDatabaseImage, None
  <2> QED
    BY <2>1, DbQueueSteps
<1>3. CASE DatabaseWorkerDies
  <2>1. dbJob.tries = 0 \/ UNCHANGED dbQueue
    BY <1>3 DEF DatabaseWorkerDies
  <2> QED
    BY <1>3, <2>1, DbQueueSteps
<1>4. CASE UNCHANGED dbQueue
  BY <1>4, DbQueueSteps
<1>5. (\E e \in Dbs, s \in DbSettings : BeginSettings(e, s)) \/ (\E e \in Dbs : BeginDatabaseImage(e))
      \/ (\E e \in Dbs : BeginConnect(e)) \/ (\E e \in Dbs : BeginDeleteDatabase(e)) \/ CommitConnect
      \/ TearDownDatabase \/ DropMounts \/ DeleteDatabaseRow \/ PrepareDatabase \/ RecreateDatabase \/ LoseRecreate
      \/ DatabaseHealthy \/ DatabaseStepFails \/ EndDatabaseJob
      => UNCHANGED dbQueue
  BY DEF BeginSettings, BeginDatabaseImage, BeginConnect, BeginDeleteDatabase, CommitConnect, TearDownDatabase, DropMounts,
     DeleteDatabaseRow, PrepareDatabase, RecreateDatabase, LoseRecreate, DatabaseHealthy, DatabaseStepFails, EndDatabaseJob
<1> QED
  BY <1>1, <1>2, <1>3, <1>4, <1>5, DbActions

LEMMA DatabaseWorkStaysOwned ==
  ASSUME DbTyped, DatabaseWorkIsOwned, DbNext
  PROVE  DatabaseWorkIsOwned'
<1> SUFFICES ASSUME NEW d \in Dbs, dbRow'[d].status \in {"idle", "provisioning"} PROVE DbPending(d)' \/ d \in dbLost'
  BY DEF DatabaseWorkIsOwned
<1>1. CASE Provision(d)
  BY <1>1, ProvisionedIsAwaited
<1>2. CASE dbRow'[d] = dbRow[d]
  <2>1. HasRow(d) /\ (DbPending(d) \/ d \in dbLost)
    BY <1>2 DEF DatabaseWorkIsOwned, HasRow
  <2>2. CASE d \in dbLost
    BY <2>2, DbServerSteps
  <2>3. CASE DbPending(d) /\ ~ DbPending(d)'
    <3>1. ~ (EndDatabaseJob /\ dbJob.db = d)
      <4> SUFFICES ASSUME EndDatabaseJob, dbJob.db = d PROVE FALSE
        OBVIOUS
      <4>1. dbRow \in [Dbs -> DbRow]
        BY DEF DbTyped
      <4>2. dbRow'[d].status \in {"running", "error"}
        BY <2>1, <4>1 DEF EndDatabaseJob, DbRow
      <4> QED
        BY <4>2
    <3>2. (TakeDatabaseJob /\ dbQueue[1][1] = d /\ ~ HasRow(d)) \/ (EndDatabaseJob /\ dbJob.db = d)
          \/ (DatabaseWorkerDies /\ dbJob.db = d /\ dbLost' = dbLost \cup {d})
      BY <2>3, DbPendingSteps
    <3> QED
      BY <2>1, <3>1, <3>2
  <2> QED
    BY <2>1, <2>2, <2>3
<1>3. CASE ~ Provision(d) /\ dbRow'[d] # dbRow[d]
  BY <1>3, DbRowSteps
<1> QED
  BY <1>1, <1>2, <1>3

LEMMA DbDeleteStaysUnderWay ==
  ASSUME DbTyped, DbDeleteUnderWay, DbNext
  PROVE  DbDeleteUnderWay'
<1> USE DbConstants
<1>0. dbCalm' \subseteq Dbs
  BY DatabasesStayTyped DEF DbTyped
<1>1. ASSUME NEW d \in Dbs, dbDel'.db = d PROVE HasRow(d)'
  <2>1. HasRow(d) /\ ~ (DeleteDatabaseRow /\ dbDel.db = d)
    BY <1>1, DbRequestSteps DEF DbDeleteUnderWay, DeleteDatabaseRow
  <2> QED
    BY <2>1, DbRowSteps DEF HasRow
<1>2. ASSUME NEW d \in Dbs, d \in dbCalm', d \notin dbCalm
      PROVE  /\ dbDel'.db = d /\ dbDel'.pc = "teardown"
             /\ ~ DbPending(d)' /\ dbReq'.db # d
  <2>1. BeginDeleteDatabase(d) /\ ~ DbPending(d) /\ dbReq.db # d
    BY <1>2, DbRequestSteps
  <2>2. dbDel' = [db |-> d, pc |-> "teardown"] /\ UNCHANGED <<dbQueue, dbJob, dbReq>>
    BY <2>1 DEF BeginDeleteDatabase
  <2>3. ~ DbPending(d)'
    BY <2>1, <2>2, DbQueueSteps, DbPendingByQueue
  <2> QED
    BY <2>1, <2>2, <2>3
<1>3. ASSUME NEW d \in Dbs, d \in dbCalm', d \in dbCalm
      PROVE  /\ dbDel'.db = d \/ dbRow'[d].status = "deleted"
             /\ ~ DbPending(d)' /\ dbReq'.db # d
             /\ dbDel'.db = d /\ dbDel'.pc \in {"mounts", "row"} => dbBox'[d] = NoBox
             /\ dbDel'.db = d /\ dbDel'.pc = "row" => d \notin dbMount'
  <2>0. /\ dbDel.db = d \/ dbRow[d].status = "deleted"
        /\ ~ DbPending(d) /\ dbReq.db # d
        /\ dbDel.db = d /\ dbDel.pc \in {"mounts", "row"} => dbBox[d] = NoBox
        /\ dbDel.db = d /\ dbDel.pc = "row" => d \notin dbMount
        /\ dbDel.db = d => HasRow(d)
    BY <1>3 DEF DbDeleteUnderWay
  <2>1. dbDel'.db = d \/ dbRow'[d].status = "deleted"
    <3>1. CASE dbDel.db = d /\ DeleteDatabaseRow
      <4>1. dbRow \in [Dbs -> DbRow]
        BY DEF DbTyped
      <4> QED
        BY <3>1, <4>1 DEF DeleteDatabaseRow, DbRow
    <3>2. CASE dbDel.db = d /\ ~ DeleteDatabaseRow
      BY <3>2, DbRequestSteps
    <3>3. CASE dbRow[d].status = "deleted"
      <4>1. ~ HasRow(d) /\ dbRow[d].status # "absent" /\ dbDel.db # d
        BY <2>0, <3>3 DEF HasRow
      <4> QED
        BY <3>3, <4>1, DbRowSteps
    <3> QED
      BY <2>0, <3>1, <3>2, <3>3
  <2>2. ~ DbPending(d)'
    <3>1. dbRow[d].status # "absent"
      BY <2>0 DEF HasRow
    <3>2. ~ SetDatabaseLimits(d) /\ ~ (\E s \in DbSettings : CreateDatabase(d, s))
      BY <1>3, <3>1, DbRequestSteps DEF CreateDatabase
    <3> QED
      BY <2>0, <3>2, DbPendingStarts
  <2>3. dbReq'.db # d
    BY <1>3, <2>0, DbRequestSteps
  <2>4. ASSUME dbDel'.db = d
        PROVE  /\ dbDel'.pc \in {"mounts", "row"} => dbBox'[d] = NoBox
               /\ dbDel'.pc = "row" => d \notin dbMount'
    <3>1. dbDel.db = d
      <4>1. CASE BeginDeleteDatabase(d)
        BY <2>0, <4>1 DEF BeginDeleteDatabase, HasRow
      <4> QED
        BY <2>4, <4>1, DbRequestSteps
    <3>2. ~ DeleteDatabaseRow
      BY <2>4 DEF DeleteDatabaseRow
    <3>3. dbJob.db # d
      BY <2>0, DbPendingByQueue
    <3>4. /\ dbBox'[d] = dbBox[d] \/ dbBox'[d] = NoBox
          /\ d \in dbMount' => d \in dbMount
      BY <2>0, <3>3, DbServerSteps
    <3>5. \/ dbDel'.pc = dbDel.pc
          \/ TearDownDatabase /\ dbDel'.pc = "mounts"
          \/ DropMounts /\ dbDel.pc = "mounts" /\ dbDel'.pc = "row" /\ d \notin dbMount'
      BY <3>1, <3>2, DbRequestSteps
    <3>6. TearDownDatabase => dbBox'[d] = NoBox
      BY <1>3, <3>1, DbRequestSteps
    <3> QED
      BY <2>0, <3>1, <3>4, <3>5, <3>6
  <2> QED
    BY <2>1, <2>2, <2>3, <2>4
<1> QED
  BY <1>0, <1>1, <1>2, <1>3 DEF DbDeleteUnderWay

LEMMA DeletedDatabaseStaysGone ==
  ASSUME DbTyped, DbDeleteUnderWay, DeletedDatabaseIsGone, DbNext
  PROVE  DeletedDatabaseIsGone'
<1> USE DbConstants
<1> SUFFICES ASSUME NEW d \in Dbs, dbRow'[d].status = "deleted", d \in dbCalm' PROVE dbBox'[d] = NoBox /\ d \notin dbMount'
  BY DEF DeletedDatabaseIsGone
<1>1. d \in dbCalm
  <2> SUFFICES ASSUME d \notin dbCalm PROVE FALSE
    OBVIOUS
  <2>1. BeginDeleteDatabase(d)
    BY DbRequestSteps
  <2>2. HasRow(d) /\ dbRow' = dbRow
    BY <2>1 DEF BeginDeleteDatabase
  <2> QED
    BY <2>2 DEF HasRow
<1>2. dbJob.db # d /\ dbReq.db # d
  BY <1>1, DbPendingByQueue DEF DbDeleteUnderWay
<1>3. (dbBox'[d] = dbBox[d] \/ dbBox'[d] = NoBox) /\ (d \in dbMount' => d \in dbMount)
  BY <1>2, DbServerSteps
<1>4. dbBox[d] = NoBox /\ d \notin dbMount
  <2>1. CASE dbRow[d].status = "deleted"
    BY <1>1, <2>1 DEF DeletedDatabaseIsGone
  <2>2. CASE dbRow[d].status # "deleted"
    <3>1. DeleteDatabaseRow /\ dbDel.db = d
      <4>1. dbRow'[d] # dbRow[d]
        BY <2>2
      <4>2. ~ (EndDatabaseJob /\ dbJob.db = d)
        BY <1>2
      <4> QED
        BY <4>1, <4>2, DbRowSteps
    <3>2. dbDel.pc = "row"
      BY <3>1 DEF DeleteDatabaseRow
    <3> QED
      BY <1>1, <3>1, <3>2 DEF DbDeleteUnderWay
  <2> QED
    BY <2>1, <2>2
<1> QED
  BY <1>3, <1>4

LEMMA JobStillRunsRow ==
  ASSUME DbTyped, JobRunsRow, DbNext
  PROVE  JobRunsRow'
<1> USE DbConstants
<1> SUFFICES ASSUME NEW d \in Dbs, dbJob'.db = d
             PROVE  /\ dbRow'[d].status # "absent"
                    /\ HasRow(d)' =>
                          /\ Awaited(d)' \/ dbJob'.set = dbRow'[d].set
                          /\ dbJob'.pc \in {"health", "done"} /\ d \notin dbDropped' /\ dbDel'.db # d
                               => dbBox'[d].run = "up" /\ dbBox'[d].set = dbJob'.set
  BY DEF JobRunsRow
<1>1. CASE TakeDatabaseJob
  <2>1. HasRow(d) /\ dbRow' = dbRow /\ dbJob'.set = dbRow[d].set /\ dbJob'.pc = "prepare"
    BY <1>1 DEF TakeDatabaseJob
  <2> QED
    BY <2>1 DEF HasRow
<1>2. CASE PrepareDatabase \/ RecreateDatabase \/ LoseRecreate \/ DatabaseHealthy \/ DatabaseStepFails
  <2>1. dbJob'.db = dbJob.db /\ dbJob'.set = dbJob.set /\ UNCHANGED <<dbRow, dbQueue, dbDel>>
    BY <1>2, DbSubjects DEF PrepareDatabase, RecreateDatabase, LoseRecreate, DatabaseHealthy, DatabaseStepFails
  <2>2. dbJob.db = d /\ dbRow'[d].status # "absent" /\ (HasRow(d)' => Awaited(d)' \/ dbJob'.set = dbRow'[d].set)
    BY <2>1, DbQueueSteps DEF JobRunsRow, HasRow
  <2> SUFFICES ASSUME HasRow(d)', dbJob'.pc \in {"health", "done"}, d \notin dbDropped', dbDel'.db # d
               PROVE  dbBox'[d].run = "up" /\ dbBox'[d].set = dbJob'.set
    BY <2>2
  <2>3. CASE RecreateDatabase
    <3>1. CanRun /\ dbBox' = [dbBox EXCEPT ![d] = Ran]
      BY <2>2, <2>3, DbSubjects DEF RecreateDatabase
    <3>2. dbBox \in [Dbs -> DbBox]
      BY DEF DbTyped
    <3> QED
      BY <2>1, <3>1, <3>2 DEF Ran
  <2>4. CASE DatabaseHealthy
    <3>1. dbJob.pc = "health" /\ UNCHANGED <<dbBox, dbDropped>>
      BY <2>4 DEF DatabaseHealthy
    <3> QED
      BY <2>1, <2>2, <3>1 DEF JobRunsRow, HasRow
  <2>5. ~ PrepareDatabase /\ ~ DatabaseStepFails
    BY DbSubjects DEF PrepareDatabase, DatabaseStepFails
  <2>6. ~ LoseRecreate
    BY <2>2 DEF LoseRecreate
  <2> QED
    BY <1>2, <2>3, <2>4, <2>5, <2>6
<1>3. CASE EndDatabaseJob \/ DatabaseWorkerDies
  BY <1>3 DEF EndDatabaseJob, DatabaseWorkerDies
<1>4. ASSUME UNCHANGED dbJob, ~ RecreateDatabase, ~ LoseRecreate, ~ EndDatabaseJob, ~ TakeDatabaseJob
      PROVE  /\ dbRow'[d].status # "absent"
             /\ HasRow(d)' =>
                   /\ Awaited(d)' \/ dbJob'.set = dbRow'[d].set
                   /\ dbJob'.pc \in {"health", "done"} /\ d \notin dbDropped' /\ dbDel'.db # d
                        => dbBox'[d].run = "up" /\ dbBox'[d].set = dbJob'.set
  <2>0. dbJob.db = d /\ dbRow[d].status # "absent"
    BY <1>4 DEF JobRunsRow
  <2>1. \/ dbRow'[d] = dbRow[d]
        \/ dbRow'[d].status = "provisioning" /\ HasRow(d) /\ Provision(d)
        \/ DeleteDatabaseRow /\ dbDel.db = d /\ dbRow'[d].status = "deleted"
    BY <1>4, <2>0, DbRowSteps
  <2> SUFFICES ASSUME HasRow(d)'
               PROVE  /\ Awaited(d)' \/ dbJob'.set = dbRow'[d].set
                      /\ dbJob'.pc \in {"health", "done"} /\ d \notin dbDropped' /\ dbDel'.db # d
                           => dbBox'[d].run = "up" /\ dbBox'[d].set = dbJob'.set
    BY <2>0, <2>1
  <2>2. HasRow(d) /\ (dbRow'[d] = dbRow[d] \/ Provision(d))
    BY <2>1 DEF HasRow
  <2>3. DbPending(d)
    BY <2>0, DbPendingByQueue
  <2>4. Awaited(d)' \/ dbJob'.set = dbRow'[d].set
    <3>1. CASE Provision(d)
      BY <3>1, ProvisionedIsAwaited
    <3>2. CASE dbRow'[d] = dbRow[d]
      <4>1. Awaited(d) => Awaited(d)'
        BY <1>4, AwaitedStays
      <4> QED
        BY <1>4, <2>0, <2>2, <3>2, <4>1 DEF JobRunsRow
    <3> QED
      BY <2>2, <3>1, <3>2
  <2>5. ASSUME d \notin dbDropped', dbDel'.db # d PROVE d \notin dbDropped /\ dbDel.db # d /\ dbBox'[d] = dbBox[d]
    <3>1. dbDel.db # d
      <4>1. ASSUME DeleteDatabaseRow, dbDel.db = d PROVE FALSE
        <5>1. dbRow \in [Dbs -> DbRow]
          BY DEF DbTyped
        <5> QED
          BY <4>1, <5>1 DEF DeleteDatabaseRow, DbRow, HasRow
      <4> QED
        BY <2>5, <4>1, DbRequestSteps
    <3> QED
      BY <1>4, <2>5, <3>1, DbServerSteps
  <2> QED
    BY <1>4, <2>0, <2>2, <2>4, <2>5 DEF JobRunsRow
<1>5. (\E e \in Dbs, s \in DbSettings : CreateDatabase(e, s)) \/ (\E e \in Dbs, s \in DbSettings : BeginSettings(e, s))
      \/ (\E e \in Dbs : SetDatabaseLimits(e)) \/ (\E e \in Dbs : BeginDatabaseImage(e)) \/ (\E e \in Dbs : BeginConnect(e))
      \/ (\E e \in Dbs : BeginDeleteDatabase(e)) \/ CommitSettings \/ CommitConnect \/ ApplyDatabaseImage
      \/ TearDownDatabase \/ DropMounts \/ DeleteDatabaseRow
      => UNCHANGED dbJob
  BY DEF CreateDatabase, BeginSettings, SetDatabaseLimits, BeginDatabaseImage, BeginConnect, BeginDeleteDatabase,
     CommitSettings, CommitConnect, ApplyDatabaseImage, TearDownDatabase, DropMounts, DeleteDatabaseRow
<1> QED
  BY <1>1, <1>2, <1>3, <1>4, <1>5, DbActions

LEMMA DatabaseStillRunsAsRecorded ==
  ASSUME DbTyped, JobRunsRow, DatabaseRunsAsRecorded, DbNext
  PROVE  DatabaseRunsAsRecorded'
<1> USE DbConstants
<1>t. dbRow \in [Dbs -> DbRow]
  BY DEF DbTyped
<1> SUFFICES ASSUME NEW d \in Dbs, dbRow'[d].status = "running", ~ DbPending(d)', d \notin dbDropped' \cup dbLost', dbDel'.db # d
             PROVE  dbBox'[d].run = "up" /\ dbBox'[d].set = dbRow'[d].set
  BY DEF DatabaseRunsAsRecorded
<1>1. dbDel.db # d
  <2>1. CASE DeleteDatabaseRow /\ dbDel.db = d
    BY <1>t, <2>1 DEF DeleteDatabaseRow, DbRow
  <2> QED
    BY <2>1, DbRequestSteps
<1>2. ~ (RecreateDatabase \/ LoseRecreate) \/ dbJob.db # d
  <2>1. ~ (dbJob'.db = d)
    BY DbPendingByQueue
  <2> QED
    BY <2>1, DbSubjects DEF RecreateDatabase, LoseRecreate
<1>3. dbBox'[d] = dbBox[d]
  BY <1>1, <1>2, DbServerSteps
<1>4. CASE EndDatabaseJob /\ dbJob.db = d
  <2>1. HasRow(d) /\ dbRow'[d].set = dbRow[d].set /\ dbJob.pc = "done" /\ UNCHANGED <<dbQueue, dbDropped>>
    <3>1. dbRow[d] # dbRow'[d] \/ HasRow(d)
      BY DEF HasRow
    <3>2. HasRow(d)
      BY <1>4, <3>1 DEF EndDatabaseJob
    <3> QED
      BY <1>4, <1>t, <3>2 DEF EndDatabaseJob, DbRow
  <2>2. ~ Awaited(d)
    BY <2>1, DbQueueSteps, DbPendingByQueue
  <2> QED
    BY <1>1, <1>3, <1>4, <2>1, <2>2 DEF JobRunsRow
<1>5. CASE ~ (EndDatabaseJob /\ dbJob.db = d)
  <2>1. dbRow'[d] = dbRow[d]
    BY <1>5, DbRowSteps
  <2>2. HasRow(d)
    BY <2>1 DEF HasRow
  <2>3. ~ DbPending(d)
    BY <1>5, <2>2, DbPendingSteps
  <2>4. d \notin dbDropped \cup dbLost
    <3>1. TakeDatabaseJob => dbQueue[1][1] # d
      <4>1. TakeDatabaseJob => (Awaited(d) <=> Awaited(d)' \/ d = dbQueue[1][1])
        BY DbQueueSteps
      <4> QED
        BY <2>3, <4>1, DbPendingByQueue
    <3> QED
      BY <3>1, DbServerSteps
  <2> QED
    BY <1>1, <1>3, <2>1, <2>3, <2>4 DEF DatabaseRunsAsRecorded
<1> QED
  BY <1>4, <1>5

----------------------------------------------------------------------------
(* The invariant of the databases                                          *)

LEMMA DbInvInit == ASSUME DbInit PROVE DbInv
<1> USE DbConstants DEF DbInit
<1>1. DbTyped
  <2>1. dbRow \in [Dbs -> DbRow]
    BY DEF DbRow
  <2>2. dbBox \in [Dbs -> DbBox]
    OBVIOUS
  <2>3. dbQueue \in Seq(Dbs \X {0, 1})
    BY EmptyQueue
  <2> QED
    BY <2>1, <2>2, <2>3 DEF DbTyped, NoDbJob, NoDbReq, NoDel
<1>2. DatabaseWorkIsOwned /\ JobRunsRow /\ DatabaseRunsAsRecorded /\ DbDeleteUnderWay /\ DeletedDatabaseIsGone
  BY DEF DatabaseWorkIsOwned, JobRunsRow, DatabaseRunsAsRecorded, DbDeleteUnderWay, DeletedDatabaseIsGone
<1> QED
  BY <1>1, <1>2 DEF DbInv

LEMMA DbInvStep == ASSUME DbInv, [DbNext]_dbVars PROVE DbInv'
<1>1. CASE DbNext
  BY <1>1, DatabasesStayTyped, DatabaseWorkStaysOwned, JobStillRunsRow, DatabaseStillRunsAsRecorded, DbDeleteStaysUnderWay,
     DeletedDatabaseStaysGone DEF DbInv
<1>2. CASE UNCHANGED dbVars
  <2> USE <1>2 DEF dbVars
  <2>1. DbTyped'
    BY DEF DbInv, DbTyped
  <2>2. JobRunsRow' /\ DbDeleteUnderWay'
    BY DEF DbInv, JobRunsRow, DbDeleteUnderWay, Awaited, In, HasRow, DbPending
  <2>3. DatabaseWorkIsOwned' /\ DatabaseRunsAsRecorded' /\ DeletedDatabaseIsGone'
    BY DEF DbInv, DatabaseWorkIsOwned, DatabaseRunsAsRecorded, DeletedDatabaseIsGone, DbPending
  <2> QED
    BY <2>1, <2>2, <2>3 DEF DbInv
<1> QED
  BY <1>1, <1>2

LEMMA DbInvSays == ASSUME DbInv PROVE DatabaseWorkIsOwned /\ DatabaseRunsAsRecorded /\ DeletedDatabaseIsGone
  BY DEF DbInv

----------------------------------------------------------------------------
(* The services of a team                                                  *)

SvcRow == [status : {"absent", "idle", "provisioning", "running", "stopped", "error", "deleted"}, ready : BOOLEAN,
           hosts : SUBSET Hosts, maint : BOOLEAN]
SvcWork == [svc : Svcs, act : Any, tries : {0, 1}]
SvcTyped ==
    /\ svcRow \in [Svcs -> SvcRow] /\ svcUp \in [Svcs -> {"none", "up", "partly", "stopped"}]
    /\ svcFiles \in [Svcs -> SUBSET Hosts]
    /\ svcQueue \in Seq(SvcWork)
    /\ svcJob \in [svc : Svcs \cup {NoSvc}, act : Any \cup {"none"}, tries : {0, 1}, row : SvcRow,
                   pc : {"rest", "write", "up", "join", "lifecycle", "routing", "done", "failed"}]
    /\ (svcJob.svc = NoSvc) <=> (svcJob.act = "none")
    /\ svcJob.svc = NoSvc => svcJob = NoSvcJob
    /\ svcJob.act = "none"      => svcJob.pc = "rest"
    /\ svcJob.act = "deploy"    => svcJob.pc \in {"write", "up", "join", "done", "failed"}
    /\ svcJob.act = "routing"   => svcJob.pc = "routing"
    /\ svcJob.act \in Lifecycle => svcJob.pc \in {"lifecycle", "done", "failed"}
    /\ svcReq = NoSvcReq \/ svcReq \in [svc : Stacks, hosts : SUBSET Hosts, maint : BOOLEAN]
    /\ svcDel \in [svc : Svcs \cup {NoSvc}, pc : {"rest", "teardown", "row"}]
    /\ (svcDel.svc = NoSvc) <=> (svcDel.pc = "rest")
    /\ svcMissed \subseteq Svcs /\ svcLost \subseteq Svcs /\ svcDropped \subseteq Svcs /\ svcCalm \subseteq Svcs

LEMMA SvcConstants ==
  /\ NoServiceRow \in SvcRow /\ NoSvc \notin Svcs /\ Stacks \subseteq Svcs
  /\ NoSvcJob.svc = NoSvc /\ NoSvcJob.act = "none" /\ NoSvcJob.pc = "rest" /\ NoSvcReq.svc = NoSvc
  /\ NoSvcDel.svc = NoSvc /\ NoSvcDel.pc = "rest"
  /\ Any = {"start", "stop", "restart", "deploy", "routing"} /\ Changing = Any \ {"routing"}
  BY ServiceSetupAssumption DEF NoServiceRow, SvcRow, NoSvc, NoSvcJob, NoSvcReq, NoSvcDel, Any, Changing, Lifecycle

LEMMA SvcActions ==
  ASSUME SvcNext
  PROVE  \/ (\E s \in Svcs, H \in SUBSET Hosts, ready \in BOOLEAN : CreateService(s, H, ready))
         \/ (\E s \in Svcs, H \in SUBSET Hosts, ready \in BOOLEAN : SetCompose(s, H, ready))
         \/ (\E s \in Svcs, H \in SUBSET Hosts : SetServiceDomain(s, H))
         \/ (\E s \in Svcs, H \in SUBSET Hosts : BeginDomains(s, H))
         \/ (\E s \in Svcs, act \in Lifecycle : ServiceLifecycle(s, act)) \/ (\E s \in Svcs : Deploys(s))
         \/ (\E s \in Svcs : SetServiceEnv(s)) \/ (\E s \in Svcs : SetMaintenance(s))
         \/ (\E s \in Svcs : BeginDeleteService(s)) \/ CommitDomains \/ TearDownService \/ DeleteServiceRow
         \/ TakeServiceJob \/ WriteService \/ UpService \/ UpServicePartly \/ JoinNetwork \/ RunLifecycle
         \/ LoseService \/ ApplyMaintenance \/ MaintenanceFails \/ ServiceStepFails \/ EndServiceJob \/ ServiceWorkerDies
  BY DEF SvcNext, SvcRequests, SvcJobs, Redeploy, ApplyServiceImage

\* The service a request, a deletion or a job is about.
LEMMA SvcSubjects ==
  ASSUME SvcTyped
  PROVE  /\ svcReq # NoSvcReq => svcReq.svc \in Stacks /\ svcReq.svc \in Svcs
         /\ svcDel.pc # "rest" => svcDel.svc \in Svcs
         /\ svcJob.pc # "rest" => svcJob.svc \in Svcs
         /\ svcJob # NoSvcJob => svcJob.svc \in Svcs /\ svcJob.act \in Any
         /\ svcJob = [svc |-> svcJob.svc, act |-> svcJob.act, pc |-> svcJob.pc, tries |-> svcJob.tries, row |-> svcJob.row]
         /\ svcDel = [svc |-> svcDel.svc, pc |-> svcDel.pc]
         /\ svcQueue # <<>> => svcQueue[1] \in SvcWork /\ svcQueue[1].svc \in Svcs /\ svcQueue[1].act \in Any /\ svcQueue[1].tries \in {0, 1}
         /\ svcJob.pc \in {"write", "up", "join"} => svcJob.act = "deploy"
         /\ svcJob.pc = "lifecycle" => svcJob.act \in Lifecycle
         /\ svcJob.pc = "routing" => svcJob.act = "routing"
         /\ svcJob.pc \in {"done", "failed"} => svcJob.act \in Changing
<1> USE SvcConstants
<1>1. svcQueue # <<>> => svcQueue[1] \in SvcWork
  BY QueueShrinks DEF SvcTyped
<1>2. svcQueue # <<>> => svcQueue[1].svc \in Svcs /\ svcQueue[1].act \in Any /\ svcQueue[1].tries \in {0, 1}
  BY <1>1 DEF SvcWork
<1>3. /\ svcJob.pc \in {"write", "up", "join"} => svcJob.act = "deploy"
      /\ svcJob.pc = "lifecycle" => svcJob.act \in Lifecycle
      /\ svcJob.pc = "routing" => svcJob.act = "routing"
      /\ svcJob.pc \in {"done", "failed"} => svcJob.act \in Changing
  BY DEF SvcTyped, Lifecycle
<1>4. /\ svcReq # NoSvcReq => svcReq.svc \in Stacks /\ svcReq.svc \in Svcs
      /\ svcDel.pc # "rest" => svcDel.svc \in Svcs
      /\ svcJob.pc # "rest" => svcJob.svc \in Svcs
      /\ svcJob # NoSvcJob => svcJob.svc \in Svcs /\ svcJob.act \in Any
  BY DEF SvcTyped
<1>5. /\ svcJob = [svc |-> svcJob.svc, act |-> svcJob.act, pc |-> svcJob.pc, tries |-> svcJob.tries, row |-> svcJob.row]
      /\ svcDel = [svc |-> svcDel.svc, pc |-> svcDel.pc]
  BY DEF SvcTyped
<1> QED
  BY <1>1, <1>2, <1>3, <1>4, <1>5

\* What each request and each job writes of a row.
LEMMA SvcRowWritten ==
  ASSUME SvcTyped
  PROVE  /\ \A s \in Svcs, H \in SUBSET Hosts, ready \in BOOLEAN : CreateService(s, H, ready) =>
               svcRow' = [svcRow EXCEPT ![s] = [status |-> "idle", ready |-> ready, hosts |-> H, maint |-> FALSE]]
         /\ \A s \in Svcs, H \in SUBSET Hosts : SetServiceDomain(s, H) =>
               svcRow' = [svcRow EXCEPT ![s] = [svcRow[s] EXCEPT !.hosts = H]]
         /\ \A s \in Svcs : SetServiceEnv(s) => svcRow' = [svcRow EXCEPT ![s] = [svcRow[s] EXCEPT !.ready = ~ svcRow[s].ready]]
         /\ \A s \in Svcs : SetMaintenance(s) => svcRow' = [svcRow EXCEPT ![s] = [svcRow[s] EXCEPT !.maint = ~ svcRow[s].maint]]
         /\ \A s \in Svcs : Deploys(s) \/ (\E act \in Lifecycle : ServiceLifecycle(s, act)) =>
               svcRow' = [svcRow EXCEPT ![s] = [svcRow[s] EXCEPT !.status = "provisioning"]]
<1>t. svcRow \in [Svcs -> SvcRow] /\ \A s \in Svcs : svcRow[s] \in SvcRow
  BY DEF SvcTyped
<1>1. \A s \in Svcs, H \in SUBSET Hosts, ready \in BOOLEAN : CreateService(s, H, ready) =>
               svcRow' = [svcRow EXCEPT ![s] = [status |-> "idle", ready |-> ready, hosts |-> H, maint |-> FALSE]]
  BY DEF CreateService
<1>2. \A s \in Svcs, H \in SUBSET Hosts : SetServiceDomain(s, H) =>
               svcRow' = [svcRow EXCEPT ![s] = [svcRow[s] EXCEPT !.hosts = H]]
  BY <1>t DEF SetServiceDomain
<1>3. \A s \in Svcs : SetServiceEnv(s) => svcRow' = [svcRow EXCEPT ![s] = [svcRow[s] EXCEPT !.ready = ~ svcRow[s].ready]]
  BY <1>t DEF SetServiceEnv
<1>4. \A s \in Svcs : SetMaintenance(s) => svcRow' = [svcRow EXCEPT ![s] = [svcRow[s] EXCEPT !.maint = ~ svcRow[s].maint]]
  BY <1>t DEF SetMaintenance
<1>5. \A s \in Svcs : Deploys(s) \/ (\E act \in Lifecycle : ServiceLifecycle(s, act)) =>
               svcRow' = [svcRow EXCEPT ![s] = [svcRow[s] EXCEPT !.status = "provisioning"]]
  BY <1>t DEF Deploys, ServiceLifecycle
<1> QED
  BY <1>1, <1>2, <1>3, <1>4, <1>5

LEMMA SvcRowsStayTyped ==
  ASSUME SvcTyped, SvcNext
  PROVE  svcRow' \in [Svcs -> SvcRow]
<1>t. svcRow \in [Svcs -> SvcRow] /\ \A s \in Svcs : svcRow[s] \in SvcRow
  BY DEF SvcTyped
<1>0. ASSUME NEW s \in Svcs, NEW changed \in SvcRow PROVE [svcRow EXCEPT ![s] = changed] \in [Svcs -> SvcRow]
  BY <1>t
<1>1. ASSUME NEW s \in Svcs, NEW H \in SUBSET Hosts, NEW ready \in BOOLEAN, CreateService(s, H, ready)
      PROVE  svcRow' \in [Svcs -> SvcRow]
  <2>1. [status |-> "idle", ready |-> ready, hosts |-> H, maint |-> FALSE] \in SvcRow
    BY DEF SvcRow
  <2> QED
    BY <1>0, <1>1, <2>1 DEF CreateService
<1>2. ASSUME NEW s \in Svcs, NEW H \in SUBSET Hosts, NEW ready \in BOOLEAN, SetCompose(s, H, ready)
      PROVE  svcRow' \in [Svcs -> SvcRow]
  <2> DEFINE changed == [svcRow[s] EXCEPT !.hosts = H, !.ready = ready]
  <2>1. changed \in SvcRow
    BY <1>t DEF SvcRow
  <2>2. svcRow' = [svcRow EXCEPT ![s] = changed]
    BY <1>t, <1>2 DEF SetCompose
  <2> HIDE DEF changed
  <2> QED
    BY <1>0, <2>1, <2>2
<1>3. ASSUME NEW s \in Svcs, NEW H \in SUBSET Hosts, SetServiceDomain(s, H) PROVE svcRow' \in [Svcs -> SvcRow]
  <2> DEFINE changed == [svcRow[s] EXCEPT !.hosts = H]
  <2>1. changed \in SvcRow
    BY <1>t DEF SvcRow
  <2>2. svcRow' = [svcRow EXCEPT ![s] = changed]
    BY <1>3, SvcRowWritten
  <2> HIDE DEF changed
  <2> QED
    BY <1>0, <2>1, <2>2
<1>4. ASSUME NEW s \in Svcs, SetServiceEnv(s) PROVE svcRow' \in [Svcs -> SvcRow]
  <2> DEFINE changed == [svcRow[s] EXCEPT !.ready = ~ svcRow[s].ready]
  <2>1. changed \in SvcRow
    BY <1>t DEF SvcRow
  <2>2. svcRow' = [svcRow EXCEPT ![s] = changed]
    BY <1>4, SvcRowWritten
  <2> HIDE DEF changed
  <2> QED
    BY <1>0, <2>1, <2>2
<1>5. ASSUME NEW s \in Svcs, SetMaintenance(s) PROVE svcRow' \in [Svcs -> SvcRow]
  <2> DEFINE changed == [svcRow[s] EXCEPT !.maint = ~ svcRow[s].maint]
  <2>1. changed \in SvcRow
    BY <1>t DEF SvcRow
  <2>2. svcRow' = [svcRow EXCEPT ![s] = changed]
    BY <1>5, SvcRowWritten
  <2> HIDE DEF changed
  <2> QED
    BY <1>0, <2>1, <2>2
<1>6. ASSUME NEW s \in Svcs, Deploys(s) \/ \E act \in Lifecycle : ServiceLifecycle(s, act) PROVE svcRow' \in [Svcs -> SvcRow]
  <2> DEFINE changed == [svcRow[s] EXCEPT !.status = "provisioning"]
  <2>1. changed \in SvcRow
    BY <1>t DEF SvcRow
  <2>2. svcRow' = [svcRow EXCEPT ![s] = changed]
    BY <1>6, SvcRowWritten
  <2> HIDE DEF changed
  <2> QED
    BY <1>0, <2>1, <2>2
<1>7. CASE CommitDomains /\ HasService(svcReq.svc)
  <2>1. svcReq.svc \in Svcs /\ svcReq.hosts \in SUBSET Hosts
    BY <1>7, SvcSubjects DEF SvcTyped, CommitDomains
  <2>2. svcRow' = [svcRow EXCEPT ![svcReq.svc].hosts = svcReq.hosts]
    BY <1>7 DEF CommitDomains
  <2> QED
    BY <1>t, <2>1, <2>2 DEF SvcRow
<1>8. CASE DeleteServiceRow
  <2>1. svcDel.svc \in Svcs /\ [NoServiceRow EXCEPT !.status = "deleted"] \in SvcRow
    BY <1>8, SvcSubjects DEF DeleteServiceRow, NoServiceRow, SvcRow
  <2> QED
    BY <1>0, <1>8, <2>1 DEF DeleteServiceRow
<1>9. CASE EndServiceJob
  <2>1. svcJob.svc \in Svcs
    BY <1>9, SvcSubjects DEF EndServiceJob
  <2>2. svcRow' = svcRow \/ \E x \in {"error", "stopped", "running"} : svcRow' = [svcRow EXCEPT ![svcJob.svc].status = x]
    BY <1>9 DEF EndServiceJob
  <2> QED
    BY <1>t, <2>1, <2>2 DEF SvcRow
<1>10. (CommitDomains /\ ~ HasService(svcReq.svc)) \/ (\E s \in Svcs, H \in SUBSET Hosts : BeginDomains(s, H))
       \/ (\E s \in Svcs : BeginDeleteService(s)) \/ TearDownService
       \/ TakeServiceJob \/ WriteService \/ UpService \/ UpServicePartly \/ JoinNetwork \/ RunLifecycle
       \/ LoseService \/ ApplyMaintenance \/ MaintenanceFails \/ ServiceStepFails \/ ServiceWorkerDies
       => UNCHANGED svcRow
  BY DEF CommitDomains, BeginDomains, BeginDeleteService, TearDownService, TakeServiceJob, WriteService, UpService,
     UpServicePartly, JoinNetwork, RunLifecycle, LoseService, ApplyMaintenance, MaintenanceFails, ServiceStepFails,
     ServiceWorkerDies
<1> QED
  BY <1>t, <1>1, <1>2, <1>3, <1>4, <1>5, <1>6, <1>7, <1>8, <1>9, <1>10, SvcActions

\* What a step does to the queue: one job is added at the end, taken from the front, or put back there.
LEMMA SvcQueueChanges ==
  ASSUME SvcTyped, SvcNext
  PROVE  \/ UNCHANGED svcQueue
         \/ \E s \in Svcs, act \in Any : svcQueue' = Add(s, act) /\ UNCHANGED svcJob
         \/ TakeServiceJob /\ svcQueue # <<>> /\ svcQueue' = Tail(svcQueue)
         \/ /\ ServiceWorkerDies /\ svcJob.svc \in Svcs /\ svcJob.act \in Any
            /\ svcQueue' = <<[svc |-> svcJob.svc, act |-> svcJob.act, tries |-> 1]>> \o svcQueue
<1> USE SvcConstants
<1>1. ASSUME NEW s \in Svcs, NEW H \in SUBSET Hosts, NEW ready \in BOOLEAN, CreateService(s, H, ready)
      PROVE  UNCHANGED svcQueue \/ (svcQueue' = Add(s, "deploy") /\ UNCHANGED svcJob)
  BY <1>1 DEF CreateService
<1>2. ASSUME NEW s \in Svcs, NEW H \in SUBSET Hosts, SetServiceDomain(s, H)
      PROVE  UNCHANGED svcQueue \/ (svcQueue' = Add(s, "routing") /\ UNCHANGED svcJob)
  BY <1>2 DEF SetServiceDomain
<1>3. ASSUME NEW s \in Svcs, NEW act \in Lifecycle, ServiceLifecycle(s, act)
      PROVE  svcQueue' = Add(s, act) /\ UNCHANGED svcJob /\ act \in Any
  BY <1>3 DEF ServiceLifecycle, Lifecycle
<1>4. ASSUME NEW s \in Svcs, Deploys(s) PROVE svcQueue' = Add(s, "deploy") /\ UNCHANGED svcJob
  BY <1>4 DEF Deploys
<1>5. ASSUME NEW s \in Svcs, SetMaintenance(s) PROVE svcQueue' = Add(s, "routing") /\ UNCHANGED svcJob
  BY <1>5 DEF SetMaintenance
<1>6. CASE CommitDomains
  <2>1. svcReq.svc \in Svcs
    BY <1>6, SvcSubjects DEF CommitDomains
  <2> QED
    BY <1>6, <2>1 DEF CommitDomains
<1>7. CASE TakeServiceJob
  BY <1>7 DEF TakeServiceJob
<1>8. CASE ServiceWorkerDies
  BY <1>8, SvcSubjects DEF ServiceWorkerDies
<1>9. (\E s \in Svcs, H \in SUBSET Hosts, ready \in BOOLEAN : SetCompose(s, H, ready))
      \/ (\E s \in Svcs, H \in SUBSET Hosts : BeginDomains(s, H)) \/ (\E s \in Svcs : SetServiceEnv(s))
      \/ (\E s \in Svcs : BeginDeleteService(s)) \/ TearDownService \/ DeleteServiceRow
      \/ WriteService \/ UpService \/ UpServicePartly \/ JoinNetwork \/ RunLifecycle
      \/ LoseService \/ ApplyMaintenance \/ MaintenanceFails \/ ServiceStepFails \/ EndServiceJob
      => UNCHANGED svcQueue
  BY DEF SetCompose, BeginDomains, SetServiceEnv, BeginDeleteService, TearDownService, DeleteServiceRow, WriteService,
     UpService, UpServicePartly, JoinNetwork, RunLifecycle, LoseService, ApplyMaintenance, MaintenanceFails,
     ServiceStepFails, EndServiceJob
<1>10. {"deploy", "routing"} \subseteq Any
  OBVIOUS
<1> QED
  BY <1>1, <1>2, <1>3, <1>4, <1>5, <1>6, <1>7, <1>8, <1>9, <1>10, SvcActions

LEMMA SvcQueueStaysTyped ==
  ASSUME SvcTyped, SvcNext
  PROVE  svcQueue' \in Seq(SvcWork)
<1>q. svcQueue \in Seq(SvcWork)
  BY DEF SvcTyped
<1>1. ASSUME NEW s \in Svcs, NEW act \in Any PROVE Add(s, act) \in Seq(SvcWork)
  <2>1. [svc |-> s, act |-> act, tries |-> 0] \in SvcWork
    BY DEF SvcWork
  <2> QED
    BY <1>q, <2>1, QueueGrows DEF Add
<1>2. svcQueue # <<>> => Tail(svcQueue) \in Seq(SvcWork)
  BY <1>q, QueueShrinks
<1>3. ASSUME svcJob.svc \in Svcs, svcJob.act \in Any
      PROVE  <<[svc |-> svcJob.svc, act |-> svcJob.act, tries |-> 1]>> \o svcQueue \in Seq(SvcWork)
  <2>1. [svc |-> svcJob.svc, act |-> svcJob.act, tries |-> 1] \in SvcWork
    BY <1>3 DEF SvcWork
  <2> QED
    BY <1>q, <2>1, QueueAgain
<1> QED
  BY <1>q, <1>1, <1>2, <1>3, SvcQueueChanges

LEMMA SvcJobStaysTyped ==
  ASSUME SvcTyped, SvcNext
  PROVE  /\ svcJob' \in [svc : Svcs \cup {NoSvc}, act : Any \cup {"none"}, tries : {0, 1}, row : SvcRow,
                         pc : {"rest", "write", "up", "join", "lifecycle", "routing", "done", "failed"}]
         /\ (svcJob'.svc = NoSvc) <=> (svcJob'.act = "none")
         /\ svcJob'.svc = NoSvc => svcJob' = NoSvcJob
         /\ svcJob'.act = "none"      => svcJob'.pc = "rest"
         /\ svcJob'.act = "deploy"    => svcJob'.pc \in {"write", "up", "join", "done", "failed"}
         /\ svcJob'.act = "routing"   => svcJob'.pc = "routing"
         /\ svcJob'.act \in Lifecycle => svcJob'.pc \in {"lifecycle", "done", "failed"}
<1> USE SvcConstants
<1> DEFINE Pcs == {"rest", "write", "up", "join", "lifecycle", "routing", "done", "failed"}
           Fits(job) ==
               /\ job \in [svc : Svcs \cup {NoSvc}, act : Any \cup {"none"}, tries : {0, 1}, row : SvcRow, pc : Pcs]
               /\ (job.svc = NoSvc) <=> (job.act = "none")
               /\ job.svc = NoSvc => job = NoSvcJob
               /\ job.act = "none"      => job.pc = "rest"
               /\ job.act = "deploy"    => job.pc \in {"write", "up", "join", "done", "failed"}
               /\ job.act = "routing"   => job.pc = "routing"
               /\ job.act \in Lifecycle => job.pc \in {"lifecycle", "done", "failed"}
<1> SUFFICES Fits(svcJob')
  OBVIOUS
<1>0. Fits(svcJob)
  BY DEF SvcTyped
<1>1. Fits(NoSvcJob)
  BY DEF NoSvcJob, Lifecycle
<1>2. ASSUME NEW x \in Pcs, svcJob.act \in Any,
             \/ svcJob.act = "deploy" /\ x \in {"write", "up", "join", "done", "failed"}
             \/ svcJob.act \in Lifecycle /\ x \in {"lifecycle", "done", "failed"},
             svcJob' = [svcJob EXCEPT !.pc = x]
      PROVE  Fits(svcJob')
  <2>1. svcJob' = [svc |-> svcJob.svc, act |-> svcJob.act, pc |-> x, tries |-> svcJob.tries, row |-> svcJob.row]
    BY <1>2, SvcSubjects
  <2>2. "deploy" \notin Lifecycle /\ "none" \notin Lifecycle /\ "routing" \notin Lifecycle
    BY DEF Lifecycle
  <2> QED
    BY <1>0, <1>2, <2>1, <2>2
<1>3. CASE TakeServiceJob
  <2>1. CASE ~ HasService(svcQueue[1].svc)
    BY <1>1, <1>3, <2>1 DEF TakeServiceJob
  <2>2. CASE HasService(svcQueue[1].svc)
    <3> DEFINE j == svcQueue[1]
    <3>1. svcJob' = [svc |-> j.svc, act |-> j.act, pc |-> FirstPc(j.act), tries |-> j.tries, row |-> svcRow[j.svc]]
      BY <1>3, <2>2 DEF TakeServiceJob
    <3>2. j.svc \in Svcs /\ j.act \in Any /\ j.tries \in {0, 1} /\ svcRow[j.svc] \in SvcRow
      BY <1>3, SvcSubjects DEF TakeServiceJob, SvcTyped
    <3> HIDE DEF j
    <3>3. /\ j.act = "routing" => FirstPc(j.act) = "routing"
          /\ j.act = "deploy" => FirstPc(j.act) = "write"
          /\ j.act \in Lifecycle => FirstPc(j.act) = "lifecycle"
          /\ j.act \in {"routing", "deploy"} \cup Lifecycle
      BY <3>2 DEF FirstPc, Lifecycle
    <3>4. FirstPc(j.act) \in Pcs
      BY <3>3
    <3> QED
      BY <3>1, <3>2, <3>3, <3>4
  <2> QED
    BY <2>1, <2>2
<1>4. CASE WriteService \/ UpService \/ UpServicePartly \/ JoinNetwork
  <2>1. svcJob.act = "deploy" /\ \E x \in {"up", "join", "done", "failed"} : svcJob' = [svcJob EXCEPT !.pc = x]
    BY <1>4, SvcSubjects DEF WriteService, UpService, UpServicePartly, JoinNetwork, AfterUp
  <2> HIDE DEF Fits
  <2> QED
    BY <1>2, <2>1
<1>5. CASE RunLifecycle \/ LoseService \/ ServiceStepFails
  <2>1. /\ svcJob.act \in Lifecycle \/ svcJob.act = "deploy"
        /\ \E x \in {"done", "failed"} : svcJob' = [svcJob EXCEPT !.pc = x]
    BY <1>5, SvcSubjects DEF RunLifecycle, LoseService, ServiceStepFails
  <2>2. svcJob.act \in Any
    BY <2>1 DEF Lifecycle
  <2> HIDE DEF Fits
  <2> QED
    BY <1>2, <2>1, <2>2
<1>6. CASE ApplyMaintenance \/ MaintenanceFails \/ EndServiceJob \/ ServiceWorkerDies
  <2>1. svcJob' = NoSvcJob
    BY <1>6 DEF ApplyMaintenance, MaintenanceFails, EndServiceJob, ServiceWorkerDies
  <2> HIDE DEF Fits
  <2> QED
    BY <1>1, <2>1
<1>7. CASE UNCHANGED svcJob
  <2> HIDE DEF Fits
  <2> QED
    BY <1>0, <1>7
<1>8. (\E s \in Svcs, H \in SUBSET Hosts, ready \in BOOLEAN : CreateService(s, H, ready))
      \/ (\E s \in Svcs, H \in SUBSET Hosts, ready \in BOOLEAN : SetCompose(s, H, ready))
      \/ (\E s \in Svcs, H \in SUBSET Hosts : SetServiceDomain(s, H))
      \/ (\E s \in Svcs, H \in SUBSET Hosts : BeginDomains(s, H))
      \/ (\E s \in Svcs, act \in Lifecycle : ServiceLifecycle(s, act)) \/ (\E s \in Svcs : Deploys(s))
      \/ (\E s \in Svcs : SetServiceEnv(s)) \/ (\E s \in Svcs : SetMaintenance(s))
      \/ (\E s \in Svcs : BeginDeleteService(s)) \/ CommitDomains \/ TearDownService \/ DeleteServiceRow
      => UNCHANGED svcJob
  BY DEF CreateService, SetCompose, SetServiceDomain, BeginDomains, ServiceLifecycle, Deploys, SetServiceEnv, SetMaintenance,
     BeginDeleteService, CommitDomains, TearDownService, DeleteServiceRow
<1> HIDE DEF Fits
<1> QED
  BY <1>3, <1>4, <1>5, <1>6, <1>7, <1>8, SvcActions

LEMMA ServicesStayTyped ==
  ASSUME SvcTyped, SvcNext
  PROVE  SvcTyped'
<1> USE SvcConstants
<1>1. svcUp' \in [Svcs -> {"none", "up", "partly", "stopped"}] /\ svcFiles' \in [Svcs -> SUBSET Hosts]
  <2>t. /\ svcUp \in [Svcs -> {"none", "up", "partly", "stopped"}] /\ svcFiles \in [Svcs -> SUBSET Hosts]
        /\ svcJob.row.hosts \in SUBSET Hosts
    BY DEF SvcTyped, SvcRow
  <2>1. CASE TearDownService
    BY <2>t, <2>1 DEF TearDownService
  <2>2. CASE UpService \/ UpServicePartly \/ RunLifecycle \/ LoseService
    <3>1. UNCHANGED svcFiles /\ (svcUp' = svcUp \/ \E x \in {"none", "up", "partly", "stopped"} : svcUp' = [svcUp EXCEPT ![svcJob.svc] = x])
      <4>1. LoseService => UNCHANGED svcFiles /\ \E x \in {"none", "up", "partly", "stopped"} : svcUp' = [svcUp EXCEPT ![svcJob.svc] = x]
        <5> SUFFICES ASSUME LoseService PROVE UNCHANGED svcFiles /\ \E x \in {"none", "up", "partly", "stopped"} : svcUp' = [svcUp EXCEPT ![svcJob.svc] = x]
          OBVIOUS
        <5>1. svcJob.svc \in Svcs
          BY SvcSubjects DEF LoseService
        <5>2. svcUp[svcJob.svc] \in {"none", "up", "partly", "stopped"}
          BY <2>t, <5>1
        <5> QED
          BY <5>2 DEF LoseService
      <4> QED
        BY <2>2, <4>1 DEF UpService, UpServicePartly, RunLifecycle
    <3> QED
      BY <2>t, <3>1
  <2>3. CASE ApplyMaintenance
    <3>1. MaintenanceHosts(svcJob.row) \in SUBSET Hosts
      BY <2>t DEF MaintenanceHosts
    <3> QED
      BY <2>t, <2>3, <3>1 DEF ApplyMaintenance
  <2>4. (\E s \in Svcs, H \in SUBSET Hosts, ready \in BOOLEAN : CreateService(s, H, ready))
        \/ (\E s \in Svcs, H \in SUBSET Hosts, ready \in BOOLEAN : SetCompose(s, H, ready))
        \/ (\E s \in Svcs, H \in SUBSET Hosts : SetServiceDomain(s, H))
        \/ (\E s \in Svcs, H \in SUBSET Hosts : BeginDomains(s, H))
        \/ (\E s \in Svcs, act \in Lifecycle : ServiceLifecycle(s, act)) \/ (\E s \in Svcs : Deploys(s))
        \/ (\E s \in Svcs : SetServiceEnv(s)) \/ (\E s \in Svcs : SetMaintenance(s))
        \/ (\E s \in Svcs : BeginDeleteService(s)) \/ CommitDomains \/ DeleteServiceRow
        \/ TakeServiceJob \/ WriteService \/ JoinNetwork
        \/ MaintenanceFails \/ ServiceStepFails \/ EndServiceJob \/ ServiceWorkerDies
        => UNCHANGED <<svcUp, svcFiles>>
    BY DEF CreateService, SetCompose, SetServiceDomain, BeginDomains, ServiceLifecycle, Deploys, SetServiceEnv, SetMaintenance,
       BeginDeleteService, CommitDomains, DeleteServiceRow, TakeServiceJob, WriteService, JoinNetwork, MaintenanceFails,
       ServiceStepFails, EndServiceJob, ServiceWorkerDies
  <2> QED
    BY <2>t, <2>1, <2>2, <2>3, <2>4, SvcActions
<1>2. /\ svcReq' = NoSvcReq \/ svcReq' \in [svc : Stacks, hosts : SUBSET Hosts, maint : BOOLEAN]
      /\ svcDel' \in [svc : Svcs \cup {NoSvc}, pc : {"rest", "teardown", "row"}]
      /\ (svcDel'.svc = NoSvc) <=> (svcDel'.pc = "rest")
  <2>t. /\ svcReq = NoSvcReq \/ svcReq \in [svc : Stacks, hosts : SUBSET Hosts, maint : BOOLEAN]
        /\ svcDel \in [svc : Svcs \cup {NoSvc}, pc : {"rest", "teardown", "row"}]
        /\ (svcDel.svc = NoSvc) <=> (svcDel.pc = "rest")
        /\ \A s \in Svcs : svcRow[s].maint \in BOOLEAN
    BY DEF SvcTyped, SvcRow
  <2>1. ASSUME NEW s \in Svcs, NEW H \in SUBSET Hosts, BeginDomains(s, H)
        PROVE  svcReq' \in [svc : Stacks, hosts : SUBSET Hosts, maint : BOOLEAN] /\ UNCHANGED svcDel
    BY <2>t, <2>1 DEF BeginDomains
  <2>2. CommitDomains => svcReq' = NoSvcReq /\ UNCHANGED svcDel
    BY DEF CommitDomains
  <2>3. ASSUME NEW s \in Svcs, BeginDeleteService(s) PROVE svcDel' = [svc |-> s, pc |-> "teardown"] /\ UNCHANGED svcReq
    BY <2>3 DEF BeginDeleteService
  <2>4. TearDownService => svcDel' = [svc |-> svcDel.svc, pc |-> "row"] /\ svcDel.svc \in Svcs /\ UNCHANGED svcReq
    BY SvcSubjects DEF TearDownService
  <2>5. DeleteServiceRow => svcDel' = NoSvcDel /\ UNCHANGED svcReq
    BY DEF DeleteServiceRow
  <2>6. (\E s \in Svcs, H \in SUBSET Hosts, ready \in BOOLEAN : CreateService(s, H, ready))
        \/ (\E s \in Svcs, H \in SUBSET Hosts, ready \in BOOLEAN : SetCompose(s, H, ready))
        \/ (\E s \in Svcs, H \in SUBSET Hosts : SetServiceDomain(s, H))
        \/ (\E s \in Svcs, act \in Lifecycle : ServiceLifecycle(s, act)) \/ (\E s \in Svcs : Deploys(s))
        \/ (\E s \in Svcs : SetServiceEnv(s)) \/ (\E s \in Svcs : SetMaintenance(s))
        \/ TakeServiceJob \/ WriteService \/ UpService \/ UpServicePartly \/ JoinNetwork \/ RunLifecycle
        \/ LoseService \/ ApplyMaintenance \/ MaintenanceFails \/ ServiceStepFails \/ EndServiceJob \/ ServiceWorkerDies
        => UNCHANGED <<svcReq, svcDel>>
    BY DEF CreateService, SetCompose, SetServiceDomain, ServiceLifecycle, Deploys, SetServiceEnv, SetMaintenance,
       TakeServiceJob, WriteService, UpService, UpServicePartly, JoinNetwork, RunLifecycle, LoseService, ApplyMaintenance,
       MaintenanceFails, ServiceStepFails, EndServiceJob, ServiceWorkerDies
  <2>7. NoSvcDel \in [svc : Svcs \cup {NoSvc}, pc : {"rest", "teardown", "row"}]
    BY DEF NoSvcDel
  <2>8. ASSUME NEW s \in Svcs, NEW x \in {"teardown", "row"}, svcDel' = [svc |-> s, pc |-> x]
        PROVE  svcDel' \in [svc : Svcs \cup {NoSvc}, pc : {"rest", "teardown", "row"}] /\ svcDel'.svc # NoSvc /\ svcDel'.pc # "rest"
    BY <2>8
  <2> QED
    BY <2>t, <2>1, <2>2, <2>3, <2>4, <2>5, <2>6, <2>7, <2>8, SvcActions
<1>3. svcMissed' \subseteq Svcs /\ svcLost' \subseteq Svcs /\ svcDropped' \subseteq Svcs
  <2>t. svcMissed \subseteq Svcs /\ svcLost \subseteq Svcs /\ svcDropped \subseteq Svcs
    BY DEF SvcTyped
  <2>1. ASSUME NEW s \in Svcs, NEW H \in SUBSET Hosts, NEW ready \in BOOLEAN, SetCompose(s, H, ready)
        PROVE  svcMissed' \subseteq svcMissed \cup {s} /\ UNCHANGED <<svcLost, svcDropped>>
    BY <2>1 DEF SetCompose
  <2>2. CommitDomains => svcMissed' \subseteq svcMissed \cup {svcReq.svc} /\ svcReq.svc \in Svcs /\ UNCHANGED <<svcLost, svcDropped>>
    BY SvcSubjects DEF CommitDomains
  <2>3. TakeServiceJob => svcDropped' \subseteq svcDropped /\ UNCHANGED <<svcLost, svcMissed>>
    BY DEF TakeServiceJob
  <2>4. LoseService => svcDropped' = svcDropped \cup {svcJob.svc} /\ svcJob.svc \in Svcs /\ UNCHANGED <<svcLost, svcMissed>>
    BY SvcSubjects DEF LoseService
  <2>5. ApplyMaintenance \/ MaintenanceFails
        => svcMissed' \subseteq svcMissed \cup {svcJob.svc} /\ svcJob.svc \in Svcs /\ UNCHANGED <<svcLost, svcDropped>>
    BY SvcSubjects DEF ApplyMaintenance, MaintenanceFails
  <2>6. ServiceWorkerDies => /\ svcMissed' \subseteq svcMissed \cup {svcJob.svc} /\ svcLost' \subseteq svcLost \cup {svcJob.svc}
                             /\ svcJob.svc \in Svcs /\ UNCHANGED svcDropped
    BY SvcSubjects DEF ServiceWorkerDies
  <2>7. (\E s \in Svcs, H \in SUBSET Hosts, ready \in BOOLEAN : CreateService(s, H, ready))
        \/ (\E s \in Svcs, H \in SUBSET Hosts : SetServiceDomain(s, H))
        \/ (\E s \in Svcs, H \in SUBSET Hosts : BeginDomains(s, H))
        \/ (\E s \in Svcs, act \in Lifecycle : ServiceLifecycle(s, act)) \/ (\E s \in Svcs : Deploys(s))
        \/ (\E s \in Svcs : SetServiceEnv(s)) \/ (\E s \in Svcs : SetMaintenance(s))
        \/ (\E s \in Svcs : BeginDeleteService(s)) \/ TearDownService \/ DeleteServiceRow
        \/ WriteService \/ UpService \/ UpServicePartly \/ JoinNetwork \/ RunLifecycle
        \/ ServiceStepFails \/ EndServiceJob
        => UNCHANGED <<svcMissed, svcLost, svcDropped>>
    BY DEF CreateService, SetServiceDomain, BeginDomains, ServiceLifecycle, Deploys, SetServiceEnv, SetMaintenance,
       BeginDeleteService, TearDownService, DeleteServiceRow, WriteService, UpService, UpServicePartly, JoinNetwork,
       RunLifecycle, ServiceStepFails, EndServiceJob
  <2>8. ASSUME NEW s \in Svcs PROVE /\ svcMissed' \subseteq svcMissed \cup {s} => svcMissed' \subseteq Svcs
                                    /\ svcLost' \subseteq svcLost \cup {s} => svcLost' \subseteq Svcs
                                    /\ svcDropped' \subseteq svcDropped \cup {s} => svcDropped' \subseteq Svcs
    BY <2>t
  <2> QED
    BY <2>t, <2>1, <2>2, <2>3, <2>4, <2>5, <2>6, <2>7, <2>8, SvcActions
<1>4. svcCalm' \subseteq Svcs
  <2>t. svcCalm \subseteq Svcs
    BY DEF SvcTyped
  <2>1. ASSUME NEW s \in Svcs,
               \/ \E H \in SUBSET Hosts : SetServiceDomain(s, H) \/ BeginDomains(s, H)
               \/ (\E act \in Lifecycle : ServiceLifecycle(s, act)) \/ Deploys(s) \/ SetMaintenance(s)
               \/ BeginDeleteService(s)
        PROVE  svcCalm' \subseteq Svcs
    BY <2>t, <2>1 DEF SetServiceDomain, BeginDomains, ServiceLifecycle, Deploys, SetMaintenance, BeginDeleteService, Upset
  <2>2. TearDownService => svcCalm' \subseteq svcCalm
    BY DEF TearDownService, Upset
  <2>3. (\E s \in Svcs, H \in SUBSET Hosts, ready \in BOOLEAN : CreateService(s, H, ready))
        \/ (\E s \in Svcs, H \in SUBSET Hosts, ready \in BOOLEAN : SetCompose(s, H, ready))
        \/ (\E s \in Svcs : SetServiceEnv(s)) \/ CommitDomains \/ DeleteServiceRow
        \/ TakeServiceJob \/ WriteService \/ UpService \/ UpServicePartly \/ JoinNetwork \/ RunLifecycle
        \/ LoseService \/ ApplyMaintenance \/ MaintenanceFails \/ ServiceStepFails \/ EndServiceJob \/ ServiceWorkerDies
        => UNCHANGED svcCalm
    BY DEF CreateService, SetCompose, SetServiceEnv, CommitDomains, DeleteServiceRow, TakeServiceJob, WriteService, UpService,
       UpServicePartly, JoinNetwork, RunLifecycle, LoseService, ApplyMaintenance, MaintenanceFails, ServiceStepFails,
       EndServiceJob, ServiceWorkerDies
  <2> QED
    BY <2>t, <2>1, <2>2, <2>3, SvcActions
<1> QED
  BY <1>1, <1>2, <1>3, <1>4, SvcRowsStayTyped, SvcQueueStaysTyped, SvcJobStaysTyped DEF SvcTyped

\* A job that waits in the queue, told of the queue as a set.
LEMMA SvcWaitingByQueue ==
  ASSUME NEW s, NEW acts
  PROVE  /\ Waiting(s, acts) <=> \E x \in In(svcQueue) : x.svc = s /\ x.act \in acts
         /\ Waiting(s, acts)' <=> \E x \in In(svcQueue)' : x.svc = s /\ x.act \in acts
  BY DEF Waiting, In

LEMMA SvcQueueSteps ==
  ASSUME SvcTyped, NEW s, NEW acts
  PROVE  /\ \A e \in Svcs, act \in Any : svcQueue' = Add(e, act) => (Waiting(s, acts)' <=> Waiting(s, acts) \/ (s = e /\ act \in acts))
         /\ svcQueue # <<>> /\ svcQueue' = Tail(svcQueue)
              => (Waiting(s, acts) <=> Waiting(s, acts)' \/ (svcQueue[1].svc = s /\ svcQueue[1].act \in acts))
         /\ svcJob.svc \in Svcs /\ svcJob.act \in Any
            /\ svcQueue' = <<[svc |-> svcJob.svc, act |-> svcJob.act, tries |-> 1]>> \o svcQueue
              => (Waiting(s, acts)' <=> Waiting(s, acts) \/ (svcJob.svc = s /\ svcJob.act \in acts))
         /\ UNCHANGED svcQueue => (Waiting(s, acts)' <=> Waiting(s, acts))
<1>q. svcQueue \in Seq(SvcWork)
  BY DEF SvcTyped
<1>1. ASSUME NEW e \in Svcs, NEW act \in Any, svcQueue' = Add(e, act)
      PROVE  Waiting(s, acts)' <=> Waiting(s, acts) \/ (s = e /\ act \in acts)
  <2> DEFINE added == [svc |-> e, act |-> act, tries |-> 0]
  <2>1. added \in SvcWork /\ added.svc = e /\ added.act = act
    BY DEF SvcWork
  <2>2. svcQueue' = Append(svcQueue, added)
    BY <1>1 DEF Add
  <2> HIDE DEF added
  <2>3. In(Append(svcQueue, added)) = In(svcQueue) \cup {added}
    BY <1>q, <2>1, QueueGrows
  <2>4. In(svcQueue)' = In(Append(svcQueue, added))
    BY <2>2 DEF In
  <2> QED
    BY <2>1, <2>3, <2>4, SvcWaitingByQueue
<1>2. ASSUME svcQueue # <<>>, svcQueue' = Tail(svcQueue)
      PROVE  Waiting(s, acts) <=> Waiting(s, acts)' \/ (svcQueue[1].svc = s /\ svcQueue[1].act \in acts)
  <2>1. In(svcQueue) = In(Tail(svcQueue)) \cup {svcQueue[1]}
    BY <1>q, <1>2, QueueShrinks
  <2>2. In(svcQueue)' = In(Tail(svcQueue))
    BY <1>2 DEF In
  <2> QED
    BY <2>1, <2>2, SvcWaitingByQueue
<1>3. ASSUME svcJob.svc \in Svcs, svcJob.act \in Any,
             svcQueue' = <<[svc |-> svcJob.svc, act |-> svcJob.act, tries |-> 1]>> \o svcQueue
      PROVE  Waiting(s, acts)' <=> Waiting(s, acts) \/ (svcJob.svc = s /\ svcJob.act \in acts)
  <2> DEFINE again == [svc |-> svcJob.svc, act |-> svcJob.act, tries |-> 1]
  <2>1. again \in SvcWork /\ again.svc = svcJob.svc /\ again.act = svcJob.act
    BY <1>3 DEF SvcWork
  <2>2. svcQueue' = <<again>> \o svcQueue
    BY <1>3
  <2> HIDE DEF again
  <2>3. In(<<again>> \o svcQueue) = {again} \cup In(svcQueue)
    BY <1>q, <2>1, QueueAgain
  <2>4. In(svcQueue)' = In(<<again>> \o svcQueue)
    BY <2>2 DEF In
  <2> QED
    BY <2>1, <2>3, <2>4, SvcWaitingByQueue
<1>4. UNCHANGED svcQueue => (Waiting(s, acts)' <=> Waiting(s, acts))
  BY DEF Waiting
<1> QED
  BY <1>1, <1>2, <1>3, <1>4

\* What a step does to the job in progress.
LEMMA SvcJobSteps ==
  ASSUME SvcTyped, SvcNext
  PROVE  \/ UNCHANGED svcJob /\ ~ TakeServiceJob /\ ~ ServiceWorkerDies
         \/ /\ TakeServiceJob /\ svcJob = NoSvcJob /\ svcQueue # <<>> /\ svcQueue' = Tail(svcQueue)
            /\ UNCHANGED <<svcRow, svcUp, svcFiles, svcDel, svcMissed, svcLost>>
            /\ IF HasService(svcQueue[1].svc)
               THEN /\ svcJob'.svc = svcQueue[1].svc /\ svcJob'.act = svcQueue[1].act /\ svcJob'.row = svcRow[svcQueue[1].svc]
                    /\ svcJob'.pc \notin {"join", "done"}
               ELSE svcJob' = NoSvcJob
         \/ /\ WriteService \/ UpService \/ UpServicePartly \/ JoinNetwork \/ RunLifecycle \/ LoseService \/ ServiceStepFails
            /\ svcJob'.svc = svcJob.svc /\ svcJob'.act = svcJob.act /\ svcJob'.row = svcJob.row /\ svcJob.act \in Changing
            /\ UNCHANGED <<svcQueue, svcRow, svcDel>>
         \/ /\ ApplyMaintenance \/ MaintenanceFails
            /\ svcJob.act = "routing" /\ svcJob' = NoSvcJob /\ UNCHANGED <<svcQueue, svcRow, svcDel>>
            /\ ApplyMaintenance \/ svcMissed' = svcMissed \cup {svcJob.svc}
         \/ EndServiceJob /\ svcJob.act \in Changing /\ svcJob' = NoSvcJob /\ UNCHANGED <<svcQueue, svcDel, svcUp, svcFiles, svcMissed, svcDropped, svcLost>>
         \/ /\ ServiceWorkerDies /\ svcJob.svc \in Svcs /\ svcJob.act \in Any /\ svcJob' = NoSvcJob /\ UNCHANGED <<svcRow, svcDel, svcDropped>>
            /\ \/ svcQueue' = <<[svc |-> svcJob.svc, act |-> svcJob.act, tries |-> 1]>> \o svcQueue
               \/ UNCHANGED svcQueue /\ svcJob.act = "routing" /\ svcMissed' = svcMissed \cup {svcJob.svc}
               \/ UNCHANGED svcQueue /\ svcJob.act # "routing" /\ svcLost' = svcLost \cup {svcJob.svc}
<1> USE SvcConstants
<1>1. CASE TakeServiceJob
  <2>1. svcJob = NoSvcJob /\ svcQueue # <<>> /\ svcQueue' = Tail(svcQueue) /\ UNCHANGED <<svcRow, svcUp, svcFiles, svcDel, svcMissed, svcLost>>
    BY <1>1 DEF TakeServiceJob
  <2>2. svcJob' = IF HasService(svcQueue[1].svc)
                  THEN [svc |-> svcQueue[1].svc, act |-> svcQueue[1].act, pc |-> FirstPc(svcQueue[1].act),
                        tries |-> svcQueue[1].tries, row |-> svcRow[svcQueue[1].svc]]
                  ELSE NoSvcJob
    BY <1>1 DEF TakeServiceJob
  <2>3. FirstPc(svcQueue[1].act) \notin {"join", "done"}
    BY DEF FirstPc
  <2>4. IF HasService(svcQueue[1].svc)
               THEN /\ svcJob'.svc = svcQueue[1].svc /\ svcJob'.act = svcQueue[1].act /\ svcJob'.row = svcRow[svcQueue[1].svc]
                    /\ svcJob'.pc \notin {"join", "done"}
               ELSE svcJob' = NoSvcJob
    BY <2>2, <2>3
  <2> QED
    BY <1>1, <2>1, <2>4
<1>2. CASE WriteService \/ UpService \/ UpServicePartly \/ JoinNetwork \/ RunLifecycle \/ LoseService \/ ServiceStepFails
  <2>1. svcJob.act \in Changing
    BY <1>2, SvcSubjects DEF WriteService, UpService, UpServicePartly, JoinNetwork, RunLifecycle, LoseService, ServiceStepFails, Lifecycle
  <2>2. \E x \in {"up", "join", "done", "failed"} : svcJob' = [svcJob EXCEPT !.pc = x]
    BY <1>2 DEF WriteService, UpService, UpServicePartly, JoinNetwork, RunLifecycle, LoseService, ServiceStepFails, AfterUp
  <2>3. svcJob'.svc = svcJob.svc /\ svcJob'.act = svcJob.act /\ svcJob'.row = svcJob.row
    BY <2>2, SvcSubjects
  <2>4. UNCHANGED <<svcQueue, svcRow, svcDel>>
    BY <1>2 DEF WriteService, UpService, UpServicePartly, JoinNetwork, RunLifecycle, LoseService, ServiceStepFails
  <2> QED
    BY <1>2, <2>1, <2>3, <2>4
<1>3. CASE ApplyMaintenance \/ MaintenanceFails
  <2>1. svcJob.act = "routing" /\ svcJob' = NoSvcJob /\ UNCHANGED <<svcQueue, svcRow, svcDel>>
        /\ (ApplyMaintenance \/ svcMissed' = svcMissed \cup {svcJob.svc})
    BY <1>3, SvcSubjects DEF ApplyMaintenance, MaintenanceFails
  <2> QED
    BY <1>3, <2>1
<1>4. CASE EndServiceJob
  <2>1. svcJob.act \in Changing /\ svcJob' = NoSvcJob /\ UNCHANGED <<svcQueue, svcDel, svcUp, svcFiles, svcMissed, svcDropped, svcLost>>
    BY <1>4, SvcSubjects DEF EndServiceJob
  <2> QED
    BY <1>4, <2>1
<1>5. CASE ServiceWorkerDies
  <2>1. svcJob.svc \in Svcs /\ svcJob.act \in Any /\ svcJob' = NoSvcJob /\ UNCHANGED <<svcRow, svcDel, svcDropped>>
    BY <1>5, SvcSubjects DEF ServiceWorkerDies
  <2>2. \/ svcQueue' = <<[svc |-> svcJob.svc, act |-> svcJob.act, tries |-> 1]>> \o svcQueue
        \/ UNCHANGED svcQueue /\ svcJob.act = "routing" /\ svcMissed' = svcMissed \cup {svcJob.svc}
        \/ UNCHANGED svcQueue /\ svcJob.act # "routing" /\ svcLost' = svcLost \cup {svcJob.svc}
    BY <1>5 DEF ServiceWorkerDies
  <2> QED
    BY <1>5, <2>1, <2>2
<1>6. (\E s \in Svcs, H \in SUBSET Hosts, ready \in BOOLEAN : CreateService(s, H, ready))
      \/ (\E s \in Svcs, H \in SUBSET Hosts, ready \in BOOLEAN : SetCompose(s, H, ready))
      \/ (\E s \in Svcs, H \in SUBSET Hosts : SetServiceDomain(s, H))
      \/ (\E s \in Svcs, H \in SUBSET Hosts : BeginDomains(s, H))
      \/ (\E s \in Svcs, act \in Lifecycle : ServiceLifecycle(s, act)) \/ (\E s \in Svcs : Deploys(s))
      \/ (\E s \in Svcs : SetServiceEnv(s)) \/ (\E s \in Svcs : SetMaintenance(s))
      \/ (\E s \in Svcs : BeginDeleteService(s)) \/ CommitDomains \/ TearDownService \/ DeleteServiceRow
      => UNCHANGED svcJob
  BY DEF CreateService, SetCompose, SetServiceDomain, BeginDomains, ServiceLifecycle, Deploys, SetServiceEnv, SetMaintenance,
     BeginDeleteService, CommitDomains, TearDownService, DeleteServiceRow
<1>7. CASE UNCHANGED svcJob /\ ~ TakeServiceJob /\ ~ ServiceWorkerDies
  BY <1>7
<1> QED
  BY <1>1, <1>2, <1>3, <1>4, <1>5, <1>6, <1>7, SvcActions

\* A service that has a job of one of some kinds keeps one, unless the job is skipped, ends, fails, or is given up.
LEMMA SvcWorkEnds ==
  ASSUME SvcTyped, SvcNext, NEW s \in Svcs, NEW acts \in SUBSET Any, Working(s, acts), ~ Working(s, acts)'
  PROVE  \/ ~ HasService(s)
         \/ EndServiceJob /\ svcJob.svc = s /\ svcJob.act \in acts
         \/ (ApplyMaintenance \/ svcMissed' = svcMissed \cup {s}) /\ svcJob.svc = s /\ svcJob.act = "routing" /\ "routing" \in acts
         \/ svcJob.svc = s /\ svcJob.act # "routing" /\ svcLost' = svcLost \cup {s}
<1> USE SvcConstants
<1>1. /\ Working(s, acts) <=> Waiting(s, acts) \/ (svcJob.svc = s /\ svcJob.act \in acts)
      /\ Working(s, acts)' <=> Waiting(s, acts)' \/ (svcJob'.svc = s /\ svcJob'.act \in acts)
  BY DEF Working
<1>2. CASE TakeServiceJob
  <2>1. svcJob = NoSvcJob /\ svcQueue # <<>> /\ svcQueue' = Tail(svcQueue)
        /\ (HasService(svcQueue[1].svc) => svcJob'.svc = svcQueue[1].svc /\ svcJob'.act = svcQueue[1].act)
    BY <1>2 DEF TakeServiceJob
  <2>2. Waiting(s, acts) <=> Waiting(s, acts)' \/ (svcQueue[1].svc = s /\ svcQueue[1].act \in acts)
    BY <2>1, SvcQueueSteps
  <2> QED
    BY <1>1, <2>1, <2>2
<1>3. CASE ServiceWorkerDies
  <2>1. svcJob.svc \in Svcs /\ svcJob.act \in Any
        /\ \/ svcQueue' = <<[svc |-> svcJob.svc, act |-> svcJob.act, tries |-> 1]>> \o svcQueue
           \/ UNCHANGED svcQueue /\ svcJob.act = "routing" /\ svcMissed' = svcMissed \cup {svcJob.svc}
           \/ UNCHANGED svcQueue /\ svcJob.act # "routing" /\ svcLost' = svcLost \cup {svcJob.svc}
    <3>1. svcJob.svc \in Svcs /\ svcJob.act \in Any
      BY <1>3, SvcSubjects DEF ServiceWorkerDies
    <3> QED
      BY <1>3, <3>1 DEF ServiceWorkerDies
  <2>2. svcQueue' # <<[svc |-> svcJob.svc, act |-> svcJob.act, tries |-> 1]>> \o svcQueue
    BY <1>1, <2>1, SvcQueueSteps
  <2>3. Waiting(s, acts)' <=> Waiting(s, acts)
    BY <2>1, <2>2, SvcQueueSteps
  <2> QED
    BY <1>1, <2>1, <2>2, <2>3
<1>4. CASE ~ TakeServiceJob /\ ~ ServiceWorkerDies
  <2>1. Waiting(s, acts) => Waiting(s, acts)'
    BY <1>4, SvcQueueChanges, SvcQueueSteps
  <2>2. svcJob.svc = s /\ svcJob.act \in acts /\ ~ (svcJob'.svc = s /\ svcJob'.act \in acts)
    BY <1>1, <2>1
  <2> QED
    BY <1>4, <2>2, SvcJobSteps
<1> QED
  BY <1>2, <1>3, <1>4

\* A service that has no job gets one from a request about it.
LEMMA SvcWorkStarts ==
  ASSUME SvcTyped, SvcNext, NEW s \in Svcs, ~ Working(s, Any), Working(s, Any)'
  PROVE  \/ \E H \in SUBSET Hosts, ready \in BOOLEAN : CreateService(s, H, ready)
         \/ \E H \in SUBSET Hosts : SetServiceDomain(s, H)
         \/ (\E act \in Lifecycle : ServiceLifecycle(s, act)) \/ Deploys(s) \/ SetMaintenance(s)
         \/ CommitDomains /\ svcReq.svc = s
<1> USE SvcConstants
<1>1. /\ ~ Waiting(s, Any) /\ (svcJob.svc = s => svcJob.act \notin Any)
      /\ Waiting(s, Any)' \/ (svcJob'.svc = s /\ svcJob'.act \in Any)
  BY DEF Working
<1>2. svcJob.svc # s
  BY <1>1 DEF SvcTyped
<1>3. ASSUME NEW e \in Svcs, NEW act \in Any, svcQueue' = Add(e, act), UNCHANGED svcJob PROVE e = s
  BY <1>1, <1>2, <1>3, SvcQueueSteps
<1>4. CASE \E e \in Svcs, H \in SUBSET Hosts, ready \in BOOLEAN : CreateService(e, H, ready)
  <2>1. PICK e \in Svcs, H \in SUBSET Hosts, ready \in BOOLEAN : CreateService(e, H, ready)
    BY <1>4
  <2>2. UNCHANGED <<svcQueue, svcJob>> \/ (svcQueue' = Add(e, "deploy") /\ UNCHANGED svcJob)
    BY <2>1 DEF CreateService
  <2>3. e = s
    BY <1>1, <1>2, <1>3, <2>2, SvcQueueSteps
  <2> QED
    BY <2>1, <2>3
<1>5. CASE \E e \in Svcs, H \in SUBSET Hosts : SetServiceDomain(e, H)
  <2>1. PICK e \in Svcs, H \in SUBSET Hosts : SetServiceDomain(e, H)
    BY <1>5
  <2>2. UNCHANGED <<svcQueue, svcJob>> \/ (svcQueue' = Add(e, "routing") /\ UNCHANGED svcJob)
    BY <2>1 DEF SetServiceDomain
  <2>3. e = s
    BY <1>1, <1>2, <1>3, <2>2, SvcQueueSteps
  <2> QED
    BY <2>1, <2>3
<1>6. CASE \E e \in Svcs : (\E act \in Lifecycle : ServiceLifecycle(e, act)) \/ Deploys(e) \/ SetMaintenance(e)
  <2>1. PICK e \in Svcs : (\E act \in Lifecycle : ServiceLifecycle(e, act)) \/ Deploys(e) \/ SetMaintenance(e)
    BY <1>6
  <2>2. UNCHANGED svcJob /\ \E act \in Any : svcQueue' = Add(e, act)
    BY <2>1 DEF ServiceLifecycle, Deploys, SetMaintenance, Lifecycle
  <2>3. e = s
    BY <1>3, <2>2
  <2> QED
    BY <2>1, <2>3
<1>7. CASE CommitDomains
  <2>1. svcReq.svc \in Svcs /\ UNCHANGED svcJob
    BY <1>7, SvcSubjects DEF CommitDomains
  <2>2. UNCHANGED svcQueue \/ svcQueue' = Add(svcReq.svc, "routing")
    BY <1>7 DEF CommitDomains
  <2>3. svcReq.svc = s
    BY <1>1, <1>2, <1>3, <2>1, <2>2, SvcQueueSteps
  <2> QED
    BY <1>7, <2>3
<1>8. CASE TakeServiceJob
  <2>1. svcQueue # <<>> /\ svcQueue' = Tail(svcQueue) /\ svcJob'.svc \in {svcQueue[1].svc, NoSvc} /\ svcQueue[1].act \in Any
    BY <1>8, SvcSubjects DEF TakeServiceJob
  <2>2. Waiting(s, Any) <=> Waiting(s, Any)' \/ (svcQueue[1].svc = s /\ svcQueue[1].act \in Any)
    BY <2>1, SvcQueueSteps
  <2> QED
    BY <1>1, <2>1, <2>2
<1>9. CASE ServiceWorkerDies
  BY <1>1, <1>2, <1>9, SvcJobSteps, SvcQueueSteps
<1>10. CASE UNCHANGED svcQueue /\ svcJob'.svc \in {svcJob.svc, NoSvc}
  BY <1>1, <1>2, <1>10, SvcQueueSteps
<1>11. (\E e \in Svcs, H \in SUBSET Hosts, ready \in BOOLEAN : SetCompose(e, H, ready))
       \/ (\E e \in Svcs, H \in SUBSET Hosts : BeginDomains(e, H))
       \/ (\E e \in Svcs : SetServiceEnv(e)) \/ (\E e \in Svcs : BeginDeleteService(e)) \/ TearDownService \/ DeleteServiceRow
       => UNCHANGED <<svcQueue, svcJob>>
  BY DEF SetCompose, BeginDomains, SetServiceEnv, BeginDeleteService, TearDownService, DeleteServiceRow
<1>12. WriteService \/ UpService \/ UpServicePartly \/ JoinNetwork \/ RunLifecycle \/ LoseService \/ ServiceStepFails
       \/ ApplyMaintenance \/ MaintenanceFails \/ EndServiceJob
       => UNCHANGED svcQueue /\ svcJob'.svc \in {svcJob.svc, NoSvc}
  <2>1. ASSUME WriteService \/ UpService \/ UpServicePartly \/ JoinNetwork \/ RunLifecycle \/ LoseService \/ ServiceStepFails
        PROVE  UNCHANGED svcQueue /\ \E x \in {"up", "join", "done", "failed"} : svcJob' = [svcJob EXCEPT !.pc = x]
    BY <2>1 DEF WriteService, UpService, UpServicePartly, JoinNetwork, RunLifecycle, LoseService, ServiceStepFails, AfterUp
  <2>2. ApplyMaintenance \/ MaintenanceFails \/ EndServiceJob => UNCHANGED svcQueue /\ svcJob' = NoSvcJob
    BY DEF ApplyMaintenance, MaintenanceFails, EndServiceJob
  <2> QED
    BY <2>1, <2>2, SvcSubjects
<1> QED
  BY <1>4, <1>5, <1>6, <1>7, <1>8, <1>9, <1>10, <1>11, <1>12, SvcActions

\* What a step changes of the row of one service.
LEMMA SvcRowSteps ==
  ASSUME SvcTyped, SvcNext, NEW s \in Svcs
  PROVE  \/ svcRow'[s] = svcRow[s]
         \/ /\ HasService(s) /\ svcRow'[s].status = svcRow[s].status /\ svcRow'[s].maint = svcRow[s].maint /\ UNCHANGED svcJob
            /\ svcRow'[s].hosts = svcRow[s].hosts \/ s \in svcMissed' \/ (svcRow[s].maint => Waiting(s, {"routing"})')
         \/ HasService(s) /\ svcRow'[s].status = svcRow[s].status /\ UNCHANGED svcJob /\ Waiting(s, {"routing"})'
         \/ /\ svcRow[s].status = "absent" /\ svcRow'[s].status = "idle" /\ svcRow'[s].maint = FALSE
            /\ UNCHANGED <<svcFiles, svcJob>>
         \/ /\ HasService(s) /\ svcRow'[s].status = "provisioning" /\ UNCHANGED svcJob /\ Waiting(s, Changing)'
            /\ svcRow'[s].hosts = svcRow[s].hosts /\ svcRow'[s].maint = svcRow[s].maint
         \/ DeleteServiceRow /\ svcDel.svc = s /\ svcRow'[s].status = "deleted"
         \/ /\ EndServiceJob /\ svcJob.svc = s /\ HasService(s)
            /\ svcRow'[s].hosts = svcRow[s].hosts /\ svcRow'[s].maint = svcRow[s].maint
            /\ svcRow'[s].status = IF svcJob.pc = "failed" THEN "error" ELSE IF svcJob.act = "stop" THEN "stopped" ELSE "running"
<1> USE SvcConstants
<1>t. svcRow \in [Svcs -> SvcRow] /\ svcRow[s] \in SvcRow
      /\ svcRow[s] = [status |-> svcRow[s].status, ready |-> svcRow[s].ready, hosts |-> svcRow[s].hosts, maint |-> svcRow[s].maint]
  BY DEF SvcTyped, SvcRow
<1>1. ASSUME NEW H \in SUBSET Hosts, NEW ready \in BOOLEAN, CreateService(s, H, ready)
      PROVE  /\ svcRow[s].status = "absent" /\ svcRow'[s].status = "idle" /\ svcRow'[s].maint = FALSE
             /\ UNCHANGED <<svcFiles, svcJob>>
  BY <1>t, <1>1 DEF CreateService
<1>2. ASSUME NEW H \in SUBSET Hosts, NEW ready \in BOOLEAN, SetCompose(s, H, ready)
      PROVE  /\ HasService(s) /\ svcRow'[s].status = svcRow[s].status /\ svcRow'[s].maint = svcRow[s].maint /\ UNCHANGED svcJob
             /\ svcRow'[s].hosts = svcRow[s].hosts \/ s \in svcMissed'
  <2>1. svcRow' = [svcRow EXCEPT ![s] = [svcRow[s] EXCEPT !.hosts = H, !.ready = ready]]
    BY <1>t, <1>2 DEF SetCompose
  <2>2. HasService(s) /\ UNCHANGED svcJob /\ (H = svcRow[s].hosts \/ s \in svcMissed')
    BY <1>2 DEF SetCompose
  <2> QED
    BY <1>t, <2>1, <2>2
<1>3. ASSUME NEW H \in SUBSET Hosts, SetServiceDomain(s, H)
      PROVE  /\ HasService(s) /\ svcRow'[s].status = svcRow[s].status /\ svcRow'[s].maint = svcRow[s].maint /\ UNCHANGED svcJob
             /\ svcRow[s].maint => Waiting(s, {"routing"})'
  <2>1. svcRow' = [svcRow EXCEPT ![s] = [svcRow[s] EXCEPT !.hosts = H]]
    BY <1>3, SvcRowWritten
  <2>2. HasService(s) /\ UNCHANGED svcJob /\ (svcRow[s].maint => svcQueue' = Add(s, "routing"))
    BY <1>3 DEF SetServiceDomain
  <2>3. svcRow[s].maint => Waiting(s, {"routing"})'
    BY <2>2, SvcQueueSteps
  <2> QED
    BY <1>t, <2>1, <2>2, <2>3
<1>4. ASSUME SetServiceEnv(s)
      PROVE  /\ HasService(s) /\ svcRow'[s].status = svcRow[s].status /\ svcRow'[s].maint = svcRow[s].maint /\ UNCHANGED svcJob
             /\ svcRow'[s].hosts = svcRow[s].hosts
  <2>1. svcRow' = [svcRow EXCEPT ![s] = [svcRow[s] EXCEPT !.ready = ~ svcRow[s].ready]]
    BY <1>4, SvcRowWritten
  <2>2. HasService(s) /\ UNCHANGED svcJob
    BY <1>4 DEF SetServiceEnv
  <2> QED
    BY <1>t, <2>1, <2>2
<1>5. ASSUME SetMaintenance(s)
      PROVE  HasService(s) /\ svcRow'[s].status = svcRow[s].status /\ UNCHANGED svcJob /\ Waiting(s, {"routing"})'
  <2>1. svcRow' = [svcRow EXCEPT ![s] = [svcRow[s] EXCEPT !.maint = ~ svcRow[s].maint]]
    BY <1>5, SvcRowWritten
  <2>2. HasService(s) /\ UNCHANGED svcJob /\ svcQueue' = Add(s, "routing")
    BY <1>5 DEF SetMaintenance
  <2>3. Waiting(s, {"routing"})'
    BY <2>2, SvcQueueSteps
  <2> QED
    BY <1>t, <2>1, <2>2, <2>3
<1>6. ASSUME Deploys(s) \/ \E act \in Lifecycle : ServiceLifecycle(s, act)
      PROVE  /\ HasService(s) /\ svcRow'[s].status = "provisioning" /\ UNCHANGED svcJob /\ Waiting(s, Changing)'
             /\ svcRow'[s].hosts = svcRow[s].hosts /\ svcRow'[s].maint = svcRow[s].maint
  <2>1. svcRow' = [svcRow EXCEPT ![s] = [svcRow[s] EXCEPT !.status = "provisioning"]]
    BY <1>6, SvcRowWritten
  <2>2. HasService(s) /\ UNCHANGED svcJob /\ \E act \in Changing : act \in Any /\ svcQueue' = Add(s, act)
    BY <1>6 DEF Deploys, ServiceLifecycle, Lifecycle
  <2>3. Waiting(s, Changing)'
    BY <2>2, SvcQueueSteps
  <2> QED
    BY <1>t, <2>1, <2>2, <2>3
<1>7. ASSUME CommitDomains
      PROVE  \/ svcRow'[s] = svcRow[s]
             \/ /\ HasService(s) /\ svcRow'[s].status = svcRow[s].status /\ svcRow'[s].maint = svcRow[s].maint /\ UNCHANGED svcJob
                /\ s \in svcMissed' \/ (svcRow[s].maint => Waiting(s, {"routing"})')
  <2>1. svcReq.svc \in Svcs /\ UNCHANGED svcJob
    BY <1>7, SvcSubjects DEF CommitDomains
  <2>2. CASE svcReq.svc = s /\ HasService(s)
    <3>1. svcRow' = [svcRow EXCEPT ![s].hosts = svcReq.hosts]
      BY <1>7, <2>2 DEF CommitDomains
    <3>2. svcRow'[s].status = svcRow[s].status /\ svcRow'[s].maint = svcRow[s].maint
      BY <1>t, <3>1
    <3>3. (svcReq.maint => svcQueue' = Add(s, "routing")) /\ (svcRow[s].maint # svcReq.maint => s \in svcMissed')
      BY <1>7, <2>2 DEF CommitDomains
    <3>4. svcReq.maint => Waiting(s, {"routing"})'
      BY <3>3, SvcQueueSteps
    <3> QED
      BY <2>1, <2>2, <3>2, <3>3, <3>4
  <2>3. CASE ~ (svcReq.svc = s /\ HasService(s))
    BY <1>t, <1>7, <2>1, <2>3 DEF CommitDomains
  <2> QED
    BY <2>2, <2>3
<1>8. ASSUME DeleteServiceRow PROVE svcRow'[s] = svcRow[s] \/ (svcDel.svc = s /\ svcRow'[s].status = "deleted")
  BY <1>t, <1>8 DEF DeleteServiceRow, NoServiceRow
<1>9. ASSUME EndServiceJob
      PROVE  \/ svcRow'[s] = svcRow[s]
             \/ /\ svcJob.svc = s /\ HasService(s)
                /\ svcRow'[s].hosts = svcRow[s].hosts /\ svcRow'[s].maint = svcRow[s].maint
                /\ svcRow'[s].status = IF svcJob.pc = "failed" THEN "error" ELSE IF svcJob.act = "stop" THEN "stopped" ELSE "running"
  BY <1>t, <1>9 DEF EndServiceJob
<1>10. (\E e \in Svcs, H \in SUBSET Hosts : BeginDomains(e, H))
       \/ (\E e \in Svcs : BeginDeleteService(e)) \/ TearDownService
       \/ TakeServiceJob \/ WriteService \/ UpService \/ UpServicePartly \/ JoinNetwork \/ RunLifecycle
       \/ LoseService \/ ApplyMaintenance \/ MaintenanceFails \/ ServiceStepFails \/ ServiceWorkerDies
       => UNCHANGED svcRow
  BY DEF BeginDomains, BeginDeleteService, TearDownService, TakeServiceJob, WriteService, UpService,
     UpServicePartly, JoinNetwork, RunLifecycle, LoseService, ApplyMaintenance, MaintenanceFails, ServiceStepFails,
     ServiceWorkerDies
<1>11. ASSUME NEW e \in Svcs, e # s,
              \/ \E H \in SUBSET Hosts, ready \in BOOLEAN : CreateService(e, H, ready) \/ SetCompose(e, H, ready)
              \/ \E H \in SUBSET Hosts : SetServiceDomain(e, H)
              \/ (\E act \in Lifecycle : ServiceLifecycle(e, act)) \/ Deploys(e) \/ SetServiceEnv(e) \/ SetMaintenance(e)
       PROVE  svcRow'[s] = svcRow[s]
  <2>1. ASSUME NEW H \in SUBSET Hosts, NEW ready \in BOOLEAN, CreateService(e, H, ready) \/ SetCompose(e, H, ready)
        PROVE  svcRow'[s] = svcRow[s]
    BY <1>t, <1>11, <2>1 DEF CreateService, SetCompose
  <2>2. ASSUME NEW H \in SUBSET Hosts, SetServiceDomain(e, H) PROVE svcRow'[s] = svcRow[s]
    BY <1>t, <1>11, <2>2 DEF SetServiceDomain
  <2>3. ASSUME NEW act \in Lifecycle, ServiceLifecycle(e, act) PROVE svcRow'[s] = svcRow[s]
    BY <1>t, <1>11, <2>3 DEF ServiceLifecycle
  <2>4. Deploys(e) \/ SetServiceEnv(e) \/ SetMaintenance(e) => svcRow'[s] = svcRow[s]
    BY <1>t, <1>11 DEF Deploys, SetServiceEnv, SetMaintenance
  <2> QED
    BY <1>11, <2>1, <2>2, <2>3, <2>4
<1>12. CASE \E e \in Svcs : \/ \E H \in SUBSET Hosts, ready \in BOOLEAN : CreateService(e, H, ready) \/ SetCompose(e, H, ready)
                            \/ \E H \in SUBSET Hosts : SetServiceDomain(e, H)
                            \/ (\E act \in Lifecycle : ServiceLifecycle(e, act)) \/ Deploys(e) \/ SetServiceEnv(e) \/ SetMaintenance(e)
  <2>1. PICK e \in Svcs : \/ \E H \in SUBSET Hosts, ready \in BOOLEAN : CreateService(e, H, ready) \/ SetCompose(e, H, ready)
                          \/ \E H \in SUBSET Hosts : SetServiceDomain(e, H)
                          \/ (\E act \in Lifecycle : ServiceLifecycle(e, act)) \/ Deploys(e) \/ SetServiceEnv(e) \/ SetMaintenance(e)
    BY <1>12
  <2>2. CASE e # s
    BY <1>11, <2>1, <2>2
  <2>3. CASE e = s /\ \E H \in SUBSET Hosts, ready \in BOOLEAN : CreateService(s, H, ready) \/ SetCompose(s, H, ready)
    BY <1>1, <1>2, <2>3
  <2>4. CASE e = s /\ \E H \in SUBSET Hosts : SetServiceDomain(s, H)
    BY <1>3, <2>4
  <2>5. CASE e = s /\ (SetServiceEnv(s) \/ SetMaintenance(s))
    BY <1>4, <1>5, <2>5
  <2>6. CASE e = s /\ ((\E act \in Lifecycle : ServiceLifecycle(s, act)) \/ Deploys(s))
    BY <1>6, <2>6
  <2> QED
    BY <2>1, <2>2, <2>3, <2>4, <2>5, <2>6
<1> QED
  BY <1>7, <1>8, <1>9, <1>10, <1>12, SvcActions

\* What a step changes of one service on its server, and of what the run remembers about it.
LEMMA SvcServerSteps ==
  ASSUME SvcTyped, SvcNext, NEW s \in Svcs
  PROVE  /\ \/ svcUp'[s] = svcUp[s]
            \/ TearDownService /\ svcDel.svc = s /\ svcUp'[s] = "none"
            \/ svcJob.svc = s /\ svcJob.act \in Changing /\ svcJob'.svc = s /\ svcJob'.act = svcJob.act
         /\ \/ svcFiles'[s] = svcFiles[s]
            \/ TearDownService /\ svcDel.svc = s /\ svcFiles'[s] = {}
            \/ ApplyMaintenance /\ svcJob.svc = s
         /\ svcLost \subseteq svcLost'
         /\ s \in svcDropped \ svcDropped' => TakeServiceJob /\ svcQueue[1].svc = s /\ svcQueue[1].act # "routing"
         /\ s \in svcMissed \ svcMissed' => ApplyMaintenance /\ svcJob.svc = s /\ svcJob.row.hosts = svcRow[s].hosts
<1> USE SvcConstants
<1>t. /\ svcUp \in [Svcs -> {"none", "up", "partly", "stopped"}] /\ svcFiles \in [Svcs -> SUBSET Hosts]
  BY DEF SvcTyped
<1>1. \/ svcUp'[s] = svcUp[s]
      \/ TearDownService /\ svcDel.svc = s /\ svcUp'[s] = "none"
      \/ svcJob.svc = s /\ svcJob.act \in Changing /\ svcJob'.svc = s /\ svcJob'.act = svcJob.act
  <2>1. CASE TearDownService
    BY <1>t, <2>1 DEF TearDownService
  <2>2. CASE UpService \/ UpServicePartly \/ RunLifecycle \/ LoseService
    <3>1. svcJob.act \in Changing /\ svcJob.svc \in Svcs
      BY <2>2, SvcSubjects DEF UpService, UpServicePartly, RunLifecycle, LoseService, Lifecycle
    <3>2. \E x \in {"join", "done", "failed"} : svcJob' = [svcJob EXCEPT !.pc = x]
      BY <2>2 DEF UpService, UpServicePartly, RunLifecycle, LoseService, AfterUp
    <3>3. svcJob'.svc = svcJob.svc /\ svcJob'.act = svcJob.act
      BY <3>2, SvcSubjects
    <3>4. svcUp' = svcUp \/ \E x : svcUp' = [svcUp EXCEPT ![svcJob.svc] = x]
      BY <2>2 DEF UpService, UpServicePartly, RunLifecycle, LoseService
    <3> QED
      BY <1>t, <3>1, <3>3, <3>4
  <2>3. (\E e \in Svcs, H \in SUBSET Hosts, ready \in BOOLEAN : CreateService(e, H, ready))
        \/ (\E e \in Svcs, H \in SUBSET Hosts, ready \in BOOLEAN : SetCompose(e, H, ready))
        \/ (\E e \in Svcs, H \in SUBSET Hosts : SetServiceDomain(e, H))
        \/ (\E e \in Svcs, H \in SUBSET Hosts : BeginDomains(e, H))
        \/ (\E e \in Svcs, act \in Lifecycle : ServiceLifecycle(e, act)) \/ (\E e \in Svcs : Deploys(e))
        \/ (\E e \in Svcs : SetServiceEnv(e)) \/ (\E e \in Svcs : SetMaintenance(e))
        \/ (\E e \in Svcs : BeginDeleteService(e)) \/ CommitDomains \/ DeleteServiceRow
        \/ TakeServiceJob \/ WriteService \/ JoinNetwork
        \/ ApplyMaintenance \/ MaintenanceFails \/ ServiceStepFails \/ EndServiceJob \/ ServiceWorkerDies
        => UNCHANGED svcUp
    BY DEF CreateService, SetCompose, SetServiceDomain, BeginDomains, ServiceLifecycle, Deploys, SetServiceEnv, SetMaintenance,
       BeginDeleteService, CommitDomains, DeleteServiceRow, TakeServiceJob, WriteService, JoinNetwork, ApplyMaintenance,
       MaintenanceFails, ServiceStepFails, EndServiceJob, ServiceWorkerDies
  <2> QED
    BY <2>1, <2>2, <2>3, SvcActions
<1>2. \/ svcFiles'[s] = svcFiles[s]
      \/ TearDownService /\ svcDel.svc = s /\ svcFiles'[s] = {}
      \/ ApplyMaintenance /\ svcJob.svc = s
  <2>1. CASE TearDownService
    BY <1>t, <2>1 DEF TearDownService
  <2>2. CASE ApplyMaintenance
    BY <1>t, <2>2 DEF ApplyMaintenance
  <2>3. (\E e \in Svcs, H \in SUBSET Hosts, ready \in BOOLEAN : CreateService(e, H, ready))
        \/ (\E e \in Svcs, H \in SUBSET Hosts, ready \in BOOLEAN : SetCompose(e, H, ready))
        \/ (\E e \in Svcs, H \in SUBSET Hosts : SetServiceDomain(e, H))
        \/ (\E e \in Svcs, H \in SUBSET Hosts : BeginDomains(e, H))
        \/ (\E e \in Svcs, act \in Lifecycle : ServiceLifecycle(e, act)) \/ (\E e \in Svcs : Deploys(e))
        \/ (\E e \in Svcs : SetServiceEnv(e)) \/ (\E e \in Svcs : SetMaintenance(e))
        \/ (\E e \in Svcs : BeginDeleteService(e)) \/ CommitDomains \/ DeleteServiceRow
        \/ TakeServiceJob \/ WriteService \/ UpService \/ UpServicePartly \/ JoinNetwork \/ RunLifecycle \/ LoseService
        \/ MaintenanceFails \/ ServiceStepFails \/ EndServiceJob \/ ServiceWorkerDies
        => UNCHANGED svcFiles
    BY DEF CreateService, SetCompose, SetServiceDomain, BeginDomains, ServiceLifecycle, Deploys, SetServiceEnv, SetMaintenance,
       BeginDeleteService, CommitDomains, DeleteServiceRow, TakeServiceJob, WriteService, UpService, UpServicePartly,
       JoinNetwork, RunLifecycle, LoseService, MaintenanceFails, ServiceStepFails, EndServiceJob, ServiceWorkerDies
  <2> QED
    BY <2>1, <2>2, <2>3, SvcActions
<1>3. /\ svcLost \subseteq svcLost'
      /\ s \in svcDropped \ svcDropped' => TakeServiceJob /\ svcQueue[1].svc = s /\ svcQueue[1].act # "routing"
      /\ s \in svcMissed \ svcMissed' => ApplyMaintenance /\ svcJob.svc = s /\ svcJob.row.hosts = svcRow[s].hosts
  <2>1. TakeServiceJob => /\ UNCHANGED <<svcLost, svcMissed>>
                          /\ s \in svcDropped \ svcDropped' => svcQueue[1].svc = s /\ svcQueue[1].act # "routing"
    BY DEF TakeServiceJob
  <2>2. ApplyMaintenance => /\ UNCHANGED <<svcLost, svcDropped>>
                            /\ s \in svcMissed \ svcMissed' => svcJob.svc = s /\ svcJob.row.hosts = svcRow[s].hosts
    BY DEF ApplyMaintenance
  <2>3. (\E e \in Svcs, H \in SUBSET Hosts, ready \in BOOLEAN : SetCompose(e, H, ready)) \/ CommitDomains \/ MaintenanceFails
        => svcMissed \subseteq svcMissed' /\ UNCHANGED <<svcLost, svcDropped>>
    BY DEF SetCompose, CommitDomains, MaintenanceFails
  <2>4. LoseService => svcDropped \subseteq svcDropped' /\ UNCHANGED <<svcLost, svcMissed>>
    BY DEF LoseService
  <2>5. ServiceWorkerDies => svcMissed \subseteq svcMissed' /\ svcLost \subseteq svcLost' /\ UNCHANGED svcDropped
    BY DEF ServiceWorkerDies
  <2>6. (\E e \in Svcs, H \in SUBSET Hosts, ready \in BOOLEAN : CreateService(e, H, ready))
        \/ (\E e \in Svcs, H \in SUBSET Hosts : SetServiceDomain(e, H))
        \/ (\E e \in Svcs, H \in SUBSET Hosts : BeginDomains(e, H))
        \/ (\E e \in Svcs, act \in Lifecycle : ServiceLifecycle(e, act)) \/ (\E e \in Svcs : Deploys(e))
        \/ (\E e \in Svcs : SetServiceEnv(e)) \/ (\E e \in Svcs : SetMaintenance(e))
        \/ (\E e \in Svcs : BeginDeleteService(e)) \/ TearDownService \/ DeleteServiceRow
        \/ WriteService \/ UpService \/ UpServicePartly \/ JoinNetwork \/ RunLifecycle
        \/ ServiceStepFails \/ EndServiceJob
        => UNCHANGED <<svcMissed, svcLost, svcDropped>>
    BY DEF CreateService, SetServiceDomain, BeginDomains, ServiceLifecycle, Deploys, SetServiceEnv, SetMaintenance,
       BeginDeleteService, TearDownService, DeleteServiceRow, WriteService, UpService, UpServicePartly, JoinNetwork,
       RunLifecycle, ServiceStepFails, EndServiceJob
  <2> QED
    BY <2>1, <2>2, <2>3, <2>4, <2>5, <2>6, SvcActions
<1> QED
  BY <1>1, <1>2, <1>3

\* What a step changes of the requests and deletions of one service.
LEMMA SvcRequestSteps ==
  ASSUME SvcTyped, SvcNext, NEW s \in Svcs
  PROVE  /\ svcDel'.svc = s => svcDel.svc = s \/ BeginDeleteService(s)
         /\ svcDel.svc = s => /\ svcDel'.svc = s \/ DeleteServiceRow
                              /\ ~ BeginDeleteService(s)
                              /\ \/ svcDel'.pc = svcDel.pc
                                 \/ TearDownService /\ ((svcUp'[s] = "none" /\ svcFiles'[s] = {}) \/ s \notin svcCalm')
                                 \/ DeleteServiceRow
         /\ s \in svcCalm' \ svcCalm => BeginDeleteService(s) /\ ~ Working(s, Any) /\ svcReq.svc # s
         /\ svcReq'.svc = s => svcReq.svc = s \/ (s \notin svcCalm' /\ HasService(s))
         /\ \/ \E H \in SUBSET Hosts : SetServiceDomain(s, H)
            \/ (\E act \in Lifecycle : ServiceLifecycle(s, act)) \/ Deploys(s) \/ SetMaintenance(s)
            => s \notin svcCalm' /\ HasService(s)
         /\ BeginDeleteService(s) => /\ HasService(s) /\ svcDel' = [svc |-> s, pc |-> "teardown"]
                                     /\ UNCHANGED <<svcRow, svcUp, svcFiles, svcQueue, svcJob, svcReq>>
<1> USE SvcConstants
<1>1. /\ svcDel'.svc = s => svcDel.svc = s \/ BeginDeleteService(s)
      /\ svcDel.svc = s => /\ svcDel'.svc = s \/ DeleteServiceRow
                           /\ ~ BeginDeleteService(s)
                           /\ \/ svcDel'.pc = svcDel.pc
                              \/ TearDownService /\ ((svcUp'[s] = "none" /\ svcFiles'[s] = {}) \/ s \notin svcCalm')
                              \/ DeleteServiceRow
  <2>0. ~ (BeginDeleteService(s) /\ svcDel.svc = s)
    BY DEF BeginDeleteService
  <2>1. CASE \E e \in Svcs : BeginDeleteService(e)
    <3>1. PICK e \in Svcs : BeginDeleteService(e)
      BY <2>1
    <3>2. svcDel = NoSvcDel /\ svcDel'.svc = e
      BY <3>1 DEF BeginDeleteService
    <3> QED
      BY <3>1, <3>2
  <2>2. CASE TearDownService
    <3>1. svcDel'.svc = svcDel.svc
      BY <2>2, SvcSubjects DEF TearDownService
    <3>2. svcUp \in [Svcs -> {"none", "up", "partly", "stopped"}] /\ svcFiles \in [Svcs -> SUBSET Hosts]
      BY DEF SvcTyped
    <3>3. svcDel.svc = s => (svcUp'[s] = "none" /\ svcFiles'[s] = {}) \/ s \notin svcCalm'
      BY <2>2, <3>2 DEF TearDownService, Upset
    <3> QED
      BY <2>0, <2>2, <3>1, <3>3
  <2>3. CASE DeleteServiceRow
    BY <2>0, <2>3 DEF DeleteServiceRow
  <2>4. CASE UNCHANGED svcDel
    BY <2>0, <2>4
  <2>5. (\E e \in Svcs, H \in SUBSET Hosts, ready \in BOOLEAN : CreateService(e, H, ready))
        \/ (\E e \in Svcs, H \in SUBSET Hosts, ready \in BOOLEAN : SetCompose(e, H, ready))
        \/ (\E e \in Svcs, H \in SUBSET Hosts : SetServiceDomain(e, H))
        \/ (\E e \in Svcs, H \in SUBSET Hosts : BeginDomains(e, H))
        \/ (\E e \in Svcs, act \in Lifecycle : ServiceLifecycle(e, act)) \/ (\E e \in Svcs : Deploys(e))
        \/ (\E e \in Svcs : SetServiceEnv(e)) \/ (\E e \in Svcs : SetMaintenance(e)) \/ CommitDomains
        \/ TakeServiceJob \/ WriteService \/ UpService \/ UpServicePartly \/ JoinNetwork \/ RunLifecycle
        \/ LoseService \/ ApplyMaintenance \/ MaintenanceFails \/ ServiceStepFails \/ EndServiceJob \/ ServiceWorkerDies
        => UNCHANGED svcDel
    BY DEF CreateService, SetCompose, SetServiceDomain, BeginDomains, ServiceLifecycle, Deploys, SetServiceEnv, SetMaintenance,
       CommitDomains, TakeServiceJob, WriteService, UpService, UpServicePartly, JoinNetwork, RunLifecycle, LoseService,
       ApplyMaintenance, MaintenanceFails, ServiceStepFails, EndServiceJob, ServiceWorkerDies
  <2> QED
    BY <2>1, <2>2, <2>3, <2>4, <2>5, SvcActions
<1>2. s \in svcCalm' \ svcCalm => BeginDeleteService(s) /\ ~ Working(s, Any) /\ svcReq.svc # s
  <2>1. ASSUME NEW e \in Svcs, BeginDeleteService(e), s \in svcCalm' \ svcCalm
        PROVE  BeginDeleteService(s) /\ ~ Working(s, Any) /\ svcReq.svc # s
    <3>1. e = s /\ ~ (Working(e, Any) \/ svcReq.svc = e)
      BY <2>1 DEF BeginDeleteService
    <3> QED
      BY <2>1, <3>1
  <2>2. ASSUME NEW e \in Svcs,
               \/ \E H \in SUBSET Hosts : SetServiceDomain(e, H) \/ BeginDomains(e, H)
               \/ (\E act \in Lifecycle : ServiceLifecycle(e, act)) \/ Deploys(e) \/ SetMaintenance(e)
        PROVE  svcCalm' \subseteq svcCalm
    BY <2>2 DEF SetServiceDomain, BeginDomains, ServiceLifecycle, Deploys, SetMaintenance, Upset
  <2>3. TearDownService => svcCalm' \subseteq svcCalm
    BY DEF TearDownService, Upset
  <2>4. (\E e \in Svcs, H \in SUBSET Hosts, ready \in BOOLEAN : CreateService(e, H, ready))
        \/ (\E e \in Svcs, H \in SUBSET Hosts, ready \in BOOLEAN : SetCompose(e, H, ready))
        \/ (\E e \in Svcs : SetServiceEnv(e)) \/ CommitDomains \/ DeleteServiceRow
        \/ TakeServiceJob \/ WriteService \/ UpService \/ UpServicePartly \/ JoinNetwork \/ RunLifecycle
        \/ LoseService \/ ApplyMaintenance \/ MaintenanceFails \/ ServiceStepFails \/ EndServiceJob \/ ServiceWorkerDies
        => UNCHANGED svcCalm
    BY DEF CreateService, SetCompose, SetServiceEnv, CommitDomains, DeleteServiceRow, TakeServiceJob, WriteService, UpService,
       UpServicePartly, JoinNetwork, RunLifecycle, LoseService, ApplyMaintenance, MaintenanceFails, ServiceStepFails,
       EndServiceJob, ServiceWorkerDies
  <2> QED
    BY <2>1, <2>2, <2>3, <2>4, SvcActions
<1>3. svcReq'.svc = s => svcReq.svc = s \/ (s \notin svcCalm' /\ HasService(s))
  <2>1. ASSUME NEW e \in Svcs, NEW H \in SUBSET Hosts, BeginDomains(e, H) PROVE svcReq'.svc = e /\ e \notin svcCalm' /\ HasService(e)
    BY <2>1 DEF BeginDomains, Upset
  <2>2. CommitDomains => svcReq' = NoSvcReq
    BY DEF CommitDomains
  <2>3. (\E e \in Svcs, H \in SUBSET Hosts, ready \in BOOLEAN : CreateService(e, H, ready))
        \/ (\E e \in Svcs, H \in SUBSET Hosts, ready \in BOOLEAN : SetCompose(e, H, ready))
        \/ (\E e \in Svcs, H \in SUBSET Hosts : SetServiceDomain(e, H))
        \/ (\E e \in Svcs, act \in Lifecycle : ServiceLifecycle(e, act)) \/ (\E e \in Svcs : Deploys(e))
        \/ (\E e \in Svcs : SetServiceEnv(e)) \/ (\E e \in Svcs : SetMaintenance(e))
        \/ (\E e \in Svcs : BeginDeleteService(e)) \/ TearDownService \/ DeleteServiceRow
        \/ TakeServiceJob \/ WriteService \/ UpService \/ UpServicePartly \/ JoinNetwork \/ RunLifecycle
        \/ LoseService \/ ApplyMaintenance \/ MaintenanceFails \/ ServiceStepFails \/ EndServiceJob \/ ServiceWorkerDies
        => UNCHANGED svcReq
    BY DEF CreateService, SetCompose, SetServiceDomain, ServiceLifecycle, Deploys, SetServiceEnv, SetMaintenance,
       BeginDeleteService, TearDownService, DeleteServiceRow, TakeServiceJob, WriteService, UpService, UpServicePartly,
       JoinNetwork, RunLifecycle, LoseService, ApplyMaintenance, MaintenanceFails, ServiceStepFails, EndServiceJob,
       ServiceWorkerDies
  <2> QED
    BY <2>1, <2>2, <2>3, SvcActions
<1>4. \/ \E H \in SUBSET Hosts : SetServiceDomain(s, H)
      \/ (\E act \in Lifecycle : ServiceLifecycle(s, act)) \/ Deploys(s) \/ SetMaintenance(s)
      => s \notin svcCalm' /\ HasService(s)
  BY DEF SetServiceDomain, ServiceLifecycle, Deploys, SetMaintenance, Upset
<1>5. BeginDeleteService(s) => /\ HasService(s) /\ svcDel' = [svc |-> s, pc |-> "teardown"]
                               /\ UNCHANGED <<svcRow, svcUp, svcFiles, svcQueue, svcJob, svcReq>>
  BY DEF BeginDeleteService
<1> QED
  BY <1>1, <1>2, <1>3, <1>4, <1>5

\* The last command of a job that succeeded left what it was to leave; what a routing job read is what the row still says.
JobRunsService ==
    \A s \in Svcs \ svcDropped : svcJob.svc = s /\ svcDel.svc # s /\ HasService(s) =>
        /\ svcJob.pc = "join" => svcUp[s] = "up"
        /\ svcJob.pc = "done" => svcUp[s] = IF svcJob.act = "stop" THEN "stopped" ELSE "up"
RoutingIsFresh ==
    \A s \in Svcs : svcJob.svc = s /\ svcJob.act = "routing" /\ HasService(s) /\ ~ Waiting(s, {"routing"}) =>
        /\ svcJob.row.maint = svcRow[s].maint
        /\ s \notin svcMissed => MaintenanceHosts(svcJob.row) = MaintenanceHosts(svcRow[s])
\* Nothing is about a service that was never created; a deletion is about one that is there, and one that began with
\* nothing around finds nothing around.
Untouched ==
    \A s \in Svcs : svcRow[s].status = "absent" => svcFiles[s] = {} /\ svcReq.svc # s /\ svcDel.svc # s /\ ~ Working(s, Any)
SvcDeleteUnderWay ==
    /\ \A s \in Svcs : svcDel.svc = s => HasService(s)
    /\ \A s \in svcCalm :
        /\ svcDel.svc = s \/ svcRow[s].status = "deleted"
        /\ ~ Working(s, Any) /\ svcReq.svc # s
        /\ svcDel.svc = s /\ svcDel.pc = "row" => svcUp[s] = "none" /\ svcFiles[s] = {}

SvcInv == /\ SvcTyped /\ ServiceWorkIsOwned /\ JobRunsService /\ ServiceStatusIsReal /\ Untouched /\ RoutingIsFresh
          /\ MaintenanceFollowsRow /\ SvcDeleteUnderWay /\ DeletedServiceIsGone

\* A service with no work at all has none of any kind, and is not the one of the job in progress.
LEMMA NoWork ==
  ASSUME SvcTyped, NEW s \in Svcs, ~ Working(s, Any)
  PROVE  svcJob.svc # s /\ \A acts \in SUBSET Any : ~ Waiting(s, acts) /\ ~ Working(s, acts)
<1> USE SvcConstants
<1>1. svcJob.svc # s
  BY DEF Working, SvcTyped
<1> QED
  BY <1>1 DEF Working, Waiting

\* A row that is there stays there until it is deleted, and one that is not there is there again only when it was never created.
LEMMA SvcRowsLast ==
  ASSUME SvcTyped, SvcNext, NEW s \in Svcs
  PROVE  /\ HasService(s) => HasService(s)' \/ (DeleteServiceRow /\ svcDel.svc = s /\ svcRow'[s].status = "deleted")
         /\ svcRow[s].status = "deleted" => svcRow'[s].status = "deleted"
         /\ svcRow'[s].status = "absent" => svcRow[s].status = "absent"
  BY SvcRowSteps DEF HasService

LEMMA ServiceWorkStaysOwned ==
  ASSUME SvcTyped, ServiceWorkIsOwned, SvcNext
  PROVE  ServiceWorkIsOwned'
<1> USE SvcConstants
<1> SUFFICES ASSUME NEW s \in Svcs, svcRow'[s].status = "provisioning" PROVE Working(s, Changing)' \/ s \in svcLost'
  BY DEF ServiceWorkIsOwned
<1>1. CASE Waiting(s, Changing)'
  BY <1>1 DEF Working
<1>2. CASE svcRow'[s].status = svcRow[s].status /\ ~ (EndServiceJob /\ svcJob.svc = s)
  <2>1. HasService(s) /\ (Working(s, Changing) \/ s \in svcLost)
    BY <1>2 DEF ServiceWorkIsOwned, HasService
  <2>2. CASE s \in svcLost
    BY <2>2, SvcServerSteps
  <2>3. CASE Working(s, Changing) /\ ~ Working(s, Changing)'
    <3>1. Changing \in SUBSET Any /\ "routing" \notin Changing
      OBVIOUS
    <3> QED
      BY <1>2, <2>1, <2>3, <3>1, SvcWorkEnds
  <2> QED
    BY <2>1, <2>2, <2>3
<1>3. ASSUME EndServiceJob, svcJob.svc = s PROVE FALSE
  <2>1. svcRow \in [Svcs -> SvcRow]
    BY DEF SvcTyped
  <2>2. HasService(s)
    BY <1>3 DEF EndServiceJob, HasService
  <2>3. svcRow'[s].status \in {"error", "stopped", "running"}
    BY <1>3, <2>1, <2>2 DEF EndServiceJob, SvcRow
  <2> QED
    BY <2>3
<1> QED
  BY <1>1, <1>2, <1>3, SvcRowSteps

\* A teardown of a service whose deletion stays calm took everything down.
LEMMA ServiceTornDown ==
  ASSUME SvcTyped, TearDownService, svcDel.svc \in svcCalm'
  PROVE  svcUp'[svcDel.svc] = "none" /\ svcFiles'[svcDel.svc] = {}
<1>1. svcUp \in [Svcs -> {"none", "up", "partly", "stopped"}] /\ svcFiles \in [Svcs -> SUBSET Hosts]
  BY DEF SvcTyped
<1>2. svcDel.svc \in Svcs
  BY SvcSubjects DEF TearDownService
<1> QED
  BY <1>1, <1>2 DEF TearDownService, Upset

LEMMA SvcDeleteStaysUnderWay ==
  ASSUME SvcTyped, Untouched, SvcDeleteUnderWay, SvcNext
  PROVE  SvcDeleteUnderWay'
<1> USE SvcConstants
<1>0. svcCalm' \subseteq Svcs
  BY ServicesStayTyped DEF SvcTyped
<1>1. ASSUME NEW s \in Svcs, svcDel'.svc = s PROVE HasService(s)'
  <2>1. HasService(s)
    BY <1>1, SvcRequestSteps DEF SvcDeleteUnderWay
  <2>2. ~ DeleteServiceRow
    BY <1>1 DEF DeleteServiceRow
  <2> QED
    BY <2>1, <2>2, SvcRowsLast
<1>2. ASSUME NEW s \in Svcs, s \in svcCalm', s \notin svcCalm
      PROVE  svcDel'.svc = s /\ svcDel'.pc = "teardown" /\ ~ Working(s, Any)' /\ svcReq'.svc # s
  <2>1. BeginDeleteService(s) /\ ~ Working(s, Any) /\ svcReq.svc # s
    BY <1>2, SvcRequestSteps
  <2>2. svcDel' = [svc |-> s, pc |-> "teardown"] /\ UNCHANGED <<svcQueue, svcJob, svcReq>>
    BY <2>1 DEF BeginDeleteService
  <2>3. ~ Working(s, Any)'
    BY <2>1, <2>2 DEF Working, Waiting
  <2> QED
    BY <2>1, <2>2, <2>3
<1>3. ASSUME NEW s \in Svcs, s \in svcCalm', s \in svcCalm
      PROVE  /\ svcDel'.svc = s \/ svcRow'[s].status = "deleted"
             /\ ~ Working(s, Any)' /\ svcReq'.svc # s
             /\ svcDel'.svc = s /\ svcDel'.pc = "row" => svcUp'[s] = "none" /\ svcFiles'[s] = {}
  <2>0. /\ svcDel.svc = s \/ svcRow[s].status = "deleted"
        /\ ~ Working(s, Any) /\ svcReq.svc # s
        /\ svcDel.svc = s /\ svcDel.pc = "row" => svcUp[s] = "none" /\ svcFiles[s] = {}
        /\ svcDel.svc = s => HasService(s)
    BY <1>3 DEF SvcDeleteUnderWay
  <2>1. svcDel'.svc = s \/ svcRow'[s].status = "deleted"
    <3>1. CASE svcRow[s].status = "deleted"
      BY <3>1, SvcRowsLast
    <3>2. CASE svcDel.svc = s /\ svcDel'.svc # s
      <4>1. DeleteServiceRow
        BY <3>2, SvcRequestSteps
      <4>2. svcRow \in [Svcs -> SvcRow]
        BY DEF SvcTyped
      <4> QED
        BY <3>2, <4>1, <4>2 DEF DeleteServiceRow, NoServiceRow
    <3> QED
      BY <2>0, <3>1, <3>2
  <2>2. ~ Working(s, Any)'
    <3>1. svcRow[s].status # "absent"
      BY <2>0 DEF HasService
    <3>2. ~ \E H \in SUBSET Hosts, ready \in BOOLEAN : CreateService(s, H, ready)
      BY <3>1 DEF CreateService
    <3> QED
      BY <1>3, <2>0, <3>2, SvcWorkStarts, SvcRequestSteps
  <2>3. svcReq'.svc # s
    BY <1>3, <2>0, SvcRequestSteps
  <2>4. ASSUME svcDel'.svc = s, svcDel'.pc = "row" PROVE svcUp'[s] = "none" /\ svcFiles'[s] = {}
    <3>1. svcDel.svc = s
      <4>1. BeginDeleteService(s) => svcDel'.pc = "teardown"
        BY SvcRequestSteps
      <4> QED
        BY <2>4, <4>1, SvcRequestSteps
    <3>2. ~ DeleteServiceRow
      BY <2>4 DEF DeleteServiceRow
    <3>3. svcJob.svc # s
      BY <2>0, NoWork
    <3>4. CASE TearDownService
      BY <1>3, <3>1, <3>4, ServiceTornDown
    <3>5. CASE ~ TearDownService
      <4>1. svcDel.pc = "row"
        BY <2>4, <3>1, <3>2, <3>5, SvcRequestSteps
      <4> QED
        BY <2>0, <3>1, <3>3, <3>5, <4>1, SvcServerSteps
    <3> QED
      BY <3>4, <3>5
  <2> QED
    BY <2>1, <2>2, <2>3, <2>4
<1> QED
  BY <1>0, <1>1, <1>2, <1>3 DEF SvcDeleteUnderWay

LEMMA DeletedServiceStaysGone ==
  ASSUME SvcTyped, SvcDeleteUnderWay, DeletedServiceIsGone, SvcNext
  PROVE  DeletedServiceIsGone'
<1> USE SvcConstants
<1> SUFFICES ASSUME NEW s \in Svcs, svcRow'[s].status = "deleted", s \in svcCalm' PROVE svcUp'[s] = "none" /\ svcFiles'[s] = {}
  BY DEF DeletedServiceIsGone
<1>1. s \in svcCalm
  <2> SUFFICES ASSUME s \notin svcCalm PROVE FALSE
    OBVIOUS
  <2>1. BeginDeleteService(s)
    BY SvcRequestSteps
  <2>2. HasService(s) /\ svcRow' = svcRow
    BY <2>1, SvcRequestSteps
  <2> QED
    BY <2>2 DEF HasService
<1>2. svcJob.svc # s
  BY <1>1, NoWork DEF SvcDeleteUnderWay
<1>3. svcUp[s] = "none" /\ svcFiles[s] = {}
  <2>1. CASE svcRow[s].status = "deleted"
    BY <1>1, <2>1 DEF DeletedServiceIsGone
  <2>2. CASE svcRow[s].status # "deleted"
    <3>1. DeleteServiceRow /\ svcDel.svc = s
      BY <1>2, <2>2, SvcRowSteps DEF HasService
    <3>2. svcDel.pc = "row"
      BY <3>1 DEF DeleteServiceRow
    <3> QED
      BY <1>1, <3>1, <3>2 DEF SvcDeleteUnderWay
  <2> QED
    BY <2>1, <2>2
<1> QED
  BY <1>2, <1>3, SvcServerSteps

LEMMA StaysUntouched ==
  ASSUME SvcTyped, Untouched, SvcNext
  PROVE  Untouched'
<1> USE SvcConstants
<1> SUFFICES ASSUME NEW s \in Svcs, svcRow'[s].status = "absent"
             PROVE  svcFiles'[s] = {} /\ svcReq'.svc # s /\ svcDel'.svc # s /\ ~ Working(s, Any)'
  BY DEF Untouched
<1>1. /\ svcRow[s].status = "absent" /\ ~ HasService(s)
      /\ svcFiles[s] = {} /\ svcReq.svc # s /\ svcDel.svc # s /\ ~ Working(s, Any)
  BY SvcRowsLast DEF Untouched, HasService
<1>2. svcJob.svc # s
  BY <1>1, NoWork
<1>3. svcFiles'[s] = {} /\ svcReq'.svc # s /\ svcDel'.svc # s
  BY <1>1, <1>2, SvcServerSteps, SvcRequestSteps
<1>4. ~ Working(s, Any)'
  <2>1. ASSUME NEW H \in SUBSET Hosts, NEW ready \in BOOLEAN, CreateService(s, H, ready) PROVE FALSE
    <3>1. svcRow \in [Svcs -> SvcRow]
      BY DEF SvcTyped
    <3> QED
      BY <2>1, <3>1 DEF CreateService
  <2> QED
    BY <1>1, <2>1, SvcWorkStarts, SvcRequestSteps
<1> QED
  BY <1>3, <1>4

LEMMA JobStillRunsService ==
  ASSUME SvcTyped, Untouched, JobRunsService, SvcNext
  PROVE  JobRunsService'
<1> USE SvcConstants
<1>t. svcUp \in [Svcs -> {"none", "up", "partly", "stopped"}] /\ svcRow \in [Svcs -> SvcRow]
  BY DEF SvcTyped
<1> DEFINE Effective(s) ==
               /\ svcJob.pc = "join" => svcUp[s] = "up"
               /\ svcJob.pc = "done" => svcUp[s] = IF svcJob.act = "stop" THEN "stopped" ELSE "up"
<1> SUFFICES ASSUME NEW s \in Svcs, s \notin svcDropped', svcJob'.svc = s, svcDel'.svc # s, HasService(s)'
             PROVE  Effective(s)'
  BY DEF JobRunsService
<1>1. CASE TakeServiceJob
  <2>1. svcJob' = NoSvcJob \/ svcJob'.pc = FirstPc(svcQueue[1].act)
    BY <1>1 DEF TakeServiceJob
  <2>2. svcJob'.pc \notin {"join", "done"}
    BY <2>1 DEF FirstPc
  <2> QED
    BY <2>2
<1>2. CASE WriteService \/ UpServicePartly \/ ServiceStepFails
  <2>1. svcJob'.pc \in {"up", "failed"}
    BY <1>2, SvcSubjects DEF WriteService, UpServicePartly, ServiceStepFails
  <2> QED
    BY <2>1
<1>3. CASE UpService
  <2>1. svcJob.act = "deploy" /\ svcJob.svc \in Svcs
    BY <1>3, SvcSubjects DEF UpService
  <2>2. svcJob'.svc = svcJob.svc /\ svcJob'.act = svcJob.act
    BY <1>3, SvcSubjects DEF UpService
  <2>3. svcJob'.pc = "failed" \/ svcUp'[s] = "up"
    BY <1>3, <1>t, <2>1, <2>2, SvcSubjects DEF UpService
  <2> QED
    BY <2>1, <2>2, <2>3
<1>4. CASE JoinNetwork
  <2>1. /\ svcJob.pc = "join" /\ svcJob.act = "deploy" /\ svcJob'.svc = svcJob.svc /\ svcJob'.act = svcJob.act /\ svcJob'.pc = "done"
        /\ UNCHANGED <<svcUp, svcDropped, svcDel, svcRow>>
    BY <1>4, SvcSubjects DEF JoinNetwork
  <2> QED
    BY <2>1 DEF JobRunsService, HasService
<1>5. CASE RunLifecycle
  <2>1. svcJob.svc = s /\ svcJob'.act = svcJob.act
    BY <1>5, SvcSubjects DEF RunLifecycle
  <2>2. CASE svcUp[s] = "none"
    <3>1. svcJob'.pc = "failed"
      BY <1>5, <2>1, <2>2, SvcSubjects DEF RunLifecycle
    <3> QED
      BY <3>1
  <2>3. CASE svcUp[s] # "none"
    <3>1. svcJob'.pc = "done"
      BY <1>5, <2>1, <2>3, SvcSubjects DEF RunLifecycle
    <3>2. svcUp'[s] = IF svcJob.act = "stop" THEN "stopped" ELSE "up"
      BY <1>5, <1>t, <2>1, <2>3 DEF RunLifecycle
    <3> QED
      BY <2>1, <3>1, <3>2
  <2> QED
    BY <2>2, <2>3
<1>6. CASE LoseService
  <2>1. svcJob'.svc = svcJob.svc /\ svcJob.svc \in svcDropped'
    BY <1>6, SvcSubjects DEF LoseService
  <2> QED
    BY <2>1
<1>7. CASE ApplyMaintenance \/ MaintenanceFails \/ EndServiceJob \/ ServiceWorkerDies
  BY <1>7 DEF ApplyMaintenance, MaintenanceFails, EndServiceJob, ServiceWorkerDies
<1>8. CASE /\ UNCHANGED <<svcJob, svcDropped>>
           /\ svcUp'[s] = svcUp[s] \/ svcDel.svc = s
  <2>1. HasService(s)
    <3>1. ~ (svcRow[s].status = "absent")
      BY <1>8, NoWork DEF Untouched
    <3>2. svcRow[s].status # "deleted"
      BY SvcRowsLast DEF HasService
    <3> QED
      BY <3>1, <3>2 DEF HasService
  <2>2. svcDel.svc # s
    <3>1. ASSUME DeleteServiceRow, svcDel.svc = s PROVE FALSE
      BY <1>t, <3>1 DEF DeleteServiceRow, NoServiceRow, HasService
    <3> QED
      BY <3>1, SvcRequestSteps
  <2> QED
    BY <1>8, <2>1, <2>2 DEF JobRunsService
<1>9. (\E e \in Svcs, H \in SUBSET Hosts, ready \in BOOLEAN : CreateService(e, H, ready))
      \/ (\E e \in Svcs, H \in SUBSET Hosts, ready \in BOOLEAN : SetCompose(e, H, ready))
      \/ (\E e \in Svcs, H \in SUBSET Hosts : SetServiceDomain(e, H))
      \/ (\E e \in Svcs, H \in SUBSET Hosts : BeginDomains(e, H))
      \/ (\E e \in Svcs, act \in Lifecycle : ServiceLifecycle(e, act)) \/ (\E e \in Svcs : Deploys(e))
      \/ (\E e \in Svcs : SetServiceEnv(e)) \/ (\E e \in Svcs : SetMaintenance(e))
      \/ (\E e \in Svcs : BeginDeleteService(e)) \/ CommitDomains \/ DeleteServiceRow
      => UNCHANGED <<svcJob, svcDropped, svcUp>>
  BY DEF CreateService, SetCompose, SetServiceDomain, BeginDomains, ServiceLifecycle, Deploys, SetServiceEnv, SetMaintenance,
     BeginDeleteService, CommitDomains, DeleteServiceRow
<1>10. TearDownService => UNCHANGED <<svcJob, svcDropped>> /\ (svcUp'[s] = svcUp[s] \/ svcDel.svc = s)
  BY <1>t DEF TearDownService
<1> HIDE DEF Effective
<1> QED
  BY <1>1, <1>2, <1>3, <1>4, <1>5, <1>6, <1>7, <1>8, <1>9, <1>10, SvcActions

LEMMA ServiceStatusStaysReal ==
  ASSUME SvcTyped, Untouched, JobRunsService, ServiceStatusIsReal, SvcNext
  PROVE  ServiceStatusIsReal'
<1> USE SvcConstants
<1>t. svcRow \in [Svcs -> SvcRow]
  BY DEF SvcTyped
<1> SUFFICES ASSUME NEW s \in Svcs, s \notin svcDropped' \cup svcLost', ~ Working(s, Changing)', svcDel'.svc # s,
                    svcRow'[s].status \in {"running", "stopped"}
             PROVE  svcUp'[s] = IF svcRow'[s].status = "running" THEN "up" ELSE "stopped"
  BY DEF ServiceStatusIsReal
<1>1. HasService(s)' /\ HasService(s)
  <2>1. svcRow'[s].status # "deleted" /\ svcRow'[s].status # "absent" /\ svcRow'[s].status # "idle"
    OBVIOUS
  <2> QED
    BY <2>1, SvcRowSteps DEF HasService
<1>2. svcDel.svc # s
  <2>1. ASSUME DeleteServiceRow, svcDel.svc = s PROVE FALSE
    BY <1>1, <1>t, <2>1 DEF DeleteServiceRow, NoServiceRow, HasService
  <2> QED
    BY <2>1, SvcRequestSteps
<1>3. svcUp'[s] = svcUp[s]
  <2>1. ~ (svcJob'.svc = s /\ svcJob'.act \in Changing)
    BY DEF Working
  <2> QED
    BY <1>2, <2>1, SvcServerSteps
<1>4. s \notin svcDropped
  <2>1. ASSUME TakeServiceJob, svcQueue[1].svc = s, svcQueue[1].act # "routing" PROVE FALSE
    <3>1. svcJob'.svc = s /\ svcJob'.act = svcQueue[1].act /\ svcQueue[1].act \in Any
      BY <1>1, <2>1, SvcSubjects DEF TakeServiceJob
    <3> QED
      BY <2>1, <3>1 DEF Working
  <2> QED
    BY <2>1, SvcServerSteps
<1>5. CASE EndServiceJob /\ svcJob.svc = s
  <2>1. svcRow'[s].status = IF svcJob.pc = "failed" THEN "error" ELSE IF svcJob.act = "stop" THEN "stopped" ELSE "running"
    BY <1>1, <1>5, <1>t DEF EndServiceJob, SvcRow
  <2>2. svcJob.pc = "done"
    BY <1>5, <2>1 DEF EndServiceJob
  <2>3. svcUp[s] = IF svcJob.act = "stop" THEN "stopped" ELSE "up"
    BY <1>1, <1>2, <1>4, <1>5, <2>2 DEF JobRunsService
  <2> QED
    BY <1>3, <2>1, <2>2, <2>3
<1>6. CASE ~ (EndServiceJob /\ svcJob.svc = s)
  <2>1. svcRow'[s].status = svcRow[s].status
    BY <1>1, <1>6, SvcRowSteps
  <2>2. ~ Working(s, Changing)
    <3>1. Changing \in SUBSET Any /\ "routing" \notin Changing
      OBVIOUS
    <3> QED
      BY <1>1, <1>6, <3>1, SvcWorkEnds
  <2>3. s \notin svcLost
    BY SvcServerSteps
  <2> QED
    BY <1>2, <1>3, <1>4, <2>1, <2>2, <2>3 DEF ServiceStatusIsReal
<1> QED
  BY <1>5, <1>6

LEMMA RoutingStaysFresh ==
  ASSUME SvcTyped, Untouched, RoutingIsFresh, SvcNext
  PROVE  RoutingIsFresh'
<1> USE SvcConstants
<1> SUFFICES ASSUME NEW s \in Svcs, svcJob'.svc = s, svcJob'.act = "routing", HasService(s)', ~ Waiting(s, {"routing"})'
             PROVE  /\ svcJob'.row.maint = svcRow'[s].maint
                    /\ s \notin svcMissed' => MaintenanceHosts(svcJob'.row) = MaintenanceHosts(svcRow'[s])
  BY DEF RoutingIsFresh, MaintenanceHosts
<1>1. CASE TakeServiceJob
  <2>1. svcJob'.row = svcRow[s] /\ svcRow' = svcRow
    BY <1>1 DEF TakeServiceJob
  <2> QED
    BY <2>1
<1>2. CASE ~ TakeServiceJob
  <2>1. UNCHANGED svcJob
    BY <1>2, SvcJobSteps
  <2>2. HasService(s)
    <3>1. ~ (svcRow[s].status = "absent")
      BY <2>1, NoWork DEF Untouched
    <3>2. svcRow[s].status # "deleted"
      BY SvcRowsLast DEF HasService
    <3> QED
      BY <3>1, <3>2 DEF HasService
  <2>3. ~ Waiting(s, {"routing"})
    <3>1. Waiting(s, {"routing"}) => Waiting(s, {"routing"})'
      BY <1>2, SvcQueueChanges, SvcQueueSteps
    <3> QED
      BY <3>1
  <2>4. s \notin svcMissed' => s \notin svcMissed
    <3>1. ~ ApplyMaintenance
      BY DEF ApplyMaintenance
    <3> QED
      BY <3>1, SvcServerSteps
  <2>5. /\ svcJob.row.maint = svcRow[s].maint
        /\ s \notin svcMissed => MaintenanceHosts(svcJob.row) = MaintenanceHosts(svcRow[s])
    BY <2>1, <2>2, <2>3 DEF RoutingIsFresh
  <2>6. /\ svcRow'[s].maint = svcRow[s].maint
        /\ svcRow'[s].hosts = svcRow[s].hosts \/ s \in svcMissed' \/ svcRow[s].maint = FALSE
    <3>1. svcRow[s].maint \in BOOLEAN
      BY DEF SvcTyped, SvcRow
    <3>2. svcRow[s].status # "absent" /\ ~ (DeleteServiceRow /\ svcDel.svc = s /\ svcRow'[s].status = "deleted")
      BY <2>2 DEF HasService
    <3> QED
      BY <3>1, <3>2, SvcRowSteps
  <2> QED
    BY <2>1, <2>4, <2>5, <2>6 DEF MaintenanceHosts
<1> QED
  BY <1>1, <1>2

LEMMA MaintenanceStillFollowsRow ==
  ASSUME SvcTyped, Untouched, RoutingIsFresh, MaintenanceFollowsRow, SvcNext
  PROVE  MaintenanceFollowsRow'
<1> USE SvcConstants
<1>t. svcRow \in [Svcs -> SvcRow] /\ svcFiles \in [Svcs -> SUBSET Hosts] /\ \A s \in Svcs : svcRow[s].maint \in BOOLEAN
  BY DEF SvcTyped, SvcRow
<1> SUFFICES ASSUME NEW s \in Svcs, s \notin svcMissed', HasService(s)', ~ Working(s, {"routing"})', svcDel'.svc # s
             PROVE  svcFiles'[s] = MaintenanceHosts(svcRow'[s])
  BY DEF MaintenanceFollowsRow, MaintenanceHosts
<1>1. svcDel.svc # s
  <2>1. ASSUME DeleteServiceRow, svcDel.svc = s PROVE FALSE
    BY <1>t, <2>1 DEF DeleteServiceRow, NoServiceRow, HasService
  <2> QED
    BY <2>1, SvcRequestSteps
<1>2. ~ Waiting(s, {"routing"})'
  BY DEF Working
<1>3. CASE svcRow[s].status = "absent"
  <2>1. svcRow'[s].maint = FALSE
    <3>1. svcRow'[s] # svcRow[s]
      BY <1>3 DEF HasService
    <3>2. ~ HasService(s) /\ svcDel.svc # s
      BY <1>1, <1>3 DEF HasService
    <3> QED
      BY <1>3, <3>1, <3>2, SvcRowSteps
  <2>2. svcFiles[s] = {} /\ svcJob.svc # s
    BY <1>3, NoWork DEF Untouched
  <2>3. svcFiles'[s] = {}
    BY <1>1, <2>2, SvcServerSteps
  <2> QED
    BY <2>1, <2>3 DEF MaintenanceHosts
<1>4. CASE svcRow[s].status # "absent"
  <2>1. HasService(s)
    BY <1>4, SvcRowsLast DEF HasService
  <2>2. CASE ApplyMaintenance /\ svcJob.svc = s
    <3>1. svcFiles'[s] = MaintenanceHosts(svcJob.row) /\ svcRow' = svcRow /\ svcJob.act = "routing" /\ UNCHANGED svcQueue
      BY <1>t, <2>2, SvcSubjects DEF ApplyMaintenance
    <3>2. ~ Waiting(s, {"routing"})
      BY <1>2, <3>1, SvcQueueSteps
    <3>3. /\ svcJob.row.maint = svcRow[s].maint
          /\ s \notin svcMissed => MaintenanceHosts(svcJob.row) = MaintenanceHosts(svcRow[s])
      BY <2>1, <2>2, <3>1, <3>2 DEF RoutingIsFresh
    <3>4. svcJob.row.hosts = svcRow[s].hosts \/ s \notin svcMissed
      BY <2>2 DEF ApplyMaintenance
    <3> QED
      BY <3>1, <3>3, <3>4 DEF MaintenanceHosts
  <2>3. CASE ~ (ApplyMaintenance /\ svcJob.svc = s)
    <3>1. svcFiles'[s] = svcFiles[s] /\ s \notin svcMissed
      BY <1>1, <2>3, SvcServerSteps
    <3>2. ~ Working(s, {"routing"})
      <4>1. {"routing"} \in SUBSET Any
        OBVIOUS
      <4>2. ASSUME EndServiceJob, svcJob.act \in {"routing"} PROVE FALSE
        BY <4>2, SvcSubjects DEF EndServiceJob
      <4>3. ASSUME Working(s, {"routing"}) PROVE FALSE
        <5>1. \/ (ApplyMaintenance \/ svcMissed' = svcMissed \cup {s}) /\ svcJob.svc = s
              \/ svcJob.svc = s /\ svcJob.act # "routing"
          BY <2>1, <4>1, <4>2, <4>3, SvcWorkEnds
        <5>2. svcJob.svc = s /\ svcJob.act # "routing"
          BY <2>3, <5>1
        <5>3. Waiting(s, {"routing"})
          BY <4>3, <5>2 DEF Working
        <5>4. svcJob # NoSvcJob
          BY <5>2
        <5>5. Waiting(s, {"routing"})'
          <6>1. UNCHANGED svcQueue => Waiting(s, {"routing"})'
            BY <5>3, SvcQueueSteps
          <6>2. \A e \in Svcs, act \in Any : svcQueue' = Add(e, act) => Waiting(s, {"routing"})'
            BY <5>3, SvcQueueSteps
          <6>3. ~ TakeServiceJob
            BY <5>4 DEF TakeServiceJob
          <6>4. svcJob.svc \in Svcs /\ svcJob.act \in Any
                /\ svcQueue' = <<[svc |-> svcJob.svc, act |-> svcJob.act, tries |-> 1]>> \o svcQueue
                  => Waiting(s, {"routing"})'
            BY <5>3, SvcQueueSteps
          <6> QED
            BY <6>1, <6>2, <6>3, <6>4, SvcQueueChanges
        <5> QED
          BY <1>2, <5>5
      <4> QED
        BY <4>3
    <3>3. svcFiles[s] = MaintenanceHosts(svcRow[s])
      BY <1>1, <2>1, <3>1, <3>2 DEF MaintenanceFollowsRow
    <3>4. /\ svcRow'[s].maint = svcRow[s].maint
          /\ svcRow'[s].hosts = svcRow[s].hosts \/ svcRow[s].maint = FALSE
      <4>1. svcRow[s].maint \in BOOLEAN
        BY <1>t
      <4> QED
        BY <1>1, <1>2, <1>4, <4>1, SvcRowSteps
    <3> QED
      BY <3>1, <3>3, <3>4 DEF MaintenanceHosts
  <2> QED
    BY <2>2, <2>3
<1> QED
  BY <1>3, <1>4

----------------------------------------------------------------------------
(* The invariant of the services                                           *)

LEMMA SvcInvInit == ASSUME SvcInit PROVE SvcInv
<1> USE SvcConstants DEF SvcInit
<1>1. SvcTyped
  <2>1. svcRow \in [Svcs -> SvcRow] /\ svcUp \in [Svcs -> {"none", "up", "partly", "stopped"}] /\ svcFiles \in [Svcs -> SUBSET Hosts]
    OBVIOUS
  <2>2. svcQueue \in Seq(SvcWork)
    BY EmptyQueue
  <2>3. svcJob \in [svc : Svcs \cup {NoSvc}, act : Any \cup {"none"}, tries : {0, 1}, row : SvcRow,
                    pc : {"rest", "write", "up", "join", "lifecycle", "routing", "done", "failed"}]
    BY DEF NoSvcJob
  <2>4. svcDel \in [svc : Svcs \cup {NoSvc}, pc : {"rest", "teardown", "row"}]
    BY DEF NoSvcDel
  <2>5. "none" \notin Lifecycle
    BY DEF Lifecycle
  <2> QED
    BY <2>1, <2>2, <2>3, <2>4, <2>5 DEF SvcTyped
<1>2. /\ \A s \in Svcs : svcRow[s].status = "absent" /\ svcRow[s].maint = FALSE
      /\ \A s \in Svcs : \A acts : ~ Waiting(s, acts)
  BY DEF NoServiceRow, Waiting
<1>3. \A s \in Svcs : \A acts : ~ Working(s, acts)
  BY <1>2 DEF Working
<1>4. ServiceWorkIsOwned /\ JobRunsService /\ ServiceStatusIsReal /\ Untouched
  BY <1>2, <1>3 DEF ServiceWorkIsOwned, JobRunsService, ServiceStatusIsReal, Untouched
<1>5. RoutingIsFresh /\ MaintenanceFollowsRow /\ SvcDeleteUnderWay /\ DeletedServiceIsGone
  BY <1>2, <1>3 DEF RoutingIsFresh, MaintenanceFollowsRow, SvcDeleteUnderWay, DeletedServiceIsGone, HasService
<1> QED
  BY <1>1, <1>4, <1>5 DEF SvcInv

LEMMA SvcInvStep == ASSUME SvcInv, [SvcNext]_svcVars PROVE SvcInv'
<1>1. CASE SvcNext
  BY <1>1, ServicesStayTyped, ServiceWorkStaysOwned, JobStillRunsService, ServiceStatusStaysReal, StaysUntouched,
     RoutingStaysFresh, MaintenanceStillFollowsRow, SvcDeleteStaysUnderWay, DeletedServiceStaysGone DEF SvcInv
<1>2. CASE UNCHANGED svcVars
  <2> USE <1>2 DEF svcVars
  <2>1. SvcTyped'
    BY DEF SvcInv, SvcTyped
  <2>2. ServiceWorkIsOwned' /\ JobRunsService' /\ ServiceStatusIsReal' /\ Untouched'
    BY DEF SvcInv, ServiceWorkIsOwned, JobRunsService, ServiceStatusIsReal, Untouched, Working, Waiting, HasService
  <2>3. RoutingIsFresh' /\ MaintenanceFollowsRow' /\ SvcDeleteUnderWay' /\ DeletedServiceIsGone'
    BY DEF SvcInv, RoutingIsFresh, MaintenanceFollowsRow, SvcDeleteUnderWay, DeletedServiceIsGone, Working, Waiting, HasService,
       MaintenanceHosts
  <2> QED
    BY <2>1, <2>2, <2>3 DEF SvcInv
<1> QED
  BY <1>1, <1>2

LEMMA SvcInvSays ==
  ASSUME SvcInv
  PROVE  ServiceWorkIsOwned /\ ServiceStatusIsReal /\ MaintenanceFollowsRow /\ DeletedServiceIsGone
  BY DEF SvcInv

\* A single container has at most one hostname.
OneHost == \A s \in Svcs \ Stacks : Cardinality(svcRow[s].hosts) <= 1

LEMMA OneHostStays ==
  ASSUME SvcTyped, OneHost, SvcNext
  PROVE  OneHost'
<1> USE SvcConstants
<1> SUFFICES ASSUME NEW s \in Svcs \ Stacks PROVE Cardinality(svcRow'[s].hosts) <= 1
  BY DEF OneHost
<1>t. svcRow \in [Svcs -> SvcRow] /\ Cardinality(svcRow[s].hosts) <= 1 /\ Cardinality({}) <= 1
  BY FS_EmptySet DEF SvcTyped, OneHost
<1>1. ASSUME NEW t \in Svcs, NEW H \in SUBSET Hosts, NEW ready \in BOOLEAN, CreateService(t, H, ready)
      PROVE  svcRow'[s].hosts \in {svcRow[s].hosts, {}}
  BY <1>t, <1>1 DEF CreateService
<1>2. ASSUME NEW t \in Svcs, NEW H \in SUBSET Hosts, SetServiceDomain(t, H)
      PROVE  svcRow'[s].hosts = svcRow[s].hosts \/ Cardinality(svcRow'[s].hosts) <= 1
  BY <1>t, <1>2 DEF SetServiceDomain, SvcRow
<1>3. ASSUME NEW t \in Svcs, NEW H \in SUBSET Hosts, NEW ready \in BOOLEAN, SetCompose(t, H, ready)
      PROVE  svcRow'[s].hosts = svcRow[s].hosts
  BY <1>t, <1>3 DEF SetCompose
<1>4. ASSUME NEW t \in Svcs, NEW act, SetServiceEnv(t) \/ SetMaintenance(t) \/ Deploys(t) \/ ServiceLifecycle(t, act)
      PROVE  svcRow'[s].hosts = svcRow[s].hosts
  BY <1>t, <1>4 DEF SetServiceEnv, SetMaintenance, Deploys, ServiceLifecycle, SvcRow
<1>5. CommitDomains => svcRow'[s].hosts = svcRow[s].hosts
  BY <1>t, SvcSubjects DEF CommitDomains
<1>6. EndServiceJob => svcRow'[s].hosts = svcRow[s].hosts
  BY <1>t DEF EndServiceJob, SvcRow
<1>7. DeleteServiceRow => svcRow'[s].hosts \in {svcRow[s].hosts, {}}
  BY <1>t DEF DeleteServiceRow, NoServiceRow
<1>8. \/ UNCHANGED svcRow
      \/ (\E t \in Svcs, H \in SUBSET Hosts, ready \in BOOLEAN : CreateService(t, H, ready))
      \/ (\E t \in Svcs, H \in SUBSET Hosts, ready \in BOOLEAN : SetCompose(t, H, ready))
      \/ (\E t \in Svcs, H \in SUBSET Hosts : SetServiceDomain(t, H))
      \/ (\E t \in Svcs, act \in Lifecycle : ServiceLifecycle(t, act)) \/ (\E t \in Svcs : Deploys(t))
      \/ (\E t \in Svcs : SetServiceEnv(t)) \/ (\E t \in Svcs : SetMaintenance(t))
      \/ CommitDomains \/ DeleteServiceRow \/ EndServiceJob
  BY SvcActions DEF BeginDomains, BeginDeleteService, TearDownService, TakeServiceJob, WriteService, UpService, UpServicePartly,
     JoinNetwork, RunLifecycle, LoseService, ApplyMaintenance, MaintenanceFails, ServiceStepFails, ServiceWorkerDies
<1> QED
  BY <1>t, <1>1, <1>2, <1>3, <1>4, <1>5, <1>6, <1>7, <1>8

LEMMA ServicesAreTyped ==
  ASSUME SvcTyped, OneHost
  PROVE  SvcTypeOK
<1>1. \A s \in Svcs : svcRow[s] \in SvcRow /\ svcUp[s] \in {"none", "up", "partly", "stopped"} /\ svcFiles[s] \subseteq Hosts
  BY DEF SvcTyped
<1>2. \A i \in DOMAIN svcQueue : svcQueue[i] \in SvcWork
  BY DEF SvcTyped
<1>3. \A i \in DOMAIN svcQueue : svcQueue[i].svc \in Svcs /\ svcQueue[i].act \in Lifecycle \cup {"deploy", "routing"}
  BY <1>2 DEF SvcWork, Any, Changing
<1>4. svcReq.hosts \subseteq Hosts
  BY DEF SvcTyped, NoSvcReq
<1>5. svcDel.pc \in {"rest", "teardown", "row"}
      /\ svcJob.pc \in {"rest", "write", "up", "join", "lifecycle", "routing", "done", "failed"}
      /\ {svcMissed, svcLost, svcDropped, svcCalm} \subseteq SUBSET Svcs
  BY DEF SvcTyped
<1> QED
  BY <1>1, <1>3, <1>4, <1>5 DEF SvcTypeOK, SvcRow, OneHost

----------------------------------------------------------------------------
(* Applications: types                                                     *)

Loaded == {<<held>> : held \in AppRow}
FilePcs == {"remove", "wake", "dynamic", "direct", "cleanup"}
LifecycleJobs == {Resting} \cup [pc : {"exec", "ok", "failed"}, action : Action, loaded : Loaded]
RoutingJobs == {Resting} \cup [pc : FilePcs \cup {"done"}, action : {"none"}, loaded : Loaded]
DeployJobs == {Resting} \cup [pc : FilePcs \cup {"mark", "switch", "done"}, action : {"none"}, loaded : Loaded]
Containers == [Servers -> [state : {"absent", "running", "stopped"}, conf : SUBSET Fields]]
AppRequests ==
    [op : {"none", "sleep", "protection", "move", "commitMove", "delete", "commitDelete"}, route : Route,
     server : {<<>>} \cup {<<s>> : s \in Servers} \cup {<<s, t>> : s, t \in Servers}, force : BOOLEAN]
ReqTyped ==
    /\ req \in AppRequests
    /\ req.op \in {"move", "commitMove"} => req.server \in {<<s, t>> : s, t \in Servers}
    /\ req.op \in {"delete", "commitDelete"} => req.server \in {<<s>> : s \in Servers}
AppTyped ==
    /\ app \in AppRow
    /\ container \in Containers /\ proxy \in [Servers -> RouteFile] /\ wake \in [Servers -> WakeFile]
    /\ lifecycle \in [queue : Seq(Action), job : LifecycleJobs]
    /\ routing \in [queue : Nat, job : RoutingJobs] /\ deploy \in [queue : Nat, job : DeployJobs]
    /\ ReqTyped
    /\ lastOk \in BOOLEAN /\ appUsed \in [{"request", "deploy", "fault"} -> Nat]

LEMMA AppActions ==
  ASSUME AppNext
  PROVE  \/ (\E f \in {"env", "limits", "advanced", "volumes"} : Edit(f)) \/ (\E d \in {"none", "a", "b"} : SetDomain(d))
         \/ (\E on \in BOOLEAN : BeginSleep(on)) \/ (\E auth, maintenance \in BOOLEAN : BeginProtection(auth, maintenance))
         \/ WriteSleep \/ WriteProtection
         \/ (\E target \in Servers, force \in BOOLEAN : BeginMove(target, force)) \/ BeginDelete \/ TearDown
         \/ (\E lost \in BOOLEAN : TearDownFails(lost)) \/ CommitMove \/ CommitDelete
         \/ (\E action \in Action : RequestLifecycle(action)) \/ TakeLifecycle \/ ExecLifecycle \/ SetLifecycleStatus
         \/ (\E pc \in {"ok", "failed"} : LifecycleFault(pc))
         \/ TakeRouting \/ WriteRouting \/ EndRouting \/ RoutingFault
         \/ RequestDeploy \/ TakeDeploy \/ MarkDeploying \/ Switch \/ DeployRouting \/ DeployDone \/ DeployFails \/ AppWorkerDies
  BY DEF AppNext, AppSettings, MoveOrDelete, AppJobs, SetEnv, SetLimits, SetAdvanced, AddVolume, EditVolume, RemoveVolume

\* What a job in progress holds.
LEMMA JobHolds ==
  ASSUME NEW job, job \in LifecycleJobs \cup RoutingJobs \cup DeployJobs, job # Resting
  PROVE  job.pc # "rest" /\ job.loaded[1] \in AppRow /\ job.loaded = <<job.loaded[1]>> /\ job.loaded \in Loaded
<1>1. job.loaded \in Loaded /\ job.pc # "rest"
  BY DEF LifecycleJobs, RoutingJobs, DeployJobs, FilePcs
<1>2. PICK held \in AppRow : job.loaded = <<held>>
  BY <1>1 DEF Loaded
<1> QED
  BY <1>1, <1>2

LEMMA AppConstants ==
  /\ NoRoute \in Route /\ NoFile \in RouteFile /\ NoWake \in WakeFile /\ Resting.pc = "rest" /\ Resting.loaded = <<>>
  /\ NoAppReq \in AppRequests /\ NoAppReq.op = "none" /\ NoFile.backend = "none"
  BY DEF NoRoute, Route, Domain, NoFile, RouteFile, NoWake, WakeFile, Resting, NoAppReq, AppRequests

LEMMA AppRowStaysTyped ==
  ASSUME AppTyped, AppNext
  PROVE  app' \in AppRow
<1>0. /\ app \in [exists : BOOLEAN, status : Status, server : Servers, route : Route, conf : SUBSET Fields, deployed : Snapshot]
      /\ \A c \in SUBSET Fields : <<c>> \in Snapshot
      /\ <<>> \in Snapshot /\ {"idle", "deploying", "running", "stopped", "error"} \subseteq Status
  BY DEF AppTyped, AppRow, Snapshot, Status
<1>1. CASE \E f \in {"env", "limits", "advanced", "volumes"} : Edit(f)
  <2>1. PICK f \in Fields : app' = [app EXCEPT !.conf = IF f \in @ THEN @ \ {f} ELSE @ \cup {f}]
    BY <1>1 DEF Edit
  <2> QED
    BY <1>0, <2>1 DEF AppRow
<1>2. CASE \E d \in {"none", "a", "b"} : SetDomain(d)
  <2>1. PICK d \in {"none", "a", "b"} : app' = [app EXCEPT !.route.domain = d, !.route.sleep = IF d = "none" THEN FALSE ELSE @]
    BY <1>2 DEF SetDomain
  <2>2. app.route \in [domain : Domain, sleep : BOOLEAN, maintenance : BOOLEAN, auth : BOOLEAN]
    BY <1>0 DEF Route
  <2>3. [app.route EXCEPT !.domain = d, !.sleep = IF d = "none" THEN FALSE ELSE @] \in Route
    BY <2>2 DEF Route, Domain
  <2>4. app' = [app EXCEPT !.route = [app.route EXCEPT !.domain = d, !.sleep = IF d = "none" THEN FALSE ELSE @]]
    BY <1>0, <2>1, <2>2
  <2> QED
    BY <1>0, <2>3, <2>4 DEF AppRow
<1>3. CASE WriteSleep \/ WriteProtection
  <2>1. req.route.sleep \in BOOLEAN /\ req.route.auth \in BOOLEAN /\ req.route.maintenance \in BOOLEAN
    BY DEF AppTyped, ReqTyped, AppRequests, Route
  <2>2. app.route \in [domain : Domain, sleep : BOOLEAN, maintenance : BOOLEAN, auth : BOOLEAN]
    BY <1>0 DEF Route
  <2>3. /\ [app.route EXCEPT !.sleep = req.route.sleep] \in Route
        /\ [app.route EXCEPT !.auth = req.route.auth, !.maintenance = req.route.maintenance] \in Route
    BY <2>1, <2>2 DEF Route
  <2>4. \/ app' = app
        \/ app' = [app EXCEPT !.route = [app.route EXCEPT !.sleep = req.route.sleep]]
        \/ app' = [app EXCEPT !.route = [app.route EXCEPT !.auth = req.route.auth, !.maintenance = req.route.maintenance]]
    BY <1>0, <1>3, <2>2 DEF WriteSleep, WriteProtection
  <2> QED
    BY <1>0, <2>3, <2>4 DEF AppRow
<1>4. CASE CommitMove \/ CommitDelete
  <2>1. CASE CommitMove
    <3>1. PICK s, t \in Servers : req.server = <<s, t>>
      BY <2>1 DEF CommitMove, AppTyped, ReqTyped
    <3>2. app' = [app EXCEPT !.server = t, !.status = "idle", !.deployed = <<>>]
      BY <2>1, <3>1 DEF CommitMove
    <3>3. "idle" \in Status /\ <<>> \in Snapshot
      BY <1>0
    <3> QED
      BY <1>0, <3>2, <3>3 DEF AppRow
  <2>2. CASE CommitDelete
    BY <1>0, <2>2 DEF CommitDelete, AppRow
  <2> QED
    BY <1>4, <2>1, <2>2
<1>5. CASE SetLifecycleStatus
  BY <1>0, <1>5 DEF SetLifecycleStatus, ResultState, AppRow
<1>6. CASE MarkDeploying
  <2>1. deploy.job \in DeployJobs /\ deploy.job # Resting
    BY <1>6, AppConstants DEF MarkDeploying, AppTyped
  <2>2. deploy.job.loaded[1].conf \in SUBSET Fields
    BY <2>1, JobHolds DEF AppRow
  <2> QED
    BY <1>0, <1>6, <2>2 DEF MarkDeploying, AppRow
<1>7. CASE DeployDone \/ DeployFails
  BY <1>0, <1>7 DEF DeployDone, DeployFails, AppRow
<1>8. CASE UNCHANGED app
  BY <1>8 DEF AppTyped
<1> QED
  BY <1>1, <1>2, <1>3, <1>4, <1>5, <1>6, <1>7, <1>8, AppActions
     DEF BeginSleep, BeginProtection, BeginMove, BeginDelete, TearDown, TearDownFails, RequestLifecycle, TakeLifecycle,
         ExecLifecycle, LifecycleFault, TakeRouting, WriteRouting, EndRouting, RoutingFault, RequestDeploy, TakeDeploy, Switch,
         DeployRouting, AppWorkerDies

----------------------------------------------------------------------------
(* Applications: what is on the servers                                    *)

\* The files an application row asks for are files, and the steps of a job write no others.
LEMMA WantedTyped ==
  ASSUME NEW rt \in Route
  PROVE  WantedFile(rt) \in RouteFile /\ WantedWake(rt) \in WakeFile /\ Backend(rt) \in {"waker", "container"}
  BY AppConstants DEF WantedFile, WantedWake, Backend, RouteFile, WakeFile, Route

LEMMA WritesStayTyped ==
  ASSUME AppTyped, NEW job, job.loaded[1] \in AppRow, WriteStep(job)
  PROVE  /\ container' \in Containers /\ proxy' \in [Servers -> RouteFile] /\ wake' \in [Servers -> WakeFile]
         /\ \A s \in Servers : container'[s].conf = container[s].conf
<1> DEFINE rt == job.loaded[1].route
           s == job.loaded[1].server
<1>1. s \in Servers /\ rt \in Route
  BY DEF AppRow
<1>2. WantedFile(rt) \in RouteFile /\ WantedWake(rt) \in WakeFile /\ NoFile \in RouteFile /\ NoWake \in WakeFile
  BY <1>1, WantedTyped, AppConstants
<1>3. Started(s) \in Containers /\ \A x \in Servers : Started(s)[x].conf = container[x].conf
  BY <1>1 DEF AppTyped, Containers, Started
<1>4. container' \in {container, Started(s)} /\ proxy' \in {proxy, [proxy EXCEPT ![s] = NoFile], [proxy EXCEPT ![s] = WantedFile(rt)]}
      /\ wake' \in {wake, [wake EXCEPT ![s] = NoWake], [wake EXCEPT ![s] = WantedWake(rt)]}
  BY DEF WriteStep
<1> HIDE DEF rt, s
<1> QED
  BY <1>1, <1>2, <1>3, <1>4 DEF AppTyped

LEMMA ServersStayTyped ==
  ASSUME AppTyped, AppNext
  PROVE  container' \in Containers /\ proxy' \in [Servers -> RouteFile] /\ wake' \in [Servers -> WakeFile]
<1>1. CASE TearDown
  <2>1. req.server[1] \in Servers
    BY <1>1 DEF TearDown, AppTyped, ReqTyped
  <2>2. NoContainer \in [state : {"absent", "running", "stopped"}, conf : SUBSET Fields]
    BY DEF NoContainer
  <2> QED
    BY <1>1, <2>1, <2>2, AppConstants DEF TearDown, TornDown, AppTyped, Containers
<1>2. CASE ExecLifecycle
  <2>1. lifecycle.job \in LifecycleJobs /\ lifecycle.job # Resting
    BY <1>2, AppConstants DEF ExecLifecycle, AppTyped
  <2>2. lifecycle.job.loaded[1].server \in Servers
    BY <2>1, JobHolds DEF AppRow
  <2>3. ResultState(lifecycle.job.action) \in {"absent", "running", "stopped"}
    BY DEF ResultState
  <2> QED
    BY <1>2, <2>2, <2>3 DEF ExecLifecycle, AppTyped, Containers
<1>3. CASE Switch
  <2>1. deploy.job \in DeployJobs /\ deploy.job # Resting
    BY <1>3, AppConstants DEF Switch, AppTyped
  <2>2. deploy.job.loaded[1].server \in Servers /\ deploy.job.loaded[1].conf \in SUBSET Fields
    BY <2>1, JobHolds DEF AppRow
  <2> QED
    BY <1>3, <2>2 DEF Switch, AppTyped, Containers
<1>4. CASE WriteRouting
  <2>1. routing.job \in RoutingJobs /\ routing.job # Resting
    BY <1>4, AppConstants DEF WriteRouting, Writing, AppTyped
  <2> QED
    BY <1>4, <2>1, JobHolds, WritesStayTyped DEF WriteRouting
<1>5. CASE DeployRouting
  <2>1. deploy.job \in DeployJobs /\ deploy.job # Resting
    BY <1>5, AppConstants DEF DeployRouting, Writing, AppTyped
  <2> QED
    BY <1>5, <2>1, JobHolds, WritesStayTyped DEF DeployRouting
<1>6. CASE UNCHANGED <<container, proxy, wake>>
  BY <1>6 DEF AppTyped
<1> QED
  BY <1>1, <1>2, <1>3, <1>4, <1>5, <1>6, AppActions
     DEF Edit, SetDomain, BeginSleep, BeginProtection, WriteSleep, WriteProtection, BeginMove, BeginDelete, TearDownFails,
         CommitMove, CommitDelete, RequestLifecycle, TakeLifecycle, SetLifecycleStatus, LifecycleFault, TakeRouting, EndRouting,
         RoutingFault, RequestDeploy, TakeDeploy, MarkDeploying, DeployDone, DeployFails, AppWorkerDies

\* Which steps touch what.
LEMMA AppTouches ==
  ASSUME AppNext
  PROVE  /\ TearDown \/ ExecLifecycle \/ WriteRouting \/ DeployRouting \/ Switch \/ UNCHANGED <<container, proxy, wake>>
         /\ \/ (\E action \in Action : RequestLifecycle(action)) \/ TakeLifecycle \/ ExecLifecycle \/ SetLifecycleStatus
            \/ (\E pc \in {"ok", "failed"} : LifecycleFault(pc)) \/ AppWorkerDies \/ UNCHANGED lifecycle
         /\ QueueRouting \/ TakeRouting \/ WriteRouting \/ EndRouting \/ RoutingFault \/ AppWorkerDies \/ UNCHANGED routing
         /\ \/ RequestDeploy \/ TakeDeploy \/ MarkDeploying \/ Switch \/ DeployRouting \/ DeployDone \/ DeployFails
            \/ AppWorkerDies \/ UNCHANGED deploy
<1>1. CASE \/ (\E f \in {"env", "limits", "advanced", "volumes"} : Edit(f)) \/ (\E d \in {"none", "a", "b"} : SetDomain(d))
           \/ (\E on \in BOOLEAN : BeginSleep(on)) \/ (\E auth, maintenance \in BOOLEAN : BeginProtection(auth, maintenance))
           \/ WriteSleep \/ WriteProtection
  BY <1>1 DEF Edit, SetDomain, BeginSleep, BeginProtection, WriteSleep, WriteProtection
<1>2. CASE \/ (\E target \in Servers, force \in BOOLEAN : BeginMove(target, force)) \/ BeginDelete \/ TearDown
           \/ (\E lost \in BOOLEAN : TearDownFails(lost)) \/ CommitMove \/ CommitDelete
  BY <1>2 DEF BeginMove, BeginDelete, TearDown, TearDownFails, CommitMove, CommitDelete
<1>3. CASE \/ (\E action \in Action : RequestLifecycle(action)) \/ TakeLifecycle \/ ExecLifecycle \/ SetLifecycleStatus
           \/ (\E pc \in {"ok", "failed"} : LifecycleFault(pc))
  BY <1>3 DEF RequestLifecycle, TakeLifecycle, ExecLifecycle, SetLifecycleStatus, LifecycleFault
<1>4. CASE TakeRouting \/ WriteRouting \/ EndRouting \/ RoutingFault
  BY <1>4 DEF TakeRouting, WriteRouting, EndRouting, RoutingFault
<1>5. CASE \/ RequestDeploy \/ TakeDeploy \/ MarkDeploying \/ Switch \/ DeployRouting \/ DeployDone \/ DeployFails
           \/ AppWorkerDies
  BY <1>5 DEF RequestDeploy, TakeDeploy, MarkDeploying, Switch, DeployRouting, DeployDone, DeployFails, AppWorkerDies
<1> QED
  BY <1>1, <1>2, <1>3, <1>4, <1>5, AppActions

LEMMA LifecycleStaysTyped ==
  ASSUME AppTyped, AppNext
  PROVE  lifecycle' \in [queue : Seq(Action), job : LifecycleJobs]
<1> DEFINE Q == lifecycle.queue
<1>1. /\ lifecycle \in [queue : Seq(Action), job : LifecycleJobs] /\ Q \in Seq(Action) /\ lifecycle.job \in LifecycleJobs
      /\ Resting \in LifecycleJobs
  BY DEF AppTyped, LifecycleJobs
<1>2. lifecycle.job # Resting => lifecycle.job.loaded \in Loaded /\ lifecycle.job.action \in Action
                                 /\ lifecycle.job \in [pc : {"exec", "ok", "failed"}, action : Action, loaded : Loaded]
  BY <1>1 DEF LifecycleJobs
<1>3. ASSUME NEW action \in Action, RequestLifecycle(action) PROVE lifecycle' \in [queue : Seq(Action), job : LifecycleJobs]
  <2>1. Append(Q, action) \in Seq(Action)
    BY <1>1, QueueGrows
  <2> QED
    BY <1>1, <1>3, <2>1 DEF RequestLifecycle
<1>4. CASE TakeLifecycle
  <2>1. Tail(Q) \in Seq(Action) /\ Head(Q) \in Action
    BY <1>1, <1>4, QueueShrinks DEF TakeLifecycle
  <2>2. <<app>> \in Loaded
    BY DEF Loaded, AppTyped
  <2>3. [pc |-> "exec", action |-> Head(Q), loaded |-> <<app>>] \in LifecycleJobs
    BY <2>1, <2>2 DEF LifecycleJobs
  <2> QED
    BY <1>1, <1>4, <2>1, <2>3 DEF TakeLifecycle
<1>5. CASE ExecLifecycle \/ \E pc \in {"ok", "failed"} : LifecycleFault(pc)
  <2>1. lifecycle.job.pc = "exec"
    BY <1>5 DEF ExecLifecycle, LifecycleFault
  <2>2. PICK pc \in {"ok", "failed"} : lifecycle' = [lifecycle EXCEPT !.job.pc = pc]
    BY <1>5 DEF ExecLifecycle, LifecycleFault
  <2>3. [lifecycle.job EXCEPT !.pc = pc] \in LifecycleJobs
    BY <1>2, <2>1, AppConstants DEF LifecycleJobs
  <2> QED
    BY <1>1, <2>2, <2>3
<1>6. CASE SetLifecycleStatus
  BY <1>1, <1>6 DEF SetLifecycleStatus
<1>7. CASE AppWorkerDies
  <2>1. lifecycle.job # Resting => <<lifecycle.job.action>> \o Q \in Seq(Action)
    BY <1>1, <1>2, QueueAgain
  <2> QED
    BY <1>1, <1>7, <2>1 DEF AppWorkerDies
<1>8. CASE UNCHANGED lifecycle
  BY <1>1, <1>8
<1> QED
  BY <1>3, <1>4, <1>5, <1>6, <1>7, <1>8, AppTouches

\* Where the writing of the files begins, and how it goes on.
LEMMA WritesGoOn ==
  ASSUME NEW job, Writing(job)
  PROVE  /\ job.pc \in FilePcs /\ NextWrite(job.pc) \in {"dynamic", "cleanup", "done"}
         /\ NextWrite(job.pc) = "dynamic" <=> job.pc = "wake"
         /\ NextWrite(job.pc) = "cleanup" <=> job.pc = "direct"
  BY DEF Writing, NextWrite, FilePcs

LEMMA RoutingStaysTyped ==
  ASSUME AppTyped, AppNext
  PROVE  routing' \in [queue : Nat, job : RoutingJobs]
<1>1. /\ routing \in [queue : Nat, job : RoutingJobs] /\ routing.job \in RoutingJobs /\ routing.queue \in Nat
      /\ Resting \in RoutingJobs
  BY DEF AppTyped, RoutingJobs
<1>2. routing.job # Resting => routing.job \in [pc : FilePcs \cup {"done"}, action : {"none"}, loaded : Loaded]
  BY <1>1 DEF RoutingJobs
<1>3. CASE QueueRouting
  BY <1>1, <1>3 DEF QueueRouting
<1>4. CASE TakeRouting
  <2>1. [pc |-> FirstWrite(app.route), action |-> "none", loaded |-> <<app>>] \in RoutingJobs
    BY DEF AppTyped, Loaded, RoutingJobs, FirstWrite, FilePcs
  <2> QED
    BY <1>1, <1>4, <2>1 DEF TakeRouting
<1>5. CASE WriteRouting
  <2>1. routing.job # Resting /\ NextWrite(routing.job.pc) \in FilePcs \cup {"done"}
    BY <1>5, AppConstants, WritesGoOn DEF WriteRouting, Writing, FilePcs
  <2>2. [routing.job EXCEPT !.pc = NextWrite(@)] \in RoutingJobs
    BY <1>2, <2>1 DEF RoutingJobs
  <2> QED
    BY <1>1, <1>5, <2>2 DEF WriteRouting
<1>6. CASE EndRouting \/ RoutingFault
  BY <1>1, <1>6 DEF EndRouting, RoutingFault
<1>7. CASE AppWorkerDies
  BY <1>1, <1>7 DEF AppWorkerDies
<1>8. CASE UNCHANGED routing
  BY <1>1, <1>8
<1> QED
  BY <1>3, <1>4, <1>5, <1>6, <1>7, <1>8, AppTouches

LEMMA DeployStaysTyped ==
  ASSUME AppTyped, AppNext
  PROVE  deploy' \in [queue : Nat, job : DeployJobs]
<1>1. /\ deploy \in [queue : Nat, job : DeployJobs] /\ deploy.job \in DeployJobs /\ deploy.queue \in Nat
      /\ Resting \in DeployJobs
  BY DEF AppTyped, DeployJobs
<1>2. deploy.job # Resting => deploy.job \in [pc : FilePcs \cup {"mark", "switch", "done"}, action : {"none"}, loaded : Loaded]
  BY <1>1 DEF DeployJobs
<1>3. CASE RequestDeploy
  BY <1>1, <1>3 DEF RequestDeploy
<1>4. CASE TakeDeploy
  <2>1. [pc |-> "mark", action |-> "none", loaded |-> <<app>>] \in DeployJobs
    BY DEF AppTyped, Loaded, DeployJobs
  <2> QED
    BY <1>1, <1>4, <2>1 DEF TakeDeploy
<1>5. CASE MarkDeploying
  <2>1. deploy.job # Resting
    BY <1>5, AppConstants DEF MarkDeploying
  <2>2. [deploy.job EXCEPT !.pc = "switch"] \in DeployJobs
    BY <1>2, <2>1 DEF DeployJobs
  <2> QED
    BY <1>1, <1>5, <2>2 DEF MarkDeploying
<1>6. CASE DeployRouting
  <2>1. deploy.job # Resting /\ NextWrite(deploy.job.pc) \in FilePcs \cup {"done"}
    BY <1>6, AppConstants, WritesGoOn DEF DeployRouting, Writing, FilePcs
  <2>2. [deploy.job EXCEPT !.pc = NextWrite(@)] \in DeployJobs
    BY <1>2, <2>1 DEF DeployJobs
  <2> QED
    BY <1>1, <1>6, <2>2 DEF DeployRouting
<1>7. CASE Switch
  <2> DEFINE read == deploy.job.loaded[1]
             rt == [read.route EXCEPT !.domain = ResolveDomain(read.route, read.server)]
  <2>1. deploy.job # Resting
    BY <1>7, AppConstants DEF Switch
  <2>2. read \in AppRow /\ read.route \in Route
    BY <1>1, <2>1, JobHolds DEF AppRow
  <2>3. rt \in Route
    BY <2>2 DEF Route, ResolveDomain, Domain
  <2>4. [read EXCEPT !.route = rt] \in AppRow
    BY <2>2, <2>3 DEF AppRow
  <2>5. FirstWrite(rt) \in FilePcs
    BY DEF FirstWrite, FilePcs
  <2>6. deploy' = [deploy EXCEPT !.job.pc = FirstWrite(rt), !.job.loaded = <<[read EXCEPT !.route = rt]>>]
    BY <1>7 DEF Switch
  <2> HIDE DEF rt, read
  <2>7. <<[read EXCEPT !.route = rt]>> \in Loaded
    BY <2>4 DEF Loaded
  <2>8. [deploy.job EXCEPT !.pc = FirstWrite(rt), !.loaded = <<[read EXCEPT !.route = rt]>>] \in DeployJobs
    BY <1>2, <2>1, <2>5, <2>7 DEF DeployJobs
  <2> QED
    BY <1>1, <2>6, <2>8
<1>8. CASE DeployDone \/ DeployFails
  BY <1>1, <1>8 DEF DeployDone, DeployFails
<1>9. CASE AppWorkerDies
  BY <1>1, <1>9 DEF AppWorkerDies
<1>10. CASE UNCHANGED deploy
  BY <1>1, <1>10
<1> QED
  BY <1>3, <1>4, <1>5, <1>6, <1>7, <1>8, <1>9, <1>10, AppTouches

LEMMA RequestStaysTyped ==
  ASSUME AppTyped, AppNext
  PROVE  ReqTyped'
<1>1. req \in AppRequests /\ NoAppReq \in AppRequests /\ NoAppReq.op = "none" /\ NoRoute \in Route /\ app.server \in Servers
  BY AppConstants DEF AppTyped, ReqTyped, AppRow
<1>2. NoAppReq = [op |-> "none", route |-> NoRoute, server |-> <<>>, force |-> FALSE]
      /\ NoRoute = [domain |-> "none", sleep |-> FALSE, maintenance |-> FALSE, auth |-> FALSE] /\ "none" \in Domain
  BY DEF NoAppReq, NoRoute, Domain
<1>3. ASSUME NEW on \in BOOLEAN, BeginSleep(on) PROVE ReqTyped'
  <2>1. [NoRoute EXCEPT !.sleep = on] \in Route
    BY <1>1 DEF Route
  <2>2. req' = [op |-> "sleep", route |-> [NoRoute EXCEPT !.sleep = on], server |-> <<>>, force |-> FALSE]
    BY <1>2, <1>3 DEF BeginSleep
  <2> QED
    BY <2>1, <2>2 DEF ReqTyped, AppRequests
<1>4. ASSUME NEW auth \in BOOLEAN, NEW maintenance \in BOOLEAN, BeginProtection(auth, maintenance) PROVE ReqTyped'
  <2>1. [NoRoute EXCEPT !.auth = auth, !.maintenance = maintenance] \in Route
    BY <1>1 DEF Route
  <2>2. req' = [op |-> "protection", route |-> [NoRoute EXCEPT !.auth = auth, !.maintenance = maintenance], server |-> <<>>,
                force |-> FALSE]
    BY <1>2, <1>4 DEF BeginProtection
  <2> QED
    BY <2>1, <2>2 DEF ReqTyped, AppRequests
<1>5. ASSUME NEW target \in Servers, NEW force \in BOOLEAN, BeginMove(target, force) PROVE ReqTyped'
  <2>1. req' = [op |-> "move", route |-> NoRoute, server |-> <<app.server, target>>, force |-> force]
    BY <1>2, <1>5 DEF BeginMove
  <2> QED
    BY <1>1, <2>1 DEF ReqTyped, AppRequests
<1>6. CASE BeginDelete
  <2>1. req' = [op |-> "delete", route |-> NoRoute, server |-> <<app.server>>, force |-> FALSE]
    BY <1>2, <1>6 DEF BeginDelete
  <2> QED
    BY <1>1, <2>1 DEF ReqTyped, AppRequests
<1>7. CASE TearDown \/ \E lost \in BOOLEAN : TearDownFails(lost)
  <2>1. \/ req' = NoAppReq
        \/ (req' = [req EXCEPT !.op = "commitMove"] /\ req.op = "move")
        \/ (req' = [req EXCEPT !.op = "commitDelete"] /\ req.op = "delete")
    BY <1>7 DEF TearDown, TearDownFails
  <2>2. /\ req.op = "move" => req.server \in {<<s, t>> : s, t \in Servers}
        /\ req.op = "delete" => req.server \in {<<s>> : s \in Servers}
    BY DEF AppTyped, ReqTyped
  <2>3. CASE req' = [req EXCEPT !.op = "commitMove"] /\ req.op = "move"
    <3>1. req' \in AppRequests /\ req'.op = "commitMove" /\ req'.server = req.server
      BY <1>1, <2>3 DEF AppRequests
    <3> QED
      BY <2>2, <2>3, <3>1 DEF ReqTyped
  <2>4. CASE req' = [req EXCEPT !.op = "commitDelete"] /\ req.op = "delete"
    <3>1. req' \in AppRequests /\ req'.op = "commitDelete" /\ req'.server = req.server
      BY <1>1, <2>4 DEF AppRequests
    <3> QED
      BY <2>2, <2>4, <3>1 DEF ReqTyped
  <2> QED
    BY <1>1, <2>1, <2>3, <2>4 DEF ReqTyped
<1>8. CASE req' = NoAppReq
  BY <1>1, <1>8 DEF ReqTyped
<1>9. CASE UNCHANGED req
  BY <1>9 DEF AppTyped, ReqTyped
<1> QED
  BY <1>3, <1>4, <1>5, <1>6, <1>7, <1>8, <1>9, AppActions
     DEF Edit, SetDomain, WriteSleep, WriteProtection, CommitMove, CommitDelete, RequestLifecycle, TakeLifecycle,
         ExecLifecycle, SetLifecycleStatus, LifecycleFault, TakeRouting, WriteRouting, EndRouting, RoutingFault, RequestDeploy,
         TakeDeploy, MarkDeploying, Switch, DeployRouting, DeployDone, DeployFails, AppWorkerDies

LEMMA UseStaysTyped ==
  ASSUME AppTyped, AppNext
  PROVE  /\ lastOk' \in BOOLEAN /\ appUsed' \in [{"request", "deploy", "fault"} -> Nat]
         /\ appUsed'["fault"] = 0 => appUsed["fault"] = 0
         /\ UNCHANGED lastOk \/ MarkDeploying \/ DeployDone
<1>1. \/ UNCHANGED appUsed \/ (\E x \in {"request", "deploy", "fault"} : appUsed' = [appUsed EXCEPT ![x] = @ + 1])
  BY AppActions
     DEF UseApp, Edit, SetDomain, BeginSleep, BeginProtection, WriteSleep, WriteProtection, BeginMove, BeginDelete, TearDown,
         TearDownFails, CommitMove, CommitDelete, RequestLifecycle, TakeLifecycle, ExecLifecycle, SetLifecycleStatus,
         LifecycleFault, TakeRouting, WriteRouting, EndRouting, RoutingFault, RequestDeploy, TakeDeploy, MarkDeploying, Switch,
         DeployRouting, DeployDone, DeployFails, AppWorkerDies
<1>2. UNCHANGED lastOk \/ MarkDeploying \/ DeployDone
  BY AppActions
     DEF Edit, SetDomain, BeginSleep, BeginProtection, WriteSleep, WriteProtection, BeginMove, BeginDelete, TearDown,
         TearDownFails, CommitMove, CommitDelete, RequestLifecycle, TakeLifecycle, ExecLifecycle, SetLifecycleStatus,
         LifecycleFault, TakeRouting, WriteRouting, EndRouting, RoutingFault, RequestDeploy, TakeDeploy, Switch,
         DeployRouting, DeployFails, AppWorkerDies
<1>3. lastOk' \in BOOLEAN
  BY <1>2 DEF AppTyped, MarkDeploying, DeployDone
<1> QED
  BY <1>1, <1>2, <1>3 DEF AppTyped

LEMMA ApplicationsStayTyped == ASSUME AppTyped, AppNext PROVE AppTyped'
  BY AppRowStaysTyped, ServersStayTyped, LifecycleStaysTyped, RoutingStaysTyped, DeployStaysTyped, RequestStaysTyped, UseStaysTyped
     DEF AppTyped

LEMMA ApplicationsAreTyped == ASSUME AppTyped PROVE AppTypeOK
<1>1. /\ lifecycle.queue \in Seq(Action) /\ routing.queue \in Nat /\ deploy.queue \in Nat
      /\ lifecycle.job \in LifecycleJobs /\ routing.job \in RoutingJobs /\ deploy.job \in DeployJobs
  BY DEF AppTyped
<1>2. ASSUME NEW job \in {lifecycle.job, routing.job, deploy.job}
      PROVE  /\ job.pc \in {"rest", "mark", "switch", "exec", "ok", "failed", "remove", "wake", "dynamic", "direct", "cleanup",
                            "done"}
             /\ job.loaded = <<>> \/ Head(job.loaded) \in AppRow
  <2>1. CASE job = Resting
    BY <2>1, AppConstants
  <2>2. CASE job # Resting
    <3>1. job.loaded[1] \in AppRow /\ job.loaded = <<job.loaded[1]>>
      BY <1>1, <2>2, JobHolds
    <3>2. Head(job.loaded) = job.loaded[1]
      BY <3>1
    <3>3. job.pc \in {"exec", "ok", "failed"} \cup FilePcs \cup {"done"} \cup {"mark", "switch"}
      BY <1>1, <2>2 DEF LifecycleJobs, RoutingJobs, DeployJobs
    <3> QED
      BY <3>1, <3>2, <3>3 DEF FilePcs
  <2> QED
    BY <2>1, <2>2
<1> QED
  BY <1>1, <1>2 DEF AppTyped, AppTypeOK, Containers, ReqTyped, AppRequests

----------------------------------------------------------------------------
(* Applications: the waker knows the applications whose traffic it gets    *)

\* What a job that is writing relies on, with the files as they are.
SafeOn(job, files, entry) ==
    LET rt == job.loaded[1].route
        s == job.loaded[1].server
    IN  /\ job.pc = "wake" => WantedWake(rt).present
        /\ job.pc = "dynamic" => entry[s].present
        /\ job.pc = "direct" => Backend(rt) = "container"
        /\ job.pc = "cleanup" => files[s].backend # "waker"
WakerInv == WakerKnowsItsApps /\ SafeOn(routing.job, proxy, wake) /\ SafeOn(deploy.job, proxy, wake)

LEMMA SafeUnlessWriting ==
  ASSUME NEW job, NEW files, NEW entry, job.pc \in {"rest", "mark", "switch", "done", "remove"}
  PROVE  SafeOn(job, files, entry)
  BY DEF SafeOn

LEMMA SafeToBegin ==
  ASSUME NEW job, NEW files, NEW entry, job.pc = FirstWrite(job.loaded[1].route)
  PROVE  SafeOn(job, files, entry)
  BY DEF SafeOn, FirstWrite, WantedWake, Backend

\* The entry of the waker comes before the file that points there, and goes after it.
LEMMA SafeToGoOn ==
  ASSUME AppTyped, WakerKnowsItsApps, NEW job, job.loaded[1] \in AppRow, Writing(job), SafeOn(job, proxy, wake), WriteStep(job),
         NEW next, next.loaded = job.loaded, next.pc = NextWrite(job.pc)
  PROVE  WakerKnowsItsApps' /\ SafeOn(next, proxy', wake')
<1> DEFINE rt == job.loaded[1].route
           s == job.loaded[1].server
<1>1. s \in Servers /\ proxy \in [Servers -> RouteFile] /\ wake \in [Servers -> WakeFile]
  BY DEF AppRow, AppTyped
<1>2. \A x \in Servers : proxy[x].backend = "waker" => wake[x].present
  BY DEF WakerKnowsItsApps
<1>3. NoFile.backend = "none" /\ WantedFile(rt).backend \in {"none", Backend(rt)}
  BY DEF NoFile, WantedFile
<1>4. next.loaded[1].server = s /\ (next.pc = "dynamic" <=> job.pc = "wake") /\ (next.pc = "cleanup" <=> job.pc = "direct")
      /\ next.pc \in {"dynamic", "cleanup", "done"}
  BY WritesGoOn
<1>5. /\ job.pc = "wake" => WantedWake(rt).present
      /\ job.pc = "dynamic" => wake[s].present
      /\ job.pc = "direct" => Backend(rt) = "container"
      /\ job.pc = "cleanup" => proxy[s].backend # "waker"
  BY DEF SafeOn
<1>6. \/ job.pc = "remove" /\ proxy' = [proxy EXCEPT ![s] = NoFile] /\ wake' = [wake EXCEPT ![s] = NoWake]
      \/ job.pc = "wake" /\ wake' = [wake EXCEPT ![s] = WantedWake(rt)] /\ UNCHANGED proxy
      \/ job.pc \in {"dynamic", "direct"} /\ proxy' = [proxy EXCEPT ![s] = WantedFile(rt)] /\ UNCHANGED wake
      \/ job.pc = "cleanup" /\ wake' = [wake EXCEPT ![s] = NoWake] /\ UNCHANGED proxy
  BY DEF WriteStep
<1>7. SafeOn(next, proxy', wake') <=> /\ next.pc = "dynamic" => wake'[s].present
                                      /\ next.pc = "cleanup" => proxy'[s].backend # "waker"
  BY <1>4 DEF SafeOn
<1> HIDE DEF rt, s
<1>8. \A x \in Servers : proxy'[x].backend = "waker" => wake'[x].present
  BY <1>1, <1>2, <1>3, <1>5, <1>6
<1>9. (next.pc = "dynamic" => wake'[s].present) /\ (next.pc = "cleanup" => proxy'[s].backend # "waker")
  BY <1>1, <1>3, <1>4, <1>5, <1>6
<1> QED
  BY <1>7, <1>8, <1>9 DEF WakerKnowsItsApps

\* A job that is not at rest holds a row.
LEMMA JobsAtWork ==
  ASSUME AppTyped
  PROVE  /\ routing.job.pc # "rest" => routing.job.loaded[1] \in AppRow /\ routing.job # Resting
         /\ deploy.job.pc # "rest" => deploy.job.loaded[1] \in AppRow /\ deploy.job # Resting
         /\ lifecycle.job.pc # "rest" => lifecycle.job.loaded[1] \in AppRow /\ lifecycle.job # Resting
         /\ routing.job.pc \in FilePcs \cup {"rest", "done"} /\ deploy.job.pc \in FilePcs \cup {"rest", "mark", "switch", "done"}
  BY JobHolds, AppConstants DEF AppTyped, LifecycleJobs, RoutingJobs, DeployJobs

\* After the switch a deploy writes the routing of the row it read, with its domain resolved.
LEMMA Switched ==
  ASSUME AppTyped, Switch
  PROVE  LET read == deploy.job.loaded[1]
             next == deploy'.job.loaded[1]
         IN  /\ read \in AppRow /\ next \in AppRow /\ next.conf = read.conf /\ next.server = read.server
             /\ read.route.domain # "none" => next.route = read.route
             /\ deploy'.job.pc = FirstWrite(next.route) /\ deploy'.job.pc \in FilePcs
             /\ container' = [container EXCEPT ![read.server] = [state |-> "running", conf |-> read.conf]]
<1> DEFINE read == deploy.job.loaded[1]
           rt == [read.route EXCEPT !.domain = ResolveDomain(read.route, read.server)]
<1>1. deploy \in [queue : Nat, job : DeployJobs] /\ deploy.job # Resting
  BY AppConstants DEF Switch, AppTyped
<1>2. deploy.job \in [pc : FilePcs \cup {"mark", "switch", "done"}, action : {"none"}, loaded : Loaded]
  BY <1>1 DEF DeployJobs
<1>3. read \in AppRow /\ read.route \in Route
  BY <1>1, JobHolds DEF AppRow
<1>4. rt \in Route /\ (read.route.domain # "none" => rt = read.route)
  BY <1>3 DEF Route, ResolveDomain, Domain
<1>5. /\ deploy' = [deploy EXCEPT !.job.pc = FirstWrite(rt), !.job.loaded = <<[read EXCEPT !.route = rt]>>]
      /\ container' = [container EXCEPT ![read.server] = [state |-> "running", conf |-> read.conf]]
  BY DEF Switch
<1> HIDE DEF rt, read
<1>6. /\ [read EXCEPT !.route = rt] \in AppRow /\ [read EXCEPT !.route = rt].route = rt
      /\ [read EXCEPT !.route = rt].conf = read.conf /\ [read EXCEPT !.route = rt].server = read.server
  BY <1>3, <1>4 DEF AppRow
<1>7. deploy'.job.pc = FirstWrite(rt) /\ deploy'.job.loaded = <<[read EXCEPT !.route = rt]>>
  BY <1>1, <1>2, <1>5
<1>8. deploy'.job.loaded[1] = [read EXCEPT !.route = rt]
  BY <1>7
<1>9. FirstWrite(rt) \in FilePcs
  BY DEF FirstWrite, FilePcs
<1> QED
  BY <1>3, <1>4, <1>5, <1>6, <1>7, <1>8, <1>9 DEF read

LEMMA WakerStillKnows ==
  ASSUME AppTyped, WakerInv, OneAtATime, OneAtATime', AppNext
  PROVE  WakerInv'
<1>1. /\ WakerKnowsItsApps /\ SafeOn(routing.job, proxy, wake) /\ SafeOn(deploy.job, proxy, wake)
      /\ deploy.job.pc # "rest" => routing.job.pc = "rest"
  BY DEF WakerInv, OneAtATime
<1>2. /\ routing \in [queue : Nat, job : RoutingJobs] /\ deploy \in [queue : Nat, job : DeployJobs]
      /\ proxy \in [Servers -> RouteFile] /\ Resting.pc = "rest"
  BY AppConstants DEF AppTyped
<1>3. CASE TearDown
  <2>1. UNCHANGED <<wake, routing, deploy>>
    BY <1>3 DEF TearDown
  <2>s. req.server[1] \in Servers
    BY <1>3 DEF TearDown, AppTyped, ReqTyped
  <2>2. PICK s \in Servers : proxy' = [proxy EXCEPT ![s] = NoFile]
    BY <1>3, <2>s DEF TearDown, TornDown
  <2>3. \A x \in Servers : proxy'[x].backend = "waker" => proxy[x].backend = "waker"
    BY <1>2, <2>2, AppConstants
  <2>4. WakerKnowsItsApps'
    BY <1>1, <2>1, <2>3 DEF WakerKnowsItsApps
  <2>5. ASSUME NEW job \in {routing.job, deploy.job} PROVE SafeOn(job, proxy', wake')
    <3>1. SafeOn(job, proxy, wake) /\ (job.pc = "cleanup" => job.loaded[1].server \in Servers)
      BY <1>1, JobsAtWork DEF AppRow
    <3> QED
      BY <2>1, <2>3, <3>1 DEF SafeOn
  <2> QED
    BY <2>1, <2>4, <2>5 DEF WakerInv
<1>4. CASE WriteRouting
  <2>1. /\ Writing(routing.job) /\ WriteStep(routing.job) /\ UNCHANGED deploy
        /\ routing'.job = [routing.job EXCEPT !.pc = NextWrite(@)]
    BY <1>2, <1>4 DEF WriteRouting
  <2>2. routing.job.pc # "rest" /\ deploy'.job.pc = "rest"
    BY <1>1, <2>1 DEF Writing
  <2>3. routing'.job.loaded = routing.job.loaded /\ routing'.job.pc = NextWrite(routing.job.pc)
    BY <1>2, <2>1, <2>2, AppConstants DEF RoutingJobs
  <2>4. WakerKnowsItsApps' /\ SafeOn(routing'.job, proxy', wake')
    BY <1>1, <2>1, <2>2, <2>3, JobsAtWork, SafeToGoOn
  <2> QED
    BY <2>2, <2>4, SafeUnlessWriting DEF WakerInv
<1>5. CASE DeployRouting
  <2>1. /\ Writing(deploy.job) /\ WriteStep(deploy.job) /\ UNCHANGED routing
        /\ deploy'.job = [deploy.job EXCEPT !.pc = NextWrite(@)]
    BY <1>2, <1>5 DEF DeployRouting
  <2>2. deploy.job.pc # "rest" /\ routing'.job.pc = "rest"
    BY <1>1, <2>1 DEF Writing
  <2>3. deploy'.job.loaded = deploy.job.loaded /\ deploy'.job.pc = NextWrite(deploy.job.pc)
    BY <1>2, <2>1, <2>2, AppConstants DEF DeployJobs
  <2>4. WakerKnowsItsApps' /\ SafeOn(deploy'.job, proxy', wake')
    BY <1>1, <2>1, <2>2, <2>3, JobsAtWork, SafeToGoOn
  <2> QED
    BY <2>2, <2>4, SafeUnlessWriting DEF WakerInv
<1>6. CASE UNCHANGED <<proxy, wake>> /\ ~ WriteRouting /\ ~ DeployRouting
  <2>1. WakerKnowsItsApps'
    BY <1>1, <1>6 DEF WakerKnowsItsApps
  <2>2. SafeOn(routing'.job, proxy, wake)
    <3>1. CASE QueueRouting
      BY <1>1, <1>2, <3>1 DEF QueueRouting
    <3>2. CASE TakeRouting
      <4>1. routing'.job = Resting \/ routing'.job.pc = FirstWrite(routing'.job.loaded[1].route)
        BY <3>2 DEF TakeRouting
      <4> QED
        BY <1>2, <4>1, SafeToBegin, SafeUnlessWriting
    <3>3. CASE EndRouting \/ RoutingFault \/ AppWorkerDies
      <4>1. routing'.job = Resting
        BY <1>2, <3>3 DEF EndRouting, RoutingFault, AppWorkerDies
      <4> QED
        BY <1>2, <4>1, SafeUnlessWriting
    <3>4. CASE UNCHANGED routing
      BY <1>1, <3>4
    <3> QED
      BY <1>6, <3>1, <3>2, <3>3, <3>4, AppTouches
  <2>3. SafeOn(deploy'.job, proxy, wake)
    <3>1. CASE RequestDeploy
      BY <1>1, <1>2, <3>1 DEF RequestDeploy
    <3>2. CASE Switch
      BY <3>2, Switched, SafeToBegin
    <3>3. CASE TakeDeploy \/ MarkDeploying \/ DeployDone \/ DeployFails \/ AppWorkerDies
      <4>1. deploy.job # Resting => deploy.job \in [pc : FilePcs \cup {"mark", "switch", "done"}, action : {"none"}, loaded : Loaded]
        BY <1>2 DEF DeployJobs
      <4>2. deploy'.job.pc \in {"rest", "mark", "switch"}
        BY <1>2, <3>3, <4>1 DEF TakeDeploy, MarkDeploying, DeployDone, DeployFails, AppWorkerDies
      <4> QED
        BY <4>2, SafeUnlessWriting
    <3>4. CASE UNCHANGED deploy
      BY <1>1, <3>4
    <3> QED
      BY <1>6, <3>1, <3>2, <3>3, <3>4, AppTouches
  <2> QED
    BY <1>6, <2>1, <2>2, <2>3 DEF WakerInv
<1>7. ExecLifecycle \/ Switch => UNCHANGED <<proxy, wake>>
  BY DEF ExecLifecycle, Switch
<1> QED
  BY <1>3, <1>4, <1>5, <1>6, <1>7, AppTouches

----------------------------------------------------------------------------
(* Applications: the routing settles                                       *)

\* A job that writes route r on server s, and what it has written by now.
WritesOn(job, rt, s, files, entry) ==
    /\ job.loaded[1].route = rt /\ job.loaded[1].server = s
    /\ job.pc # "remove"
    /\ job.pc \in {"wake", "dynamic"} => Backend(rt) = "waker"
    /\ job.pc \in {"direct", "cleanup"} => Backend(rt) = "container"
    /\ job.pc \in {"dynamic", "done"} => entry[s] = WantedWake(rt)
    /\ job.pc \in {"cleanup", "done"} => files[s] = WantedFile(rt)
WritesRow(job) == WritesOn(job, app.route, app.server, proxy, wake)

\* Its routing is of interest: it was deployed, has a domain, and is not about to go.
Routed == app.exists /\ app.deployed # <<>> /\ app.route.domain # "none" /\ req.op \notin {"commitMove", "commitDelete"}

\* Unless another job waits, the job in progress writes the routing of the row; without one the routing is written.
RouteInv ==
    appUsed["fault"] = 0 /\ Routed /\ routing.queue = 0 =>
        /\ routing.job.pc # "rest" => WritesRow(routing.job)
        /\ deploy.job.pc # "rest" => WritesRow(deploy.job)
        /\ routing.job.pc = "rest" /\ deploy.job.pc \in {"rest", "mark"} =>
             proxy[app.server] = WantedFile(app.route) /\ wake[app.server] = WantedWake(app.route)

LEMMA RowBegins ==
  ASSUME NEW job, NEW rt, rt.domain # "none", NEW s, NEW files, NEW entry, job.loaded[1].route = rt, job.loaded[1].server = s,
         job.pc \in {"mark", "switch"} \/ job.pc = FirstWrite(rt)
  PROVE  WritesOn(job, rt, s, files, entry)
  BY DEF WritesOn, FirstWrite, Backend

LEMMA RowGoesOn ==
  ASSUME AppTyped, NEW job, NEW rt \in Route, rt.domain # "none", NEW s \in Servers, Writing(job), WritesOn(job, rt, s, proxy, wake),
         WriteStep(job), NEW next, next.loaded = job.loaded, next.pc = NextWrite(job.pc)
  PROVE  WritesOn(next, rt, s, proxy', wake')
<1>1. /\ job.loaded[1].route = rt /\ job.loaded[1].server = s /\ job.pc # "remove"
      /\ job.pc \in {"wake", "dynamic"} => Backend(rt) = "waker"
      /\ job.pc \in {"direct", "cleanup"} => Backend(rt) = "container"
      /\ job.pc = "dynamic" => wake[s] = WantedWake(rt)
      /\ job.pc = "cleanup" => proxy[s] = WantedFile(rt)
  BY DEF WritesOn
<1>2. \/ job.pc = "wake" /\ next.pc = "dynamic" /\ wake' = [wake EXCEPT ![s] = WantedWake(rt)]
      \/ job.pc = "dynamic" /\ next.pc = "done" /\ proxy' = [proxy EXCEPT ![s] = WantedFile(rt)] /\ UNCHANGED wake
      \/ job.pc = "direct" /\ next.pc = "cleanup" /\ proxy' = [proxy EXCEPT ![s] = WantedFile(rt)]
      \/ job.pc = "cleanup" /\ next.pc = "done" /\ wake' = [wake EXCEPT ![s] = NoWake] /\ UNCHANGED proxy
  BY <1>1 DEF WriteStep, NextWrite
<1>3. Backend(rt) = "container" => NoWake = WantedWake(rt)
  BY DEF WantedWake
<1>4. proxy \in [Servers -> RouteFile] /\ wake \in [Servers -> WakeFile]
  BY DEF AppTyped
<1> QED
  BY <1>1, <1>2, <1>3, <1>4 DEF WritesOn

\* What may happen to an application whose routing is of interest while nothing fails and no job waits for it.
LEMMA RoutedSteps ==
  ASSUME AppTyped, AppNext, Routed', routing'.queue = 0, appUsed'["fault"] = 0
  PROVE  \/ TakeRouting \/ WriteRouting \/ EndRouting \/ TakeDeploy \/ MarkDeploying \/ Switch \/ DeployRouting \/ DeployDone
         \/ /\ Routed /\ UNCHANGED <<proxy, wake, routing>> /\ deploy'.job = deploy.job
            /\ app'.route = app.route /\ app'.server = app.server
<1>1. /\ app \in AppRow /\ routing.queue \in Nat /\ routing \in [queue : Nat, job : RoutingJobs]
      /\ deploy \in [queue : Nat, job : DeployJobs]
      /\ appUsed \in [{"request", "deploy", "fault"} -> Nat]
  BY DEF AppTyped
<1>2. QueueRouting => routing'.queue # 0
  BY <1>1 DEF QueueRouting
<1>3. ASSUME NEW bound, UseApp("fault", bound) PROVE FALSE
  BY <1>1, <1>3 DEF UseApp
<1>4. /\ app'.exists /\ app'.deployed # <<>> /\ app'.route.domain # "none" /\ req'.op # "commitMove" /\ req'.op # "commitDelete"
  BY DEF Routed
<1>5. CASE \E f \in {"env", "limits", "advanced", "volumes"} : Edit(f)
  <2>1. PICK c : app' = [app EXCEPT !.conf = c]
    BY <1>5 DEF Edit
  <2> QED
    BY <1>1, <1>4, <1>5, <2>1 DEF Edit, Routed, AppRow
<1>6. ASSUME NEW d \in {"none", "a", "b"}, SetDomain(d) PROVE FALSE
  <2>1. app'.deployed = app.deployed
    BY <1>1, <1>6 DEF SetDomain, AppRow
  <2> QED
    BY <1>2, <1>4, <1>6, <2>1 DEF SetDomain
<1>7. ~ WriteSleep /\ ~ WriteProtection
  <2>1. ~ WriteProtection
    BY <1>2, <1>4 DEF WriteProtection
  <2>2. ASSUME WriteSleep PROVE FALSE
    <3>1. app.exists /\ app' = [app EXCEPT !.route.sleep = req.route.sleep]
      BY <1>4, <2>2 DEF WriteSleep
    <3>2. app' = [app EXCEPT !.route = [app.route EXCEPT !.sleep = req.route.sleep]]
      BY <1>1, <3>1
    <3>3. [app.route EXCEPT !.sleep = req.route.sleep].domain = app.route.domain
      BY <1>1 DEF AppRow, Route
    <3>4. app'.route.domain = app.route.domain
      BY <1>1, <3>2, <3>3 DEF AppRow
    <3> QED
      BY <1>2, <1>4, <2>2, <3>1, <3>4 DEF WriteSleep
  <2> QED
    BY <2>1, <2>2
<1>8. CASE \/ (\E on \in BOOLEAN : BeginSleep(on)) \/ (\E auth, maintenance \in BOOLEAN : BeginProtection(auth, maintenance))
           \/ (\E target \in Servers, force \in BOOLEAN : BeginMove(target, force)) \/ BeginDelete
  <2>1. req.op = "none" /\ UNCHANGED <<app, proxy, wake, routing, deploy>>
    BY <1>8, AppConstants DEF BeginSleep, BeginProtection, BeginMove, BeginDelete
  <2> QED
    BY <1>4, <2>1 DEF Routed
<1>9. ~ TearDown /\ ~ CommitMove /\ ~ CommitDelete
  <2>1. TearDown => req'.op \in {"commitMove", "commitDelete"}
    BY DEF TearDown, AppTyped, ReqTyped, AppRequests
  <2>2. CommitMove => app'.deployed = <<>>
    BY <1>1 DEF CommitMove, AppRow
  <2>3. CommitDelete => ~ app'.exists
    BY <1>1 DEF CommitDelete, AppRow
  <2> QED
    BY <1>4, <2>1, <2>2, <2>3
<1>10. CASE \/ (\E action \in Action : RequestLifecycle(action)) \/ TakeLifecycle \/ ExecLifecycle \/ SetLifecycleStatus
  <2>1. UNCHANGED <<proxy, wake, routing, deploy, req>>
    BY <1>10 DEF RequestLifecycle, TakeLifecycle, ExecLifecycle, SetLifecycleStatus
  <2>2. PICK st : app' = [app EXCEPT !.status = st]
    <3>1. UNCHANGED app \/ SetLifecycleStatus
      BY <1>10 DEF RequestLifecycle, TakeLifecycle, ExecLifecycle
    <3>2. app = [app EXCEPT !.status = app.status]
      BY <1>1 DEF AppRow
    <3> QED
      BY <3>1, <3>2 DEF SetLifecycleStatus
  <2> QED
    BY <1>1, <1>4, <2>1, <2>2 DEF Routed, AppRow
<1>11. ~ RoutingFault /\ ~ DeployFails /\ ~ AppWorkerDies
  BY <1>3 DEF RoutingFault, DeployFails, AppWorkerDies
<1>12. \A lost : ~ TearDownFails(lost)
  BY <1>3 DEF TearDownFails
<1>13. \A pc : ~ LifecycleFault(pc)
  BY <1>3 DEF LifecycleFault
<1>14. CASE RequestDeploy
  BY <1>1, <1>4, <1>14 DEF RequestDeploy, Routed
<1> QED
  BY <1>5, <1>6, <1>7, <1>8, <1>9, <1>10, <1>11, <1>12, <1>13, <1>14, AppActions

\* A deploy works on the server its application is on; what it has read is the baseline from the mark on, and what the container
\* runs with from the switch on.
ConfInv ==
    app.exists /\ req.op \notin {"commitMove", "commitDelete"} =>
        /\ deploy.job.pc # "rest" => deploy.job.loaded[1].server = app.server
        /\ deploy.job.pc \in FilePcs \cup {"switch", "done"} =>
             lastOk = FALSE /\ app.deployed = <<deploy.job.loaded[1].conf>>
        /\ deploy.job.pc \in FilePcs \cup {"done"} => container[app.server].conf = deploy.job.loaded[1].conf
        /\ lastOk /\ app.deployed # <<>> => container[app.server].conf = app.deployed[1]

LEMMA RoutingStillSettles ==
  ASSUME AppTyped, RouteInv, ConfInv, OneAtATime, OneAtATime', AppNext
  PROVE  RouteInv'
<1> SUFFICES ASSUME appUsed'["fault"] = 0, Routed', routing'.queue = 0
             PROVE  /\ routing'.job.pc # "rest" => WritesOn(routing'.job, app'.route, app'.server, proxy', wake')
                    /\ deploy'.job.pc # "rest" => WritesOn(deploy'.job, app'.route, app'.server, proxy', wake')
                    /\ routing'.job.pc = "rest" /\ deploy'.job.pc \in {"rest", "mark"} =>
                         proxy'[app'.server] = WantedFile(app'.route) /\ wake'[app'.server] = WantedWake(app'.route)
  BY DEF RouteInv, WritesRow
<1>1. /\ app \in AppRow /\ routing \in [queue : Nat, job : RoutingJobs] /\ deploy \in [queue : Nat, job : DeployJobs]
      /\ app.route \in Route /\ app.server \in Servers /\ Resting.pc = "rest"
  BY AppConstants DEF AppTyped, AppRow
<1>2. appUsed["fault"] = 0
  BY UseStaysTyped
<1>3. Routed /\ routing.queue = 0 =>
        /\ routing.job.pc # "rest" => WritesOn(routing.job, app.route, app.server, proxy, wake)
        /\ deploy.job.pc # "rest" => WritesOn(deploy.job, app.route, app.server, proxy, wake)
        /\ routing.job.pc = "rest" /\ deploy.job.pc \in {"rest", "mark"} =>
             proxy[app.server] = WantedFile(app.route) /\ wake[app.server] = WantedWake(app.route)
  BY <1>2 DEF RouteInv, WritesRow
<1>4. /\ deploy.job.pc # "rest" => routing.job.pc = "rest"
      /\ deploy'.job.pc # "rest" => routing'.job.pc = "rest"
      /\ deploy.job.pc = "mark" /\ app.exists /\ app.deployed = <<>> => app.route = deploy.job.loaded[1].route
  BY DEF OneAtATime
<1>5. /\ app'.exists /\ app'.deployed # <<>> /\ app'.route.domain # "none" /\ req'.op # "commitMove" /\ req'.op # "commitDelete"
  BY DEF Routed
<1>6. UNCHANGED <<app, req>> => Routed
  BY DEF Routed
<1>7. CASE TakeRouting
  <2>1. /\ UNCHANGED <<app, req, deploy, proxy, wake>> /\ routing.job.pc = "rest"
        /\ routing'.job = [pc |-> FirstWrite(app.route), action |-> "none", loaded |-> <<app>>]
    BY <1>5, <1>7 DEF TakeRouting
  <2>2. routing'.job.loaded[1] = app /\ routing'.job.pc = FirstWrite(app.route)
    BY <2>1
  <2>3. WritesOn(routing'.job, app.route, app.server, proxy, wake)
    BY <1>5, <2>1, <2>2, RowBegins
  <2>4. routing'.job.pc # "rest" /\ deploy.job.pc = "rest"
    BY <1>4, <2>1, <2>2 DEF FirstWrite
  <2> QED
    BY <2>1, <2>3, <2>4
<1>8. CASE WriteRouting
  <2>1. /\ UNCHANGED <<app, req, deploy>> /\ Writing(routing.job) /\ WriteStep(routing.job)
        /\ routing'.job = [routing.job EXCEPT !.pc = NextWrite(@)] /\ routing'.queue = routing.queue
    BY <1>1, <1>8 DEF WriteRouting
  <2>2. routing.job.pc # "rest" /\ deploy.job.pc = "rest"
    BY <1>4, <2>1 DEF Writing
  <2>3. WritesOn(routing.job, app.route, app.server, proxy, wake) /\ app.route.domain # "none"
    BY <1>3, <1>5, <1>6, <2>1, <2>2
  <2>4. routing'.job.loaded = routing.job.loaded /\ routing'.job.pc = NextWrite(routing.job.pc)
    BY <1>1, <2>1, <2>2 DEF RoutingJobs
  <2>5. WritesOn(routing'.job, app.route, app.server, proxy', wake')
    BY <1>1, <2>1, <2>3, <2>4, RowGoesOn
  <2>6. routing'.job.pc # "rest"
    BY <2>1, <2>4, WritesGoOn
  <2> QED
    BY <2>1, <2>2, <2>5, <2>6
<1>9. CASE EndRouting
  <2>1. /\ UNCHANGED <<app, req, deploy, proxy, wake>> /\ routing.job.pc = "done"
        /\ routing'.job = Resting /\ routing'.queue = routing.queue
    BY <1>1, <1>9 DEF EndRouting
  <2>2. WritesOn(routing.job, app.route, app.server, proxy, wake) /\ deploy.job.pc = "rest"
    BY <1>3, <1>4, <1>6, <2>1
  <2> QED
    BY <1>1, <2>1, <2>2 DEF WritesOn
<1>10. CASE TakeDeploy
  <2>1. /\ UNCHANGED <<app, req, routing, proxy, wake>> /\ deploy.job.pc = "rest"
        /\ deploy'.job = [pc |-> "mark", action |-> "none", loaded |-> <<app>>]
    BY <1>5, <1>10 DEF TakeDeploy
  <2>2. deploy'.job.loaded[1] = app /\ deploy'.job.pc = "mark"
    BY <2>1
  <2>3. WritesOn(deploy'.job, app.route, app.server, proxy, wake)
    BY <1>5, <2>1, <2>2, RowBegins
  <2> QED
    BY <1>3, <1>4, <1>6, <2>1, <2>2, <2>3
<1>11. CASE MarkDeploying
  <2>1. /\ UNCHANGED <<req, routing, proxy, wake>> /\ deploy.job.pc = "mark" /\ app.exists
        /\ app' = [app EXCEPT !.status = "deploying", !.deployed = <<deploy.job.loaded[1].conf>>]
        /\ deploy' = [deploy EXCEPT !.job.pc = "switch"]
    BY <1>5, <1>11 DEF MarkDeploying
  <2>2. app'.route = app.route /\ app'.server = app.server
    BY <1>1, <2>1 DEF AppRow
  <2>3. deploy'.job.loaded = deploy.job.loaded /\ deploy'.job.pc = "switch"
    BY <1>1, <2>1 DEF DeployJobs
  <2>4. deploy.job.loaded[1].server = app.server
    BY <1>5, <2>1 DEF ConfInv
  <2>5. deploy.job.loaded[1].route = app.route
    <3>1. CASE app.deployed = <<>>
      BY <1>4, <2>1, <3>1
    <3>2. CASE app.deployed # <<>>
      <4>1. Routed
        BY <1>5, <2>1, <2>2, <3>2 DEF Routed
      <4> QED
        BY <1>3, <2>1, <4>1 DEF WritesOn
    <3> QED
      BY <3>1, <3>2
  <2>6. WritesOn(deploy'.job, app.route, app.server, proxy, wake)
    BY <1>5, <2>2, <2>3, <2>4, <2>5, RowBegins
  <2> QED
    BY <1>4, <2>1, <2>2, <2>3, <2>6
<1>12. CASE Switch
  <2>1. UNCHANGED <<app, req, routing, proxy, wake>> /\ deploy.job.pc = "switch"
    BY <1>12 DEF Switch
  <2>2. deploy.job.loaded[1].route = app.route /\ deploy.job.loaded[1].server = app.server
    BY <1>3, <1>6, <2>1 DEF WritesOn
  <2>3. /\ deploy'.job.loaded[1].route = app.route /\ deploy'.job.loaded[1].server = app.server
        /\ deploy'.job.pc = FirstWrite(app.route) /\ deploy'.job.pc \in FilePcs
    BY <1>5, <1>12, <2>1, <2>2, Switched
  <2>4. WritesOn(deploy'.job, app.route, app.server, proxy, wake)
    BY <1>5, <2>1, <2>3, RowBegins
  <2>5. deploy'.job.pc \notin {"rest", "mark"} /\ routing.job.pc = "rest"
    BY <1>4, <2>1, <2>3 DEF FilePcs
  <2> QED
    BY <2>1, <2>4, <2>5
<1>13. CASE DeployRouting
  <2>1. /\ UNCHANGED <<app, req, routing>> /\ Writing(deploy.job) /\ WriteStep(deploy.job)
        /\ deploy'.job = [deploy.job EXCEPT !.pc = NextWrite(@)]
    BY <1>1, <1>13 DEF DeployRouting
  <2>2. deploy.job.pc # "rest" /\ routing.job.pc = "rest"
    BY <1>4, <2>1 DEF Writing
  <2>3. WritesOn(deploy.job, app.route, app.server, proxy, wake) /\ app.route.domain # "none"
    BY <1>3, <1>5, <1>6, <2>1, <2>2
  <2>4. deploy'.job.loaded = deploy.job.loaded /\ deploy'.job.pc = NextWrite(deploy.job.pc)
    BY <1>1, <2>1, <2>2 DEF DeployJobs
  <2>5. WritesOn(deploy'.job, app.route, app.server, proxy', wake')
    BY <1>1, <2>1, <2>3, <2>4, RowGoesOn
  <2>6. deploy'.job.pc \notin {"rest", "mark"}
    BY <2>1, <2>4, WritesGoOn
  <2> QED
    BY <2>1, <2>2, <2>5, <2>6
<1>14. CASE DeployDone
  <2>1. /\ UNCHANGED <<req, routing, proxy, wake>> /\ deploy.job.pc = "done" /\ app.exists
        /\ app' = [app EXCEPT !.status = "running"] /\ deploy'.job = Resting
    BY <1>1, <1>5, <1>14 DEF DeployDone
  <2>2. app'.route = app.route /\ app'.server = app.server /\ app'.deployed = app.deployed
    BY <1>1, <2>1 DEF AppRow
  <2>3. Routed
    BY <1>5, <2>1, <2>2 DEF Routed
  <2>4. WritesOn(deploy.job, app.route, app.server, proxy, wake) /\ routing.job.pc = "rest"
    BY <1>3, <1>4, <2>1, <2>3
  <2> QED
    BY <1>1, <2>1, <2>2, <2>4 DEF WritesOn
<1>15. CASE /\ Routed /\ UNCHANGED <<proxy, wake, routing>> /\ deploy'.job = deploy.job
            /\ app'.route = app.route /\ app'.server = app.server
  BY <1>3, <1>15
<1> QED
  BY <1>7, <1>8, <1>9, <1>10, <1>11, <1>12, <1>13, <1>14, <1>15, RoutedSteps

LEMMA ConfStays ==
  ASSUME AppTyped, ConfInv, OneAtATime, OneAtATime', AppNext
  PROVE  ConfInv'
<1> SUFFICES ASSUME app'.exists, req'.op \notin {"commitMove", "commitDelete"}
             PROVE  /\ deploy'.job.pc # "rest" => deploy'.job.loaded[1].server = app'.server
                    /\ deploy'.job.pc \in FilePcs \cup {"switch", "done"} =>
                         lastOk' = FALSE /\ app'.deployed = <<deploy'.job.loaded[1].conf>>
                    /\ deploy'.job.pc \in FilePcs \cup {"done"} => container'[app'.server].conf = deploy'.job.loaded[1].conf
                    /\ lastOk' /\ app'.deployed # <<>> => container'[app'.server].conf = app'.deployed[1]
  BY DEF ConfInv
<1>1. /\ app \in AppRow /\ deploy \in [queue : Nat, job : DeployJobs] /\ container \in Containers
      /\ app.server \in Servers /\ Resting.pc = "rest" /\ lastOk \in BOOLEAN
      /\ "rest" \notin FilePcs /\ "mark" \notin FilePcs /\ "switch" \notin FilePcs
  BY AppConstants DEF AppTyped, AppRow, FilePcs
<1>2. app.exists /\ req.op \notin {"commitMove", "commitDelete"} =>
        /\ deploy.job.pc # "rest" => deploy.job.loaded[1].server = app.server
        /\ deploy.job.pc \in FilePcs \cup {"switch", "done"} =>
             lastOk = FALSE /\ app.deployed = <<deploy.job.loaded[1].conf>>
        /\ deploy.job.pc \in FilePcs \cup {"done"} => container[app.server].conf = deploy.job.loaded[1].conf
        /\ lastOk /\ app.deployed # <<>> => container[app.server].conf = app.deployed[1]
  BY DEF ConfInv
<1> DEFINE SameConf == \A s \in Servers : container'[s].conf = container[s].conf
<1>3. CASE CommitMove
  <2>1. app'.deployed = <<>>
    BY <1>1, <1>3 DEF CommitMove, AppRow
  <2>2. deploy'.job.pc = "rest"
    BY <1>3 DEF CommitMove, OneAtATime
  <2> QED
    BY <1>1, <2>1, <2>2
<1>4. CASE MarkDeploying
  <2>1. /\ UNCHANGED <<req, container>> /\ deploy.job.pc = "mark" /\ app.exists /\ lastOk' = FALSE
        /\ app' = [app EXCEPT !.status = "deploying", !.deployed = <<deploy.job.loaded[1].conf>>]
        /\ deploy' = [deploy EXCEPT !.job.pc = "switch"]
    BY <1>4 DEF MarkDeploying
  <2>2. app'.server = app.server /\ app'.deployed = <<deploy.job.loaded[1].conf>>
    BY <1>1, <2>1 DEF AppRow
  <2>3. deploy'.job.loaded = deploy.job.loaded /\ deploy'.job.pc = "switch"
    BY <1>1, <2>1 DEF DeployJobs
  <2> QED
    BY <1>1, <1>2, <2>1, <2>2, <2>3
<1>5. CASE Switch
  <2>1. UNCHANGED <<app, req, lastOk>> /\ deploy.job.pc = "switch"
    BY <1>5 DEF Switch
  <2>2. /\ deploy.job.loaded[1].server = app.server /\ lastOk = FALSE /\ app.deployed = <<deploy.job.loaded[1].conf>>
    BY <1>2, <2>1
  <2>3. /\ deploy'.job.loaded[1].server = app.server /\ deploy'.job.loaded[1].conf = deploy.job.loaded[1].conf
        /\ deploy'.job.pc \in FilePcs
        /\ container' = [container EXCEPT ![app.server] = [state |-> "running", conf |-> deploy.job.loaded[1].conf]]
    BY <1>5, <2>2, Switched
  <2>4. container'[app.server].conf = deploy.job.loaded[1].conf
    BY <1>1, <2>3 DEF Containers
  <2> QED
    BY <2>1, <2>2, <2>3, <2>4
<1>6. CASE DeployRouting
  <2>1. /\ UNCHANGED <<app, req, lastOk>> /\ Writing(deploy.job) /\ WriteStep(deploy.job)
        /\ deploy'.job = [deploy.job EXCEPT !.pc = NextWrite(@)]
    BY <1>1, <1>6 DEF DeployRouting
  <2>2. deploy.job.pc \in FilePcs /\ deploy.job.pc # "rest" /\ deploy.job # Resting
    BY <1>1, <2>1, WritesGoOn
  <2>3. deploy'.job.loaded = deploy.job.loaded /\ deploy'.job.pc = NextWrite(deploy.job.pc)
    BY <1>1, <2>1, <2>2 DEF DeployJobs
  <2>4. SameConf
    BY <2>1, <2>2, JobsAtWork, WritesStayTyped
  <2> HIDE DEF SameConf
  <2>5. container'[app.server].conf = container[app.server].conf
    BY <1>1, <2>4 DEF SameConf
  <2> QED
    BY <1>2, <2>1, <2>2, <2>3, <2>5
<1>7. CASE DeployDone
  <2>1. /\ UNCHANGED <<req, container>> /\ deploy.job.pc = "done" /\ app.exists
        /\ app' = [app EXCEPT !.status = "running"] /\ deploy'.job = Resting
    BY <1>1, <1>7 DEF DeployDone
  <2>2. app'.server = app.server /\ app'.deployed = app.deployed
    BY <1>1, <2>1 DEF AppRow
  <2> QED
    BY <1>1, <1>2, <2>1, <2>2
<1>8. CASE TakeDeploy
  <2>1. /\ UNCHANGED <<app, req, container, lastOk>>
        /\ deploy'.job = [pc |-> "mark", action |-> "none", loaded |-> <<app>>]
    BY <1>8 DEF TakeDeploy
  <2>2. deploy'.job.loaded[1] = app /\ deploy'.job.pc = "mark"
    BY <2>1
  <2> QED
    BY <1>1, <1>2, <2>1, <2>2
<1>9. CASE DeployFails \/ AppWorkerDies
  <2>1. UNCHANGED <<req, container, lastOk>> /\ deploy'.job = Resting
    BY <1>1, <1>9 DEF DeployFails, AppWorkerDies
  <2>2. app'.server = app.server /\ app'.deployed = app.deployed /\ app.exists
    BY <1>1, <1>9 DEF DeployFails, AppWorkerDies, AppRow
  <2> QED
    BY <1>1, <1>2, <2>1, <2>2
<1>10. CASE ExecLifecycle
  <2>1. /\ UNCHANGED <<app, req, deploy, lastOk>>
    BY <1>10 DEF ExecLifecycle
  <2>2. PICK s, st : container' = container \/ container' = [container EXCEPT ![s].state = st]
    BY <1>10 DEF ExecLifecycle
  <2>3. container'[app.server].conf = container[app.server].conf
    BY <1>1, <2>2 DEF Containers
  <2> QED
    BY <1>2, <2>1, <2>3
<1>11. CASE WriteRouting
  <2>1. UNCHANGED <<app, req, deploy, lastOk>> /\ Writing(routing.job) /\ WriteStep(routing.job)
    BY <1>11 DEF WriteRouting
  <2>2. SameConf
    BY <2>1, JobsAtWork, WritesStayTyped DEF Writing
  <2> HIDE DEF SameConf
  <2>3. container'[app.server].conf = container[app.server].conf
    BY <1>1, <2>2 DEF SameConf
  <2> QED
    BY <1>2, <2>1, <2>3
<1>12. CASE /\ UNCHANGED <<container, lastOk>> /\ deploy'.job = deploy.job
            /\ app'.server = app.server /\ app'.deployed = app.deployed /\ app'.exists = app.exists
            /\ req.op \notin {"commitMove", "commitDelete"}
  BY <1>2, <1>12
<1>13. CASE \/ (\E f \in {"env", "limits", "advanced", "volumes"} : Edit(f)) \/ (\E d \in {"none", "a", "b"} : SetDomain(d))
            \/ WriteSleep \/ WriteProtection \/ SetLifecycleStatus
  <2>1. /\ UNCHANGED <<container, lastOk, deploy>> /\ req.op \notin {"commitMove", "commitDelete"}
    BY <1>13 DEF Edit, SetDomain, WriteSleep, WriteProtection, SetLifecycleStatus
  <2>2. app'.server = app.server /\ app'.deployed = app.deployed /\ app'.exists = app.exists
    BY <1>1, <1>13 DEF Edit, SetDomain, WriteSleep, WriteProtection, SetLifecycleStatus, AppRow
  <2> QED
    BY <1>12, <2>1, <2>2
<1>14. CASE \/ (\E on \in BOOLEAN : BeginSleep(on)) \/ (\E auth, maintenance \in BOOLEAN : BeginProtection(auth, maintenance))
            \/ (\E target \in Servers, force \in BOOLEAN : BeginMove(target, force)) \/ BeginDelete
  <2>1. UNCHANGED <<app, container, lastOk, deploy>> /\ req.op = "none"
    BY <1>14, AppConstants DEF BeginSleep, BeginProtection, BeginMove, BeginDelete
  <2> QED
    BY <1>12, <2>1
<1>15. CASE TearDown \/ CommitDelete \/ (\E lost \in BOOLEAN : TearDownFails(lost))
  <2>1. ~ TearDown
    BY DEF TearDown, AppTyped, ReqTyped, AppRequests
  <2>2. ~ CommitDelete
    BY <1>1 DEF CommitDelete, AppRow
  <2>3. (\E lost \in BOOLEAN : TearDownFails(lost)) => UNCHANGED <<app, container, lastOk, deploy>> /\ req.op \in {"move", "delete"}
    BY DEF TearDownFails
  <2> QED
    BY <1>12, <1>15, <2>1, <2>2, <2>3
<1>16. CASE /\ UNCHANGED <<app, container, lastOk, req>> /\ deploy'.job = deploy.job
  BY <1>12, <1>16
<1>17. CASE RequestDeploy
  <2>1. deploy'.job = deploy.job
    BY <1>1, <1>17 DEF RequestDeploy
  <2> QED
    BY <1>16, <1>17, <2>1 DEF RequestDeploy
<1>18. CASE \/ (\E action \in Action : RequestLifecycle(action)) \/ TakeLifecycle
            \/ (\E pc \in {"ok", "failed"} : LifecycleFault(pc)) \/ TakeRouting \/ EndRouting \/ RoutingFault
  <2>1. UNCHANGED <<app, container, lastOk, req, deploy>>
    BY <1>18 DEF RequestLifecycle, TakeLifecycle, LifecycleFault, TakeRouting, EndRouting, RoutingFault
  <2> QED
    BY <1>16, <2>1
<1> QED
  BY <1>3, <1>4, <1>5, <1>6, <1>7, <1>8, <1>9, <1>10, <1>11, <1>13, <1>14, <1>15, <1>17, <1>18, AppActions

\* The three properties, from the invariants.
LEMMA ServedAsConfigured ==
  ASSUME AppTyped, WakerInv, RouteInv, ConfInv
  PROVE  RoutingSettles /\ WakerKnowsItsApps /\ NothingPendingMeansCurrent
<1>1. /\ app \in AppRow /\ Resting.pc = "rest" /\ NoAppReq.op = "none"
  BY AppConstants DEF AppTyped
<1>2. RoutingSettles
  <2> SUFFICES ASSUME AppQuiet, appUsed["fault"] = 0, app.exists, app.deployed # <<>>, app.route.domain # "none"
               PROVE  proxy[app.server] = WantedFile(app.route) /\ wake[app.server] = WantedWake(app.route)
    BY DEF RoutingSettles
  <2>1. Routed /\ routing.queue = 0 /\ routing.job.pc = "rest" /\ deploy.job.pc = "rest"
    BY <1>1 DEF AppQuiet, Routed
  <2> QED
    BY <2>1 DEF RouteInv
<1>3. NothingPendingMeansCurrent
  <2> SUFFICES ASSUME AppQuiet, lastOk, app.exists, app.deployed # <<>>, pendingChanges = {}
               PROVE  container[app.server].conf = app.conf
    BY DEF NothingPendingMeansCurrent
  <2>1. req.op \notin {"commitMove", "commitDelete"}
    BY <1>1 DEF AppQuiet
  <2>2. container[app.server].conf = app.deployed[1]
    BY <2>1 DEF ConfInv
  <2>3. PICK c \in SUBSET Fields : app.deployed = <<c>>
    BY <1>1 DEF AppRow, Snapshot
  <2>4. app.deployed[1] = c /\ app.conf \in SUBSET Fields
    BY <1>1, <2>3 DEF AppRow
  <2>5. (app.conf \ c) \cup (c \ app.conf) = {}
    BY <2>3, <2>4 DEF pendingChanges
  <2>6. app.conf = c
    BY <2>5
  <2> QED
    BY <2>2, <2>4, <2>6
<1> QED
  BY <1>2, <1>3 DEF WakerInv

LEMMA ApplicationsBegin ==
  ASSUME AppInit
  PROVE  AppTyped /\ WakerInv /\ RouteInv /\ ConfInv
<1> USE DEF AppInit
<1>1. PICK s \in Servers :
        app = [exists |-> TRUE, status |-> "idle", server |-> s, route |-> NoRoute, conf |-> {}, deployed |-> <<>>]
  OBVIOUS
<1>2. NoRoute \in Route /\ app \in AppRow
  <2>1. NoRoute \in Route
    BY DEF NoRoute, Route, Domain
  <2> QED
    BY <1>1, <2>1 DEF AppRow, Status, Snapshot
<1>3. container \in Containers /\ proxy \in [Servers -> RouteFile] /\ wake \in [Servers -> WakeFile]
  BY DEF NoContainer, Containers, NoFile, RouteFile, Domain, NoWake, WakeFile
<1>4. lifecycle \in [queue : Seq(Action), job : LifecycleJobs]
  <2>1. <<>> \in Seq(Action)
    BY EmptyQueue
  <2> QED
    BY <2>1 DEF LifecycleJobs
<1>5. routing \in [queue : Nat, job : RoutingJobs] /\ deploy \in [queue : Nat, job : DeployJobs]
  BY DEF RoutingJobs, DeployJobs
<1>6. ReqTyped
  BY <1>2 DEF ReqTyped, AppRequests, NoAppReq
<1>7. AppTyped
  BY <1>2, <1>3, <1>4, <1>5, <1>6 DEF AppTyped
<1>8. routing.job.pc = "rest" /\ deploy.job.pc = "rest" /\ app.deployed = <<>> /\ lastOk = FALSE
  BY <1>1 DEF Resting
<1>9. WakerInv
  BY <1>8 DEF WakerInv, WakerKnowsItsApps, SafeOn, NoFile
<1> QED
  BY <1>7, <1>8, <1>9 DEF RouteInv, Routed, ConfInv, FilePcs

\* And when the application does not move.
LEMMA ApplicationsStay ==
  ASSUME UNCHANGED appVars, AppTyped, WakerInv, RouteInv, ConfInv
  PROVE  AppTyped' /\ WakerInv' /\ RouteInv' /\ ConfInv'
<1>1. AppTyped'
  BY DEF appVars, AppTyped, ReqTyped
<1>2. WakerInv'
  BY DEF appVars, WakerInv, WakerKnowsItsApps, SafeOn
<1>3. RouteInv'
  BY DEF appVars, RouteInv, Routed, WritesRow, WritesOn
<1>4. ConfInv'
  BY DEF appVars, ConfInv
<1> QED
  BY <1>1, <1>2, <1>3, <1>4

----------------------------------------------------------------------------
(* The theorems                                                            *)

LEMMA ServersAreTyped == ASSUME ServerTyped PROVE ServerTypeOK
<1>1. MachineTyped /\ ProxyTyped /\ TunnelTyped /\ CaTyped
  BY DEF ServerTyped
<1>2. /\ pq.queue \in Seq({"provision", "restart", "panel"}) /\ tq.queue \in Seq({"install", "remove"})
      /\ cq.queue \in Seq({"install", "remove"})
      /\ pq.pc \in {"rest", "static", "page", "run", "waker", "restart", "panel", "done", "failed"}
  BY <1>1 DEF ProxyTyped, TunnelTyped, CaTyped, ProxyWork, LinkWork
<1> QED
  BY <1>1, <1>2 DEF ServerTypeOK, MachineTyped, ServerRow, Machine

LEMMA DatabasesAreTyped == ASSUME DbTyped PROVE DbTypeOK
  BY DEF DbTyped, DbTypeOK, DbRow, DbBox

LEMMA ResourcesStayConsistent == ResourcesSpec => [](ServerInv /\ DbInv /\ SvcInv)
<1>1. ResourcesInit => ServerInv /\ DbInv /\ SvcInv
  BY ServerInvInit, DbInvInit, SvcInvInit DEF ResourcesInit
<1>2. ServerInv /\ DbInv /\ SvcInv /\ [ResourcesNext]_<<vars, appVars, serverVars, dbVars, svcVars, focus>>
      => (ServerInv /\ DbInv /\ SvcInv)'
  BY ResourceSteps, ServerInvStep, DbInvStep, SvcInvStep
<1> QED
  BY <1>1, <1>2, PTL DEF ResourcesSpec

\* Whatever requests, jobs, lost connections and deaths of a worker do in whatever order, a server or a tunnel recorded as
\* being set up, and a database or a service recorded as being provisioned, has a job waiting or running that will take
\* the row out of it, but for a job its queue gave up (provisionProxy.ts, tunnel.ts, provisionDatabase.ts,
\* provisionService.ts).
THEOREM WorkAlwaysOwned == ResourcesSpec => []WorkIsOwned
<1>1. ServerInv /\ DbInv /\ SvcInv => WorkIsOwned
  BY ServerInvSays, DbInvSays, SvcInvSays DEF WorkIsOwned
<1> QED
  BY <1>1, ResourcesStayConsistent, PTL

\* Once the jobs about a server, a database or a service are through, what stands on the machine is what the row says: the
\* proxy with its settings, the tunnel and the cleanups; the port, limits and image of a database; the containers and the
\* maintenance router of a service; and what was deleted in peace left no container, mount or router behind (servers.ts,
\* databases.ts, services.ts with their jobs).
THEOREM MachinesAlwaysMatch == ResourcesSpec => []RowsMatchMachines
<1>1. ServerInv /\ DbInv /\ SvcInv => RowsMatchMachines
  BY ServerInvSays, DbInvSays, SvcInvSays DEF RowsMatchMachines
<1> QED
  BY <1>1, ResourcesStayConsistent, PTL

LEMMA ResourcesStayTyped == ResourcesSpec => [](AppTyped /\ OneHost)
<1>1. ResourcesInit => AppTyped /\ OneHost
  <2>1. ASSUME SvcInit PROVE OneHost
    <3>1. Cardinality({}) <= 1
      BY FS_EmptySet
    <3>2. \A s \in Svcs : svcRow[s].hosts = {}
      BY <2>1 DEF SvcInit, NoServiceRow
    <3> QED
      BY <3>1, <3>2 DEF OneHost
  <2> QED
    BY <2>1, ApplicationsBegin DEF ResourcesInit
<1>2. /\ SvcInv /\ AppTyped /\ OneHost /\ [ResourcesNext]_<<vars, appVars, serverVars, dbVars, svcVars, focus>>
      => AppTyped' /\ OneHost'
  <2> SUFFICES ASSUME SvcInv, AppTyped, OneHost, [AppNext]_appVars, [SvcNext]_svcVars PROVE AppTyped' /\ OneHost'
    BY ResourceSteps
  <2>1. AppTyped'
    BY ApplicationsStayTyped DEF appVars, AppTyped, ReqTyped
  <2>2. OneHost'
    BY OneHostStays DEF SvcInv, svcVars, OneHost
  <2> QED
    BY <2>1, <2>2
<1> QED
  BY <1>1, <1>2, ResourcesStayConsistent, PTL DEF ResourcesSpec

\* Every variable of the applications, servers, databases and services keeps its type: a job in progress is at a step of its
\* own kind and holds a row, a request in progress names servers of the team, and a single container has at most one
\* hostname (applications.ts, servers.ts, databases.ts, services.ts with their jobs).
THEOREM ResourcesTypeCorrect == ResourcesSpec => []ResourcesTypeOK
<1>1. ServerInv /\ DbInv /\ SvcInv /\ AppTyped /\ OneHost => ResourcesTypeOK
  BY ApplicationsAreTyped, ServersAreTyped, DatabasesAreTyped, ServicesAreTyped DEF ResourcesTypeOK, ServerInv, DbInv, SvcInv
<1> QED
  BY <1>1, ResourcesStayConsistent, ResourcesStayTyped, PTL

\* While a deploy keeps apart from routing jobs and moves (OneAtATime), an application is served as its row says once its
\* jobs are through: its domain, sign-in and maintenance page by the proxy, scale to zero by the waker, which at every moment
\* knows what the proxy sends it; and without pending changes the container runs with the settings of the row
\* (appRouting.ts, applicationRouting.ts, deployApplication.ts, applications.ts).
THEOREM AppAlwaysServed == ResourcesSpec /\ []OneAtATime => []AppServedAsConfigured
<1>1. ResourcesInit => WakerInv /\ RouteInv /\ ConfInv
  BY ApplicationsBegin DEF ResourcesInit
<1>2. /\ AppTyped /\ WakerInv /\ RouteInv /\ ConfInv /\ OneAtATime /\ OneAtATime'
      /\ [ResourcesNext]_<<vars, appVars, serverVars, dbVars, svcVars, focus>>
      => WakerInv' /\ RouteInv' /\ ConfInv'
  <2> SUFFICES ASSUME AppTyped, WakerInv, RouteInv, ConfInv, OneAtATime, OneAtATime', [AppNext]_appVars
               PROVE  WakerInv' /\ RouteInv' /\ ConfInv'
    BY ResourceSteps
  <2>1. CASE AppNext
    BY <2>1, WakerStillKnows, RoutingStillSettles, ConfStays
  <2>2. CASE UNCHANGED appVars
    BY <2>2, ApplicationsStay
  <2> QED
    BY <2>1, <2>2
<1>3. AppTyped /\ WakerInv /\ RouteInv /\ ConfInv => AppServedAsConfigured
  BY ServedAsConfigured DEF AppServedAsConfigured
<1> QED
  BY <1>1, <1>2, <1>3, ResourcesStayTyped, PTL DEF ResourcesSpec

=============================================================================
