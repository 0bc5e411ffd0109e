------------------------------- MODULE Waker -------------------------------
(***************************************************************************)
(* The waker of one application: the proxy on a managed server that holds  *)
(* a request while the application's container starts, forwards it, and    *)
(* stops the container once it was idle for long enough.                   *)
(*                                                                         *)
(* The waker is a single Node process, so a step is what runs between two  *)
(* awaits.  Requests, the wake-up they share and the sweeps interleave     *)
(* over the state object of the application.  The panel rewrites the       *)
(* application's configuration file meanwhile; a file that cannot be       *)
(* parsed drops the object, and a later one makes a fresh object while     *)
(* requests and sweeps may still hold the old one.                         *)
(*                                                                         *)
(* Time is kept as ages that saturate: how many ticks ago an object saw    *)
(* traffic and was checked.  A tick is longer than the two seconds for     *)
(* which loadConfig does not read the files again.                         *)
(***************************************************************************)
EXTENDS Integers, FiniteSets

CONSTANTS
    Requests,      \* request slots, reused
    Sweeps,        \* sweeps that may overlap (one is started every 15 seconds)
    IdleTicks,     \* idleSeconds
    CheckTicks,    \* CHECK_MS, shorter than any idleSeconds the panel accepts
    MaxWrites,     \* changes of the configuration file
    MaxRestarts,   \* restarts of the waker
    MaxFaults,     \* Docker API failures and crashes of the application
    MaxOutside     \* docker start, stop, rm and run by others (the panel's jobs)

ASSUME WakerAssumption ==
    /\ IsFiniteSet(Requests)
    /\ CheckTicks \in Nat \ {0} /\ IdleTicks \in Nat /\ IdleTicks > CheckTicks
    /\ MaxWrites \in Nat /\ MaxRestarts \in Nat /\ MaxFaults \in Nat /\ MaxOutside \in Nat

VARIABLES
    file,        \* the application's file in WAKER_CONFIG_DIR
    writing,     \* the configuration a writeRemoteFile is about to put in it
    apps,        \* the object in the apps map, 0 when there is none
    obj,         \* the state objects
    made,        \* how many of them there have been
    throttled,   \* loadConfig ran less than two seconds ago
    container,   \* the application's container
    req,         \* requests and upgrades, as their handlers keep them
    sweep,       \* sweeps in progress
    quiet,       \* history: ticks since the application last had a visitor
    used         \* what was used up of the bounds

vars == <<file, writing, apps, obj, made, throttled, container, req, sweep, quiet, used>>

\* what a configuration turns on, one of the two at least; idleSeconds is 0 without "sleep"
Config == {{"sleep"}, {"maintenance"}, {"sleep", "maintenance"}}
NoFile == {}
Torn == {"torn"}
Objects == 1 .. (MaxWrites + 1)

NewState(c) == [up |-> FALSE, check |-> CheckTicks, last |-> 0, inflight |-> 0, waking |-> "no", cfg |-> c]
NoRequest == [pc |-> "none", kind |-> "http", o |-> 0, open |-> FALSE]
NoSweep == [pc |-> "rest", o |-> 0, idle |-> {}]

StateObject == [up : BOOLEAN, check : 0 .. CheckTicks, last : 0 .. IdleTicks, inflight : 0 .. Cardinality(Requests),
                waking : {"no", "inspect", "running", "start", "port", "failed"}, cfg : Config \cup {NoFile}]
Request == [pc : {"none", "waiting", "forwarding", "connected", "answered"}, kind : {"http", "upgrade"},
            o : Objects \cup {0}, open : BOOLEAN]
Sweep == [pc : {"rest", "visit", "stop", "stopping", "stopped"}, o : Objects \cup {0}, idle : SUBSET Objects]
Bounded == {"write", "restart", "fault", "outside"}

TypeOK ==
    /\ file \in Config \cup {NoFile, Torn} /\ writing \in Config \cup {NoFile}
    /\ obj \in [Objects -> StateObject]
    /\ made \in 0 .. (MaxWrites + 1) /\ apps \in 0 .. made
    /\ throttled \in BOOLEAN
    /\ container \in {"up", "booting", "stopping", "down", "absent"}
    /\ req \in [Requests -> Request]
    /\ sweep \in [Sweeps -> Sweep]
    /\ quiet \in 0 .. IdleTicks
    /\ used \in [Bounded -> Nat]

UseUp(what, bound) == used[what] < bound /\ used' = [used EXCEPT ![what] = @ + 1]

----------------------------------------------------------------------------
(* Configuration                                                           *)

\* loadConfig: what the map and its objects are once the handler that calls it goes on
Loaded ==
    IF throttled THEN [apps |-> apps, obj |-> obj, made |-> made]
    ELSE IF file \notin Config THEN [apps |-> 0, obj |-> obj, made |-> made]
    ELSE IF apps # 0 THEN [apps |-> apps, obj |-> [obj EXCEPT ![apps].cfg = file], made |-> made]
    ELSE [apps |-> made + 1, obj |-> [obj EXCEPT ![made + 1] = NewState(file)], made |-> made + 1]

\* state.last = Date.now(): no sweep that started earlier finds the object idle
Touched(s, o) == [t \in Sweeps |-> [s[t] EXCEPT !.idle = @ \ {o}]]

\* writeRemoteFile truncates the file before it writes it
OpenConfig(c) ==
    /\ writing = NoFile
    /\ UseUp("write", MaxWrites)
    /\ file' = Torn
    /\ writing' = c
    /\ UNCHANGED <<apps, obj, made, throttled, container, req, sweep, quiet>>

FinishConfig ==
    /\ writing # NoFile
    /\ file' = writing
    /\ writing' = NoFile
    /\ UNCHANGED <<apps, obj, made, throttled, container, req, sweep, quiet, used>>

\* writeAppRouting without sleep and maintenance: the file goes, the container is started
RemoveConfig ==
    /\ file \in Config
    /\ UseUp("write", MaxWrites)
    /\ file' = NoFile
    /\ container' = IF container = "down" THEN "booting" ELSE container
    /\ UNCHANGED <<writing, apps, obj, made, throttled, req, sweep, quiet>>

----------------------------------------------------------------------------
(* Requests                                                                *)

\* mutant: upgrades are not counted
AdmitHttpOnly(r, kind, o, objs) ==
    LET s == objs[o]
        cached == s.up /\ s.check < CheckTicks
    IN  /\ req' = [req EXCEPT ![r] = [pc |-> IF cached THEN "forwarding" ELSE "waiting", kind |-> kind,
                                      o |-> o, open |-> TRUE]]
        /\ obj' = [objs EXCEPT ![o].inflight = IF kind = "http" THEN @ + 1 ELSE @,
                               ![o].last = IF kind = "http" THEN 0 ELSE @,
                               ![o].waking = IF ~cached /\ @ = "no" THEN "inspect" ELSE @]
        /\ sweep' = IF kind = "http" THEN Touched(sweep, o) ELSE sweep
        /\ quiet' = 0

\* mutant: a check never expires
AdmitCachedForever(r, kind, o, objs) ==
    LET s == objs[o]
        cached == s.up
    IN  /\ req' = [req EXCEPT ![r] = [pc |-> IF cached THEN "forwarding" ELSE "waiting", kind |-> kind,
                                      o |-> o, open |-> TRUE]]
        /\ obj' = [objs EXCEPT ![o].inflight = @ + 1,
                               ![o].last = IF kind = "http" THEN 0 ELSE @,
                               ![o].waking = IF ~cached /\ @ = "no" THEN "inspect" ELSE @]
        /\ sweep' = IF kind = "http" THEN Touched(sweep, o) ELSE sweep
        /\ quiet' = 0

\* ensureUp: at once, with the wake-up in progress, or with a new one
Admit(r, kind, o, objs) ==
    LET s == objs[o]
        cached == s.up /\ s.check < CheckTicks
    IN  /\ req' = [req EXCEPT ![r] = [pc |-> IF cached THEN "forwarding" ELSE "waiting", kind |-> kind,
                                      o |-> o, open |-> TRUE]]
        /\ obj' = [objs EXCEPT ![o].inflight = @ + 1,
                               ![o].last = IF kind = "http" THEN 0 ELSE @,
                               ![o].waking = IF ~cached /\ @ = "no" THEN "inspect" ELSE @]
        /\ sweep' = IF kind = "http" THEN Touched(sweep, o) ELSE sweep
        /\ quiet' = 0

\* a request whose host has no entry, or is in maintenance, is answered at once
Arrive(r, kind) ==
    /\ req[r] = NoRequest
    /\ LET m == Loaded
           served == m.apps # 0 /\ "maintenance" \notin m.obj[m.apps].cfg
       IN  /\ apps' = m.apps
           /\ made' = m.made
           /\ IF served THEN Admit(r, kind, m.apps, m.obj)
              ELSE obj' = m.obj /\ UNCHANGED <<req, sweep, quiet>>
    /\ throttled' = TRUE
    /\ UNCHANGED <<file, writing, container, used>>

\* the upstream connection is tried; a failed one makes an HTTP handler forget that the container is up
Forward(r) ==
    LET o == req[r].o IN
    /\ req[r].pc = "forwarding"
    /\ \/ /\ container \in {"up", "stopping"}
          /\ req' = [req EXCEPT ![r] = IF @.open THEN [@ EXCEPT !.pc = "connected"] ELSE NoRequest]
          /\ UNCHANGED obj
       \/ /\ container # "up"
          /\ req' = [req EXCEPT ![r] = IF @.open THEN [@ EXCEPT !.pc = "answered"] ELSE NoRequest]
          /\ obj' = IF req[r].kind = "http" THEN [obj EXCEPT ![o].up = FALSE] ELSE obj
    /\ UNCHANGED <<file, writing, apps, made, throttled, container, sweep, quiet, used>>

\* mutant: done runs again for a connection that is closed already
CloseAgain(r) ==
    LET o == req[r].o IN
    /\ req[r].pc # "none"
    /\ req' = [req EXCEPT ![r] = IF @.pc \in {"connected", "answered"} THEN NoRequest ELSE [@ EXCEPT !.open = FALSE]]
    /\ obj' = [obj EXCEPT ![o].inflight = @ - 1, ![o].last = 0]
    /\ sweep' = Touched(sweep, o)
    /\ quiet' = 0
    /\ UNCHANGED <<file, writing, apps, made, throttled, container, used>>

\* mutant: the end of a request is not traffic
CloseKeepsLast(r) ==
    LET o == req[r].o IN
    /\ req[r].open
    /\ req' = [req EXCEPT ![r] = IF @.pc \in {"connected", "answered"} THEN NoRequest ELSE [@ EXCEPT !.open = FALSE]]
    /\ obj' = [obj EXCEPT ![o].inflight = @ - 1]
    /\ UNCHANGED sweep
    /\ quiet' = 0
    /\ UNCHANGED <<file, writing, apps, made, throttled, container, used>>

\* mutant: a client that leaves during the wake-up is not uncounted
CloseLeaksWaiting(r) ==
    LET o == req[r].o IN
    /\ req[r].open
    /\ req' = [req EXCEPT ![r] = IF @.pc \in {"connected", "answered"} THEN NoRequest ELSE [@ EXCEPT !.open = FALSE]]
    /\ obj' = [obj EXCEPT ![o].inflight = IF req[r].pc = "waiting" THEN @ ELSE @ - 1, ![o].last = 0]
    /\ sweep' = Touched(sweep, o)
    /\ quiet' = 0
    /\ UNCHANGED <<file, writing, apps, made, throttled, container, used>>

\* done: the response or the socket is closed, by either side and whatever the handler awaits
Close(r) ==
    LET o == req[r].o IN
    /\ req[r].open
    /\ req' = [req EXCEPT ![r] = IF @.pc \in {"connected", "answered"} THEN NoRequest ELSE [@ EXCEPT !.open = FALSE]]
    /\ obj' = [obj EXCEPT ![o].inflight = @ - 1, ![o].last = 0]
    /\ sweep' = Touched(sweep, o)
    /\ quiet' = 0
    /\ UNCHANGED <<file, writing, apps, made, throttled, container, used>>

----------------------------------------------------------------------------
(* The wake-up the requests of an object share                             *)

Waiting(o) == {r \in Requests : req[r].o = o /\ req[r].pc = "waiting"}
SetWaking(o, from, to) == obj[o].waking = from /\ obj' = [obj EXCEPT ![o].waking = to]

Inspect(o) ==
    /\ SetWaking(o, "inspect", CASE container = "absent" -> "failed" [] container = "down" -> "start" [] OTHER -> "running")
    /\ UNCHANGED <<file, writing, apps, made, throttled, container, req, sweep, quiet, used>>

StartContainer(o) ==
    /\ SetWaking(o, "start", IF container = "absent" THEN "failed" ELSE "port")
    /\ container' = IF container = "down" THEN "booting" ELSE container
    /\ UNCHANGED <<file, writing, apps, made, throttled, req, sweep, quiet, used>>

\* state.up is set and every waiting handler goes on before anything else runs
WakeDone(o) ==
    /\ obj[o].waking = "running" \/ (obj[o].waking = "port" /\ container = "up")
    /\ obj' = [obj EXCEPT ![o].up = TRUE, ![o].check = 0, ![o].waking = "no"]
    /\ req' = [r \in Requests |-> IF r \in Waiting(o) THEN [req[r] EXCEPT !.pc = "forwarding"] ELSE req[r]]
    /\ UNCHANGED <<file, writing, apps, made, throttled, container, sweep, quiet, used>>

\* the waiting handlers answer 504; only those of HTTP requests set state.up
FailWaiting(o) ==
    /\ obj' = [obj EXCEPT ![o].waking = "no",
                          ![o].up = @ /\ \A r \in Waiting(o) : req[r].kind # "http"]
    /\ req' = [r \in Requests |-> IF r \notin Waiting(o) THEN req[r]
                                  ELSE IF req[r].open THEN [req[r] EXCEPT !.pc = "answered"] ELSE NoRequest]

\* mutant: waitForPort has no deadline
WakeFailedNoDeadline(o) ==
    /\ obj[o].waking = "failed"
    /\ FailWaiting(o)
    /\ UNCHANGED <<file, writing, apps, made, throttled, container, sweep, quiet, used>>

WakeFailed(o) ==
    /\ \/ obj[o].waking = "failed"
       \/ obj[o].waking = "port" /\ container # "up"       \* the port did not answer in time
    /\ FailWaiting(o)
    /\ UNCHANGED <<file, writing, apps, made, throttled, container, sweep, quiet, used>>

DockerFails(o) ==
    /\ obj[o].waking \in {"inspect", "start"}
    /\ UseUp("fault", MaxFaults)
    /\ FailWaiting(o)
    /\ UNCHANGED <<file, writing, apps, made, throttled, container, sweep, quiet>>

----------------------------------------------------------------------------
(* The sweep                                                               *)

SetSweep(s, pc) == sweep' = [sweep EXCEPT ![s].pc = pc]
EndSweep(s) == sweep' = [sweep EXCEPT ![s] = NoSweep]

StartSweep(s) ==
    /\ sweep[s] = NoSweep
    /\ LET m == Loaded IN
       /\ apps' = m.apps
       /\ obj' = m.obj
       /\ made' = m.made
       /\ sweep' = [sweep EXCEPT ![s] = [pc |-> "visit", o |-> 0,
                                         idle |-> {o \in Objects : o = m.apps /\ m.obj[o].last = IdleTicks}]]
    /\ throttled' = TRUE
    /\ UNCHANGED <<file, writing, container, req, quiet, used>>

MayStop(s, o) ==
    /\ o # 0
    /\ obj[o].up /\ obj[o].waking = "no" /\ obj[o].inflight = 0
    /\ "sleep" \in obj[o].cfg
    /\ o \in sweep[s].idle

\* the loop reaches this application, perhaps after it waited for others to stop
Visit(s) ==
    /\ sweep[s].pc = "visit"
    /\ IF MayStop(s, apps) THEN sweep' = [sweep EXCEPT ![s] = [pc |-> "stop", o |-> apps, idle |-> {}]]
                           ELSE EndSweep(s)
    /\ UNCHANGED <<file, writing, apps, obj, made, throttled, container, req, quiet, used>>

\* POST /stop?t=10 reaches the daemon, which answers when the container has exited
StopContainer(s) ==
    /\ sweep[s].pc = "stop"
    /\ IF container \in {"down", "absent"}
       THEN SetSweep(s, "stopped") /\ UNCHANGED container
       ELSE SetSweep(s, "stopping") /\ container' = "stopping"
    /\ UNCHANGED <<file, writing, apps, obj, made, throttled, req, quiet, used>>

\* the status of the answer is not looked at: a refused stop counts as done
StopRefused(s) ==
    /\ sweep[s].pc = "stop"
    /\ UseUp("fault", MaxFaults)
    /\ SetSweep(s, "stopped")
    /\ UNCHANGED <<file, writing, apps, obj, made, throttled, container, req, quiet>>

\* no answer at all: the catch only logs
StopThrows(s) ==
    /\ sweep[s].pc = "stop"
    /\ UseUp("fault", MaxFaults)
    /\ EndSweep(s)
    /\ UNCHANGED <<file, writing, apps, obj, made, throttled, container, req, quiet>>

Slept(s) ==
    /\ sweep[s].pc = "stopped"
    /\ obj' = [obj EXCEPT ![sweep[s].o].up = FALSE]
    /\ EndSweep(s)
    /\ UNCHANGED <<file, writing, apps, made, throttled, container, req, quiet, used>>

----------------------------------------------------------------------------
(* The container, others who use it, time and restarts                     *)

ContainerExits ==
    /\ container = "stopping"
    /\ container' = "down"
    /\ sweep' = [s \in Sweeps |-> IF sweep[s].pc = "stopping" THEN [sweep[s] EXCEPT !.pc = "stopped"] ELSE sweep[s]]
    /\ UNCHANGED <<file, writing, apps, obj, made, throttled, req, quiet, used>>

Boots ==
    /\ container = "booting"
    /\ container' = "up"
    /\ UNCHANGED <<file, writing, apps, obj, made, throttled, req, sweep, quiet, used>>

Crashes ==
    /\ container \in {"up", "booting"}
    /\ UseUp("fault", MaxFaults)
    /\ container' = "down"
    /\ UNCHANGED <<file, writing, apps, obj, made, throttled, req, sweep, quiet>>

\* a lifecycle job, the memory guard or a deploy
Outside ==
    /\ UseUp("outside", MaxOutside)
    /\ \/ container = "up" /\ container' = "stopping"
       \/ container = "down" /\ container' \in {"booting", "absent"}
       \/ container = "absent" /\ container' = "booting"
    /\ UNCHANGED <<file, writing, apps, obj, made, throttled, req, sweep, quiet>>

Older(age, limit) == IF age < limit THEN age + 1 ELSE age

Tick ==
    /\ throttled' = FALSE
    /\ obj' = [o \in Objects |-> [obj[o] EXCEPT !.last = Older(@, IdleTicks), !.check = Older(@, CheckTicks)]]
    /\ quiet' = Older(quiet, IdleTicks)
    /\ UNCHANGED <<file, writing, apps, made, container, req, sweep, used>>

\* a restarted waker takes every configured application for running and idle from now
Started(c) == [o \in Objects |-> IF o = 1 /\ c \in Config THEN [NewState(c) EXCEPT !.up = TRUE] ELSE NewState(NoFile)]

Restart ==
    /\ UseUp("restart", MaxRestarts)
    /\ apps' = IF file \in Config THEN 1 ELSE 0
    /\ obj' = Started(file)
    /\ made' = apps'
    /\ throttled' = TRUE
    /\ req' = [r \in Requests |-> NoRequest]
    /\ sweep' = [s \in Sweeps |-> NoSweep]
    /\ quiet' = IF \E r \in Requests : req[r].open THEN 0 ELSE quiet
    /\ UNCHANGED <<file, writing, container>>

Init ==
    /\ file \in {NoFile, {"sleep"}}
    /\ writing = NoFile
    /\ apps = IF file \in Config THEN 1 ELSE 0
    /\ obj = Started(file)
    /\ made = apps
    /\ throttled = TRUE
    /\ container \in {"up", "down"}
    /\ req = [r \in Requests |-> NoRequest]
    /\ sweep = [s \in Sweeps |-> NoSweep]
    /\ quiet = 0
    /\ used = [what \in Bounded |-> 0]

Next ==
    \/ \E c \in Config : OpenConfig(c)
    \/ FinishConfig \/ RemoveConfig
    \/ \E r \in Requests : Arrive(r, "http") \/ Arrive(r, "upgrade") \/ Forward(r) \/ Close(r)
    \/ \E o \in Objects : Inspect(o) \/ StartContainer(o) \/ WakeDone(o) \/ WakeFailed(o) \/ DockerFails(o)
    \/ \E s \in Sweeps : StartSweep(s) \/ Visit(s) \/ StopContainer(s) \/ StopRefused(s) \/ StopThrows(s) \/ Slept(s)
    \/ ContainerExits \/ Boots \/ Crashes \/ Outside
    \/ Tick \/ Restart

Spec == Init /\ [][Next]_vars

\* The event loop runs every handler to its end, sweeps come on a timer, the daemon and the
\* container answer.  Nothing obliges a visitor to come, or one who is connected to leave.
Fairness ==
    /\ WF_vars(FinishConfig) /\ WF_vars(ContainerExits) /\ WF_vars(Boots) /\ WF_vars(Tick)
    /\ \A r \in Requests : WF_vars(Forward(r)) /\ WF_vars(req[r].pc = "answered" /\ Close(r))
    /\ \A o \in Objects : WF_vars(Inspect(o)) /\ WF_vars(StartContainer(o)) /\ WF_vars(WakeDone(o)) /\ WF_vars(WakeFailed(o))
    /\ \A s \in Sweeps : WF_vars(StartSweep(s)) /\ WF_vars(Visit(s)) /\ WF_vars(StopContainer(s)) /\ WF_vars(Slept(s))
FairSpec == Spec /\ Fairness

----------------------------------------------------------------------------
(* Properties                                                              *)

Open(o) == {r \in Requests : req[r].open /\ req[r].o = o}

\* inflight counts the open requests of its object, whatever fails and whoever hangs up while the
\* handler waits: a request that is counted twice or never uncounted keeps the application awake for good,
\* one that is not counted lets the sweep stop the container under it.
InflightExact == \A o \in Objects : obj[o].inflight = Cardinality(Open(o))

\* The sweep stops the container only when nobody uses it and nobody did for the configured time, with
\* overlapping sweeps that keep the time at which they started (waker.cjs:8, "stops containers that were
\* idle longer than their idleSeconds").
StopsOnlyIdle ==
    [][\A s \in Sweeps : sweep[s].pc = "visit" /\ sweep'[s].pc = "stop"
            => (\A r \in Requests : ~req[r].open) /\ quiet = IdleTicks]_vars

\* A request the waker holds is answered or forwarded in the end, also when the start fails under it, the
\* Docker API does not answer or the waker is restarted: no wake-up stays in state.waking for good.
HeldRequestsEnd == \A r \in Requests : req[r].pc = "waiting" ~> req[r].pc # "waiting"

\* Visitors do not fail again and again while the container stays stopped: whatever the waker believes,
\* stale answers run out and a request that finds the container stopped starts it.
FailuresStartTheApp == []<>(\E r \in Requests : req[r].pc = "answered") => []<>(container # "down")

NoVisitors == \A r \in Requests : req[r] = NoRequest

\* An application the waker knows to be running does not stay awake without visitors, after restarts of the
\* waker, failed stops and overlapping sweeps too.
KnownIdleSleeps ==
    []<>~(apps # 0 /\ obj[apps].up /\ "sleep" \in obj[apps].cfg /\ container = "up" /\ NoVisitors)

\* docs/architecture.md:148 promises more: "A sweep every 15 seconds stops containers that were idle longer
\* than their configured time."  The object of a configuration that appears while the waker runs has up = false.
IdleSleeps == []<>~(file = {"sleep"} /\ container = "up" /\ NoVisitors)
=============================================================================
