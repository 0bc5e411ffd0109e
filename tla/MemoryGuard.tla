---------------------------- MODULE MemoryGuard ----------------------------
(***************************************************************************)
(* The sampling of one server, once a minute: the circuit breaker that     *)
(* spares a server that does not answer, the memory guard that stops the   *)
(* least important application when memory runs low and starts it again    *)
(* when there is room, the lifecycle jobs the guard and the users queue,   *)
(* and the automatic Docker cleanup of a disk that fills up.               *)
(*                                                                         *)
(* A sample is taken first and used later: between the two, and between    *)
(* the guard's reading of the rows and its writing of a flag, users and    *)
(* lifecycle jobs go on.  PromptJobs says whether a lifecycle job is over  *)
(* before the next sample is taken.                                        *)
(***************************************************************************)
EXTENDS Integers, Sequences, FiniteSets

CONSTANTS
    Apps,              \* applications and services on the server
    Threshold,         \* failures in a row that open the circuit (5)
    Base, MaxCooldown, \* cooldown after that, in ticks (5), and its limit (30)
    MaxUser,           \* what users do
    MaxRestarts,       \* restarts of the worker
    PromptJobs         \* whether jobs end before the next sample

ASSUME GuardAssumption ==
    /\ IsFiniteSet(Apps)
    /\ Threshold \in Nat \ {0} /\ Base \in Nat \ {0} /\ MaxCooldown \in Nat \ {0} /\ Base <= MaxCooldown
    /\ MaxUser \in Nat /\ MaxRestarts \in Nat /\ PromptJobs \in BOOLEAN

VARIABLES
    app,        \* status, priority and shed flag of every application's row
    up,         \* the applications whose container runs
    jobs,       \* application-lifecycle: the waiting jobs
    job,        \* the job in progress
    enabled,    \* memoryGuardEnabled
    breaker,    \* the circuit breaker's entry for the server
    streak,     \* the guard's counters
    tick,       \* the sample in progress
    disk,       \* the disk level of the last sample and the cleanup jobs it queued
    owner,      \* history: who acted last on an application: a user, the guard by stopping it, the guard by starting it
    quiet,      \* history: samples the guard saw since its last action, saturating
    spent       \* what was used up of the bounds

guardVars == <<app, up, jobs, job, enabled, breaker, streak, tick, disk, owner, quiet, spent>>

ShedAfter == 2
RestoreAfter == 3
Tier == [low |-> 0, normal |-> 1, critical |-> 2]

NoJob == [pc |-> "rest", app |-> "none", action |-> "none"]
NoTick == [pc |-> "rest", mem |-> "mid", disk |-> "ok", seen |-> {}, rows |-> <<>>, act |-> "none", target |-> "none"]
Rows == [Apps -> [status : {"running", "stopped", "error"}, priority : DOMAIN Tier, shed : BOOLEAN]]
Job == [app : Apps, action : {"start", "stop"}]

GuardTypeOK ==
    /\ app \in Rows /\ up \subseteq Apps
    /\ jobs \in Seq(Job)
    /\ job = NoJob \/ (job.pc \in {"exec", "ok", "failed"} /\ job.app \in Apps /\ job.action \in {"start", "stop"})
    /\ enabled \in BOOLEAN
    /\ breaker.failures \in Nat /\ breaker.cooldown \in 0 .. MaxCooldown
    /\ streak.high \in 0 .. ShedAfter /\ streak.low \in 0 .. RestoreAfter
    /\ tick.pc \in {"rest", "sampled", "read", "queue", "disk"}
    /\ disk.level \in {"ok", "full"} /\ disk.queued \in BOOLEAN
    /\ owner \in [Apps -> {"user", "guard", "restored"}]
    /\ quiet \in 0 .. ShedAfter
    /\ spent \in [{"user", "restart"} -> Nat]

Spend(what, bound) == spent[what] < bound /\ spent' = [spent EXCEPT ![what] = @ + 1]

----------------------------------------------------------------------------
(* Users and lifecycle jobs                                                *)

\* POST lifecycle by a user
UserAsks(a, action) ==
    /\ Spend("user", MaxUser)
    /\ jobs' = Append(jobs, [app |-> a, action |-> action])
    /\ owner' = [owner EXCEPT ![a] = "user"]
    /\ UNCHANGED <<app, up, job, enabled, breaker, streak, tick, disk, quiet>>

\* a deploy replaces the container and ends as running
UserDeploys(a) ==
    /\ Spend("user", MaxUser)
    /\ job.app # a
    /\ app' = [app EXCEPT ![a].status = "running"] /\ up' = up \cup {a}
    /\ owner' = [owner EXCEPT ![a] = "user"]
    /\ UNCHANGED <<jobs, job, enabled, breaker, streak, tick, disk, quiet>>

SetPriority(a, p) ==
    /\ Spend("user", MaxUser)
    /\ p # app[a].priority
    /\ app' = [app EXCEPT ![a].priority = p]
    /\ UNCHANGED <<up, jobs, job, enabled, breaker, streak, tick, disk, owner, quiet>>

SetGuard ==
    /\ Spend("user", MaxUser)
    /\ enabled' = ~enabled
    /\ UNCHANGED <<app, up, jobs, job, breaker, streak, tick, disk, owner, quiet>>

GuardTakeJob ==
    /\ job = NoJob /\ jobs # <<>>
    /\ job' = [pc |-> "exec", app |-> Head(jobs).app, action |-> Head(jobs).action]
    /\ jobs' = Tail(jobs)
    /\ UNCHANGED <<app, up, enabled, breaker, streak, tick, disk, owner, quiet, spent>>

GuardExecJob ==
    /\ job.pc = "exec"
    /\ up' = IF job.action = "stop" THEN up \ {job.app} ELSE up \cup {job.app}
    /\ job' = [job EXCEPT !.pc = "ok"]
    /\ UNCHANGED <<app, jobs, enabled, breaker, streak, tick, disk, owner, quiet, spent>>

GuardEndJob ==
    /\ job.pc = "ok"
    /\ app' = [app EXCEPT ![job.app].status = IF job.action = "stop" THEN "stopped" ELSE "running"]
    /\ job' = NoJob
    /\ UNCHANGED <<up, jobs, enabled, breaker, streak, tick, disk, owner, quiet, spent>>

----------------------------------------------------------------------------
(* Circuit breaker                                                         *)

ClosedBreaker == [failures |-> 0, cooldown |-> 0]

\* mutant: the cooldown doubles without a limit
CooldownUnbounded(failures) == Base * 2 ^ (failures - Threshold)

\* the cooldown after a failure: it doubles with each further one, up to a limit
Cooldown(failures) ==
    LET wanted == Base * 2 ^ (failures - Threshold) IN IF wanted > MaxCooldown THEN MaxCooldown ELSE wanted

\* the count of failures is kept up to where the cooldown no longer grows
RecordFailure ==
    LET failures == IF breaker.failures >= Threshold /\ Cooldown(breaker.failures) = MaxCooldown THEN breaker.failures
                    ELSE breaker.failures + 1
    IN  [failures |-> failures, cooldown |-> IF failures >= Threshold THEN Cooldown(failures) ELSE 0]

----------------------------------------------------------------------------
(* One sample                                                              *)

\* the circuit is open: this minute's sample is skipped
SkipTick ==
    /\ tick = NoTick /\ breaker.cooldown > 0
    /\ breaker' = [breaker EXCEPT !.cooldown = @ - 1]
    /\ UNCHANGED <<app, up, jobs, job, enabled, streak, tick, disk, owner, quiet, spent>>

\* the server does not answer
TickFails ==
    /\ tick = NoTick /\ breaker.cooldown = 0
    /\ breaker' = RecordFailure
    /\ UNCHANGED <<app, up, jobs, job, enabled, streak, tick, disk, owner, quiet, spent>>

\* checkOne: the memory, the disk and the running containers, all from one connection
TakeSample(mem, level) ==
    /\ tick = NoTick /\ breaker.cooldown = 0
    /\ PromptJobs => jobs = <<>> /\ job = NoJob
    /\ breaker' = ClosedBreaker
    /\ tick' = [NoTick EXCEPT !.pc = "sampled", !.mem = mem, !.disk = level, !.seen = up]
    /\ UNCHANGED <<app, up, jobs, job, enabled, streak, disk, owner, quiet, spent>>

\* runMemoryGuard: off, it forgets its counters; on, it reads the rows of the server
ReadCandidates ==
    /\ tick.pc = "sampled"
    /\ IF enabled THEN /\ tick' = [tick EXCEPT !.pc = "read", !.rows = app] /\ UNCHANGED streak
                  ELSE /\ tick' = [tick EXCEPT !.pc = "disk"] /\ streak' = [high |-> 0, low |-> 0]
    /\ UNCHANGED <<app, up, jobs, job, enabled, breaker, disk, owner, quiet, spent>>

\* buildGuardCandidates: running in the row and in the sample, stopped in the row, or other
CandidateStatus(a) ==
    LET status == tick.rows[a].status
    IN  CASE status = "running" -> IF a \in tick.seen THEN "running" ELSE "other"
          [] status = "stopped" -> "stopped"
          [] OTHER -> "other"

\* mutant: a flag is stale unless the container is seen
StaleShedUnseen == {a \in Apps : tick.rows[a].shed /\ a \notin tick.seen}

\* staleShedFlags: flagged, and not stopped any more
StaleShed == {a \in Apps : tick.rows[a].shed /\ CandidateStatus(a) # "stopped"}
Flagged == {a \in Apps : tick.rows[a].shed} \ StaleShed

\* pickToShed: the lowest priority that is not critical; which of several is a matter of their memory and names
Eligible == {a \in Apps : CandidateStatus(a) = "running" /\ tick.rows[a].priority # "critical" /\ a \notin Flagged}
ToShed == {a \in Eligible : \A b \in Eligible : Tier[tick.rows[a].priority] <= Tier[tick.rows[b].priority]}

\* mutant: the filter of pickToShed is used here too
RestorableNotCritical == {a \in Flagged : CandidateStatus(a) = "stopped" /\ tick.rows[a].priority # "critical"}

\* pickToRestore: the most important of those the guard stopped
Restorable == {a \in Flagged : CandidateStatus(a) = "stopped"}
ToRestore == {a \in Restorable : \A b \in Restorable : Tier[tick.rows[b].priority] <= Tier[tick.rows[a].priority]}

Capped(n, limit) == IF n < limit THEN n ELSE limit

\* mutant: the counters go on after an action
StreakAfterKept(act) ==
    CASE tick.mem = "high" -> [high |-> Capped(streak.high + 1, ShedAfter), low |-> 0]
      [] tick.mem = "low"  -> [high |-> 0, low |-> Capped(streak.low + 1, RestoreAfter)]
      [] OTHER             -> [high |-> 0, low |-> 0]

\* guardStep: an action and a sample between the limits start both counts over
StreakAfter(act) ==
    IF act # "none" \/ tick.mem = "mid" THEN [high |-> 0, low |-> 0]
    ELSE IF tick.mem = "high" THEN [high |-> Capped(streak.high + 1, ShedAfter), low |-> 0]
    ELSE [high |-> 0, low |-> Capped(streak.low + 1, RestoreAfter)]

\* guardStep: what to do to which application
Decisions ==
    LET stop == tick.mem = "high" /\ streak.high + 1 >= ShedAfter /\ ToShed # {}
        start == tick.mem = "low" /\ streak.low + 1 >= RestoreAfter /\ ToRestore # {}
    IN  IF stop THEN {"stop"} \X ToShed ELSE IF start THEN {"start"} \X ToRestore ELSE {<<"none", "none">>}

\* the stale flags are cleared, the counters kept, and the flag of the target is written before its job is queued
DecideGuard ==
    /\ tick.pc = "read"
    /\ \E d \in Decisions :
          /\ streak' = StreakAfter(d[1])
          /\ app' = [a \in Apps |-> [app[a] EXCEPT !.shed = IF d[1] # "none" /\ a = d[2] THEN d[1] = "stop"
                                                            ELSE IF a \in StaleShed THEN FALSE ELSE @]]
          /\ tick' = [tick EXCEPT !.pc = IF d[1] = "none" THEN "disk" ELSE "queue", !.act = d[1], !.target = d[2]]
          /\ owner' = CASE d[1] = "none" -> owner
                         [] d[1] = "stop" -> [owner EXCEPT ![d[2]] = "guard"]
                         [] OTHER         -> [owner EXCEPT ![d[2]] = "restored"]
          /\ quiet' = IF d[1] = "none" THEN Capped(quiet + 1, ShedAfter) ELSE 0
    /\ UNCHANGED <<up, jobs, job, enabled, breaker, disk, spent>>

\* carryOut: the job
QueueGuardJob ==
    /\ tick.pc = "queue"
    /\ jobs' = Append(jobs, [app |-> tick.target, action |-> tick.act])
    /\ tick' = [tick EXCEPT !.pc = "disk"]
    /\ UNCHANGED <<app, up, job, enabled, breaker, streak, disk, owner, quiet, spent>>

\* crossedThreshold: a disk that fills up queues a cleanup, a disk that stays full does not; the throttle keeps it to
\* one an hour, by when the last one is over
CheckDisk ==
    /\ tick.pc = "disk"
    /\ disk' = [level |-> tick.disk,
                queued |-> disk.queued \/ (tick.disk = "full" /\ disk.level = "ok")]
    /\ tick' = NoTick
    /\ UNCHANGED <<app, up, jobs, job, enabled, breaker, streak, owner, quiet, spent>>

\* dockerCleanup: a queued cleanup runs
RunCleanup ==
    /\ disk.queued
    /\ disk' = [disk EXCEPT !.queued = FALSE]
    /\ UNCHANGED <<app, up, jobs, job, enabled, breaker, streak, tick, owner, quiet, spent>>

\* the counters and the circuit are kept in memory only; jobs in progress are started again
RestartWorker ==
    /\ Spend("restart", MaxRestarts)
    /\ streak' = [high |-> 0, low |-> 0] /\ breaker' = ClosedBreaker
    /\ tick' = NoTick
    /\ jobs' = IF job = NoJob THEN jobs ELSE <<[app |-> job.app, action |-> job.action]>> \o jobs
    /\ job' = NoJob
    /\ UNCHANGED <<app, up, enabled, disk, owner, quiet>>

----------------------------------------------------------------------------
(* Specification                                                           *)

GuardInit ==
    /\ app = [a \in Apps |-> [status |-> "running", priority |-> "normal", shed |-> FALSE]]
    /\ up = Apps /\ jobs = <<>> /\ job = NoJob /\ enabled = TRUE
    /\ breaker = ClosedBreaker /\ streak = [high |-> 0, low |-> 0] /\ tick = NoTick
    /\ disk = [level |-> "ok", queued |-> FALSE]
    /\ owner = [a \in Apps |-> "user"] /\ quiet = 0
    /\ spent = [what \in {"user", "restart"} |-> 0]

UsersAct ==
    \/ \E a \in Apps, action \in {"start", "stop"} : UserAsks(a, action)
    \/ \E a \in Apps : UserDeploys(a)
    \/ \E a \in Apps, p \in DOMAIN Tier : SetPriority(a, p)
    \/ SetGuard

JobsRun == GuardTakeJob \/ GuardExecJob \/ GuardEndJob
Tick ==
    \/ SkipTick \/ TickFails \/ ReadCandidates \/ DecideGuard \/ QueueGuardJob \/ CheckDisk
    \/ \E mem \in {"low", "mid", "high"}, level \in {"ok", "full"} : TakeSample(mem, level)

GuardNext == UsersAct \/ JobsRun \/ Tick \/ RunCleanup \/ RestartWorker

\* the sampler's timer and the queues go on, and a server that is tried again and again answers some time
GuardFair ==
    /\ WF_guardVars(JobsRun) /\ WF_guardVars(Tick) /\ WF_guardVars(RunCleanup)
    /\ SF_guardVars(\E mem \in {"low", "mid", "high"}, level \in {"ok", "full"} : TakeSample(mem, level))

GuardSpec == GuardInit /\ [][GuardNext]_guardVars /\ GuardFair

----------------------------------------------------------------------------
(* Properties                                                              *)

\* What the guard stopped, and nobody touched since, keeps its flag while it is stopped: otherwise it would never be
\* started again (memoryGuard.ts, memoryGuard.commands.ts).  Holds as long as a stop is over before the next sample.
ShedRemembered ==
    \A a \in Apps : owner[a] = "guard" /\ app[a].status = "stopped" /\ a \notin up /\ jobs = <<>> /\ job = NoJob
                        /\ tick.pc # "queue"
        => app[a].shed

\* The guard acts on one application and then waits for fresh samples: two of its actions are never in consecutive
\* samples, whatever users, restarts and lost connections do in between (guardStep).
GuardPaces == [][tick.pc = "read" /\ tick'.pc = "queue" => quiet + 1 >= ShedAfter]_guardVars

\* Once memory stays low, whatever the guard stopped comes back, or is no longer the guard's to start: no flag is
\* left behind, over failed samples, restarts and changes of priority (memoryGuard.ts, guardStep).
ShedComesBack ==
    <>[](enabled /\ (tick.pc = "sampled" => tick.mem = "low")) => \A a \in Apps : app[a].shed ~> ~app[a].shed

=============================================================================
