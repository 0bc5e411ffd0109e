------------------------ MODULE MemoryGuard_proofs ------------------------
(***************************************************************************)
(* Theorems about the sampling of a server, for any number of              *)
(* applications, samples, restarts and things users do: its states are     *)
(* well typed, the guard paces its actions, and it remembers what it       *)
(* stopped.                                                                *)
(***************************************************************************)
EXTENDS MemoryGuard, FiniteSetTheorems, SequenceTheorems, TLAPS

\* The job in progress and the sample in progress are whole records, and what the guard is about
\* to queue names an application.
JobTyped == job = NoJob \/ job \in [pc : {"exec", "ok"}, app : Apps, action : {"start", "stop"}]
TickTyped ==
    /\ tick \in [pc : {"rest", "sampled", "read", "queue", "disk"}, mem : {"low", "mid", "high"},
                 disk : {"ok", "full"}, seen : SUBSET Apps, rows : Rows \cup {<<>>},
                 act : {"none", "start", "stop"}, target : Apps \cup {"none"}]
    /\ tick.pc = "read" => tick.rows \in Rows
    /\ tick.pc = "queue" => tick.target \in Apps /\ tick.act # "none"
CountsTyped ==
    /\ breaker \in [failures : Nat, cooldown : 0 .. MaxCooldown]
    /\ streak \in [high : 0 .. ShedAfter, low : 0 .. RestoreAfter]
    /\ disk \in [level : {"ok", "full"}, queued : BOOLEAN]
    /\ quiet \in 0 .. ShedAfter
    /\ spent \in [{"user", "restart"} -> Nat]
RowsTyped ==
    /\ app \in Rows /\ up \subseteq Apps
    /\ jobs \in Seq(Job)
    /\ enabled \in BOOLEAN
    /\ owner \in [Apps -> {"user", "guard", "restored"}]
Typed == RowsTyped /\ JobTyped /\ TickTyped /\ CountsTyped

LEMMA TypedIsTypeOK == Typed => GuardTypeOK
  BY DEF Typed, RowsTyped, JobTyped, TickTyped, CountsTyped, GuardTypeOK, Job

----------------------------------------------------------------------------
(* The circuit breaker's arithmetic                                         *)

\* A power of two is a number: as many subsets has a set of that many elements.
LEMMA PowerOfTwo ==
  ASSUME NEW n \in Nat
  PROVE  2 ^ n \in Nat
<1>1. IsFiniteSet(1 .. n) /\ Cardinality(1 .. n) = n
  BY FS_Interval
<1>2. IsFiniteSet(SUBSET (1 .. n)) /\ Cardinality(SUBSET (1 .. n)) = 2 ^ n
  BY <1>1, FS_SUBSET
<1> QED
  BY <1>2, FS_CardinalityType

\* The cooldown of an open circuit never exceeds its limit.
LEMMA CooldownBounded ==
  ASSUME NEW failures \in Nat, failures >= Threshold
  PROVE  Cooldown(failures) \in 0 .. MaxCooldown
<1>1. failures - Threshold \in Nat
  BY GuardAssumption
<1>2. 2 ^ (failures - Threshold) \in Nat
  BY <1>1, PowerOfTwo
<1>3. \A p \in Nat : Base * p \in Nat
  BY GuardAssumption
<1>4. Base * 2 ^ (failures - Threshold) \in Nat
  BY <1>2, <1>3
<1> QED
  BY <1>4, GuardAssumption DEF Cooldown

LEMMA FailureTyped ==
  ASSUME CountsTyped
  PROVE  RecordFailure \in [failures : Nat, cooldown : 0 .. MaxCooldown]
<1> DEFINE failures == IF breaker.failures >= Threshold /\ Cooldown(breaker.failures) = MaxCooldown
                       THEN breaker.failures ELSE breaker.failures + 1
<1>1. failures \in Nat
  BY DEF CountsTyped
<1>2. failures >= Threshold => Cooldown(failures) \in 0 .. MaxCooldown
  BY <1>1, CooldownBounded
<1> HIDE DEF failures
<1>3. [failures |-> failures, cooldown |-> IF failures >= Threshold THEN Cooldown(failures) ELSE 0]
        \in [failures : Nat, cooldown : 0 .. MaxCooldown]
  BY <1>1, <1>2, GuardAssumption
<1> QED
  BY <1>3 DEF RecordFailure, failures

LEMMA StreakTyped ==
  ASSUME CountsTyped, NEW act
  PROVE  /\ StreakAfter(act) \in [high : 0 .. ShedAfter, low : 0 .. RestoreAfter]
         /\ Capped(quiet + 1, ShedAfter) \in 0 .. ShedAfter
  BY DEF CountsTyped, StreakAfter, Capped, ShedAfter, RestoreAfter

----------------------------------------------------------------------------
(* Types                                                                    *)

LEMMA InitTyped == GuardInit => Typed
<1> SUFFICES ASSUME GuardInit PROVE Typed
  OBVIOUS
<1>1. RowsTyped /\ JobTyped
  BY DEF GuardInit, RowsTyped, JobTyped, Rows, Tier, Job
<1>2. TickTyped
  BY DEF GuardInit, TickTyped, NoTick
<1>3. CountsTyped
  BY GuardAssumption DEF GuardInit, CountsTyped, ClosedBreaker, ShedAfter, RestoreAfter
<1> QED
  BY <1>1, <1>2, <1>3 DEF Typed

LEMMA SpendTyped ==
  ASSUME CountsTyped, NEW what \in {"user", "restart"}, NEW bound, Spend(what, bound)
  PROVE  spent' \in [{"user", "restart"} -> Nat]
  BY DEF CountsTyped, Spend

\* What users do, and the jobs.
LEMMA UsersTyped == Typed /\ UsersAct => Typed'
<1> SUFFICES ASSUME Typed, UsersAct PROVE Typed'
  OBVIOUS
<1>1. CountsTyped'
  BY SpendTyped DEF Typed, UsersAct, UserAsks, UserDeploys, SetPriority, SetGuard, CountsTyped
<1>2. JobTyped' /\ TickTyped'
  BY DEF Typed, UsersAct, UserAsks, UserDeploys, SetPriority, SetGuard, JobTyped, TickTyped
<1>3. RowsTyped'
  <2>1. ASSUME NEW a \in Apps, NEW action \in {"start", "stop"}, UserAsks(a, action)
        PROVE  RowsTyped'
    <3>1. [app |-> a, action |-> action] \in Job
      BY DEF Job
    <3> QED
      BY <2>1, <3>1 DEF UserAsks, Typed, RowsTyped
  <2>2. ASSUME NEW a \in Apps, UserDeploys(a)
        PROVE  RowsTyped'
    BY <2>2 DEF UserDeploys, Typed, RowsTyped, Rows
  <2>3. ASSUME NEW a \in Apps, NEW p \in DOMAIN Tier, SetPriority(a, p)
        PROVE  RowsTyped'
    BY <2>3 DEF SetPriority, Typed, RowsTyped, Rows
  <2>4. CASE SetGuard
    BY <2>4 DEF SetGuard, Typed, RowsTyped
  <2> QED
    BY <2>1, <2>2, <2>3, <2>4 DEF UsersAct
<1> QED
  BY <1>1, <1>2, <1>3 DEF Typed

LEMMA JobsTyped == Typed /\ (JobsRun \/ RestartWorker) => Typed'
<1> SUFFICES ASSUME Typed, JobsRun \/ RestartWorker PROVE Typed'
  OBVIOUS
<1>1. CASE GuardTakeJob
  <2>1. Head(jobs) \in Job /\ Tail(jobs) \in Seq(Job)
    BY <1>1 DEF GuardTakeJob, Typed, RowsTyped
  <2>2. job' \in [pc : {"exec", "ok"}, app : Apps, action : {"start", "stop"}]
    BY <1>1, <2>1 DEF GuardTakeJob, Job
  <2> QED
    BY <1>1, <2>1, <2>2 DEF GuardTakeJob, Typed, RowsTyped, JobTyped, TickTyped, CountsTyped
<1>2. CASE GuardExecJob
  <2>1. job \in [pc : {"exec", "ok"}, app : Apps, action : {"start", "stop"}]
    BY <1>2 DEF GuardExecJob, Typed, JobTyped, NoJob
  <2>2. job' \in [pc : {"exec", "ok"}, app : Apps, action : {"start", "stop"}] /\ up' \subseteq Apps
    BY <1>2, <2>1 DEF GuardExecJob, Typed, RowsTyped
  <2> QED
    BY <1>2, <2>2 DEF GuardExecJob, Typed, RowsTyped, JobTyped, TickTyped, CountsTyped
<1>3. CASE GuardEndJob
  <2>1. job.app \in Apps
    BY <1>3 DEF GuardEndJob, Typed, JobTyped, NoJob
  <2>2. app' \in Rows
    BY <1>3, <2>1 DEF GuardEndJob, Typed, RowsTyped, Rows
  <2> QED
    BY <1>3, <2>2 DEF GuardEndJob, Typed, RowsTyped, JobTyped, TickTyped, CountsTyped
<1>4. CASE RestartWorker
  <2>1. jobs' \in Seq(Job)
    <3>1. job # NoJob => [app |-> job.app, action |-> job.action] \in Job
      BY DEF Typed, JobTyped, Job
    <3> QED
      BY <1>4, <3>1 DEF RestartWorker, Typed, RowsTyped
  <2>2. CountsTyped'
    BY <1>4, SpendTyped, GuardAssumption
    DEF RestartWorker, Typed, CountsTyped, ClosedBreaker, ShedAfter, RestoreAfter
  <2>3. TickTyped'
    BY <1>4 DEF RestartWorker, TickTyped, NoTick
  <2> QED
    BY <1>4, <2>1, <2>2, <2>3 DEF RestartWorker, Typed, RowsTyped, JobTyped
<1> QED
  BY <1>1, <1>2, <1>3, <1>4 DEF JobsRun

\* What the guard decides to do names an application.
LEMMA DecisionKinds ==
  ASSUME NEW d \in Decisions
  PROVE  \/ d[1] = "none"
         \/ d[1] = "stop" /\ d[2] \in Apps /\ tick.mem = "high" /\ streak.high + 1 >= ShedAfter
         \/ d[1] = "start" /\ d[2] \in Apps /\ tick.mem = "low" /\ streak.low + 1 >= RestoreAfter
  BY DEF Decisions, ToShed, Eligible, ToRestore, Restorable, Flagged

\* What carrying out a decision changes.
Carry(d) ==
    /\ streak' = StreakAfter(d[1])
    /\ app' = [a \in Apps |-> [app[a] EXCEPT !.shed = IF d[1] # "none" /\ a = d[2] THEN d[1] = "stop"
                                                      ELSE IF a \in StaleShed THEN FALSE ELSE @]]
    /\ tick' = [tick EXCEPT !.pc = IF d[1] = "none" THEN "disk" ELSE "queue", !.act = d[1], !.target = d[2]]
    /\ owner' = CASE d[1] = "none" -> owner
                   [] d[1] = "stop" -> [owner EXCEPT ![d[2]] = "guard"]
                   [] OTHER         -> [owner EXCEPT ![d[2]] = "restored"]
    /\ quiet' = IF d[1] = "none" THEN Capped(quiet + 1, ShedAfter) ELSE 0

LEMMA DecideCarries == DecideGuard => \E d \in Decisions : Carry(d)
  BY Zenon DEF DecideGuard, Carry

LEMMA TickKeepsTyped == Typed /\ (Tick \/ RunCleanup) => Typed'
<1> SUFFICES ASSUME Typed, Tick \/ RunCleanup PROVE Typed'
  OBVIOUS
<1>1. CASE SkipTick \/ TickFails
  <2>1. breaker' \in [failures : Nat, cooldown : 0 .. MaxCooldown]
    <3>1. CASE SkipTick
      BY <3>1, GuardAssumption DEF SkipTick, Typed, CountsTyped
    <3>2. CASE TickFails
      BY <3>2, FailureTyped DEF TickFails, Typed
    <3> QED
      BY <1>1, <3>1, <3>2
  <2> QED
    BY <1>1, <2>1 DEF SkipTick, TickFails, Typed, RowsTyped, JobTyped, TickTyped, CountsTyped
<1>2. ASSUME NEW mem \in {"low", "mid", "high"}, NEW level \in {"ok", "full"}, TakeSample(mem, level)
      PROVE  Typed'
  <2>1. TickTyped'
    BY <1>2 DEF TakeSample, NoTick, TickTyped, Typed, RowsTyped
  <2>2. breaker' \in [failures : Nat, cooldown : 0 .. MaxCooldown]
    BY <1>2, GuardAssumption DEF TakeSample, ClosedBreaker
  <2> QED
    BY <1>2, <2>1, <2>2 DEF TakeSample, Typed, RowsTyped, JobTyped, CountsTyped
<1>3. CASE ReadCandidates
  <2>1. TickTyped'
    <3>1. CASE enabled
      <4>1. tick'.pc = "read" /\ tick'.rows = app
        BY <1>3, <3>1 DEF ReadCandidates, Typed, TickTyped
      <4>2. tick' = [tick EXCEPT !.pc = "read", !.rows = app]
        BY <1>3, <3>1 DEF ReadCandidates
      <4> QED
        BY <4>1, <4>2 DEF Typed, TickTyped, RowsTyped
    <3>2. CASE ~ enabled
      BY <1>3, <3>2 DEF ReadCandidates, Typed, TickTyped
    <3> QED
      BY <3>1, <3>2
  <2>2. CountsTyped'
    BY <1>3 DEF ReadCandidates, Typed, CountsTyped, ShedAfter, RestoreAfter
  <2> QED
    BY <1>3, <2>1, <2>2 DEF ReadCandidates, Typed, RowsTyped, JobTyped
<1>4. CASE DecideGuard
  <2>1. PICK d \in Decisions : Carry(d)
    BY <1>4, DecideCarries
  <2>2. d[1] = "none" => d[2] = "none"
    BY DEF Decisions
  <2>3. TickTyped'
    BY <2>1, <2>2, DecisionKinds, ZenonT(60) DEF Carry, Typed, TickTyped
  <2>4. CountsTyped'
    BY <1>4, <2>1, StreakTyped DEF Carry, DecideGuard, Typed, CountsTyped, ShedAfter
  <2>5. app' \in Rows
    BY <2>1 DEF Carry, Typed, RowsTyped, Rows
  <2>6. owner' \in [Apps -> {"user", "guard", "restored"}]
    BY <2>1, DecisionKinds DEF Carry, Typed, RowsTyped
  <2> QED
    BY <1>4, <2>3, <2>4, <2>5, <2>6 DEF DecideGuard, Typed, RowsTyped, JobTyped
<1>5. CASE QueueGuardJob
  <2>1. [app |-> tick.target, action |-> tick.act] \in Job
    BY <1>5 DEF QueueGuardJob, Typed, TickTyped, Job
  <2>2. jobs' \in Seq(Job)
    BY <1>5, <2>1 DEF QueueGuardJob, Typed, RowsTyped
  <2>3. TickTyped'
    BY <1>5 DEF QueueGuardJob, Typed, TickTyped
  <2> QED
    BY <1>5, <2>2, <2>3 DEF QueueGuardJob, Typed, RowsTyped, JobTyped, CountsTyped
<1>6. CASE CheckDisk \/ RunCleanup
  <2>1. disk' \in [level : {"ok", "full"}, queued : BOOLEAN]
    <3>1. CASE CheckDisk
      <4>1. (disk.queued \/ (tick.disk = "full" /\ disk.level = "ok")) \in BOOLEAN /\ tick.disk \in {"ok", "full"}
        BY DEF Typed, TickTyped, CountsTyped
      <4> QED
        BY <3>1, <4>1 DEF CheckDisk
    <3>2. CASE RunCleanup
      BY <3>2 DEF RunCleanup, Typed, CountsTyped
    <3> QED
      BY <1>6, <3>1, <3>2
  <2>2. TickTyped'
    BY <1>6 DEF CheckDisk, RunCleanup, NoTick, Typed, TickTyped
  <2> QED
    BY <1>6, <2>1, <2>2 DEF CheckDisk, RunCleanup, Typed, RowsTyped, JobTyped, CountsTyped
<1> QED
  BY <1>1, <1>2, <1>3, <1>4, <1>5, <1>6 DEF Tick

LEMMA StepTyped == Typed /\ [GuardNext]_guardVars => Typed'
<1>1. Typed /\ UNCHANGED guardVars => Typed'
  BY DEF guardVars, Typed, RowsTyped, JobTyped, TickTyped, CountsTyped
<1> QED
  BY <1>1, UsersTyped, JobsTyped, TickKeepsTyped DEF GuardNext

\* Every state of the sampler is well typed: in particular the cooldown of a server that does not
\* answer stays within its limit however often it fails (circuitBreaker.ts).
THEOREM GuardTypeCorrect == GuardSpec => []GuardTypeOK
<1> QED
  BY InitTyped, StepTyped, TypedIsTypeOK, PTL DEF GuardSpec

----------------------------------------------------------------------------
(* The pace                                                                 *)

\* No streak is longer than the samples the guard has seen since its last action.
PaceInv == streak.high <= quiet /\ (streak.low <= quiet \/ quiet = ShedAfter)

LEMMA StepPace == Typed /\ PaceInv /\ [GuardNext]_guardVars => PaceInv'
<1> SUFFICES ASSUME Typed, PaceInv, [GuardNext]_guardVars
             PROVE  PaceInv'
  OBVIOUS
<1>1. CASE DecideGuard
  <2>1. PICK d \in Decisions : Carry(d)
    BY <1>1, DecideCarries
  <2>2. CASE d[1] # "none"
    <3>1. streak' = [high |-> 0, low |-> 0] /\ quiet' = 0
      BY <2>1, <2>2 DEF Carry, StreakAfter
    <3> QED
      BY <3>1 DEF PaceInv
  <2>3. CASE d[1] = "none"
    <3>1. streak' = StreakAfter("none") /\ quiet' = Capped(quiet + 1, ShedAfter)
      BY <2>1, <2>3 DEF Carry
    <3>2. \/ streak'.high = 0 /\ streak'.low = 0
          \/ streak'.high = Capped(streak.high + 1, ShedAfter) /\ streak'.low = 0
          \/ streak'.high = 0 /\ streak'.low = Capped(streak.low + 1, RestoreAfter)
      BY <3>1 DEF StreakAfter
    <3> QED
      BY <3>1, <3>2 DEF PaceInv, Typed, CountsTyped, Capped, ShedAfter, RestoreAfter
  <2> QED
    BY <2>2, <2>3
<1>2. CASE RestartWorker \/ ReadCandidates
  <2>1. UNCHANGED quiet /\ (UNCHANGED streak \/ streak' = [high |-> 0, low |-> 0])
    BY <1>2 DEF RestartWorker, ReadCandidates
  <2> QED
    BY <2>1 DEF PaceInv, Typed, CountsTyped
<1>3. CASE UNCHANGED <<streak, quiet>>
  BY <1>3 DEF PaceInv
<1> QED
  BY <1>1, <1>2, <1>3 DEF GuardNext, UsersAct, UserAsks, UserDeploys, SetPriority, SetGuard, JobsRun,
     GuardTakeJob, GuardExecJob, GuardEndJob, Tick, SkipTick, TickFails, TakeSample, QueueGuardJob,
     CheckDisk, RunCleanup, guardVars

LEMMA TickSteps ==
  ASSUME [GuardNext]_guardVars
  PROVE  \/ UNCHANGED tick
         \/ ReadCandidates \/ DecideGuard \/ QueueGuardJob \/ CheckDisk \/ RestartWorker
         \/ \E mem, level : TakeSample(mem, level)
<1>1. UsersAct \/ JobsRun \/ RunCleanup \/ SkipTick \/ TickFails \/ UNCHANGED guardVars => UNCHANGED tick
  BY DEF UsersAct, UserAsks, UserDeploys, SetPriority, SetGuard, JobsRun, GuardTakeJob, GuardExecJob,
     GuardEndJob, RunCleanup, SkipTick, TickFails, guardVars
<1> QED
  BY <1>1 DEF GuardNext, Tick

\* The guard never acts in two consecutive samples, however users, restarts, failed samples and its own
\* switch come in between: what it did last shows in the memory before it acts again (guardStep).
THEOREM GuardAlwaysPaces == GuardSpec => GuardPaces
<1>1. GuardInit => PaceInv
  BY DEF GuardInit, PaceInv
<1>2. ASSUME Typed, PaceInv, [GuardNext]_guardVars, tick.pc = "read", tick'.pc = "queue"
      PROVE  quiet + 1 >= ShedAfter
  <2>1. DecideGuard
    <3>1. tick' # tick
      BY <1>2
    <3>2. ReadCandidates => tick.pc = "sampled"
      BY DEF ReadCandidates
    <3>3. QueueGuardJob => tick.pc = "queue"
      BY DEF QueueGuardJob
    <3>4. CheckDisk \/ RestartWorker => tick'.pc = "rest"
      BY DEF CheckDisk, RestartWorker, NoTick
    <3>5. \A mem, level : TakeSample(mem, level) => tick'.pc = "sampled"
      BY DEF TakeSample, NoTick
    <3> QED
      BY <1>2, <3>1, <3>2, <3>3, <3>4, <3>5, TickSteps
  <2>2. PICK d \in Decisions : Carry(d)
    BY <2>1, DecideCarries
  <2>3. d[1] # "none"
    BY <1>2, <2>2 DEF Carry, Typed, TickTyped
  <2>4. streak.high + 1 >= ShedAfter \/ streak.low + 1 >= RestoreAfter
    BY <2>3, DecisionKinds
  <2> QED
    BY <1>2, <2>4 DEF PaceInv, Typed, CountsTyped, ShedAfter, RestoreAfter
<1> QED
  BY <1>1, <1>2, InitTyped, StepTyped, StepPace, PTL DEF GuardSpec, GuardPaces

----------------------------------------------------------------------------
(* What the guard stopped                                                   *)

Pending(a) == (\E i \in 1 .. Len(jobs) : jobs[i].app = a) \/ (job # NoJob /\ job.app = a)

\* While a sample is used, no job is on its way for what the guard stopped before it: all of them were over when the
\* sample was taken, and only a user can have asked for one since.
SampleInv ==
    tick.pc \in {"sampled", "read"} => \A a \in Apps : owner[a] = "guard" =>
        ~ Pending(a) /\ (tick.pc = "read" => tick.rows[a].status = app[a].status)

\* When the guard's flag is gone, so is the stop it was for.
LostInv ==
    \A a \in Apps : owner[a] = "guard" /\ ~ app[a].shed =>
        app[a].status # "stopped" /\ ~ Pending(a) /\ ~ (tick.pc = "queue" /\ tick.target = a)

\* An application has no more jobs than before, or a user or the guard just asked for one.
LEMMA PendingSteps ==
  ASSUME Typed, [GuardNext]_guardVars, NEW a \in Apps, Pending(a)'
  PROVE  \/ Pending(a)
         \/ owner'[a] = "user"
         \/ QueueGuardJob /\ tick.target = a
<1>1. ASSUME NEW e, jobs' = Append(jobs, e), UNCHANGED job
      PROVE  Pending(a) \/ e.app = a
  <2>1. /\ Len(jobs') = Len(jobs) + 1 /\ jobs'[Len(jobs) + 1] = e
        /\ \A i \in 1 .. Len(jobs) : jobs'[i] = jobs[i]
    BY <1>1 DEF Typed, RowsTyped
  <2>2. \A i \in 1 .. Len(jobs') : i = Len(jobs) + 1 \/ i \in 1 .. Len(jobs)
    BY <2>1 DEF Typed, RowsTyped
  <2> QED
    BY <1>1, <2>1, <2>2 DEF Pending
<1>2. ASSUME NEW b \in Apps, NEW action \in {"start", "stop"}, UserAsks(b, action)
      PROVE  Pending(a) \/ owner'[a] = "user"
  <2>1. Pending(a) \/ b = a
    BY <1>1, <1>2 DEF UserAsks
  <2> QED
    BY <1>2, <2>1 DEF UserAsks, Typed, RowsTyped
<1>3. CASE QueueGuardJob
  BY <1>1, <1>3 DEF QueueGuardJob
<1>4. CASE GuardTakeJob
  <2>1. /\ Head(jobs) = jobs[1] /\ 1 \in 1 .. Len(jobs)
        /\ \A i \in 1 .. Len(jobs') : i + 1 \in 1 .. Len(jobs) /\ jobs'[i] = jobs[i + 1]
    BY <1>4 DEF GuardTakeJob, Typed, RowsTyped
  <2> QED
    BY <1>4, <2>1 DEF GuardTakeJob, Pending
<1>5. CASE RestartWorker
  <2>1. job' = NoJob
    BY <1>5 DEF RestartWorker
  <2>2. CASE job = NoJob
    BY <1>5, <2>2 DEF RestartWorker, Pending
  <2>3. CASE job # NoJob
    <3> DEFINE e == [app |-> job.app, action |-> job.action]
    <3>1. /\ Len(jobs') = Len(jobs) + 1 /\ jobs'[1] = e
          /\ \A i \in 2 .. Len(jobs') : i - 1 \in 1 .. Len(jobs) /\ jobs'[i] = jobs[i - 1]
      BY <1>5, <2>3 DEF RestartWorker, Typed, RowsTyped
    <3>2. \A i \in 1 .. Len(jobs') : i = 1 \/ i \in 2 .. Len(jobs')
      BY <3>1 DEF Typed, RowsTyped
    <3>3. jobs'[1].app = job.app
      BY <3>1
    <3>4. PICK i \in 1 .. Len(jobs') : jobs'[i].app = a
      BY <2>1 DEF Pending
    <3> QED
      BY <2>3, <3>1, <3>2, <3>3, <3>4 DEF Pending
  <2> QED
    BY <2>2, <2>3
<1>6. CASE GuardExecJob
  BY <1>6 DEF GuardExecJob, Typed, JobTyped, NoJob, Pending
<1>7. CASE UNCHANGED <<jobs, job>>
  BY <1>7 DEF Pending
<1>8. CASE GuardEndJob
  BY <1>8 DEF GuardEndJob, Pending
<1>9. \/ UNCHANGED <<jobs, job>>
      \/ (\E b \in Apps, action \in {"start", "stop"} : UserAsks(b, action))
      \/ QueueGuardJob \/ RestartWorker \/ JobsRun
  BY DEF GuardNext, UsersAct, UserDeploys, SetPriority, SetGuard, RunCleanup, Tick, SkipTick,
     TickFails, TakeSample, ReadCandidates, DecideGuard, CheckDisk, guardVars
<1> QED
  BY <1>2, <1>3, <1>4, <1>5, <1>6, <1>7, <1>8, <1>9 DEF JobsRun

\* What the steps do to the rows, and who acted.
LEMMA RowSteps ==
  ASSUME Typed, [GuardNext]_guardVars, ~ DecideGuard, NEW a \in Apps
  PROVE  /\ app'[a].shed = app[a].shed
         /\ owner'[a] \in {owner[a], "user"}
         /\ owner'[a] # "user" /\ ~ Pending(a) => app'[a].status = app[a].status
         /\ app'[a].status # app[a].status => UNCHANGED tick
<1>1. ASSUME NEW b \in Apps, UserDeploys(b)
      PROVE  /\ app'[a].shed = app[a].shed /\ owner'[a] \in {owner[a], "user"} /\ UNCHANGED tick
             /\ owner'[a] = "user" \/ app'[a].status = app[a].status
  BY <1>1 DEF UserDeploys, Typed, RowsTyped, Rows
<1>2. ASSUME NEW b \in Apps, NEW p \in DOMAIN Tier, SetPriority(b, p)
      PROVE  app'[a].shed = app[a].shed /\ app'[a].status = app[a].status /\ UNCHANGED owner
  BY <1>2 DEF SetPriority, Typed, RowsTyped, Rows
<1>3. ASSUME NEW b \in Apps, NEW action \in {"start", "stop"}, UserAsks(b, action)
      PROVE  UNCHANGED app /\ owner'[a] \in {owner[a], "user"}
  BY <1>3 DEF UserAsks, Typed, RowsTyped
<1>4. CASE GuardEndJob
  <2>1. job # NoJob /\ job.app \in Apps
    BY <1>4 DEF GuardEndJob, Typed, JobTyped, NoJob
  <2>2. app'[a].shed = app[a].shed /\ (a # job.app => app'[a].status = app[a].status)
    BY <1>4, <2>1 DEF GuardEndJob, Typed, RowsTyped, Rows
  <2> QED
    BY <1>4, <2>1, <2>2 DEF GuardEndJob, Pending
<1>5. CASE UNCHANGED <<app, owner>>
  BY <1>5
<1>6. \/ UNCHANGED <<app, owner>> \/ GuardEndJob
      \/ (\E b \in Apps : UserDeploys(b)) \/ (\E b \in Apps, p \in DOMAIN Tier : SetPriority(b, p))
      \/ (\E b \in Apps, action \in {"start", "stop"} : UserAsks(b, action))
  BY DEF GuardNext, UsersAct, SetGuard, JobsRun, GuardTakeJob, GuardExecJob, RunCleanup, Tick,
     SkipTick, TickFails, TakeSample, ReadCandidates, QueueGuardJob, CheckDisk, RestartWorker, guardVars
<1> QED
  BY <1>1, <1>2, <1>3, <1>4, <1>5, <1>6

\* What a decision does to the row of an application: the guard just stopped it, or it is no target and loses its flag
\* only when the rows that were read said it does not stop any more.
LEMMA CarriedRow ==
  ASSUME Typed, tick.pc = "read", NEW d \in Decisions, Carry(d), NEW a \in Apps
  PROVE  /\ app'[a].status = app[a].status
         /\ tick'.pc \in {"disk", "queue"}
         /\ owner'[a] = "guard" =>
              \/ app'[a].shed
              \/ /\ owner[a] = "guard" /\ ~ (tick'.pc = "queue" /\ tick'.target = a)
                 /\ ~ app[a].shed \/ tick.rows[a].status # "stopped"
<1>1. app'[a] = [app[a] EXCEPT !.shed = IF d[1] # "none" /\ a = d[2] THEN d[1] = "stop"
                                        ELSE IF a \in StaleShed THEN FALSE ELSE @]
  BY DEF Carry
<1>2. app[a] \in [status : {"running", "stopped", "error"}, priority : DOMAIN Tier, shed : BOOLEAN]
  BY DEF Typed, RowsTyped, Rows
<1>3. app'[a].status = app[a].status
  BY <1>1, <1>2
<1>4. app'[a].shed = IF d[1] # "none" /\ a = d[2] THEN d[1] = "stop"
                     ELSE IF a \in StaleShed THEN FALSE ELSE app[a].shed
  BY <1>1, <1>2
<1>5. /\ tick'.pc \in {"disk", "queue"} /\ (d[1] = "none" => tick'.pc = "disk")
      /\ tick'.target = d[2]
  BY DEF Carry, Typed, TickTyped
<1>6. a \in StaleShed => tick.rows[a].status # "stopped"
  BY DEF StaleShed, CandidateStatus
<1>7. ASSUME owner'[a] = "guard", ~ app'[a].shed
      PROVE  /\ owner[a] = "guard" /\ ~ (tick'.pc = "queue" /\ tick'.target = a)
             /\ ~ app[a].shed \/ tick.rows[a].status # "stopped"
  <2>1. CASE d[1] = "none"
    <3>1. owner' = owner
      BY <2>1 DEF Carry
    <3> QED
      BY <1>4, <1>5, <1>6, <1>7, <2>1, <3>1
  <2>2. CASE d[1] = "stop"
    <3>1. owner' = [owner EXCEPT ![d[2]] = "guard"]
      BY <2>2 DEF Carry
    <3>2. a # d[2]
      BY <1>4, <1>7, <2>2
    <3> QED
      BY <1>4, <1>5, <1>6, <1>7, <3>1, <3>2 DEF Typed, RowsTyped
  <2>3. CASE d[1] = "start"
    <3>1. owner' = [owner EXCEPT ![d[2]] = "restored"]
      BY <2>3 DEF Carry
    <3>2. a # d[2]
      BY <1>7, <3>1 DEF Typed, RowsTyped
    <3> QED
      BY <1>4, <1>5, <1>6, <1>7, <3>1, <3>2 DEF Typed, RowsTyped
  <2> QED
    BY <2>1, <2>2, <2>3, DecisionKinds
<1> QED
  BY <1>3, <1>5, <1>7

\* As long as jobs are over before the next sample, a sample that is used has no job on its way.
LEMMA StepSample ==
  ASSUME PromptJobs, Typed, SampleInv, [GuardNext]_guardVars
  PROVE  SampleInv'
<1> SUFFICES ASSUME tick'.pc \in {"sampled", "read"}, NEW a \in Apps, owner'[a] = "guard"
             PROVE  ~ Pending(a)' /\ (tick'.pc = "read" => tick'.rows[a].status = app'[a].status)
  BY DEF SampleInv
<1>1. CASE UNCHANGED tick
  <2>1. ~ DecideGuard
    BY <1>1, ZenonT(60) DEF DecideGuard, Decisions, Carry, Typed, TickTyped
  <2>2. owner[a] = "guard"
    BY <2>1, RowSteps
  <2>3. ~ QueueGuardJob
    BY <1>1 DEF QueueGuardJob
  <2>4. ~ Pending(a) /\ ~ Pending(a)'
    BY <1>1, <2>2, <2>3, PendingSteps DEF SampleInv
  <2>5. app'[a].status = app[a].status
    BY <2>1, <2>4, RowSteps
  <2> QED
    BY <1>1, <2>2, <2>4, <2>5 DEF SampleInv
<1>2. CASE ReadCandidates
  <2>1. tick.pc = "sampled" /\ UNCHANGED <<app, jobs, job, owner>>
    BY <1>2 DEF ReadCandidates
  <2>2. ~ Pending(a) /\ ~ Pending(a)'
    BY <2>1 DEF SampleInv, Pending
  <2>3. tick'.pc = "read" => tick'.rows = app
    BY <1>2 DEF ReadCandidates, Typed, TickTyped
  <2> QED
    BY <2>1, <2>2, <2>3
<1>3. ASSUME NEW mem, NEW level, TakeSample(mem, level)
      PROVE  ~ Pending(a)' /\ tick'.pc = "sampled"
  BY <1>3 DEF TakeSample, NoTick, Pending
<1>4. ~ CheckDisk /\ ~ RestartWorker
  BY DEF CheckDisk, RestartWorker, NoTick
<1>5. ~ QueueGuardJob
  BY DEF QueueGuardJob, Typed, TickTyped
<1>6. CASE DecideGuard
  BY <1>6, DecideCarries, CarriedRow DEF DecideGuard
<1> QED
  BY <1>1, <1>2, <1>3, <1>4, <1>5, <1>6, TickSteps

\* What the guard stopped keeps its flag as long as the stop is coming or has happened.
LEMMA StepLost ==
  ASSUME Typed, SampleInv, LostInv, [GuardNext]_guardVars
  PROVE  LostInv'
<1> SUFFICES ASSUME NEW a \in Apps, owner'[a] = "guard", ~ app'[a].shed
             PROVE  /\ app'[a].status # "stopped" /\ ~ Pending(a)'
                    /\ ~ (tick'.pc = "queue" /\ tick'.target = a)
  BY DEF LostInv
<1>1. CASE DecideGuard
  <2>1. PICK d \in Decisions : Carry(d)
    BY <1>1, DecideCarries
  <2>2. tick.pc = "read" /\ UNCHANGED <<jobs, job>>
    BY <1>1 DEF DecideGuard
  <2>3. /\ app'[a].status = app[a].status
        /\ owner[a] = "guard" /\ ~ (tick'.pc = "queue" /\ tick'.target = a)
        /\ ~ app[a].shed \/ tick.rows[a].status # "stopped"
    BY <2>1, <2>2, CarriedRow
  <2>4. ~ Pending(a) /\ app[a].status # "stopped"
    BY <2>2, <2>3 DEF SampleInv, LostInv
  <2>5. ~ Pending(a)'
    BY <2>2, <2>4 DEF Pending
  <2> QED
    BY <2>3, <2>4, <2>5
<1>2. CASE ~ DecideGuard
  <2>1. owner[a] = "guard" /\ ~ app[a].shed
    BY <1>2, RowSteps
  <2>2. app[a].status # "stopped" /\ ~ Pending(a) /\ ~ (tick.pc = "queue" /\ tick.target = a)
    BY <2>1 DEF LostInv
  <2>3. app'[a].status # "stopped"
    BY <1>2, <2>2, RowSteps
  <2>4. ~ Pending(a)'
    BY <2>2, PendingSteps DEF QueueGuardJob
  <2>5. ~ (tick'.pc = "queue" /\ tick'.target = a)
    <3>1. CheckDisk \/ RestartWorker => tick'.pc # "queue"
      BY DEF CheckDisk, RestartWorker, NoTick
    <3>3. ReadCandidates => tick'.pc # "queue"
      BY DEF ReadCandidates, Typed, TickTyped
    <3>4. QueueGuardJob => tick'.pc # "queue"
      BY DEF QueueGuardJob, Typed, TickTyped
    <3>2. ASSUME NEW mem, NEW level, TakeSample(mem, level)
          PROVE  tick'.pc # "queue"
      BY <3>2 DEF TakeSample, NoTick
    <3> QED
      BY <1>2, <2>2, <3>1, <3>2, <3>3, <3>4, TickSteps
  <2> QED
    BY <2>3, <2>4, <2>5
<1> QED
  BY <1>1, <1>2

\* What the guard stopped, and nobody touched since, keeps its flag while it is stopped, over stale flags that are
\* cleared, changes of priority, restarts and further samples: it will be started again when there is room
\* (memoryGuard.commands.ts).  It takes that no sample is taken while a lifecycle job is under way.
THEOREM ShedAlwaysRemembered == PromptJobs => (GuardSpec => []ShedRemembered)
<1> SUFFICES ASSUME PromptJobs PROVE GuardSpec => []ShedRemembered
  OBVIOUS
<1>1. GuardInit => SampleInv /\ LostInv
  BY DEF GuardInit, SampleInv, LostInv, NoTick
<1>2. LostInv => ShedRemembered
  BY DEF LostInv, ShedRemembered
<1>3. Typed /\ SampleInv /\ [GuardNext]_guardVars => SampleInv'
  BY StepSample
<1>4. Typed /\ SampleInv /\ LostInv /\ [GuardNext]_guardVars => LostInv'
  BY StepLost
<1> QED
  BY <1>1, <1>2, <1>3, <1>4, InitTyped, StepTyped, PTL DEF GuardSpec
=============================================================================
