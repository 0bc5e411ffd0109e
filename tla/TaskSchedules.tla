---------------------------- MODULE TaskSchedules ----------------------------
(***************************************************************************)
(* A scheduled task of an application: its row, the BullMQ scheduler that  *)
(* fires it, the jobs, and the history of executions.                      *)
(*                                                                         *)
(* The row and the scheduler live in different stores; a request writes    *)
(* them one after the other, in an order of its own.                       *)
(***************************************************************************)
EXTENDS Integers, Sequences

CONSTANTS
    Askers,          \* requests that can be in progress at once
    KeepExecutions,  \* KEEP_EXECUTIONS
    MaxTaskRequests, \* requests
    MaxTaskRuns,     \* jobs
    MaxTaskFaults    \* deaths of the API or the worker, invalid schedules

ASSUME TaskAssumption ==
    KeepExecutions \in Nat \ {0} /\ MaxTaskRequests \in Nat /\ MaxTaskRuns \in Nat /\ MaxTaskFaults \in Nat

VARIABLES
    task,       \* the row: absent, enabled, disabled or deleted
    scheduler,  \* whether the scheduler fires the task
    asking,     \* the requests in progress
    tasks,      \* waiting jobs
    taskJob,    \* the job in progress
    history,    \* the executions, newest first
    taskUsed,   \* what was used up of the bounds
    taskCalm    \* history: no two requests overlapped and the API did not die in one

taskVars == <<task, scheduler, asking, tasks, taskJob, history, taskUsed, taskCalm>>

NotAsking == [op |-> "none", on |-> FALSE]
NoTaskJob == [pc |-> "rest", manual |-> FALSE, run |-> 0]

TaskTypeOK ==
    /\ task \in {"absent", "enabled", "disabled", "deleted"} /\ scheduler \in BOOLEAN
    /\ asking \in [Askers -> [op : {"none", "create", "update", "write", "delete", "erase"}, on : BOOLEAN]]
    /\ tasks \in Seq([manual : BOOLEAN, run : 0..1])
    /\ taskJob.pc \in {"rest", "exec", "keep"} /\ taskJob.manual \in BOOLEAN /\ taskJob.run \in 0..1
    /\ history \in Seq({"running", "success", "failed"})
    /\ taskUsed \in [request : Nat, run : Nat, fault : Nat]
    /\ taskCalm \in BOOLEAN

Enabled(on) == IF on THEN "enabled" ELSE "disabled"
HasTask == task \in {"enabled", "disabled"}
NobodyAsks == \A a \in Askers : asking[a] = NotAsking
TaskFault == taskUsed.fault < MaxTaskFaults /\ taskUsed' = [taskUsed EXCEPT !.fault = @ + 1]
Asks(a, op, on) ==
    /\ asking[a] = NotAsking
    /\ taskUsed.request < MaxTaskRequests /\ taskUsed' = [taskUsed EXCEPT !.request = @ + 1]
    /\ asking' = [asking EXCEPT ![a] = [op |-> op, on |-> on]]
    /\ taskCalm' = (taskCalm /\ NobodyAsks)
Answered(a) == asking' = [asking EXCEPT ![a] = NotAsking]

----------------------------------------------------------------------------
(* Requests                                                                *)

\* POST: the row first, then the scheduler of an enabled task
InsertTask(a, on) ==
    /\ task = "absent"
    /\ Asks(a, "create", on)
    /\ task' = Enabled(on)
    /\ UNCHANGED <<scheduler, tasks, taskJob, history>>

ScheduleTask(a) ==
    /\ asking[a].op = "create"
    /\ scheduler' = (scheduler \/ asking[a].on)
    /\ Answered(a)
    /\ UNCHANGED <<task, tasks, taskJob, history, taskUsed, taskCalm>>

\* mutant: the row of a task with an invalid schedule stays
RejectScheduleKeepsRow(a) ==
    /\ asking[a].op = "create" /\ asking[a].on
    /\ TaskFault
    /\ Answered(a)
    /\ UNCHANGED <<task, scheduler, tasks, taskJob, history, taskCalm>>

\* BullMQ refuses the schedule: the row is undone
RejectSchedule(a) ==
    /\ asking[a].op = "create" /\ asking[a].on
    /\ TaskFault
    /\ task' = "deleted"
    /\ Answered(a)
    /\ UNCHANGED <<scheduler, tasks, taskJob, history, taskCalm>>

\* PUT: the scheduler first, then the row
UpdateTask(a, on) ==
    /\ HasTask
    /\ Asks(a, "update", on)
    /\ UNCHANGED <<task, scheduler, tasks, taskJob, history>>

\* mutant: an update leaves the scheduler of a disabled task
RescheduleOnly(a) ==
    /\ asking[a].op = "update"
    /\ scheduler' = (scheduler \/ asking[a].on)
    /\ asking' = [asking EXCEPT ![a].op = "write"]
    /\ UNCHANGED <<task, tasks, taskJob, history, taskUsed, taskCalm>>

Reschedule(a) ==
    /\ asking[a].op = "update"
    /\ scheduler' = asking[a].on
    /\ asking' = [asking EXCEPT ![a].op = "write"]
    /\ UNCHANGED <<task, tasks, taskJob, history, taskUsed, taskCalm>>

WriteTask(a) ==
    /\ asking[a].op = "write"
    /\ task' = IF ~HasTask THEN task ELSE Enabled(asking[a].on)
    /\ Answered(a)
    /\ UNCHANGED <<scheduler, tasks, taskJob, history, taskUsed, taskCalm>>

\* DELETE: the scheduler, then the row and its executions
DeleteTask(a) ==
    /\ HasTask
    /\ Asks(a, "delete", FALSE)
    /\ UNCHANGED <<task, scheduler, tasks, taskJob, history>>

Unschedule(a) ==
    /\ asking[a].op = "delete"
    /\ scheduler' = FALSE
    /\ asking' = [asking EXCEPT ![a].op = "erase"]
    /\ UNCHANGED <<task, tasks, taskJob, history, taskUsed, taskCalm>>

EraseTask(a) ==
    /\ asking[a].op = "erase"
    /\ task' = "deleted" /\ history' = <<>>
    /\ Answered(a)
    /\ UNCHANGED <<scheduler, tasks, taskJob, taskUsed, taskCalm>>

\* the API dies with requests in progress: what they wrote stays
ApiDies ==
    /\ ~NobodyAsks
    /\ TaskFault
    /\ asking' = [a \in Askers |-> NotAsking] /\ taskCalm' = FALSE
    /\ UNCHANGED <<task, scheduler, tasks, taskJob, history>>

----------------------------------------------------------------------------
(* Jobs                                                                    *)

QueueTask(manual) ==
    /\ taskUsed.run < MaxTaskRuns /\ taskUsed' = [taskUsed EXCEPT !.run = @ + 1]
    /\ tasks' = Append(tasks, [manual |-> manual, run |-> 0])
    /\ UNCHANGED <<task, scheduler, asking, taskJob, history, taskCalm>>

RunNow == HasTask /\ QueueTask(TRUE)
Fires == scheduler /\ QueueTask(FALSE)

\* the task is loaded; one that is gone, or disabled and not run by hand, is left alone
TakeTask ==
    LET j == Head(tasks)
        runs == task = "enabled" \/ (task = "disabled" /\ j.manual)
    IN  /\ taskJob.pc = "rest" /\ tasks # <<>>
        /\ tasks' = Tail(tasks)
        /\ taskJob' = IF runs THEN [pc |-> "exec", manual |-> j.manual, run |-> j.run] ELSE NoTaskJob
        /\ history' = IF runs THEN <<"running">> \o history ELSE history
        /\ UNCHANGED <<task, scheduler, asking, taskUsed, taskCalm>>

\* the command ends, fails, or is cut off by the task's time limit; an update of a deleted row does nothing
EndTask(status) ==
    /\ taskJob.pc = "exec"
    /\ history' = IF history = <<>> THEN history ELSE <<status>> \o Tail(history)
    /\ taskJob' = [taskJob EXCEPT !.pc = "keep"]
    /\ UNCHANGED <<task, scheduler, asking, tasks, taskUsed, taskCalm>>

\* mutant: the history is cut before the new execution
KeptBefore(h) == h

\* the newest executions
Kept(h) == IF Len(h) > KeepExecutions THEN SubSeq(h, 1, KeepExecutions) ELSE h

TrimHistory ==
    /\ taskJob.pc = "keep"
    /\ history' = Kept(history)
    /\ taskJob' = NoTaskJob
    /\ UNCHANGED <<task, scheduler, asking, tasks, taskUsed, taskCalm>>

\* the worker dies: the job is started again once, with an execution of its own
TaskWorkerDies ==
    /\ taskJob.pc # "rest"
    /\ TaskFault
    /\ tasks' = IF taskJob.run = 0 THEN <<[manual |-> taskJob.manual, run |-> 1]>> \o tasks ELSE tasks
    /\ taskJob' = NoTaskJob
    /\ UNCHANGED <<task, scheduler, asking, history, taskCalm>>

----------------------------------------------------------------------------
(* Specification                                                           *)

TaskInit ==
    /\ task = "absent" /\ scheduler = FALSE
    /\ asking = [a \in Askers |-> NotAsking]
    /\ tasks = <<>> /\ taskJob = NoTaskJob /\ history = <<>>
    /\ taskUsed = [request |-> 0, run |-> 0, fault |-> 0] /\ taskCalm = TRUE

TaskNext ==
    \/ \E a \in Askers, on \in BOOLEAN : InsertTask(a, on) \/ UpdateTask(a, on)
    \/ \E a \in Askers : ScheduleTask(a) \/ RejectSchedule(a) \/ Reschedule(a) \/ WriteTask(a)
                         \/ DeleteTask(a) \/ Unschedule(a) \/ EraseTask(a)
    \/ RunNow \/ Fires \/ TakeTask \/ TrimHistory \/ TaskWorkerDies \/ ApiDies
    \/ \E status \in {"success", "failed"} : EndTask(status)

TaskSpec == TaskInit /\ [][TaskNext]_taskVars

----------------------------------------------------------------------------
(* Properties                                                              *)

\* With no request in progress an enabled task has its scheduler and no other task has one, unless requests overlapped
\* or the API died between the two writes (applications.ts, the task routes).
ScheduleFollowsRow == NobodyAsks /\ taskCalm => (scheduler <=> task = "enabled")

\* The history is as long as it may be, and an execution that says running is the one in progress, or one a worker
\* died in (scheduledTask.ts).
HistoryBounded ==
    /\ taskJob.pc = "rest" /\ taskUsed.fault = 0 => Len(history) <= KeepExecutions
    /\ taskUsed.fault = 0 => \A i \in DOMAIN history : history[i] = "running" => i = 1 /\ taskJob.pc = "exec"

\* What users see of a task is what happens.
TasksSound == ScheduleFollowsRow /\ HistoryBounded

=============================================================================
