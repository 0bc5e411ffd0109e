----------------------------- MODULE PanelBackup -----------------------------
(***************************************************************************)
(* The panel's backup of its own database to S3: a tick several times an   *)
(* hour decides whether one is due, "Back up now" forces one, and each     *)
(* success removes the oldest objects.  Time is counted in hours.          *)
(***************************************************************************)
EXTENDS Integers, Sequences, FiniteSets

CONSTANTS
    BackupHour,      \* backup_hour_utc
    MinGap,          \* MIN_GAP_MS
    Retention,       \* backup_retention
    MaxHours,        \* how long the clock runs
    MaxPanelRuns,    \* dumps that are ever made
    MaxPanelRequests,\* requests of users
    MaxPanelFaults   \* commands or uploads that fail, deaths of the worker

ASSUME PanelBackupAssumption ==
    /\ BackupHour \in 0..23 /\ MinGap \in 1..23 /\ Retention \in Nat \ {0}
    /\ MaxHours \in Nat /\ MaxPanelRuns \in Nat /\ MaxPanelRequests \in Nat /\ MaxPanelFaults \in Nat

VARIABLES
    hour,       \* now
    ticked,     \* whether the tick of this hour was handled
    config,     \* the settings a user chooses: enabled, and whether there is a storage
    last,       \* backup_last_at, its status, the object it stands for and the deletes refused with it
    objects,    \* the objects in S3: whether each is whole
    dumps,      \* dumps made so far; an object's key is the number of its dump
    panelQueue, \* waiting jobs: whether each is forced
    panelJob,   \* the job in progress
    panelUsed,  \* what was used up of the bounds
    steady      \* history: nothing failed and the settings did not change

panelVars == <<hour, ticked, config, last, objects, dumps, panelQueue, panelJob, panelUsed, steady>>

NoPanelJob == [pc |-> "rest", force |-> FALSE, at |-> 0, key |-> 0, kept |-> 0, run |-> 0]

PanelTypeOK ==
    /\ hour \in 0..MaxHours /\ ticked \in BOOLEAN /\ config \in [enabled : BOOLEAN, storage : BOOLEAN]
    /\ last.at \in -1..MaxHours /\ last.status \in {"none", "running", "success", "failed"} /\ last.key \in 0..MaxPanelRuns
    /\ DOMAIN objects \subseteq 1..MaxPanelRuns /\ dumps \in 0..MaxPanelRuns
    /\ panelQueue \in Seq([force : BOOLEAN, run : 0..1])
    /\ panelJob.pc \in {"rest", "dump", "upload", "retain", "done", "fail"}
    /\ panelUsed \in [request : Nat, fault : Nat] /\ steady \in BOOLEAN

PanelFault == panelUsed.fault < MaxPanelFaults /\ panelUsed' = [panelUsed EXCEPT !.fault = @ + 1] /\ steady' = FALSE
PanelAsk == panelUsed.request < MaxPanelRequests /\ panelUsed' = [panelUsed EXCEPT !.request = @ + 1]

----------------------------------------------------------------------------
(* Requests and ticks                                                      *)

\* PUT backup: enabled needs a storage
SetPanelBackup(enabled, storage) ==
    /\ enabled => storage
    /\ config # [enabled |-> enabled, storage |-> storage]
    /\ PanelAsk
    /\ config' = [enabled |-> enabled, storage |-> storage] /\ steady' = FALSE
    /\ UNCHANGED <<hour, ticked, last, objects, dumps, panelQueue, panelJob>>

BackUpNow ==
    /\ config.storage
    /\ PanelAsk
    /\ panelQueue' = Append(panelQueue, [force |-> TRUE, run |-> 0])
    /\ UNCHANGED <<hour, ticked, config, last, objects, dumps, panelJob, steady>>

PanelTick ==
    /\ ~ticked /\ panelQueue = <<>> /\ panelJob.pc = "rest"
    /\ panelQueue' = <<[force |-> FALSE, run |-> 0]>>
    /\ UNCHANGED <<hour, ticked, config, last, objects, dumps, panelJob, panelUsed, steady>>

\* a tick comes every 15 minutes: no hour passes without one that was handled
HourPasses ==
    /\ hour < MaxHours /\ ticked /\ panelQueue = <<>> /\ panelJob.pc = "rest"
    /\ hour' = hour + 1 /\ ticked' = FALSE
    /\ UNCHANGED <<config, last, objects, dumps, panelQueue, panelJob, panelUsed, steady>>

----------------------------------------------------------------------------
(* The job                                                                 *)

isInstanceBackupDue(force) ==
    /\ config.storage
    /\ force \/ (config.enabled /\ hour % 24 = BackupHour /\ (last.at = -1 \/ hour - last.at >= MinGap))

TakePanelBackup ==
    LET j == Head(panelQueue)
        due == isInstanceBackupDue(j.force)
    IN  /\ panelJob.pc = "rest" /\ panelQueue # <<>>
        /\ panelQueue' = Tail(panelQueue)
        /\ panelJob' = IF due THEN [NoPanelJob EXCEPT !.pc = "dump", !.force = j.force, !.at = hour, !.run = j.run] ELSE NoPanelJob
        /\ last' = IF due THEN [last EXCEPT !.status = "running"] ELSE last
        /\ ticked' = (ticked \/ ~j.force)
        /\ UNCHANGED <<hour, config, objects, dumps, panelUsed, steady>>

\* pg_dump to a partial file, checked and then moved into place
DumpPanel ==
    /\ panelJob.pc = "dump" /\ dumps < MaxPanelRuns
    /\ dumps' = dumps + 1
    /\ panelJob' = [panelJob EXCEPT !.pc = "upload", !.key = dumps + 1]
    /\ UNCHANGED <<hour, ticked, config, last, objects, panelQueue, panelUsed, steady>>

\* it fails; a lost connection reads as exit code 0 and leaves no file to upload, which fails the next step
DumpFails ==
    /\ panelJob.pc = "dump"
    /\ PanelFault
    /\ panelJob' = [panelJob EXCEPT !.pc = "fail"]
    /\ UNCHANGED <<hour, ticked, config, last, objects, dumps, panelQueue>>

Stored(key, whole) == [k \in DOMAIN objects \cup {key} |-> IF k = key THEN whole ELSE objects[k]]

UploadPanel ==
    /\ panelJob.pc = "upload"
    /\ objects' = Stored(panelJob.key, TRUE)
    /\ panelJob' = [panelJob EXCEPT !.pc = "retain"]
    /\ UNCHANGED <<hour, ticked, config, last, dumps, panelQueue, panelUsed, steady>>

\* mutant: an upload that sent less than the dump counts
UploadCutGoesOn ==
    /\ panelJob.pc = "upload"
    /\ PanelFault
    /\ objects' = Stored(panelJob.key, FALSE)
    /\ panelJob' = [panelJob EXCEPT !.pc = "retain"]
    /\ UNCHANGED <<hour, ticked, config, last, dumps, panelQueue>>

\* fewer bytes were sent than the dump has: the object is there, the run fails
UploadCut ==
    /\ panelJob.pc = "upload"
    /\ PanelFault
    /\ objects' = Stored(panelJob.key, FALSE)
    /\ panelJob' = [panelJob EXCEPT !.pc = "fail"]
    /\ UNCHANGED <<hour, ticked, config, last, dumps, panelQueue>>

\* mutant: the newest objects are the ones to go
instanceBackupsToDeleteNewest(keys) == {k \in keys : Cardinality({l \in keys : l < k}) >= Retention}

\* all but the newest objects that look like the panel's
instanceBackupsToDelete(keys) == {k \in keys : Cardinality({l \in keys : l > k}) >= Retention}

RetainPanel ==
    /\ panelJob.pc = "retain"
    /\ objects' = [k \in DOMAIN objects \ instanceBackupsToDelete(DOMAIN objects) |-> objects[k]]
    /\ panelJob' = [panelJob EXCEPT !.pc = "done"]
    /\ UNCHANGED <<hour, ticked, config, last, dumps, panelQueue, panelUsed, steady>>

\* S3 refuses to delete one of the old objects: that is ignored
RetainSkips(k) ==
    /\ panelJob.pc = "retain" /\ k \in instanceBackupsToDelete(DOMAIN objects)
    /\ PanelFault
    /\ objects' = [l \in (DOMAIN objects \ instanceBackupsToDelete(DOMAIN objects)) \cup {k} |-> objects[l]]
    /\ panelJob' = [panelJob EXCEPT !.pc = "done", !.kept = 1]
    /\ UNCHANGED <<hour, ticked, config, last, dumps, panelQueue>>

\* the objects cannot be listed: the run fails although its object is there
RetainFails ==
    /\ panelJob.pc = "retain"
    /\ PanelFault
    /\ panelJob' = [panelJob EXCEPT !.pc = "fail"]
    /\ UNCHANGED <<hour, ticked, config, last, objects, dumps, panelQueue>>

EndPanelBackup ==
    /\ panelJob.pc = "done"
    /\ last' = [at |-> panelJob.at, status |-> "success", key |-> panelJob.key, kept |-> panelJob.kept]
    /\ panelJob' = NoPanelJob
    /\ UNCHANGED <<hour, ticked, config, objects, dumps, panelQueue, panelUsed, steady>>

FailPanelBackup ==
    /\ panelJob.pc = "fail"
    /\ last' = [last EXCEPT !.status = "failed"]
    /\ panelJob' = NoPanelJob
    /\ UNCHANGED <<hour, ticked, config, objects, dumps, panelQueue, panelUsed, steady>>

PanelWorkerDies ==
    /\ panelJob.pc # "rest"
    /\ PanelFault
    /\ panelQueue' = IF panelJob.run = 0 THEN <<[force |-> panelJob.force, run |-> 1]>> \o panelQueue ELSE panelQueue
    /\ panelJob' = NoPanelJob
    /\ UNCHANGED <<hour, ticked, config, last, objects, dumps>>

----------------------------------------------------------------------------
(* Specification                                                           *)

PanelInit ==
    /\ hour = 0 /\ ticked = FALSE /\ config = [enabled |-> TRUE, storage |-> TRUE]
    /\ last = [at |-> -1, status |-> "none", key |-> 0, kept |-> 0] /\ objects = << >> /\ dumps = 0
    /\ panelQueue = <<>> /\ panelJob = NoPanelJob
    /\ panelUsed = [request |-> 0, fault |-> 0] /\ steady = TRUE

PanelNext ==
    \/ \E enabled, storage \in BOOLEAN : SetPanelBackup(enabled, storage)
    \/ BackUpNow \/ PanelTick \/ HourPasses \/ TakePanelBackup
    \/ DumpPanel \/ DumpFails \/ UploadPanel \/ UploadCut \/ RetainPanel \/ RetainFails
    \/ \E k \in DOMAIN objects : RetainSkips(k)
    \/ EndPanelBackup \/ FailPanelBackup \/ PanelWorkerDies

PanelSpec == PanelInit /\ [][PanelNext]_panelVars

----------------------------------------------------------------------------
(* Properties                                                              *)

\* Once a backup was recorded as the last one, S3 always holds a whole backup at least that recent, through failures,
\* cut uploads, retention and workers that die (instanceBackup.ts).
LastBackupIsThere == last.key # 0 => \E k \in DOMAIN objects : k >= last.key /\ objects[k]

\* A night that a forced backup made unnecessary is made up for the next night: while nothing fails no backup is ever
\* as old as a day and the gap together (instanceBackup.ts isInstanceBackupDue).
BackupIsRecent == steady /\ panelJob.pc = "rest" /\ panelQueue = <<>> /\ ticked => hour - last.at < 24 + (IF last.at = -1 THEN BackupHour ELSE MinGap)

\* After a success no more objects are left than the retention says and the deletes S3 refused, those of failed runs
\* included.
RetentionHolds == panelJob.pc = "rest" /\ last.status = "success" => Cardinality(DOMAIN objects) <= Retention + last.kept

\* What the panel's own backup promises.
PanelBackupSound == LastBackupIsThere /\ BackupIsRecent /\ RetentionHolds

=============================================================================
