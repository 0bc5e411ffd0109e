---------------------------- MODULE VolumeBackups ----------------------------
(***************************************************************************)
(* The archives of one volume of an application or a stack: backing it up, *)
(* restoring an archive, the retention, and deleting archives.             *)
(*                                                                         *)
(* A row of volume_backups is a backup or a restore; its id is its place   *)
(* in the order of creation.  The job's queue runs one job at a time; the  *)
(* API deletes archives whenever a user asks.  A run of a job that is      *)
(* started again writes an archive of another name, so an archive is named *)
(* by its row and the run that wrote it.                                   *)
(***************************************************************************)
EXTENDS Integers, Sequences, FiniteSets

CONSTANTS
    VbRows,         \* how many rows are ever created
    KeepArchives,   \* KEEP_VOLUME_BACKUPS
    MaxVbDrops,     \* archives a user deletes
    MaxVbFaults,    \* failed or lost commands, deaths of the worker
    WithS3          \* whether a backup may be asked for with an S3 destination

ASSUME VbAssumption == VbRows \in Nat /\ KeepArchives \in Nat \ {0} /\ MaxVbDrops \in Nat /\ MaxVbFaults \in Nat /\ WithS3 \in BOOLEAN

VARIABLES
    vb,         \* the rows of volume_backups
    archives,   \* the archives on the server: whether each is whole
    inS3,       \* the archives in S3
    vdata,      \* what is in the volume: "whole" or "lost" data
    box,        \* the container that uses the volume: "up" or "down"
    vqueue,     \* waiting jobs: rows with the runs they had
    vjob,       \* the job in progress
    vask,       \* a backup request between its check and its insert
    vdrop,      \* a deletion between its steps: the row it read
    vused,      \* what was used up of the bounds
    vluck       \* history: what went wrong from outside

volumeVars == <<vb, archives, inS3, vdata, box, vqueue, vjob, vask, vdrop, vused, vluck>>

VbIds == 1..VbRows
NoArchive == <<0, 0>>
Archive == VbIds \X (0..2)
NoVbRow == [status |-> "absent", op |-> "backup", src |-> 0, s3 |-> FALSE, file |-> NoArchive]
NoVbJob == [id |-> 0, run |-> 0, pc |-> "rest", from |-> NoArchive, old |-> {}, ok |-> TRUE]

VolumeTypeOK ==
    /\ vb \in [VbIds -> [status : {"absent", "queued", "running", "success", "failed", "deleted"}, op : {"backup", "restore"},
                         src : 0..VbRows, s3 : BOOLEAN, file : Archive \cup {NoArchive}]]
    /\ DOMAIN archives \subseteq Archive /\ \A a \in DOMAIN archives : archives[a] \in BOOLEAN
    /\ inS3 \subseteq Archive
    /\ vdata \in {"whole", "lost"} /\ box \in {"up", "down"}
    /\ vqueue \in Seq([id : VbIds, run : 0..1])
    /\ vjob.id \in 0..VbRows /\ vjob.run \in 0..1 /\ vjob.old \subseteq VbIds
    /\ vjob.pc \in {"rest", "archive", "record", "retain", "download", "stop", "replace", "start", "restored", "fail"}
    /\ vask \in {"none", "local", "s3"}
    /\ vdrop.id \in 0..VbRows /\ vdrop.pc \in {"rest", "file", "row"}
    /\ vused \in [drop : 0..MaxVbDrops, fault : 0..MaxVbFaults]
    /\ vluck \subseteq {"fault", "lost", "died", "dropped"}

HasVb(i) == vb[i].status \notin {"absent", "deleted"}
KnownRows == {i \in VbIds : HasVb(i)}
NewestRow == CHOOSE i \in KnownRows : \A j \in KnownRows : j <= i
Unused == {i \in VbIds : vb[i].status = "absent"}
NextRow == CHOOSE i \in Unused : \A j \in Unused : i <= j
VbFault(kind) == vused.fault < MaxVbFaults /\ vused' = [vused EXCEPT !.fault = @ + 1] /\ vluck' = vluck \cup {kind}

Inserted(row) ==
    /\ Unused # {}
    /\ vb' = [vb EXCEPT ![NextRow] = row]
    /\ vqueue' = Append(vqueue, [id |-> NextRow, run |-> 0])

----------------------------------------------------------------------------
(* Requests                                                                *)

\* POST backup: refused while the newest row of the volume is queued or running
BeginBackup(where) ==
    /\ vask = "none" /\ Unused # {} /\ (where = "s3" => WithS3)
    /\ KnownRows # {} => vb[NewestRow].status \notin {"queued", "running"}
    /\ vask' = where
    /\ UNCHANGED <<vb, archives, inS3, vdata, box, vqueue, vjob, vdrop, vused, vluck>>

InsertBackup ==
    /\ vask # "none"
    /\ IF Unused = {} THEN UNCHANGED <<vb, vqueue>> ELSE Inserted([NoVbRow EXCEPT !.status = "queued", !.s3 = vask = "s3"])
    /\ vask' = "none"
    /\ UNCHANGED <<archives, inS3, vdata, box, vjob, vdrop, vused, vluck>>

\* POST restore: the source is a backup that succeeded; whether the volume is busy is not asked
RequestVolumeRestore(i) ==
    /\ vb[i].status = "success" /\ vb[i].op = "backup" /\ vb[i].file # NoArchive
    /\ Inserted([NoVbRow EXCEPT !.status = "queued", !.op = "restore", !.src = i])
    /\ UNCHANGED <<archives, inS3, vdata, box, vjob, vask, vdrop, vused, vluck>>

\* DELETE: the row is read, its file removed, best effort, and the row deleted
BeginDrop(i) ==
    /\ vdrop.pc = "rest" /\ HasVb(i)
    /\ vused.drop < MaxVbDrops /\ vused' = [vused EXCEPT !.drop = @ + 1]
    /\ vdrop' = [id |-> i, pc |-> "file", row |-> vb[i]]
    /\ UNCHANGED <<vb, archives, inS3, vdata, box, vqueue, vjob, vask, vluck>>

Without(a) == [b \in DOMAIN archives \ {a} |-> archives[b]]

removeVolumeBackupFile(row) ==
    \/ (row.op # "backup" \/ row.file = NoArchive) /\ UNCHANGED <<archives, inS3>>
    \/ /\ row.op = "backup" /\ row.file # NoArchive
       /\ IF row.s3 THEN inS3' = inS3 \ {row.file} /\ UNCHANGED archives
                    ELSE archives' = Without(row.file) /\ UNCHANGED inS3

DropFile ==
    /\ vdrop.pc = "file"
    /\ removeVolumeBackupFile(vdrop.row)
    /\ vdrop' = [vdrop EXCEPT !.pc = "row"]
    /\ vluck' = vluck \cup {"dropped"}
    /\ UNCHANGED <<vb, vdata, box, vqueue, vjob, vask, vused>>

DropRow ==
    /\ vdrop.pc = "row"
    /\ vb' = [vb EXCEPT ![vdrop.id] = [NoVbRow EXCEPT !.status = "deleted", !.s3 = vdrop.row.s3]]
    /\ vdrop' = [id |-> 0, pc |-> "rest", row |-> NoVbRow]
    /\ UNCHANGED <<archives, inS3, vdata, box, vqueue, vjob, vask, vused, vluck>>

----------------------------------------------------------------------------
(* The job                                                                 *)

\* an update of a row that is gone does nothing
SetVb(i, status) == [vb EXCEPT ![i].status = IF @ = "deleted" THEN @ ELSE status]

\* the source was deleted, or never had a file
SourceGone(row) == ~HasVb(row.src) \/ vb[row.src].file = NoArchive

FirstVbStep(row) ==
    IF row.op = "backup" THEN "archive"
    ELSE IF SourceGone(row) THEN "fail"
    ELSE IF vb[row.src].s3 THEN "download" ELSE "stop"

\* the row is loaded and marked running; a restore looks for its source
TakeVolumeJob ==
    LET j == Head(vqueue)
        row == vb[j.id]
    IN  /\ vjob.pc = "rest" /\ vqueue # <<>>
        /\ vqueue' = Tail(vqueue)
        /\ IF HasVb(j.id)
           THEN /\ vb' = SetVb(j.id, "running")
                /\ vjob' = [NoVbJob EXCEPT !.id = j.id, !.run = j.run, !.pc = FirstVbStep(row),
                                           !.from = IF row.op = "restore" /\ row.src # 0 THEN vb[row.src].file ELSE NoArchive]
           ELSE UNCHANGED <<vb, vjob>>
        /\ UNCHANGED <<archives, inS3, vdata, box, vask, vdrop, vused, vluck>>

VolumeGoes(pc) == vjob' = [vjob EXCEPT !.pc = pc]

\* tar to the archive's file; a container that writes meanwhile is not stopped
WriteArchive ==
    /\ vjob.pc = "archive"
    /\ archives' = [a \in DOMAIN archives \cup {<<vjob.id, vjob.run>>} |->
                       IF a = <<vjob.id, vjob.run>> THEN vdata = "whole" ELSE archives[a]]
    /\ VolumeGoes("record")
    /\ UNCHANGED <<vb, inS3, vdata, box, vqueue, vask, vdrop, vused, vluck>>

\* tar fails, or its connection is lost and it reads as exit code 0: part of an archive is left
ArchiveStops(lost) ==
    /\ vjob.pc = "archive"
    /\ VbFault(IF lost THEN "lost" ELSE "fault")
    /\ archives' = [a \in DOMAIN archives \cup {<<vjob.id, vjob.run>>} |-> IF a = <<vjob.id, vjob.run>> THEN FALSE ELSE archives[a]]
    /\ VolumeGoes(IF lost THEN "record" ELSE "fail")
    /\ UNCHANGED <<vb, inS3, vdata, box, vqueue, vask, vdrop>>

\* older successes than the newest few
Excess(rows) == {i \in VbIds : /\ rows[i].op = "backup" /\ rows[i].status = "success"
                             /\ Cardinality({j \in VbIds : j > i /\ rows[j].op = "backup" /\ rows[j].status = "success"}) >= KeepArchives}

\* the size is read, the row is a success with its file; the retention reads the rows
RecordArchive ==
    LET rows == IF HasVb(vjob.id)
                THEN [vb EXCEPT ![vjob.id].status = "success", ![vjob.id].file = <<vjob.id, vjob.run>>] ELSE vb
    IN  /\ vjob.pc = "record"
        /\ vb' = rows
        /\ vjob' = [vjob EXCEPT !.pc = "retain", !.old = Excess(rows)]
        /\ UNCHANGED <<archives, inS3, vdata, box, vqueue, vask, vdrop, vused, vluck>>

\* applyRetention: one old archive, its file first
ApplyRetention(i) ==
    /\ vjob.pc = "retain" /\ i \in vjob.old
    /\ IF HasVb(i) THEN removeVolumeBackupFile(vb[i]) ELSE UNCHANGED <<archives, inS3>>
    /\ vb' = [vb EXCEPT ![i] = [NoVbRow EXCEPT !.status = "deleted", !.s3 = vb[i].s3]]
    /\ vjob' = [vjob EXCEPT !.old = @ \ {i}]
    /\ UNCHANGED <<vdata, box, vqueue, vask, vdrop, vused, vluck>>

EndVolumeBackup ==
    /\ vjob.pc = "retain" /\ vjob.old = {}
    /\ vjob' = NoVbJob
    /\ UNCHANGED <<vb, archives, inS3, vdata, box, vqueue, vask, vdrop, vused, vluck>>

\* downloadStream: the object must be there
DownloadArchive ==
    /\ vjob.pc = "download"
    /\ VolumeGoes(IF vjob.from \in inS3 THEN "stop" ELSE "fail")
    /\ UNCHANGED <<vb, archives, inS3, vdata, box, vqueue, vask, vdrop, vused, vluck>>

StopBox ==
    /\ vjob.pc = "stop"
    /\ box' = "down" /\ VolumeGoes("replace")
    /\ UNCHANGED <<vb, archives, inS3, vdata, vqueue, vask, vdrop, vused, vluck>>

\* find -delete, then tar: without a whole archive the data is gone and the command fails
ReplaceData ==
    LET whole == vjob.from \in DOMAIN archives /\ archives[vjob.from]
    IN  /\ vjob.pc = "replace"
        /\ vdata' = IF whole THEN "whole" ELSE "lost"
        /\ vjob' = [vjob EXCEPT !.pc = "start", !.ok = whole]
        /\ UNCHANGED <<vb, archives, inS3, box, vqueue, vask, vdrop, vused, vluck>>

\* mutant: the container is started after a replacement that succeeded
ReplaceStopsNoStart(lost) ==
    /\ vjob.pc = "replace"
    /\ VbFault(IF lost THEN "lost" ELSE "fault")
    /\ vdata' = "lost"
    /\ vjob' = [vjob EXCEPT !.pc = IF lost THEN "start" ELSE "fail", !.ok = lost]
    /\ UNCHANGED <<vb, archives, inS3, box, vqueue, vask, vdrop>>

\* it stops halfway: as a failure, after which the container is started all the same, or as a lost connection
ReplaceStops(lost) ==
    /\ vjob.pc = "replace"
    /\ VbFault(IF lost THEN "lost" ELSE "fault")
    /\ vdata' = "lost"
    /\ vjob' = [vjob EXCEPT !.pc = "start", !.ok = lost]
    /\ UNCHANGED <<vb, archives, inS3, box, vqueue, vask, vdrop>>

StartBox ==
    /\ vjob.pc = "start"
    /\ box' = "up" /\ VolumeGoes(IF vjob.ok THEN "restored" ELSE "fail")
    /\ UNCHANGED <<vb, archives, inS3, vdata, vqueue, vask, vdrop, vused, vluck>>

\* the connection is gone when the container is to be started
StartLost ==
    /\ vjob.pc = "start"
    /\ VbFault("lost")
    /\ VolumeGoes("fail")
    /\ UNCHANGED <<vb, archives, inS3, vdata, box, vqueue, vask, vdrop>>

EndVolumeRestore ==
    /\ vjob.pc = "restored"
    /\ vb' = [SetVb(vjob.id, "success") EXCEPT ![vjob.id].file = IF HasVb(vjob.id) THEN vjob.from ELSE @]
    /\ vjob' = NoVbJob
    /\ UNCHANGED <<archives, inS3, vdata, box, vqueue, vask, vdrop, vused, vluck>>

VolumeJobFails ==
    /\ vjob.pc = "fail"
    /\ vb' = SetVb(vjob.id, "failed")
    /\ vjob' = NoVbJob
    /\ UNCHANGED <<archives, inS3, vdata, box, vqueue, vask, vdrop, vused, vluck>>

\* the worker dies: the job is started again once, then given up
VolumeWorkerDies ==
    /\ vjob.pc # "rest"
    /\ VbFault("died")
    /\ vqueue' = IF vjob.run = 0 THEN <<[id |-> vjob.id, run |-> 1]>> \o vqueue ELSE vqueue
    /\ vjob' = NoVbJob
    /\ UNCHANGED <<vb, archives, inS3, vdata, box, vask, vdrop>>

----------------------------------------------------------------------------
(* Specification                                                           *)

VolumeInit ==
    /\ vb = [i \in VbIds |-> NoVbRow]
    /\ archives = << >> /\ inS3 = {} /\ vdata = "whole" /\ box = "up"
    /\ vqueue = <<>> /\ vjob = NoVbJob
    /\ vask = "none" /\ vdrop = [id |-> 0, pc |-> "rest", row |-> NoVbRow]
    /\ vused = [drop |-> 0, fault |-> 0] /\ vluck = {}

VolumeRequests ==
    \/ \E where \in {"local", "s3"} : BeginBackup(where)
    \/ InsertBackup \/ DropFile \/ DropRow
    \/ \E i \in VbIds : RequestVolumeRestore(i) \/ BeginDrop(i)

VolumeJobs ==
    \/ TakeVolumeJob \/ WriteArchive \/ RecordArchive \/ EndVolumeBackup
    \/ DownloadArchive \/ StopBox \/ ReplaceData \/ StartBox \/ EndVolumeRestore
    \/ VolumeJobFails \/ StartLost \/ VolumeWorkerDies
    \/ \E i \in VbIds : ApplyRetention(i)
    \/ \E lost \in BOOLEAN : ArchiveStops(lost) \/ ReplaceStops(lost)

VolumeNext == VolumeRequests \/ VolumeJobs

VolumeSpec == VolumeInit /\ [][VolumeNext]_volumeVars

----------------------------------------------------------------------------
(* Properties                                                              *)

\* Whichever step of a restore fails, the container runs again when the job is over; only a worker that died or a
\* connection that was lost under the restore can leave it stopped (volumeBackup.ts, the two finally blocks).
ContainerReturns == vjob.pc = "rest" /\ vluck \cap {"lost", "died"} = {} => box = "up"

\* A backup listed as a success has its archive where a restore looks for it, while commands fail, jobs run again,
\* archives are deleted and the retention removes old ones, unless a connection was lost; when nothing went wrong it is
\* whole (volumeBackup.ts, volumeBackups.ts).
SuccessHasArchive ==
    \A i \in VbIds : vb[i].op = "backup" /\ vb[i].status = "success" /\ ~vb[i].s3 /\ vdrop.id # i /\ "lost" \notin vluck
        => vb[i].file \in DOMAIN archives /\ (vluck = {} => archives[vb[i].file])

\* A restore whose archive the retention removed while it waited leaves the data alone: data is lost only under a
\* command that failed or was cut off, a worker that died, or an archive a user deleted (volumeBackup.ts).
RestoreLosesNothing == vluck = {} => vdata = "whole"

\* Archives do not pile up: with no job and no deletion under way, and nothing that went wrong, the archives on the
\* server are those of the newest successes (volumeBackup.ts applyRetention).
ArchivesAreListed ==
    vjob.pc = "rest" /\ vdrop.pc = "rest" /\ vluck = {}
        => {a \in DOMAIN archives : ~vb[a[1]].s3}
            = {vb[i].file : i \in {j \in VbIds : vb[j].op = "backup" /\ vb[j].status = "success" /\ ~vb[j].s3}}

\* What makes the archives of a volume of use.
VolumesSound == ContainerReturns /\ SuccessHasArchive /\ RestoreLosesNothing /\ ArchivesAreListed

=============================================================================
