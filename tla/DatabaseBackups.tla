--------------------------- MODULE DatabaseBackups ---------------------------
(***************************************************************************)
(* The backups of one database under one schedule: the backup job with its *)
(* retention, the requests that remove backups, and the restore job.       *)
(*                                                                         *)
(* A backup is a row and a file that no transaction ties together.  The    *)
(* backup job and the restore job run in different queues and the requests *)
(* in another process, so all three interleave, one action per await.      *)
(*                                                                         *)
(* Runs are numbered in the order of createdAt.  Of the contents of a file *)
(* only this is kept: nothing is there, a torn archive, an archive that    *)
(* unpacks but holds only what its dump had written when it failed, a      *)
(* whole dump.                                                             *)
(***************************************************************************)
EXTENDS Integers, FiniteSets

CONSTANTS
    MaxJobs,       \* backup jobs queued, by the schedule or by hand
    Kept,          \* how many of the newest successes the retention limits may leave: {retentionCount}, 1 ..
                   \* retentionCount with an age limit, 0 .. with a size limit that one backup may exceed
    Piped,         \* the dump is piped into the compressor (PostgreSQL, MySQL, MariaDB, Redis, KeyDB, all archives of several)
    MaxFaults,     \* lost connections, commands and transfers that fail, queries that throw, deaths of a process
    MaxRequests    \* requests of users

ASSUME BackupsAssumption ==
    /\ MaxJobs \in Nat /\ MaxFaults \in Nat /\ MaxRequests \in Nat
    /\ Kept \subseteq Nat /\ Kept # {}
    /\ Piped \in BOOLEAN

VARIABLES
    dest,       \* backup_schedules.storageId: null or a storage
    queue,      \* jobs of the database-backup queue that wait
    stalled,    \* a job of a worker that died waits for its second run
    made,       \* rows of backup_executions so far
    row,        \* backup_executions
    file,       \* what each run has left on the server and in S3
    w,          \* the backup job that runs
    a,          \* the request in progress that removes backups
    r,          \* the restore job
    data,       \* the contents of the database, as far as restores go
    succeeded,  \* history: runs that were recorded as a success
    doomed,     \* history: backups the retention decided to remove
    given,      \* history: backups a user asked to remove
    used        \* what was used up of the bounds

vars == <<dest, queue, stalled, made, row, file, w, a, r, data, succeeded, doomed, given, used>>

Runs == 1 .. (MaxJobs + MaxFaults)
Places == {"server", "s3"}
FileState == {"no", "torn", "short", "whole"}
Unpacks == {"short", "whole"}
\* what a dump command that exits with 0 leaves
Complete == IF Piped THEN Unpacks ELSE {"whole"}
Row == [status : {"none", "running", "success", "failed", "gone"}, at : Places \cup {"none"}, synced : BOOLEAN]
Job == [pc : {"idle", "insert", "connect", "dump", "size", "upload", "unstage", "record", "list", "remove", "unrow",
              "announce", "catch"},
        run : Runs \cup {0}, again : BOOLEAN, conn : BOOLEAN, dest : Places, todo : SUBSET Runs]
Request == [what : {"rest", "delete", "prune", "failed", "missing"}, todo : SUBSET Runs, files : SUBSET Runs]
Restore == [pc : {"rest", "queued", "fetch", "prepare", "reset", "load", "clean", "record", "fail"}, run : Runs \cup {0},
            again : BOOLEAN, conn : BOOLEAN, got : FileState, plain : FileState,
            status : {"none", "queued", "running", "success", "failed"}]
Bounded == {"job", "fault", "request"}

NoRow == [status |-> "none", at |-> "none", synced |-> FALSE]
Idle == [pc |-> "idle", run |-> 0, again |-> FALSE, conn |-> FALSE, dest |-> "server", todo |-> {}]
NoRequest == [what |-> "rest", todo |-> {}, files |-> {}]
NoRestore == [pc |-> "rest", run |-> 0, again |-> FALSE, conn |-> FALSE, got |-> "no", plain |-> "no", status |-> "none"]

TypeOK ==
    /\ dest \in Places
    /\ queue \in 0 .. MaxJobs /\ stalled \in BOOLEAN
    /\ made \in 0 .. (MaxJobs + MaxFaults)
    /\ row \in [Runs -> Row]
    /\ file \in [Runs -> [Places -> FileState]]
    /\ w \in Job /\ a \in Request /\ r \in Restore
    /\ data \in {"live", "empty", "part", "loaded"}
    /\ succeeded \subseteq Runs /\ doomed \subseteq Runs /\ given \subseteq Runs
    /\ used \in [Bounded -> Nat]

UseUp(what, bound) == used[what] < bound /\ used' = [used EXCEPT ![what] = @ + 1]

Successes == {e \in Runs : row[e].status = "success"}
\* the rows of S beyond the n newest
Beyond(S, n) == {e \in S : Cardinality({f \in S : f >= e}) > n}
Newest(e, S) == e \in S /\ \A f \in S : f <= e

SetRow(e, status) == row' = IF row[e].status = "gone" THEN row ELSE [row EXCEPT ![e].status = status]
SetFile(e, place, state) == file' = [file EXCEPT ![e] = [@ EXCEPT ![place] = state]]

----------------------------------------------------------------------------
(* The backup job                                                          *)

backupOnly == <<dest, a, r, data, given>>
At(pc) == w.pc = pc
Goto(pc) == w' = [w EXCEPT !.pc = pc]
\* the connection closes under a command, which reports exit code 0
Cut(pc) == UseUp("fault", MaxFaults) /\ w' = [w EXCEPT !.pc = pc, !.conn = FALSE]

\* mutant: a job that stalled is taken as one of the waiting ones
TakeJobStalledToo ==
    /\ w = Idle
    /\ queue > 0 \/ stalled
    /\ queue' = queue - 1 /\ stalled' = FALSE
    /\ w' = [Idle EXCEPT !.pc = "insert", !.dest = dest, !.again = stalled]
    /\ UNCHANGED <<backupOnly, made, row, file, succeeded, doomed, used>>

\* the scheduler or "run now"
Enqueue ==
    /\ UseUp("job", MaxJobs)
    /\ queue' = queue + 1
    /\ UNCHANGED <<backupOnly, stalled, made, row, file, w, succeeded, doomed>>

\* the schedule is read now, its destination used much later
TakeJob ==
    /\ w = Idle
    /\ \/ stalled /\ stalled' = FALSE /\ UNCHANGED queue
       \/ queue > 0 /\ queue' = queue - 1 /\ UNCHANGED stalled
    /\ w' = [Idle EXCEPT !.pc = "insert", !.dest = dest, !.again = stalled /\ ~stalled']
    /\ UNCHANGED <<backupOnly, made, row, file, succeeded, doomed, used>>

InsertRow ==
    /\ At("insert")
    /\ made' = made + 1
    /\ row' = [row EXCEPT ![made + 1] = [status |-> "running", at |-> "none", synced |-> FALSE]]
    /\ w' = [w EXCEPT !.pc = "connect", !.run = made + 1]
    /\ UNCHANGED <<backupOnly, queue, stalled, file, succeeded, doomed, used>>

\* the insert or the event throws outside the try block: the job is over, a row stays running
ThrowOutsideTry ==
    /\ At("insert") \/ At("connect")
    /\ UseUp("fault", MaxFaults)
    /\ w' = Idle
    /\ UNCHANGED <<backupOnly, queue, stalled, made, row, file, succeeded, doomed>>

Connect ==
    /\ At("connect")
    /\ \/ w' = [w EXCEPT !.pc = "dump", !.conn = TRUE] /\ UNCHANGED used
       \/ UseUp("fault", MaxFaults) /\ Goto("catch")
    /\ UNCHANGED <<backupOnly, queue, stalled, made, row, file, succeeded, doomed>>

\* a pipeline's exit code is that of the compressor
Dump ==
    /\ At("dump")
    /\ \/ SetFile(w.run, "server", "whole") /\ Goto("size") /\ UNCHANGED used
       \/ UseUp("fault", MaxFaults) /\ SetFile(w.run, "server", "torn") /\ Goto("catch")
       \/ Piped /\ UseUp("fault", MaxFaults) /\ SetFile(w.run, "server", "short") /\ Goto("size")
       \/ Cut("size") /\ \E left \in {"torn", "whole"} : SetFile(w.run, "server", left)
    /\ UNCHANGED <<backupOnly, queue, stalled, made, row, succeeded, doomed>>

AfterSize == IF w.dest = "s3" THEN "upload" ELSE "record"

Size ==
    /\ At("size") /\ w.conn
    /\ \/ Goto(AfterSize) /\ UNCHANGED used
       \/ Cut(AfterSize)
    /\ UNCHANGED <<backupOnly, queue, stalled, made, row, file, succeeded, doomed>>

\* a transfer that fails removes its object, if it can
Upload ==
    /\ At("upload") /\ w.conn
    /\ \/ SetFile(w.run, "s3", file[w.run]["server"]) /\ Goto("unstage") /\ UNCHANGED used
       \/ /\ Cut("catch") \/ (UseUp("fault", MaxFaults) /\ Goto("catch"))
          /\ \E left \in {"no", "torn"} : SetFile(w.run, "s3", left)
    /\ UNCHANGED <<backupOnly, queue, stalled, made, row, succeeded, doomed>>

\* removeRemoteFile resolves whatever became of the file
Unstage ==
    /\ At("unstage") /\ w.conn
    /\ \/ SetFile(w.run, "server", "no") /\ Goto("record") /\ UNCHANGED used
       \/ UseUp("fault", MaxFaults) /\ Goto("record") /\ UNCHANGED file
       \/ Cut("record") /\ (UNCHANGED file \/ SetFile(w.run, "server", "no"))
    /\ UNCHANGED <<backupOnly, queue, stalled, made, row, succeeded, doomed>>

\* a command or transfer on a connection that is gone throws
ConnectionGone ==
    /\ ~w.conn
    /\ \/ w.pc \in {"size", "upload", "unstage"}
       \/ At("remove") /\ \E e \in w.todo : Newest(e, w.todo) /\ row[e].at = "server"
    /\ Goto("catch")
    /\ UNCHANGED <<backupOnly, queue, stalled, made, row, file, succeeded, doomed, used>>

\* mutant: the destination the schedule has now
RecordCurrentDest ==
    /\ At("record")
    /\ row' = IF row[w.run].status = "gone" THEN row ELSE [row EXCEPT ![w.run].status = "success", ![w.run].at = dest]
    /\ succeeded' = IF row[w.run].status = "gone" THEN succeeded ELSE succeeded \cup {w.run}
    /\ Goto("list")
    /\ UNCHANGED <<backupOnly, queue, stalled, made, file, doomed, used>>

Record ==
    /\ At("record")
    /\ row' = IF row[w.run].status = "gone" THEN row ELSE [row EXCEPT ![w.run].status = "success", ![w.run].at = w.dest]
    /\ succeeded' = IF row[w.run].status = "gone" THEN succeeded ELSE succeeded \cup {w.run}
    /\ Goto("list")
    /\ UNCHANGED <<backupOnly, queue, stalled, made, file, doomed, used>>

\* mutant: the limit counts the backups before this one
ListBeforeThis ==
    /\ At("list")
    /\ \E n \in Kept :
         LET old == Beyond(Successes, n - 1) IN
         /\ w' = [w EXCEPT !.pc = IF old = {} THEN "announce" ELSE "remove", !.todo = old]
         /\ doomed' = doomed \cup old
    /\ UNCHANGED <<backupOnly, queue, stalled, made, row, file, succeeded, used>>

\* applyRetention selects what goes, of the rows it read
List ==
    /\ At("list")
    /\ \E n \in Kept :
         LET old == Beyond(Successes, n) IN
         /\ w' = [w EXCEPT !.pc = IF old = {} THEN "announce" ELSE "remove", !.todo = old]
         /\ doomed' = doomed \cup old
    /\ UNCHANGED <<backupOnly, queue, stalled, made, row, file, succeeded, used>>

\* the file first, then the row; an S3 error throws, one of the server does not
RemoveFile(e) ==
    /\ At("remove") /\ Newest(e, w.todo)
    /\ \/ (row[e].at = "server" => w.conn) /\ SetFile(e, row[e].at, "no") /\ Goto("unrow") /\ UNCHANGED used
       \/ row[e].at = "server" /\ w.conn /\ UseUp("fault", MaxFaults) /\ Goto("unrow") /\ UNCHANGED file
       \/ row[e].at = "server" /\ w.conn /\ Cut("unrow") /\ (UNCHANGED file \/ SetFile(e, "server", "no"))
       \/ row[e].at = "s3" /\ UseUp("fault", MaxFaults) /\ Goto("catch") /\ UNCHANGED file
    /\ UNCHANGED <<backupOnly, queue, stalled, made, row, succeeded, doomed>>

RemoveRow(e) ==
    /\ At("unrow") /\ Newest(e, w.todo)
    /\ row' = [row EXCEPT ![e].status = "gone"]
    /\ w' = [w EXCEPT !.todo = @ \ {e}, !.pc = IF w.todo = {e} THEN "announce" ELSE "remove"]
    /\ UNCHANGED <<backupOnly, queue, stalled, made, file, succeeded, doomed, used>>

Announce ==
    /\ At("announce")
    /\ w' = Idle
    /\ UNCHANGED <<backupOnly, queue, stalled, made, row, file, succeeded, doomed, used>>

\* after the row says success too
ThrowInsideTry ==
    /\ w.pc \in {"upload", "record", "list", "unrow", "announce"}
    /\ UseUp("fault", MaxFaults)
    /\ Goto("catch")
    /\ UNCHANGED <<backupOnly, queue, stalled, made, row, file, succeeded, doomed>>

\* the catch block, whose own query may throw
Fail ==
    /\ At("catch")
    /\ \/ SetRow(w.run, "failed") /\ UNCHANGED used
       \/ UseUp("fault", MaxFaults) /\ UNCHANGED row
    /\ w' = Idle
    /\ UNCHANGED <<backupOnly, queue, stalled, made, file, succeeded, doomed>>

----------------------------------------------------------------------------
(* Requests                                                                *)

requestOnly == <<queue, stalled, made, w, r, data, succeeded, doomed>>
WithPath(S) == {e \in S : row[e].at # "none"}

ChangeDestination ==
    /\ UseUp("request", MaxRequests)
    /\ dest' \in Places \ {dest}
    /\ UNCHANGED <<requestOnly, row, file, a, given>>

\* the browser has downloaded the file
MarkSynced(e) ==
    /\ row[e].status # "gone" /\ row[e].at # "none" /\ ~row[e].synced
    /\ file[e][row[e].at] # "no"
    /\ UseUp("request", MaxRequests)
    /\ row' = [row EXCEPT ![e].synced = TRUE]
    /\ UNCHANGED <<requestOnly, dest, file, a, given>>

\* a running backup can be deleted; its row has no path yet
DeleteBackup(e) ==
    /\ a = NoRequest /\ row[e].status \notin {"none", "gone"}
    /\ UseUp("request", MaxRequests)
    /\ a' = [what |-> "delete", todo |-> {e}, files |-> WithPath({e})]
    /\ given' = given \cup {e}
    /\ UNCHANGED <<requestOnly, dest, row, file>>

\* keep is at least 1, and only what the browser has goes
Prune(keep) ==
    LET old == {e \in Beyond(Successes, keep) : row[e].synced} IN
    /\ a = NoRequest /\ old # {}
    /\ UseUp("request", MaxRequests)
    /\ a' = [what |-> "prune", todo |-> old, files |-> old]
    /\ given' = given \cup old
    /\ UNCHANGED <<requestOnly, dest, row, file>>

CleanupFailed ==
    LET failed == {e \in Runs : row[e].status = "failed"} IN
    /\ a = NoRequest /\ failed # {}
    /\ UseUp("request", MaxRequests)
    /\ a' = [what |-> "failed", todo |-> failed, files |-> WithPath(failed)]
    /\ given' = given \cup failed
    /\ UNCHANGED <<requestOnly, dest, row, file>>

\* a check that gets no answer keeps the row
CleanupMissing ==
    LET missing == {e \in Successes : file[e][row[e].at] = "no"} IN
    /\ a = NoRequest /\ missing # {}
    /\ UseUp("request", MaxRequests)
    /\ a' = [what |-> "missing", todo |-> missing, files |-> {}]
    /\ UNCHANGED <<requestOnly, dest, row, file, given>>

\* deleteBackupFile: best effort, of the path that was read
RequestRemovesFile(e) ==
    /\ e \in a.files
    /\ a.what = "failed" \/ Newest(e, a.todo)
    /\ a' = [a EXCEPT !.files = @ \ {e}]
    /\ \/ SetFile(e, row[e].at, "no") /\ UNCHANGED used
       \/ UseUp("fault", MaxFaults) /\ UNCHANGED file
    /\ UNCHANGED <<requestOnly, dest, row, given>>

\* row by row, or all of them after all the files
RequestRemovesRows(these) ==
    /\ a.what # "rest"
    /\ IF a.what \in {"delete", "prune"} THEN \E e \in a.todo \ a.files : Newest(e, a.todo) /\ these = {e}
                                        ELSE a.files = {} /\ these = a.todo
    /\ row' = [e \in Runs |-> IF e \in these THEN [row[e] EXCEPT !.status = "gone"] ELSE row[e]]
    /\ a' = IF a.todo = these THEN NoRequest ELSE [a EXCEPT !.todo = @ \ these]
    /\ UNCHANGED <<requestOnly, dest, file, given, used>>

ApiDies ==
    /\ a # NoRequest
    /\ UseUp("fault", MaxFaults)
    /\ a' = NoRequest
    /\ UNCHANGED <<requestOnly, dest, row, file, given>>
----------------------------------------------------------------------------
(* The restore job, for the engines whose dump is SQL                      *)

restoreOnly == <<dest, queue, stalled, made, row, file, w, a, succeeded, doomed, given>>
RAt(pc) == r.pc = pc
RGoto(pc) == r' = [r EXCEPT !.pc = pc]
RCut(pc) == UseUp("fault", MaxFaults) /\ r' = [r EXCEPT !.pc = pc, !.conn = FALSE]
Ended(status) == [NoRestore EXCEPT !.status = status]
RFails == UseUp("fault", MaxFaults) /\ RGoto("fail")
Source == IF row[r.run].at = "s3" THEN r.got ELSE file[r.run]["server"]

\* one restore at a time: refused while one is queued or running
RequestRestore(e) ==
    /\ r.pc = "rest" /\ r.status \notin {"queued", "running"}
    /\ row[e].status = "success"
    /\ UseUp("request", MaxRequests)
    /\ r' = [NoRestore EXCEPT !.pc = "queued", !.run = e, !.status = "queued"]
    /\ data' = "live"
    /\ UNCHANGED restoreOnly

StartRestore ==
    /\ RAt("queued")
    /\ \/ r' = [r EXCEPT !.pc = "fetch", !.conn = TRUE, !.got = "no", !.status = "running"] /\ UNCHANGED used
       \/ UseUp("fault", MaxFaults) /\ r' = [r EXCEPT !.pc = "fail", !.conn = FALSE, !.status = "running"]
    /\ UNCHANGED <<restoreOnly, data>>

\* the row is read again, the file is looked for on the server or copied there; the copy is
\* taken for complete when its channel closes without an exit code
Fetch ==
    /\ RAt("fetch")
    /\ IF row[r.run].status # "success" THEN RGoto("fail") /\ UNCHANGED used
       ELSE IF row[r.run].at = "server"
       THEN \/ RGoto(IF file[r.run]["server"] = "no" THEN "fail" ELSE "prepare") /\ UNCHANGED used
            \/ RCut("prepare")
       ELSE IF file[r.run]["s3"] = "no" THEN RGoto("fail") /\ UNCHANGED used
       ELSE \/ r' = [r EXCEPT !.pc = "prepare", !.got = file[r.run]["s3"]] /\ UNCHANGED used
            \/ UseUp("fault", MaxFaults) /\ r' = [r EXCEPT !.pc = "prepare", !.got = "torn", !.conn = FALSE]
            \/ RFails
    /\ UNCHANGED <<restoreOnly, data>>

\* mutant: a pipeline into psql would not see that the archive cannot be read
PrepareUnchecked ==
    /\ RAt("prepare") /\ r.conn
    /\ \/ r' = [r EXCEPT !.plain = Source, !.pc = "reset"] /\ UNCHANGED used
       \/ RFails
       \/ /\ UseUp("fault", MaxFaults)
          /\ \E left \in {"no", "torn", Source} : r' = [r EXCEPT !.plain = left, !.pc = "reset", !.conn = FALSE]
    /\ UNCHANGED <<restoreOnly, data>>

\* plainCopyCommand: a step of its own that fails on a file that is missing or corrupt
Prepare ==
    /\ RAt("prepare") /\ r.conn
    /\ \/ r' = [r EXCEPT !.plain = Source, !.pc = IF Source \in Unpacks THEN "reset" ELSE "fail"] /\ UNCHANGED used
       \/ RFails
       \/ /\ UseUp("fault", MaxFaults)
          /\ \E left \in {"no", "torn", Source} : r' = [r EXCEPT !.plain = left, !.pc = "reset", !.conn = FALSE]
    /\ UNCHANGED <<restoreOnly, data>>

Reset ==
    /\ RAt("reset") /\ r.conn
    /\ \/ RGoto("load") /\ data' = "empty" /\ UNCHANGED used
       \/ RFails /\ UNCHANGED data
       \/ RCut("load") /\ data' \in {data, "empty"}
    /\ UNCHANGED restoreOnly

Load ==
    /\ RAt("load") /\ r.conn
    /\ \/ RGoto("clean") /\ data' = (IF r.plain \in Unpacks THEN "loaded" ELSE "part") /\ UNCHANGED used
       \/ RFails /\ data' = "part"
       \/ RCut("clean") /\ data' \in {"empty", "part"} \cup (IF r.plain \in Unpacks THEN {"loaded"} ELSE {})
    /\ UNCHANGED restoreOnly

\* mutant: there is no step after the load, as for MongoDB
CleanSkipped ==
    /\ RAt("clean")
    /\ RGoto("record")
    /\ UNCHANGED <<restoreOnly, data, used>>

\* the exit code does not matter, the connection does
Clean ==
    /\ RAt("clean") /\ r.conn
    /\ \/ r' = [r EXCEPT !.pc = "record", !.plain = "no"] /\ UNCHANGED used
       \/ RCut("record")
    /\ UNCHANGED <<restoreOnly, data>>

RestoreConnectionGone ==
    /\ ~r.conn /\ r.pc \in {"prepare", "reset", "load", "clean"}
    /\ RGoto("fail")
    /\ UNCHANGED <<restoreOnly, data, used>>

RecordRestore ==
    /\ RAt("record")
    /\ \/ r' = Ended("success") /\ UNCHANGED used
       \/ UseUp("fault", MaxFaults) /\ RGoto("fail")
    /\ UNCHANGED <<restoreOnly, data>>

\* when the catch block throws too the row stays running, and no restore is accepted any more
FailRestore ==
    /\ RAt("fail")
    /\ \/ r' = Ended("failed") /\ UNCHANGED used
       \/ UseUp("fault", MaxFaults) /\ r' = Ended("running")
    /\ UNCHANGED <<restoreOnly, data>>

----------------------------------------------------------------------------

\* a command that was running on the server may go on; each job is started once more
WorkerDies ==
    /\ w # Idle \/ r.pc \notin {"rest", "queued"}
    /\ UseUp("fault", MaxFaults)
    /\ w' = Idle
    /\ stalled' = (stalled \/ (w # Idle /\ ~w.again))
    /\ r' = IF r.pc \in {"rest", "queued"} THEN r
            ELSE IF r.again THEN Ended(r.status)
            ELSE [Ended(r.status) EXCEPT !.pc = "queued", !.run = r.run, !.again = TRUE]
    /\ IF At("dump") THEN \E left \in {"no", "torn", "whole"} : SetFile(w.run, "server", left)
       ELSE IF At("upload") THEN \E left \in {"no", "torn"} : SetFile(w.run, "s3", left)
       ELSE UNCHANGED file
    /\ UNCHANGED <<dest, queue, made, row, a, data, succeeded, doomed, given>>

Init ==
    /\ dest \in Places
    /\ queue = 0 /\ stalled = FALSE /\ made = 0
    /\ row = [e \in Runs |-> NoRow]
    /\ file = [e \in Runs |-> [p \in Places |-> "no"]]
    /\ w = Idle /\ a = NoRequest /\ r = NoRestore
    /\ data = "live"
    /\ succeeded = {} /\ doomed = {} /\ given = {}
    /\ used = [what \in Bounded |-> 0]

Next ==
    \/ Enqueue \/ TakeJob \/ InsertRow \/ ThrowOutsideTry \/ Connect \/ Dump \/ Size \/ Upload \/ Unstage \/ ConnectionGone
    \/ Record \/ List \/ Announce \/ ThrowInsideTry \/ Fail
    \/ ChangeDestination \/ CleanupFailed \/ CleanupMissing
    \/ \E e \in Runs : RemoveFile(e) \/ RemoveRow(e)
    \/ \E e \in Runs : MarkSynced(e) \/ DeleteBackup(e) \/ RequestRestore(e)
    \/ \E keep \in 1 .. MaxJobs : Prune(keep)
    \/ \E e \in Runs : RequestRemovesFile(e)
    \/ \E these \in SUBSET Runs : RequestRemovesRows(these)
    \/ ApiDies
    \/ StartRestore \/ Fetch \/ Prepare \/ Reset \/ Load \/ Clean \/ RestoreConnectionGone \/ RecordRestore \/ FailRestore
    \/ WorkerDies

Spec == Init /\ [][Next]_vars

----------------------------------------------------------------------------
(* Properties                                                              *)

\* A backup that is recorded as a success, and that nobody decided to remove, has the complete file its dump command
\* wrote where its row says, whatever connection, transfer or process was lost on the way and wherever the schedule
\* points by now.
SuccessHasFile == \A e \in Successes : e \in doomed \cup given \/ file[e][row[e].at] \in Complete

\* The newest backup that ever succeeded keeps its row and its file until a user removes it, over retention,
\* pruning, cleanups, failures after the success and second runs: there is always something to go back to.
NewestKept ==
    \A e \in Runs : Newest(e, succeeded) =>
        e \in given \/ (row[e].status \in {"success", "failed"} /\ file[e][row[e].at] \in Complete)

\* The schema is dropped only when the whole archive has been unpacked next to it, whatever the retention removed or
\* the connection lost since the restore looked for the file.
ResetOnlyWithDump == [][data' = "empty" /\ data # "empty" => r.plain \in Unpacks]_vars

\* A restore that reports success has loaded all of its archive, although every lost connection reads as exit code 0.
RestoredMeansLoaded == r.status = "success" => data = "loaded"

\* A backup that is recorded as a success holds the whole database: a dump that fails fails the backup
\* ("so a failing sqlite3 fails the backup instead of producing an empty archive", databaseDump.commands.ts:119).
SuccessIsWhole == \A e \in Successes : e \in doomed \cup given \/ file[e][row[e].at] = "whole"
=============================================================================
