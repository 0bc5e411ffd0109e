---------------------------- MODULE DatabaseSetup ----------------------------
(***************************************************************************)
(* The databases of one server: created, reconfigured, mounted into an     *)
(* application (SQLite) and deleted by requests; provisioned by the jobs   *)
(* of database-provision, one at a time.  A request reads rows first and   *)
(* writes them later; a job reads the row when it starts, recreates the    *)
(* container, waits for the engine and writes the status.  A delete tears  *)
(* the container down over SSH from the API itself, beside the job.        *)
(***************************************************************************)
EXTENDS Naturals, Sequences, FiniteSets

CONSTANTS
    Dbs,             \* databases
    FileDbs,         \* the file-based ones (SQLite)
    Ports,           \* ports a database may be published on
    MaxDbRequests,   \* requests
    MaxDbFaults      \* failed or lost commands and deaths of the worker

ASSUME DatabaseSetupAssumption == FileDbs \subseteq Dbs /\ "none" \notin Dbs /\ Ports # {}

VARIABLES
    dbRow,     \* the databases row: status and settings
    dbBox,     \* the server: settings the container runs with, and the data volume
    dbQueue,   \* waiting jobs: <<database, tries>>
    dbJob,     \* the job in progress
    dbMount,   \* databases whose volume an application mounts
    dbReq,     \* a settings or connect request between its reads and its writes
    dbDel,     \* a delete in progress
    dbLost,    \* history: databases whose job died twice
    dbDropped, \* history: databases whose last job lost its connection
    dbCalm,    \* history: databases deleted with no job or other request around
    dbUsed     \* what was used up of the bounds

dbVars == <<dbRow, dbBox, dbQueue, dbJob, dbMount, dbReq, dbDel, dbLost, dbDropped, dbCalm, dbUsed>>

None == "none"
DbSettings == [public : BOOLEAN, port : Ports, health : BOOLEAN, limit : BOOLEAN, newer : BOOLEAN]   \* newer: the latest image of the engine
Plain == [public |-> FALSE, port |-> CHOOSE p \in Ports : TRUE, health |-> TRUE, limit |-> FALSE, newer |-> FALSE]
NoBox == [run |-> None, set |-> Plain, volume |-> FALSE]
NoDbJob == [db |-> None, pc |-> "rest", tries |-> 0, set |-> Plain]
NoDbReq == [db |-> None, op |-> None, set |-> Plain]
NoDel == [db |-> None, pc |-> "rest"]

DbTypeOK ==
    /\ \A d \in Dbs :
        /\ dbRow[d].status \in {"absent", "idle", "provisioning", "running", "error", "deleted"}
        /\ dbRow[d].set \in DbSettings
        /\ dbBox[d].run \in {None, "up", "failed"} /\ dbBox[d].set \in DbSettings /\ dbBox[d].volume \in BOOLEAN
    /\ dbQueue \in Seq(Dbs \X {0, 1})
    /\ dbJob.pc \in {"rest", "prepare", "recreate", "health", "done", "failed"}
    /\ {dbMount, dbLost, dbDropped, dbCalm} \subseteq SUBSET Dbs
    /\ dbReq.op \in {None, "settings", "connect", "image"}
    /\ dbDel.pc \in {"rest", "teardown", "mounts", "row"}

HasRow(d) == dbRow[d].status \notin {"absent", "deleted"}
DbPending(d) == dbJob.db = d \/ \E i \in DOMAIN dbQueue : dbQueue[i][1] = d
DbAsk == dbUsed.request < MaxDbRequests /\ dbUsed' = [dbUsed EXCEPT !.request = @ + 1]
DbFault == dbUsed.fault < MaxDbFaults /\ dbUsed' = [dbUsed EXCEPT !.fault = @ + 1]
Provision(d) == dbQueue' = Append(dbQueue, <<d, 0>>)
Disturb(d) == dbCalm' = dbCalm \ {d}

----------------------------------------------------------------------------
(* Requests                                                                *)

\* POST /: a file has no published port; a port another database publishes is not refused here
CreateDatabase(d, s) ==
    /\ DbAsk /\ dbRow[d].status = "absent" /\ ~s.newer
    /\ d \in FileDbs => ~s.public
    /\ dbRow' = [dbRow EXCEPT ![d] = [status |-> "idle", set |-> s]]
    /\ Provision(d)
    /\ UNCHANGED <<dbBox, dbJob, dbMount, dbReq, dbDel, dbLost, dbDropped, dbCalm>>

\* the rows of the server that already publish the port
PortTaken(d, p) == \E e \in Dbs \ {d} : HasRow(e) /\ dbRow[e].set.public /\ dbRow[e].set.port = p

\* PUT /settings: limits and the image are not part of it
BeginSettings(d, s) ==
    /\ DbAsk /\ HasRow(d) /\ dbReq = NoDbReq /\ ~s.limit /\ ~s.newer
    /\ d \in FileDbs => ~s.public
    /\ s.public => ~PortTaken(d, s.port)
    /\ dbReq' = [db |-> d, op |-> "settings", set |-> s]
    /\ Disturb(d)
    /\ UNCHANGED <<dbRow, dbBox, dbQueue, dbJob, dbMount, dbDel, dbLost, dbDropped>>

\* the settings and the status the row ends with
WithSettings(d) ==
    [dbRow EXCEPT ![d] = [status |-> "provisioning", set |-> [dbReq.set EXCEPT !.limit = dbRow[d].set.limit, !.newer = dbRow[d].set.newer]]]

\* mutant: the job is queued only when the published port changes
CommitSettingsPortOnly ==
    LET d == dbReq.db IN
    /\ dbReq.op = "settings" /\ dbReq' = NoDbReq
    /\ dbRow' = IF HasRow(d) THEN WithSettings(d) ELSE dbRow
    /\ IF dbReq.set.port # dbRow[d].set.port THEN Provision(d) ELSE UNCHANGED dbQueue
    /\ UNCHANGED <<dbBox, dbJob, dbMount, dbDel, dbLost, dbDropped, dbCalm, dbUsed>>

CommitSettings ==
    LET d == dbReq.db IN
    /\ dbReq.op = "settings" /\ dbReq' = NoDbReq
    /\ dbRow' = IF HasRow(d) THEN WithSettings(d) ELSE dbRow
    /\ Provision(d)
    /\ UNCHANGED <<dbBox, dbJob, dbMount, dbDel, dbLost, dbDropped, dbCalm, dbUsed>>

\* mutant: the container is not recreated
SetDatabaseLimitsOnly(d) ==
    /\ DbAsk /\ HasRow(d)
    /\ dbRow' = [dbRow EXCEPT ![d].set.limit = ~@]
    /\ Disturb(d)
    /\ UNCHANGED <<dbBox, dbQueue, dbJob, dbMount, dbReq, dbDel, dbLost, dbDropped>>

SetDatabaseLimits(d) ==
    /\ DbAsk /\ HasRow(d)
    /\ dbRow' = [dbRow EXCEPT ![d] = [status |-> "provisioning", set |-> [dbRow[d].set EXCEPT !.limit = ~@]]]
    /\ Provision(d) /\ Disturb(d)
    /\ UNCHANGED <<dbBox, dbJob, dbMount, dbReq, dbDel, dbLost, dbDropped>>

\* images/apply: the latest tag is looked up, then the row is rewritten and provisioned, whatever it is doing
BeginDatabaseImage(d) ==
    /\ DbAsk /\ HasRow(d) /\ dbReq = NoDbReq
    /\ dbReq' = [db |-> d, op |-> "image", set |-> Plain]
    /\ Disturb(d)
    /\ UNCHANGED <<dbRow, dbBox, dbQueue, dbJob, dbMount, dbDel, dbLost, dbDropped>>

ApplyDatabaseImage ==
    LET d == dbReq.db IN
    /\ dbReq.op = "image" /\ dbReq' = NoDbReq
    /\ dbRow' = IF HasRow(d) THEN [dbRow EXCEPT ![d] = [status |-> "provisioning", set |-> [dbRow[d].set EXCEPT !.newer = TRUE]]]
                ELSE dbRow
    /\ Provision(d)
    /\ UNCHANGED <<dbBox, dbJob, dbMount, dbDel, dbLost, dbDropped, dbCalm, dbUsed>>

\* POST /connect-application
BeginConnect(d) ==
    /\ DbAsk /\ HasRow(d) /\ d \in FileDbs /\ dbReq = NoDbReq
    /\ dbReq' = [db |-> d, op |-> "connect", set |-> Plain]
    /\ Disturb(d)
    /\ UNCHANGED <<dbRow, dbBox, dbQueue, dbJob, dbMount, dbDel, dbLost, dbDropped>>

CommitConnect ==
    /\ dbReq.op = "connect" /\ dbReq' = NoDbReq
    /\ dbMount' = dbMount \cup {dbReq.db}
    /\ UNCHANGED <<dbRow, dbBox, dbQueue, dbJob, dbDel, dbLost, dbDropped, dbCalm, dbUsed>>

\* DELETE: the teardown, the mounts and tags, the row
BeginDeleteDatabase(d) ==
    /\ DbAsk /\ HasRow(d) /\ dbDel = NoDel
    /\ dbDel' = [db |-> d, pc |-> "teardown"]
    /\ dbCalm' = IF DbPending(d) \/ dbReq.db = d THEN dbCalm ELSE dbCalm \cup {d}
    /\ UNCHANGED <<dbRow, dbBox, dbQueue, dbJob, dbMount, dbReq, dbLost, dbDropped>>

TearDownDatabase ==
    /\ dbDel.pc = "teardown" /\ dbDel' = [dbDel EXCEPT !.pc = "mounts"]
    /\ \/ dbBox' = [dbBox EXCEPT ![dbDel.db] = NoBox] /\ UNCHANGED <<dbUsed, dbCalm>>
       \/ DbFault /\ Disturb(dbDel.db) /\ UNCHANGED dbBox   \* the server cannot be reached: logged, and the delete goes on
    /\ UNCHANGED <<dbRow, dbQueue, dbJob, dbMount, dbReq, dbLost, dbDropped>>

\* mutant: the mounts of a deleted database stay
DropMountsForgotten ==
    /\ dbDel.pc = "mounts" /\ dbDel' = [dbDel EXCEPT !.pc = "row"]
    /\ UNCHANGED <<dbRow, dbBox, dbQueue, dbJob, dbMount, dbReq, dbLost, dbDropped, dbCalm, dbUsed>>

DropMounts ==
    /\ dbDel.pc = "mounts" /\ dbDel' = [dbDel EXCEPT !.pc = "row"]
    /\ dbMount' = dbMount \ {dbDel.db}
    /\ UNCHANGED <<dbRow, dbBox, dbQueue, dbJob, dbReq, dbLost, dbDropped, dbCalm, dbUsed>>

DeleteDatabaseRow ==
    /\ dbDel.pc = "row" /\ dbDel' = NoDel
    /\ dbRow' = [dbRow EXCEPT ![dbDel.db].status = "deleted"]
    /\ UNCHANGED <<dbBox, dbQueue, dbJob, dbMount, dbReq, dbLost, dbDropped, dbCalm, dbUsed>>

----------------------------------------------------------------------------
(* The job                                                                 *)

TakeDatabaseJob ==
    /\ dbJob = NoDbJob /\ dbQueue # <<>>
    /\ LET d == dbQueue[1][1] IN
       dbJob' = IF HasRow(d) THEN [db |-> d, pc |-> "prepare", tries |-> dbQueue[1][2], set |-> dbRow[d].set] ELSE NoDbJob
    /\ dbQueue' = Tail(dbQueue) /\ dbDropped' = dbDropped \ {dbQueue[1][1]}
    /\ UNCHANGED <<dbRow, dbBox, dbMount, dbReq, dbDel, dbLost, dbCalm, dbUsed>>

AfterRun(set) == IF set.health THEN "health" ELSE "done"

\* docker refuses a port that a running container publishes
Published(d, p) == \E e \in Dbs \ {d} : dbBox[e].run = "up" /\ dbBox[e].set.public /\ dbBox[e].set.port = p
CanRun == dbJob.set.public => ~Published(dbJob.db, dbJob.set.port)
Ran == [run |-> IF CanRun THEN "up" ELSE "failed", set |-> dbJob.set, volume |-> TRUE]

\* the network, certificates and configuration files
PrepareDatabase ==
    /\ dbJob.pc = "prepare" /\ dbJob' = [dbJob EXCEPT !.pc = "recreate"]
    /\ UNCHANGED <<dbRow, dbBox, dbQueue, dbMount, dbReq, dbDel, dbLost, dbDropped, dbCalm, dbUsed>>

\* docker rm -f and docker run are one command
RecreateDatabase ==
    /\ dbJob.pc = "recreate"
    /\ dbBox' = [dbBox EXCEPT ![dbJob.db] = Ran]
    /\ dbJob' = [dbJob EXCEPT !.pc = IF CanRun THEN AfterRun(dbJob.set) ELSE "failed"]
    /\ UNCHANGED <<dbRow, dbQueue, dbMount, dbReq, dbDel, dbLost, dbDropped, dbCalm, dbUsed>>

\* the connection is lost under the command, which the transport reports as exit code 0:
\* the command may have had its effect or not, and the next one fails
LoseRecreate ==
    /\ dbJob.pc = "recreate" /\ DbFault
    /\ dbBox' \in {dbBox, [dbBox EXCEPT ![dbJob.db] = Ran], [dbBox EXCEPT ![dbJob.db] = [@ EXCEPT !.run = None, !.set = Plain]]}
    /\ dbJob' = [dbJob EXCEPT !.pc = IF dbJob.set.health THEN "failed" ELSE "done"]
    /\ dbDropped' = dbDropped \cup {dbJob.db}
    /\ UNCHANGED <<dbRow, dbQueue, dbMount, dbReq, dbDel, dbLost, dbCalm>>

\* the engine answers
DatabaseHealthy ==
    /\ dbJob.pc = "health" /\ dbJob' = [dbJob EXCEPT !.pc = "done"]
    /\ UNCHANGED <<dbRow, dbBox, dbQueue, dbMount, dbReq, dbDel, dbLost, dbDropped, dbCalm, dbUsed>>

\* no connection, a command that fails, or an engine that never answers
DatabaseStepFails ==
    /\ dbJob.pc \in {"prepare", "health"} /\ DbFault
    /\ dbJob' = [dbJob EXCEPT !.pc = "failed"]
    /\ UNCHANGED <<dbRow, dbBox, dbQueue, dbMount, dbReq, dbDel, dbLost, dbDropped, dbCalm>>

\* the status is written to the row by id: a row deleted meanwhile is not there any more
EndDatabaseJob ==
    /\ dbJob.pc \in {"done", "failed"} /\ dbJob' = NoDbJob
    /\ dbRow' = IF HasRow(dbJob.db)
                THEN [dbRow EXCEPT ![dbJob.db].status = IF dbJob.pc = "done" THEN "running" ELSE "error"] ELSE dbRow
    /\ UNCHANGED <<dbBox, dbQueue, dbMount, dbReq, dbDel, dbLost, dbDropped, dbCalm, dbUsed>>

\* the worker dies: the queue runs a stalled job once more and then gives it up
DatabaseWorkerDies ==
    /\ dbJob # NoDbJob /\ DbFault /\ dbJob' = NoDbJob
    /\ IF dbJob.tries = 0
       THEN dbQueue' = <<<<dbJob.db, 1>>>> \o dbQueue /\ UNCHANGED dbLost
       ELSE dbLost' = dbLost \cup {dbJob.db} /\ UNCHANGED dbQueue
    /\ UNCHANGED <<dbRow, dbBox, dbMount, dbReq, dbDel, dbDropped, dbCalm>>

DbInit ==
    /\ dbRow = [d \in Dbs |-> [status |-> "absent", set |-> Plain]]
    /\ dbBox = [d \in Dbs |-> NoBox]
    /\ dbQueue = <<>> /\ dbJob = NoDbJob /\ dbReq = NoDbReq /\ dbDel = NoDel
    /\ dbMount = {} /\ dbLost = {} /\ dbDropped = {} /\ dbCalm = {}
    /\ dbUsed = [request |-> 0, fault |-> 0]

DbRequests ==
    \/ \E d \in Dbs :
        \/ \E s \in DbSettings : CreateDatabase(d, s) \/ BeginSettings(d, s)
        \/ SetDatabaseLimits(d) \/ BeginDatabaseImage(d)
        \/ BeginConnect(d)
        \/ BeginDeleteDatabase(d)
    \/ CommitSettings \/ CommitConnect \/ ApplyDatabaseImage
    \/ TearDownDatabase \/ DropMounts \/ DeleteDatabaseRow

DbJobs ==
    \/ TakeDatabaseJob \/ PrepareDatabase \/ RecreateDatabase \/ LoseRecreate
    \/ DatabaseHealthy \/ DatabaseStepFails \/ EndDatabaseJob \/ DatabaseWorkerDies

DbNext == DbRequests \/ DbJobs
DbSpec == DbInit /\ [][DbNext]_dbVars

----------------------------------------------------------------------------
(* Properties                                                              *)

\* A database recorded as provisioning is being provisioned: whatever requests and jobs do to it meanwhile,
\* a job of database-provision waits or runs for it, unless the queue gave its job up after two deaths.
DatabaseWorkIsOwned ==
    \A d \in Dbs : dbRow[d].status \in {"idle", "provisioning"} => DbPending(d) \/ d \in dbLost

\* Once nothing is pending for a database recorded as running, its container runs with the settings of the
\* row, however its requests interleaved with its jobs (the job takes the row when it starts, and every
\* change queues a job after it).  Exempt: a connection lost under docker run with the health check off, and
\* a job the queue gave up after an earlier one had already written "running".
DatabaseRunsAsRecorded ==
    \A d \in Dbs :
        dbRow[d].status = "running" /\ ~DbPending(d) /\ d \notin dbDropped \cup dbLost /\ dbDel.db # d
            => dbBox[d].run = "up" /\ dbBox[d].set = dbRow[d].set

\* A database deleted with no job and no other request around leaves no container, no volume and no mount:
\* a mount left behind would make the next deploy create an empty volume under the same name.
DeletedDatabaseIsGone ==
    \A d \in Dbs :
        dbRow[d].status = "deleted" /\ d \in dbCalm
            => dbBox[d] = NoBox /\ d \notin dbMount
============================================================================
