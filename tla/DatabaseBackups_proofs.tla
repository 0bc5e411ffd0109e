----------------------- MODULE DatabaseBackups_proofs -----------------------
(***************************************************************************)
(* Theorems about DatabaseBackups, for every number of jobs, faults and    *)
(* requests and every retention: the states are well typed, a database is  *)
(* emptied only with its archive unpacked, a restore that reports success  *)
(* has loaded it, a success has its file and the newest success is kept.   *)
(***************************************************************************)
EXTENDS DatabaseBackups, FiniteSetTheorems, TLAPS

\* a job that will still insert a row
Coming == (IF stalled THEN 1 ELSE 0) + (IF w.pc = "insert" THEN 1 ELSE 0)

\* every row was inserted for a job of its own or for a death of the worker
CountInv ==
    /\ queue <= used["job"] /\ used["job"] <= MaxJobs /\ used["fault"] <= MaxFaults
    /\ made + queue + Coming <= used["job"] + used["fault"]

\* the backup job past its insert works on the newest row, the restore job on some row
LocalInv ==
    /\ w.pc \notin {"idle", "insert"} => w.run = made /\ w.run \in Runs
    /\ r.pc # "rest" => r.run \in Runs

TypeInv == TypeOK /\ CountInv /\ LocalInv

----------------------------------------------------------------------------

Unrecorded == {"connect", "dump", "size", "upload", "unstage", "record"}

\* what is known of the file while the backup is made; a command that lost its connection is followed by one that throws
FileInv ==
    w.run \in given
    \/ /\ w.pc \in {"size", "upload"} /\ w.conn => file[w.run]["server"] \in Complete
       /\ w.pc = "unstage" => file[w.run]["s3"] \in Complete
       /\ w.pc = "record" => file[w.run][w.dest] \in Complete

\* a success is recorded once, by the job of its row, and only what was recorded is ever chosen for removal
JobPart ==
    /\ w.pc \in {"upload", "unstage"} => w.dest = "s3"
    /\ w.pc \in Unrecorded => w.run \notin succeeded
    /\ w.todo \subseteq doomed

\* a request removes what a user chose, or rows that have lost their file
RequestPart ==
    /\ a.files \subseteq given
    /\ \/ a.todo \subseteq given
       \/ a.what = "missing" /\ \A e \in a.todo : e \in succeeded /\ file[e][row[e].at] = "no"

HistoryPart == Successes \subseteq succeeded /\ succeeded \subseteq 1 .. made /\ doomed \subseteq succeeded

HistoryInv == JobPart /\ RequestPart /\ HistoryPart

\* retention never chose the newest success
NewestInv == \A e \in Runs : Newest(e, succeeded) => e \notin doomed

\* each step of the restore runs only if the one before it did its work
RestoreInv ==
    /\ r.pc \in {"reset", "load"} /\ r.conn => r.plain \in Unpacks
    /\ r.pc = "clean" /\ r.conn => data = "loaded"
    /\ r.pc = "record" => data = "loaded"
    /\ r.pc # "rest" => r.status # "success"

----------------------------------------------------------------------------
(* Types                                                                   *)

LEMMA FileTyped ==
    ASSUME TypeOK, NEW e, NEW place, NEW state \in FileState, SetFile(e, place, state)
    PROVE  file' \in [Runs -> [Places -> FileState]]
<1>1. ASSUME NEW f \in [Places -> FileState] PROVE [f EXCEPT ![place] = state] \in [Places -> FileState]
  OBVIOUS
<1>2. \A f \in Runs : file[f] \in [Places -> FileState]
  BY DEF TypeOK
<1> QED BY <1>1, <1>2 DEF TypeOK, SetFile

LEMMA RowTyped ==
    ASSUME TypeOK, NEW e, NEW status \in {"running", "success", "failed", "gone"}
    PROVE  [row EXCEPT ![e].status = status] \in [Runs -> Row]
<1>1. ASSUME NEW x \in Row PROVE [x EXCEPT !.status = status] \in Row
  BY DEF Row
<1> QED BY <1>1 DEF TypeOK

LEMMA UsedTyped ==
    ASSUME TypeInv, NEW what \in Bounded, NEW bound \in Nat, UseUp(what, bound)
    PROVE  /\ used' \in [Bounded -> Nat]
           /\ used'[what] = used[what] + 1 /\ used'[what] <= bound
           /\ \A b \in Bounded : b # what => used'[b] = used[b]
BY DEF TypeInv, TypeOK, UseUp

\* a step of the job that neither takes nor inserts
LEMMA JobMoves ==
    ASSUME TypeInv, NEW pc \in {"connect", "dump", "size", "upload", "unstage", "record", "list", "remove", "unrow",
                                "announce", "catch"},
           w.pc \notin {"idle", "insert"}, UNCHANGED <<queue, stalled, made, r>>,
           Goto(pc) \/ w' = [w EXCEPT !.pc = pc, !.conn = FALSE] \/ w' = [w EXCEPT !.pc = pc, !.conn = TRUE],
           used' = used \/ UseUp("fault", MaxFaults)
    PROVE  w' \in Job /\ used' \in [Bounded -> Nat] /\ CountInv' /\ LocalInv'
<1>1. w' \in Job /\ w'.pc = pc /\ w'.run = w.run
  BY DEF TypeInv, TypeOK, Job, Goto
<1>2. LocalInv'
  BY <1>1 DEF TypeInv, LocalInv
<1>3. /\ used' \in [Bounded -> Nat] /\ used'["job"] = used["job"]
      /\ used'["fault"] >= used["fault"] /\ used'["fault"] <= MaxFaults
  BY UsedTyped, BackupsAssumption DEF TypeInv, TypeOK, CountInv, Bounded
<1>4. Coming' = Coming
  BY <1>1 DEF Coming
<1>5. Coming \in Nat
  BY DEF Coming
<1>6. CountInv'
  BY <1>3, <1>4, <1>5, BackupsAssumption DEF TypeInv, TypeOK, CountInv, Bounded
<1> QED BY <1>1, <1>2, <1>3, <1>6

LEMMA QueueSteps ==
    ASSUME TypeInv, Enqueue \/ TakeJob \/ InsertRow \/ ThrowOutsideTry \/ Announce \/ Fail
    PROVE  TypeInv'
<1> USE BackupsAssumption DEF TypeInv
<1>1. CASE Enqueue
  <2>1. /\ used' \in [Bounded -> Nat] /\ used'["job"] = used["job"] + 1 /\ used'["job"] <= MaxJobs
        /\ used'["fault"] = used["fault"]
    BY <1>1, UsedTyped DEF Enqueue, Bounded
  <2>2. queue' = queue + 1 /\ UNCHANGED <<dest, stalled, made, row, file, w, a, r, data, succeeded, doomed, given>>
    BY <1>1 DEF Enqueue, backupOnly
  <2>3. Coming' = Coming /\ Coming \in Nat
    BY <2>2 DEF Coming
  <2>4. CountInv'
    BY <2>1, <2>2, <2>3 DEF CountInv, TypeOK, Bounded
  <2>5. LocalInv'
    BY <2>2 DEF LocalInv
  <2>6. queue' \in 0 .. MaxJobs
    BY <2>1, <2>2, <2>4 DEF TypeOK, CountInv, Bounded
  <2>7. TypeOK'
    BY <2>1, <2>2, <2>6 DEF TypeOK
  <2> QED BY <2>4, <2>5, <2>7
<1>2. CASE TakeJob
  <2>1. /\ \/ stalled /\ stalled' = FALSE /\ queue' = queue
           \/ queue > 0 /\ queue' = queue - 1 /\ stalled' = stalled
        /\ w = Idle /\ w' = [Idle EXCEPT !.pc = "insert", !.dest = dest, !.again = stalled /\ ~stalled']
        /\ UNCHANGED <<dest, made, row, file, a, r, data, succeeded, doomed, given, used>>
    BY <1>2 DEF TakeJob, backupOnly
  <2>2. w' \in Job /\ w'.pc = "insert" /\ w.pc = "idle"
    BY <2>1 DEF Idle, Job, TypeOK
  <2>3. TypeOK'
    <3>1. queue' = queue \/ (queue > 0 /\ queue' = queue - 1)
      BY <2>1
    <3>2. queue' \in 0 .. MaxJobs
      BY <3>1 DEF TypeOK
    <3>3. stalled' \in BOOLEAN
      BY <2>1 DEF TypeOK
    <3> QED BY <2>1, <2>2, <3>2, <3>3 DEF TypeOK
  <2>4. Coming' + queue' <= Coming + queue
    BY <2>1, <2>2 DEF Coming, TypeOK
  <2>5. Coming \in Nat /\ Coming' \in Nat
    BY DEF Coming
  <2>6. CountInv'
    BY <2>1, <2>3, <2>4, <2>5 DEF CountInv, TypeOK, Bounded
  <2>7. LocalInv'
    BY <2>1, <2>2 DEF LocalInv
  <2> QED BY <2>3, <2>6, <2>7
<1>3. CASE InsertRow
  <2>1. /\ w.pc = "insert" /\ made' = made + 1
        /\ row' = [row EXCEPT ![made + 1] = [status |-> "running", at |-> "none", synced |-> FALSE]]
        /\ w' = [w EXCEPT !.pc = "connect", !.run = made + 1]
        /\ UNCHANGED <<dest, queue, stalled, file, a, r, data, succeeded, doomed, given, used>>
    BY <1>3 DEF InsertRow, At, backupOnly
  <2>2. Coming = (IF stalled THEN 1 ELSE 0) + 1
    BY <2>1 DEF Coming
  <2>3. made + 1 \in Runs
    BY <2>2 DEF CountInv, TypeOK, Runs, Bounded
  <2>4. w' \in Job /\ w'.pc = "connect" /\ w'.run = made + 1
    BY <2>1, <2>3 DEF TypeOK, Job
  <2>5. row' \in [Runs -> Row]
    BY <2>1 DEF TypeOK, Row
  <2>6. TypeOK'
    BY <2>1, <2>3, <2>4, <2>5 DEF TypeOK, Runs
  <2>7. Coming' = (IF stalled THEN 1 ELSE 0)
    BY <2>1, <2>4 DEF Coming
  <2>8. CountInv'
    BY <2>1, <2>2, <2>7 DEF CountInv, TypeOK, Bounded
  <2>9. LocalInv'
    BY <2>1, <2>3, <2>4 DEF LocalInv
  <2> QED BY <2>6, <2>8, <2>9
<1>4. CASE ThrowOutsideTry \/ Announce \/ Fail
  <2>1. /\ w' = Idle /\ (used' = used \/ UseUp("fault", MaxFaults))
        /\ row' = row \/ SetRow(w.run, "failed")
        /\ UNCHANGED <<dest, queue, stalled, made, file, a, r, data, succeeded, doomed, given>>
    BY <1>4 DEF ThrowOutsideTry, Announce, Fail, backupOnly
  <2>2. /\ used' \in [Bounded -> Nat] /\ used'["job"] = used["job"]
        /\ used'["fault"] >= used["fault"] /\ used'["fault"] <= MaxFaults
    BY <2>1, UsedTyped DEF TypeOK, CountInv, Bounded
  <2>3. w' \in Job /\ w'.pc = "idle"
    BY <2>1 DEF Idle, Job, Places
  <2>4. row' \in [Runs -> Row]
    <3>1. [row EXCEPT ![w.run].status = "failed"] \in [Runs -> Row]
      BY RowTyped
    <3> QED BY <2>1, <3>1 DEF TypeOK, SetRow
  <2>5. TypeOK'
    BY <2>1, <2>2, <2>3, <2>4 DEF TypeOK
  <2>6. Coming' <= Coming /\ Coming \in Nat /\ Coming' \in Nat
    BY <2>1, <2>3 DEF Coming
  <2>7. CountInv'
    BY <2>1, <2>2, <2>6 DEF CountInv, TypeOK, Bounded
  <2>8. LocalInv'
    BY <2>1, <2>3 DEF LocalInv
  <2> QED BY <2>5, <2>7, <2>8
<1> QED BY <1>1, <1>2, <1>3, <1>4

LEMMA FileSteps ==
    ASSUME TypeInv, Connect \/ Dump \/ Size \/ Upload \/ Unstage \/ ConnectionGone \/ ThrowInsideTry
                    \/ \E e \in Runs : RemoveFile(e)
    PROVE  TypeInv'
<1> DEFINE Moves(pc) == /\ w.pc \notin {"idle", "insert"}
                        /\ Goto(pc) \/ w' = [w EXCEPT !.pc = pc, !.conn = FALSE] \/ w' = [w EXCEPT !.pc = pc, !.conn = TRUE]
                        /\ used' = used \/ UseUp("fault", MaxFaults)
<1> DEFINE Pcs == {"connect", "dump", "size", "upload", "unstage", "record", "list", "remove", "unrow", "announce", "catch"}
<1>1. UNCHANGED <<dest, queue, stalled, made, row, a, r, data, succeeded, doomed, given>>
  BY DEF Connect, Dump, Size, Upload, Unstage, ConnectionGone, ThrowInsideTry, RemoveFile, backupOnly
<1>2. (\E pc \in Pcs : Moves(pc)) /\ file' \in [Runs -> [Places -> FileState]]
  <2> USE DEF Cut, At
  <2>1. CASE Connect
    BY <2>1 DEF Connect, backupOnly, TypeInv, TypeOK
  <2>2. CASE Dump
    <3>1. (Moves("size") \/ Moves("catch"))
      BY <2>2 DEF Dump
    <3>2. \E state \in FileState : SetFile(w.run, "server", state)
      BY <2>2 DEF Dump, FileState
    <3> QED BY <3>1, <3>2, FileTyped DEF TypeInv
  <2>3. CASE Size
    BY <2>3 DEF Size, AfterSize, backupOnly, TypeInv, TypeOK
  <2>4. CASE Upload
    <3>1. (Moves("unstage") \/ Moves("catch"))
      BY <2>4 DEF Upload
    <3>2. w.run \in Runs
      BY <2>4 DEF Upload, TypeInv, LocalInv
    <3>3. \E state \in FileState : SetFile(w.run, "s3", state)
      BY <2>4, <3>2 DEF Upload, FileState, Places, TypeInv, TypeOK
    <3> QED BY <3>1, <3>3, FileTyped DEF TypeInv
  <2>5. CASE Unstage
    <3>1. Moves("record")
      BY <2>5 DEF Unstage
    <3>2. file' = file \/ SetFile(w.run, "server", "no")
      BY <2>5 DEF Unstage
    <3> QED BY <3>1, <3>2, FileTyped DEF TypeInv, TypeOK, FileState
  <2>6. CASE ConnectionGone
    BY <2>6 DEF ConnectionGone, TypeInv, TypeOK
  <2>7. CASE ThrowInsideTry
    BY <2>7 DEF ThrowInsideTry, TypeInv, TypeOK
  <2>8. ASSUME NEW e \in Runs, RemoveFile(e) PROVE (\E pc \in Pcs : Moves(pc)) /\ file' \in [Runs -> [Places -> FileState]]
    <3>1. (Moves("unrow") \/ Moves("catch"))
      BY <2>8 DEF RemoveFile
    <3>2. file' = file \/ \E place : SetFile(e, place, "no")
      BY <2>8 DEF RemoveFile
    <3> QED BY <3>1, <3>2, FileTyped DEF TypeInv, TypeOK, FileState
  <2> QED BY <2>1, <2>2, <2>3, <2>4, <2>5, <2>6, <2>7, <2>8
<1>3. w' \in Job /\ used' \in [Bounded -> Nat] /\ CountInv' /\ LocalInv'
  <2>1. PICK pc \in Pcs : Moves(pc)
    BY <1>2
  <2> QED BY <1>1, <2>1, JobMoves
<1>4. TypeOK'
  BY <1>1, <1>2, <1>3 DEF TypeInv, TypeOK
<1> QED BY <1>3, <1>4 DEF TypeInv

LEMMA RowSteps ==
    ASSUME TypeInv, Record \/ List \/ \E e \in Runs : RemoveRow(e)
    PROVE  TypeInv'
<1>1. UNCHANGED <<dest, queue, stalled, made, file, a, r, data, given, used>>
  BY DEF Record, List, RemoveRow, backupOnly
<1>2. /\ w.pc \in {"record", "list", "unrow"} /\ w.run \in Runs /\ w.run = made
      /\ w'.pc \in {"list", "announce", "remove"} /\ w'.run = w.run /\ w' \in Job
      /\ row' \in [Runs -> Row] /\ succeeded' \subseteq Runs /\ doomed' \subseteq Runs
  <2>1. CASE Record
    <3>1. w.run \in Runs /\ w.run = made
      BY <2>1 DEF Record, At, TypeInv, LocalInv
    <3>2. row' \in [Runs -> Row]
      <4>1. w.dest \in Places
        BY DEF TypeInv, TypeOK, Job
      <4>2. ASSUME NEW x \in Row PROVE [x EXCEPT !.status = "success", !.at = w.dest] \in Row
        BY <4>1 DEF Row
      <4>3. row[w.run] \in Row
        BY <3>1 DEF TypeInv, TypeOK
      <4>4. row' = row \/ row' = [row EXCEPT ![w.run] = [row[w.run] EXCEPT !.status = "success", !.at = w.dest]]
        BY <2>1, <3>1, <4>3 DEF Record, Row, TypeInv, TypeOK
      <4> QED BY <4>2, <4>3, <4>4 DEF TypeInv, TypeOK
    <3>3. w' \in Job /\ w'.pc = "list" /\ w'.run = w.run
      BY <2>1 DEF Record, Goto, TypeInv, TypeOK, Job
    <3> QED BY <2>1, <3>1, <3>2, <3>3 DEF Record, At, TypeInv, TypeOK
  <2>2. CASE List
    <3>1. w.run \in Runs /\ w.run = made
      BY <2>2 DEF List, At, TypeInv, LocalInv
    <3>2. PICK n \in Kept :
            /\ w' = [w EXCEPT !.pc = IF Beyond(Successes, n) = {} THEN "announce" ELSE "remove",
                              !.todo = Beyond(Successes, n)]
            /\ doomed' = doomed \cup Beyond(Successes, n)
      BY <2>2 DEF List
    <3>3. Beyond(Successes, n) \subseteq Runs
      BY DEF Beyond, Successes
    <3>4. w' \in Job /\ w'.pc \in {"announce", "remove"} /\ w'.run = w.run
      BY <3>2, <3>3 DEF TypeInv, TypeOK, Job
    <3> QED BY <2>2, <3>1, <3>2, <3>3, <3>4 DEF List, At, TypeInv, TypeOK
  <2>3. ASSUME NEW e \in Runs, RemoveRow(e)
        PROVE  /\ w.pc \in {"record", "list", "unrow"} /\ w.run \in Runs /\ w.run = made
               /\ w'.pc \in {"list", "announce", "remove"} /\ w'.run = w.run /\ w' \in Job
               /\ row' \in [Runs -> Row] /\ succeeded' \subseteq Runs /\ doomed' \subseteq Runs
    <3>1. w.run \in Runs /\ w.run = made
      BY <2>3 DEF RemoveRow, At, TypeInv, LocalInv
    <3>2. row' \in [Runs -> Row]
      BY <2>3, RowTyped DEF RemoveRow, TypeInv
    <3>3. w' \in Job /\ w'.pc \in {"announce", "remove"} /\ w'.run = w.run
      BY <2>3 DEF RemoveRow, TypeInv, TypeOK, Job
    <3> QED BY <2>3, <3>1, <3>2, <3>3 DEF RemoveRow, At, TypeInv, TypeOK
  <2> QED BY <2>1, <2>2, <2>3
<1>3. TypeOK'
  BY <1>1, <1>2 DEF TypeInv, TypeOK
<1>4. CountInv' /\ LocalInv'
  <2>1. Coming' = Coming
    BY <1>1, <1>2 DEF Coming
  <2> QED BY <1>1, <1>2, <2>1 DEF TypeInv, CountInv, LocalInv
<1> QED BY <1>3, <1>4 DEF TypeInv

LEMMA RequestSteps ==
    ASSUME TypeInv,
           \/ ChangeDestination \/ CleanupFailed \/ CleanupMissing \/ ApiDies
           \/ \E e \in Runs : MarkSynced(e) \/ DeleteBackup(e) \/ RequestRemovesFile(e)
           \/ \E keep \in 1 .. MaxJobs : Prune(keep)
           \/ \E these \in SUBSET Runs : RequestRemovesRows(these)
    PROVE  TypeInv'
<1> USE BackupsAssumption
<1>1. UNCHANGED requestOnly /\ (used' = used \/ UseUp("request", MaxRequests) \/ UseUp("fault", MaxFaults))
  BY DEF ChangeDestination, CleanupFailed, CleanupMissing, ApiDies, MarkSynced, DeleteBackup, RequestRemovesFile, Prune,
         RequestRemovesRows
<1>2. UNCHANGED <<queue, stalled, made, w, r, data, succeeded, doomed>>
  BY <1>1 DEF requestOnly
<1>3. /\ used' \in [Bounded -> Nat] /\ used'["job"] = used["job"]
      /\ used'["fault"] >= used["fault"] /\ used'["fault"] <= MaxFaults
  BY <1>1, UsedTyped DEF TypeInv, TypeOK, CountInv, Bounded
<1>4. CountInv' /\ LocalInv'
  <2>1. Coming' = Coming /\ Coming \in Nat
    BY <1>2 DEF Coming
  <2>2. CountInv'
    BY <1>2, <1>3, <2>1 DEF TypeInv, TypeOK, CountInv, Bounded
  <2> QED BY <1>2, <2>2 DEF TypeInv, LocalInv
<1>5. /\ dest' \in Places /\ row' \in [Runs -> Row] /\ file' \in [Runs -> [Places -> FileState]]
      /\ a' \in Request /\ given' \subseteq Runs
  <2> USE DEF TypeInv, TypeOK
  <2>1. CASE ChangeDestination
    BY <2>1 DEF ChangeDestination
  <2>2. CASE CleanupFailed
    <3>1. a' \in Request
      BY <2>2 DEF CleanupFailed, Request, WithPath
    <3> QED BY <2>2, <3>1 DEF CleanupFailed
  <2>3. CASE CleanupMissing
    <3>1. a' \in Request
      BY <2>3 DEF CleanupMissing, Request, Successes
    <3> QED BY <2>3, <3>1 DEF CleanupMissing
  <2>4. CASE ApiDies
    BY <2>4 DEF ApiDies, Request, NoRequest
  <2>5. ASSUME NEW e \in Runs, MarkSynced(e) PROVE <1>5!:
    <3>1. ASSUME NEW x \in Row PROVE [x EXCEPT !.synced = TRUE] \in Row
      BY DEF Row
    <3> QED BY <2>5, <3>1 DEF MarkSynced
  <2>6. ASSUME NEW e \in Runs, DeleteBackup(e) PROVE <1>5!:
    <3>1. a' \in Request
      BY <2>6 DEF DeleteBackup, Request, WithPath
    <3> QED BY <2>6, <3>1 DEF DeleteBackup
  <2>7. ASSUME NEW e \in Runs, RequestRemovesFile(e) PROVE <1>5!:
    <3>1. a' \in Request
      BY <2>7 DEF RequestRemovesFile, Request
    <3>2. file' = file \/ SetFile(e, row[e].at, "no")
      BY <2>7 DEF RequestRemovesFile
    <3>3. file' \in [Runs -> [Places -> FileState]]
      BY <3>2, FileTyped DEF FileState
    <3> QED BY <2>7, <3>1, <3>3 DEF RequestRemovesFile
  <2>8. ASSUME NEW keep \in 1 .. MaxJobs, Prune(keep) PROVE <1>5!:
    <3>1. a' \in Request
      BY <2>8 DEF Prune, Request, Beyond, Successes
    <3> QED BY <2>8, <3>1 DEF Prune, Beyond, Successes
  <2>9. ASSUME NEW these \in SUBSET Runs, RequestRemovesRows(these) PROVE <1>5!:
    <3>1. a' \in Request
      BY <2>9 DEF RequestRemovesRows, Request, NoRequest
    <3>2. ASSUME NEW x \in Row PROVE [x EXCEPT !.status = "gone"] \in Row
      BY DEF Row
    <3> QED BY <2>9, <3>1, <3>2 DEF RequestRemovesRows
  <2> QED BY <2>1, <2>2, <2>3, <2>4, <2>5, <2>6, <2>7, <2>8, <2>9
<1>6. TypeOK'
  BY <1>2, <1>3, <1>5 DEF TypeInv, TypeOK
<1> QED BY <1>4, <1>6 DEF TypeInv

LEMMA EndedTyped ==
    ASSUME NEW status \in {"none", "queued", "running", "success", "failed"}
    PROVE  Ended(status) \in Restore /\ Ended(status).pc = "rest" /\ Ended(status).status = status
BY DEF Ended, NoRestore, Restore, FileState

RestoreNext ==
    \/ \E e \in Runs : RequestRestore(e)
    \/ StartRestore \/ Fetch \/ Prepare \/ Reset \/ Load \/ Clean \/ RestoreConnectionGone \/ RecordRestore \/ FailRestore

LEMMA RestoreSteps ==
    ASSUME TypeInv, RestoreNext
    PROVE  TypeInv'
<1> USE BackupsAssumption DEF RCut, RFails, RGoto
<1>1. UNCHANGED restoreOnly /\ (used' = used \/ UseUp("request", MaxRequests) \/ UseUp("fault", MaxFaults))
  BY DEF RestoreNext, RequestRestore, StartRestore, Fetch, Prepare, Reset, Load, Clean, RestoreConnectionGone,
         RecordRestore, FailRestore
<1>2. UNCHANGED <<dest, queue, stalled, made, row, file, w, a, succeeded, doomed, given>>
  BY <1>1 DEF restoreOnly
<1>3. /\ used' \in [Bounded -> Nat] /\ used'["job"] = used["job"]
      /\ used'["fault"] >= used["fault"] /\ used'["fault"] <= MaxFaults
  BY <1>1, UsedTyped DEF TypeInv, TypeOK, CountInv, Bounded
<1>4. CountInv'
  <2>1. Coming' = Coming /\ Coming \in Nat
    BY <1>2 DEF Coming
  <2> QED BY <1>2, <1>3, <2>1 DEF TypeInv, TypeOK, CountInv, Bounded
<1>5. r' \in Restore /\ (r'.pc # "rest" => r'.run \in Runs) /\ data' \in {"live", "empty", "part", "loaded"}
  <2> USE DEF TypeInv, TypeOK
  <2>0. Source \in FileState \/ r.pc = "rest"
    BY DEF Source, LocalInv, Restore, Places
  <2>1. ASSUME NEW e \in Runs, RequestRestore(e) PROVE <1>5!:
    BY <2>1 DEF RequestRestore, NoRestore, Restore, FileState
  <2>2. CASE StartRestore
    BY <2>2 DEF StartRestore, RAt, LocalInv, Restore, FileState
  <2>3. CASE Fetch
    <3>1. r.run \in Runs /\ file[r.run]["s3"] \in FileState
      BY <2>3 DEF Fetch, RAt, LocalInv, Places
    <3> QED BY <2>3, <3>1, ZenonT(60) DEF Fetch, Restore, FileState
  <2>4. CASE Prepare
    <3>1. r.run \in Runs /\ Source \in FileState
      BY <2>4, <2>0 DEF Prepare, RAt, LocalInv
    <3> QED BY <2>4, <3>1, ZenonT(60) DEF Prepare, Restore, FileState
  <2>5. CASE Reset
    BY <2>5 DEF Reset, RAt, LocalInv, Restore
  <2>6. CASE Load
    BY <2>6 DEF Load, RAt, LocalInv, Restore
  <2>7. CASE Clean
    BY <2>7 DEF Clean, RAt, LocalInv, Restore, FileState
  <2>8. CASE RestoreConnectionGone
    BY <2>8 DEF RestoreConnectionGone, LocalInv, Restore
  <2>9. CASE RecordRestore
    BY <2>9, EndedTyped DEF RecordRestore, RAt, LocalInv, Restore
  <2>10. CASE FailRestore
    BY <2>10, EndedTyped DEF FailRestore
  <2> QED BY <2>1, <2>2, <2>3, <2>4, <2>5, <2>6, <2>7, <2>8, <2>9, <2>10 DEF RestoreNext
<1>6. TypeOK' /\ LocalInv'
  BY <1>2, <1>3, <1>5 DEF TypeInv, TypeOK, LocalInv
<1> QED BY <1>4, <1>6 DEF TypeInv

LEMMA DeathStep ==
    ASSUME TypeInv, WorkerDies
    PROVE  TypeInv'
<1> USE BackupsAssumption DEF TypeInv
<1>1. /\ w' = Idle /\ stalled' = (stalled \/ (w # Idle /\ ~w.again))
      /\ UNCHANGED <<dest, queue, made, row, a, data, succeeded, doomed, given>>
  BY DEF WorkerDies
<1>2. /\ used' \in [Bounded -> Nat] /\ used'["job"] = used["job"]
      /\ used'["fault"] = used["fault"] + 1 /\ used'["fault"] <= MaxFaults
  BY UsedTyped DEF WorkerDies, Bounded
<1>3. w' \in Job /\ w'.pc = "idle"
  BY <1>1 DEF Idle, Job, Places
<1>4. file' \in [Runs -> [Places -> FileState]]
  <2>1. file' = file \/ \E state \in FileState : SetFile(w.run, "server", state) \/ SetFile(w.run, "s3", state)
    BY DEF WorkerDies, FileState
  <2> QED BY <2>1, FileTyped DEF TypeOK
<1>5. r' \in Restore /\ (r'.pc # "rest" => r'.run \in Runs)
  <2>1. Ended(r.status) \in Restore /\ Ended(r.status).pc = "rest"
    BY EndedTyped DEF TypeOK, Restore
  <2>2. CASE r.pc = "rest" \/ r.pc = "queued"
    BY <2>2 DEF WorkerDies, LocalInv, TypeOK
  <2>3. CASE r.pc \notin {"rest", "queued"} /\ r.again
    BY <2>1, <2>3 DEF WorkerDies
  <2>4. CASE r.pc \notin {"rest", "queued"} /\ ~r.again
    <3>1. r.run \in Runs /\ r' = [Ended(r.status) EXCEPT !.pc = "queued", !.run = r.run, !.again = TRUE]
      BY <2>4 DEF WorkerDies, LocalInv
    <3> QED BY <2>1, <3>1 DEF Restore
  <2> QED BY <2>2, <2>3, <2>4
<1>6. TypeOK'
  <2>1. stalled' \in BOOLEAN
    BY <1>1 DEF TypeOK, Job
  <2> QED BY <1>1, <1>2, <1>3, <1>4, <1>5, <2>1 DEF TypeOK
<1>7. CountInv'
  <2>1. Coming' <= Coming + 1 /\ Coming \in Nat /\ Coming' \in Nat
    BY <1>3 DEF Coming
  <2> QED BY <1>1, <1>2, <2>1 DEF CountInv, TypeOK, Bounded
<1>8. LocalInv'
  BY <1>3, <1>5 DEF LocalInv
<1> QED BY <1>6, <1>7, <1>8

LEMMA InitTyped == Init => TypeInv
<1> SUFFICES ASSUME Init PROVE TypeInv
  OBVIOUS
<1> USE BackupsAssumption DEF Init
<1>1. w \in Job /\ a \in Request /\ r \in Restore
  BY DEF Idle, NoRequest, NoRestore, Job, Request, Restore, Places, FileState
<1>2. row \in [Runs -> Row] /\ file \in [Runs -> [Places -> FileState]]
  BY DEF NoRow, Row, FileState
<1>3. TypeOK
  <2>1. queue \in 0 .. MaxJobs /\ made \in 0 .. (MaxJobs + MaxFaults)
    OBVIOUS
  <2>2. used \in [Bounded -> Nat]
    OBVIOUS
  <2>3. stalled \in BOOLEAN /\ dest \in Places /\ data \in {"live", "empty", "part", "loaded"}
    OBVIOUS
  <2> QED BY <1>1, <1>2, <2>1, <2>2, <2>3 DEF TypeOK
<1>4. Coming = 0
  BY DEF Coming, Idle
<1>5. CountInv
  BY <1>4 DEF CountInv, Bounded
<1>6. LocalInv
  BY DEF LocalInv, Idle, NoRestore
<1> QED BY <1>3, <1>5, <1>6 DEF TypeInv

LEMMA StepTyped == TypeInv /\ [Next]_vars => TypeInv'
<1>1. ASSUME TypeInv, Next PROVE TypeInv'
  BY <1>1, QueueSteps, FileSteps, RowSteps, RequestSteps, RestoreSteps, DeathStep DEF Next, RestoreNext
<1>2. ASSUME TypeInv, UNCHANGED vars PROVE TypeInv'
  BY <1>2 DEF vars, TypeInv, TypeOK, CountInv, LocalInv, Coming
<1> QED BY <1>1, <1>2

LEMMA AlwaysTyped == Spec => []TypeInv
BY InitTyped, StepTyped, PTL DEF Spec

\* Every state is well typed: no more rows are inserted than there were jobs and deaths of the worker, and the jobs
\* work on rows that exist (backupDatabase.ts:34-38, restoreDatabase.ts:59-60).
THEOREM BackupsTypeCorrect == Spec => []TypeOK
<1>1. TypeInv => TypeOK
  BY DEF TypeInv
<1> QED BY <1>1, AlwaysTyped, PTL

----------------------------------------------------------------------------
(* The restore job                                                         *)

\* everything that is not a step of the restore job or a death of the worker
LEMMA RestoreAlone == Next => RestoreNext \/ WorkerDies \/ UNCHANGED <<r, data>>
BY DEF Next, RestoreNext, Enqueue, TakeJob, InsertRow, ThrowOutsideTry, Connect, Dump, Size, Upload, Unstage, ConnectionGone,
       Record, List, Announce, ThrowInsideTry, Fail, ChangeDestination, CleanupFailed, CleanupMissing, RemoveFile, RemoveRow,
       MarkSynced, DeleteBackup, Prune, RequestRemovesFile, RequestRemovesRows, ApiDies, backupOnly, requestOnly

RestoredInv == RestoreInv /\ RestoredMeansLoaded

LEMMA RestoredStep ==
    ASSUME TypeInv, RestoredInv, Next
    PROVE  RestoredInv'
<1> USE DEF RestoredInv, RestoreInv, RestoredMeansLoaded, RAt, RCut, RFails, RGoto
<1>0. r \in Restore
  BY DEF TypeInv, TypeOK
<1>1. ASSUME NEW e \in Runs, RequestRestore(e) PROVE RestoredInv'
  BY <1>1 DEF RequestRestore, NoRestore
<1>2. CASE StartRestore
  BY <1>0, <1>2 DEF StartRestore, Restore
<1>3. CASE Fetch
  BY <1>0, <1>3 DEF Fetch, Restore
<1>4. CASE Prepare
  BY <1>0, <1>4 DEF Prepare, Restore
<1>5. CASE Reset
  BY <1>0, <1>5 DEF Reset, Restore
<1>6. CASE Load
  BY <1>0, <1>6 DEF Load, Restore
<1>7. CASE Clean
  BY <1>0, <1>7 DEF Clean, Restore
<1>8. CASE RestoreConnectionGone
  BY <1>0, <1>8 DEF RestoreConnectionGone, Restore
<1>9. CASE RecordRestore
  BY <1>0, <1>9 DEF RecordRestore, Restore, Ended, NoRestore
<1>10. CASE FailRestore
  BY <1>0, <1>10 DEF FailRestore, Ended, NoRestore
<1>11. CASE WorkerDies
  <2>1. data' = data
    BY <1>11 DEF WorkerDies
  <2>2. CASE r' = r
    BY <2>1, <2>2
  <2>3. CASE r' # r
    BY <1>0, <1>11, <2>1, <2>3 DEF WorkerDies, Ended, NoRestore, Restore
  <2> QED BY <2>2, <2>3
<1>12. CASE UNCHANGED <<r, data>>
  BY <1>12
<1> QED BY <1>1, <1>2, <1>3, <1>4, <1>5, <1>6, <1>7, <1>8, <1>9, <1>10, <1>11, <1>12, RestoreAlone DEF RestoreNext

LEMMA AlwaysRestored == Spec => []RestoredInv
<1>1. Init => RestoredInv
  BY DEF Init, NoRestore, RestoredInv, RestoreInv, RestoredMeansLoaded
<1>2. TypeInv /\ RestoredInv /\ [Next]_vars => RestoredInv'
  <2>1. ASSUME RestoredInv, UNCHANGED vars PROVE RestoredInv'
    BY <2>1 DEF vars, RestoredInv, RestoreInv, RestoredMeansLoaded
  <2> QED BY <2>1, RestoredStep
<1> QED BY <1>1, <1>2, AlwaysTyped, PTL DEF Spec

\* A restore that reports success has loaded all of its archive: a step that lost its connection is always followed
\* by a command that throws (restoreDatabase.ts:40-48, 78-83).
THEOREM RestoreSuccessIsReal == Spec => []RestoredMeansLoaded
<1>1. RestoredInv => RestoredMeansLoaded
  BY DEF RestoredInv
<1> QED BY <1>1, AlwaysRestored, PTL

\* The database is emptied only when the whole archive was unpacked on the server, whatever the retention or a request
\* removed meanwhile (databaseDump.commands.ts:146-181, restoreDatabase.ts:74-80).
THEOREM ResetHasDump == Spec => ResetOnlyWithDump
<1> DEFINE Empties == data' = "empty" /\ data # "empty" => r.plain \in Unpacks
<1>1. TypeInv /\ RestoredInv /\ [Next]_vars => [Empties]_vars
  <2> SUFFICES ASSUME TypeInv, RestoredInv, Next PROVE Empties
    OBVIOUS
  <2>1. CASE Reset \/ Load
    BY <2>1 DEF Reset, Load, RAt, RestoredInv, RestoreInv
  <2>2. CASE RestoreNext /\ ~(Reset \/ Load)
    BY <2>2 DEF RestoreNext, RequestRestore, StartRestore, Fetch, Prepare, Clean, RestoreConnectionGone, RecordRestore,
                FailRestore
  <2>3. CASE WorkerDies
    BY <2>3 DEF WorkerDies
  <2> QED BY <2>1, <2>2, <2>3, RestoreAlone
<1>2. Spec => [][Empties]_vars
  BY <1>1, AlwaysTyped, AlwaysRestored, PTL DEF Spec
<1> QED BY <1>2 DEF ResetOnlyWithDump

----------------------------------------------------------------------------
(* Files and rows                                                          *)

LEMMA FileSet ==
    ASSUME TypeInv, NEW e, NEW place, NEW state, SetFile(e, place, state)
    PROVE  /\ \A f \in Runs : f # e => file'[f] = file[f]
           /\ e \in Runs /\ place \in Places => file'[e][place] = state
           /\ e \in Runs => \A p \in Places : p # place => file'[e][p] = file[e][p]
<1>1. \A f \in Runs : file[f] \in [Places -> FileState]
  BY DEF TypeInv, TypeOK
<1>2. file' = [file EXCEPT ![e] = [file[e] EXCEPT ![place] = state]]
  BY DEF SetFile
<1> QED BY <1>1, <1>2 DEF TypeInv, TypeOK

\* a step that records no success and chooses nothing for removal leaves alone what nobody chose
Frame ==
    /\ succeeded' = succeeded /\ doomed' = doomed /\ given \subseteq given' /\ made <= made'
    /\ \A e \in Runs : row'[e].status = "success" => row[e].status = "success"
    /\ \A e \in succeeded :
         /\ row'[e].at = row[e].at
         /\ file[e][row[e].at] = "no" => file'[e][row[e].at] = "no"
         /\ \/ e \in doomed \cup given'
            \/ /\ file'[e] = file[e]
               /\ row[e].status \in {"success", "failed"} /\ file[e][row[e].at] \in Complete
                    => row'[e].status \in {"success", "failed"}

LEMMA FrameHistory ==
    ASSUME TypeInv, TypeInv', HistoryInv, Frame, JobPart', RequestPart'
    PROVE  HistoryInv'
<1>1. Successes' \subseteq succeeded'
  BY DEF Frame, Successes, HistoryInv, HistoryPart
<1>2. 1 .. made \subseteq 1 .. made'
  BY DEF Frame, TypeInv, TypeOK
<1> QED BY <1>1, <1>2 DEF Frame, HistoryInv, HistoryPart

\* a request that does nothing meanwhile
LEMMA FrameRequest ==
    ASSUME TypeInv, HistoryInv, Frame, a' = a
    PROVE  RequestPart'
BY DEF Frame, HistoryInv, RequestPart

\* steps of a restore, and of the queue
LEMMA FrameSame ==
    ASSUME UNCHANGED <<made, row, file, succeeded, doomed, given>>, TypeInv
    PROVE  Frame
BY DEF Frame, TypeInv, TypeOK

LEMMA JobFrame ==
    ASSUME TypeInv, TypeInv', HistoryInv,
           \/ Enqueue \/ TakeJob \/ InsertRow \/ ThrowOutsideTry \/ Connect \/ Dump \/ Size \/ Upload \/ Unstage
           \/ ConnectionGone \/ Announce \/ ThrowInsideTry \/ Fail \/ WorkerDies
           \/ \E e \in Runs : RemoveFile(e) \/ RemoveRow(e)
    PROVE  Frame /\ JobPart' /\ a' = a
<1> USE DEF At, Goto, Cut
<1>0. w \in Job /\ a' = a /\ JobPart
  BY DEF TypeInv, TypeOK, HistoryInv, Enqueue, TakeJob, InsertRow, ThrowOutsideTry, Connect, Dump, Size, Upload, Unstage,
         ConnectionGone, Announce, ThrowInsideTry, Fail, WorkerDies, RemoveFile, RemoveRow, backupOnly
<1>1. CASE Enqueue \/ TakeJob \/ Connect \/ Size \/ ConnectionGone \/ ThrowInsideTry \/ ThrowOutsideTry \/ Announce
  <2>1. Frame
    BY <1>1, FrameSame DEF Enqueue, TakeJob, Connect, Size, ConnectionGone, ThrowInsideTry, ThrowOutsideTry, Announce,
                           backupOnly
  <2>2. JobPart'
    <3>1. succeeded' = succeeded /\ doomed' = doomed
      BY <2>1 DEF Frame
    <3>2. CASE Enqueue
      BY <1>0, <3>1, <3>2 DEF Enqueue, JobPart
    <3>3. CASE TakeJob \/ ThrowOutsideTry \/ Announce
      <4>1. w'.pc \in {"idle", "insert"} /\ w'.todo = {}
        <5>1. ASSUME NEW b, w' = [Idle EXCEPT !.pc = "insert", !.dest = dest, !.again = b]
              PROVE  w'.pc \in {"idle", "insert"} /\ w'.todo = {}
          BY <5>1 DEF Idle
        <5>2. CASE TakeJob
          BY <5>1, <5>2 DEF TakeJob
        <5>3. CASE ThrowOutsideTry \/ Announce
          BY <5>3 DEF ThrowOutsideTry, Announce, Idle
        <5> QED BY <3>3, <5>2, <5>3
      <4> QED BY <4>1 DEF JobPart, Unrecorded
    <3>4. CASE Connect \/ Size
      <4>1. w.pc \in Unrecorded /\ w'.run = w.run /\ w'.todo = w.todo /\ w'.dest = w.dest
        BY <1>0, <3>4 DEF Connect, Size, Job, Unrecorded
      <4>2. w'.pc \in {"upload", "unstage"} => w.dest = "s3"
        BY <1>0, <3>4 DEF Connect, Size, AfterSize, Job
      <4> QED BY <1>0, <3>1, <4>1, <4>2 DEF JobPart
    <3>5. CASE ConnectionGone \/ ThrowInsideTry
      BY <1>0, <3>1, <3>5 DEF ConnectionGone, ThrowInsideTry, Job, JobPart, Unrecorded
    <3> QED BY <1>1, <3>2, <3>3, <3>4, <3>5
  <2> QED BY <1>0, <2>1, <2>2
<1>2. CASE InsertRow
  <2>1. made' = made + 1 /\ made + 1 \notin succeeded
    BY <1>2 DEF InsertRow, HistoryInv, HistoryPart, TypeInv, TypeOK
  <2>2. /\ \A e \in succeeded : row'[e] = row[e]
        /\ \A e \in Runs : row'[e].status = "success" => row[e].status = "success"
    BY <1>2, <2>1 DEF InsertRow, TypeInv, TypeOK
  <2>3. Frame
    BY <1>2, <2>1, <2>2 DEF InsertRow, backupOnly, Frame, TypeInv, TypeOK
  <2>4. JobPart'
    BY <1>0, <1>2, <2>1 DEF InsertRow, Job, JobPart, Unrecorded
  <2> QED BY <1>0, <2>3, <2>4
<1>3. CASE Dump \/ Upload \/ Unstage \/ WorkerDies
  <2>1. /\ UNCHANGED <<row, made, succeeded, doomed, given>>
        /\ file' = file \/ (w.run \notin succeeded /\ \E place, state : SetFile(w.run, place, state))
    BY <1>0, <1>3 DEF Dump, Upload, Unstage, WorkerDies, JobPart, Unrecorded, backupOnly
  <2>2. \A e \in succeeded : file'[e] = file[e]
    BY <2>1, FileSet DEF TypeInv, TypeOK
  <2>3. Frame
    BY <2>1, <2>2 DEF Frame, TypeInv, TypeOK
  <2>4. JobPart'
    <3>1. CASE Dump \/ Upload \/ Unstage
      BY <1>0, <2>1, <3>1 DEF Dump, Upload, Unstage, Job, JobPart, Unrecorded
    <3>2. CASE WorkerDies
      BY <3>2 DEF WorkerDies, Idle, JobPart, Unrecorded
    <3> QED BY <1>3, <3>1, <3>2
  <2> QED BY <1>0, <2>3, <2>4
<1>4. CASE Fail
  <2>1. UNCHANGED <<file, made, succeeded, doomed, given>> /\ (row' = row \/ SetRow(w.run, "failed")) /\ w' = Idle
    BY <1>4 DEF Fail, backupOnly
  <2>2. ASSUME NEW e \in Runs
        PROVE  /\ row'[e].at = row[e].at /\ (row'[e].status = "success" => row[e].status = "success")
               /\ row[e].status \in {"success", "failed"} => row'[e].status \in {"success", "failed"}
    <3>1. row[e] \in Row
      BY DEF TypeInv, TypeOK
    <3>2. row'[e] = row[e] \/ row'[e] = [row[e] EXCEPT !.status = "failed"]
      BY <2>1 DEF SetRow, TypeInv, TypeOK
    <3> QED BY <3>1, <3>2 DEF Row
  <2>3. Frame
    BY <2>1, <2>2 DEF Frame, TypeInv, TypeOK
  <2>4. JobPart'
    BY <2>1 DEF JobPart, Idle, Unrecorded
  <2> QED BY <1>0, <2>3, <2>4
<1>5. ASSUME NEW e \in Runs, RemoveFile(e) PROVE Frame /\ JobPart' /\ a' = a
  <2>1. e \in doomed
    BY <1>0, <1>5 DEF RemoveFile, Newest, JobPart
  <2>2. /\ UNCHANGED <<row, made, succeeded, doomed, given>>
        /\ file' = file \/ SetFile(e, row[e].at, "no")
    BY <1>5 DEF RemoveFile, backupOnly
  <2>3. ASSUME NEW f \in Runs
        PROVE  (f # e => file'[f] = file[f]) /\ (file[f][row[f].at] = "no" => file'[f][row[f].at] = "no")
    <3>1. row[e].at \in Places \/ row[e].at = "none"
      BY DEF TypeInv, TypeOK, Row
    <3>2. CASE SetFile(e, row[e].at, "no") /\ row[e].at \notin Places
      BY <3>2 DEF SetFile, TypeInv, TypeOK
    <3> QED BY <2>2, <3>1, <3>2, FileSet
  <2>4. Frame
    BY <2>1, <2>2, <2>3 DEF Frame, TypeInv, TypeOK
  <2>5. JobPart'
    BY <1>0, <1>5, <2>2 DEF RemoveFile, Job, JobPart, Unrecorded
  <2> QED BY <1>0, <2>4, <2>5
<1>6. ASSUME NEW e \in Runs, RemoveRow(e) PROVE Frame /\ JobPart' /\ a' = a
  <2>1. e \in doomed
    BY <1>0, <1>6 DEF RemoveRow, Newest, JobPart
  <2>2. UNCHANGED <<file, made, succeeded, doomed, given>> /\ row' = [row EXCEPT ![e].status = "gone"]
    BY <1>6 DEF RemoveRow, backupOnly
  <2>3. ASSUME NEW f \in Runs
        PROVE  /\ row'[f].at = row[f].at /\ (row'[f].status = "success" => row[f].status = "success")
               /\ f # e => row'[f] = row[f]
    <3>1. row[f] \in Row
      BY DEF TypeInv, TypeOK
    <3>2. row'[f] = IF f = e THEN [row[f] EXCEPT !.status = "gone"] ELSE row[f]
      BY <2>2 DEF TypeInv, TypeOK
    <3> QED BY <3>1, <3>2 DEF Row
  <2>4. Frame
    BY <2>1, <2>2, <2>3 DEF Frame, TypeInv, TypeOK
  <2>5. JobPart'
    BY <1>0, <1>6, <2>2 DEF RemoveRow, Job, JobPart, Unrecorded
  <2> QED BY <1>0, <2>4, <2>5
<1> QED BY <1>1, <1>2, <1>3, <1>4, <1>5, <1>6

LEMMA RequestFrame ==
    ASSUME TypeInv, TypeInv', HistoryInv,
           \/ ChangeDestination \/ CleanupFailed \/ CleanupMissing \/ ApiDies
           \/ \E e \in Runs : MarkSynced(e) \/ DeleteBackup(e) \/ RequestRemovesFile(e)
           \/ \E keep \in 1 .. MaxJobs : Prune(keep)
           \/ \E these \in SUBSET Runs : RequestRemovesRows(these)
    PROVE  Frame /\ JobPart' /\ RequestPart'
<1>0. /\ UNCHANGED <<made, w, succeeded, doomed>> /\ JobPart'
      /\ a \in Request /\ RequestPart
  BY DEF ChangeDestination, CleanupFailed, CleanupMissing, ApiDies, MarkSynced, DeleteBackup, RequestRemovesFile, Prune,
         RequestRemovesRows, requestOnly, HistoryInv, JobPart, TypeInv, TypeOK
<1>1. CASE ChangeDestination
  <2>1. Frame
    BY <1>0, <1>1, FrameSame DEF ChangeDestination
  <2> QED BY <1>0, <1>1, <2>1, FrameRequest DEF ChangeDestination
<1>2. ASSUME row' = row, file' = file, given \subseteq given', a'.files \subseteq given', a'.todo \subseteq given'
      PROVE  Frame /\ JobPart' /\ RequestPart'
  <2>1. Frame
    BY <1>0, <1>2 DEF Frame, TypeInv, TypeOK
  <2> QED BY <1>0, <1>2, <2>1 DEF RequestPart
<1>3. CASE CleanupFailed
  BY <1>2, <1>3 DEF CleanupFailed, WithPath
<1>4. CASE ApiDies
  BY <1>2, <1>4 DEF ApiDies, NoRequest
<1>5. ASSUME NEW e \in Runs, DeleteBackup(e) PROVE Frame /\ JobPart' /\ RequestPart'
  BY <1>2, <1>5 DEF DeleteBackup, WithPath
<1>6. ASSUME NEW keep \in 1 .. MaxJobs, Prune(keep) PROVE Frame /\ JobPart' /\ RequestPart'
  BY <1>2, <1>6 DEF Prune
<1>7. CASE CleanupMissing
  <2>1. Frame
    BY <1>0, <1>7, FrameSame DEF CleanupMissing
  <2>2. a'.what = "missing" /\ a'.files = {} /\ a'.todo = {e \in Successes : file[e][row[e].at] = "no"}
    BY <1>7 DEF CleanupMissing
  <2>3. RequestPart'
    BY <1>0, <1>7, <2>2 DEF CleanupMissing, RequestPart, HistoryInv, HistoryPart
  <2> QED BY <1>0, <2>1, <2>3
<1>8. ASSUME NEW e \in Runs, MarkSynced(e) PROVE Frame /\ JobPart' /\ RequestPart'
  <2>1. ASSUME NEW f \in Runs PROVE row'[f].at = row[f].at /\ row'[f].status = row[f].status
    <3>1. row[f] \in Row
      BY DEF TypeInv, TypeOK
    <3>2. row'[f] = row[f] \/ row'[f] = [row[f] EXCEPT !.synced = TRUE]
      BY <1>8 DEF MarkSynced, TypeInv, TypeOK
    <3> QED BY <3>1, <3>2 DEF Row
  <2>2. UNCHANGED <<file, a, given>>
    BY <1>8 DEF MarkSynced
  <2>3. Frame
    BY <1>0, <2>1, <2>2 DEF Frame, TypeInv, TypeOK
  <2> QED BY <1>0, <2>2, <2>3, FrameRequest
<1>9. ASSUME NEW e \in Runs, RequestRemovesFile(e) PROVE Frame /\ JobPart' /\ RequestPart'
  <2>1. e \in given /\ a' = [a EXCEPT !.files = @ \ {e}] /\ UNCHANGED <<row, given>>
    BY <1>0, <1>9 DEF RequestRemovesFile, RequestPart
  <2>2. file' = file \/ SetFile(e, row[e].at, "no")
    BY <1>9 DEF RequestRemovesFile
  <2>3. ASSUME NEW f \in Runs
        PROVE  (f # e => file'[f] = file[f]) /\ (file[f][row[f].at] = "no" => file'[f][row[f].at] = "no")
    <3>1. CASE SetFile(e, row[e].at, "no") /\ row[e].at \notin Places
      BY <3>1 DEF SetFile, TypeInv, TypeOK
    <3> QED BY <2>2, <3>1, FileSet
  <2>4. Frame
    BY <1>0, <2>1, <2>3 DEF Frame, TypeInv, TypeOK
  <2>5. a'.todo = a.todo /\ a'.what = a.what /\ a'.files \subseteq a.files
    BY <1>0, <2>1 DEF Request
  <2>6. RequestPart'
    BY <1>0, <2>1, <2>4, <2>5 DEF RequestPart, Frame
  <2> QED BY <1>0, <2>4, <2>6
<1>10. ASSUME NEW these \in SUBSET Runs, RequestRemovesRows(these) PROVE Frame /\ JobPart' /\ RequestPart'
  <2>1. these \subseteq a.todo /\ UNCHANGED <<file, given>>
    BY <1>10 DEF RequestRemovesRows
  <2>2. ASSUME NEW f \in Runs
        PROVE  /\ row'[f].at = row[f].at /\ (row'[f].status = "success" => row[f].status = "success")
               /\ f \notin these => row'[f] = row[f]
    <3>1. row[f] \in Row
      BY DEF TypeInv, TypeOK
    <3>2. row'[f] = IF f \in these THEN [row[f] EXCEPT !.status = "gone"] ELSE row[f]
      BY <1>10 DEF RequestRemovesRows
    <3> QED BY <3>1, <3>2 DEF Row
  <2>3. \A e \in these : e \in given \/ file[e][row[e].at] \notin Complete
    BY <1>0, <2>1 DEF RequestPart, Complete, Unpacks
  <2>4. Frame
    BY <1>0, <2>1, <2>2, <2>3 DEF Frame, TypeInv, TypeOK
  <2>5. a' = NoRequest \/ (a'.todo \subseteq a.todo /\ a'.what = a.what /\ a'.files = a.files)
    BY <1>0, <1>10 DEF RequestRemovesRows, Request
  <2>6. RequestPart'
    BY <1>0, <2>1, <2>4, <2>5 DEF RequestPart, Frame, NoRequest
  <2> QED BY <1>0, <2>4, <2>6
<1> QED BY <1>1, <1>3, <1>4, <1>5, <1>6, <1>7, <1>8, <1>9, <1>10

LEMMA FrameKept ==
    ASSUME TypeInv, HistoryInv, Frame, SuccessHasFile
    PROVE  SuccessHasFile'
<1> SUFFICES ASSUME NEW e \in Runs, row'[e].status = "success", e \notin doomed' \cup given'
             PROVE  file'[e][row'[e].at] \in Complete
  BY DEF SuccessHasFile, Successes
<1>1. e \in Successes /\ e \in succeeded
  BY DEF Frame, HistoryInv, HistoryPart, Successes
<1>2. file'[e] = file[e] /\ row'[e].at = row[e].at /\ e \notin doomed \cup given
  BY <1>1 DEF Frame
<1> QED BY <1>1, <1>2 DEF SuccessHasFile

LEMMA FrameNewest ==
    ASSUME TypeInv, Frame, NewestInv, NewestKept
    PROVE  NewestInv' /\ NewestKept'
<1>1. \A e \in Runs : Newest(e, succeeded)' <=> Newest(e, succeeded)
  BY DEF Frame, Newest
<1>2. NewestInv'
  BY <1>1 DEF Frame, NewestInv
<1>3. ASSUME NEW e \in Runs, Newest(e, succeeded), e \notin given'
      PROVE  row'[e].status \in {"success", "failed"} /\ file'[e][row'[e].at] \in Complete
  <2>1. e \notin given /\ e \notin doomed /\ e \in succeeded
    BY <1>3 DEF Frame, NewestInv, Newest
  <2>2. row[e].status \in {"success", "failed"} /\ file[e][row[e].at] \in Complete
    BY <1>3, <2>1 DEF NewestKept
  <2> QED BY <1>3, <2>1, <2>2 DEF Frame
<1> QED BY <1>1, <1>2, <1>3 DEF NewestKept

\* the job says success: the row of this run, and no other, becomes one
LEMMA RecordStep ==
    ASSUME TypeInv, HistoryInv, FileInv, SuccessHasFile, Record
    PROVE  /\ HistoryInv' /\ SuccessHasFile'
           /\ NewestInv /\ NewestKept => NewestInv' /\ NewestKept'
<1>1. /\ UNCHANGED <<made, file, a, doomed, given>> /\ w.pc = "record" /\ w.run \in Runs /\ w.run = made
      /\ w.run \notin succeeded /\ w' = [w EXCEPT !.pc = "list"] /\ w \in Job
  BY DEF Record, At, Goto, backupOnly, TypeInv, TypeOK, LocalInv, HistoryInv, JobPart, Unrecorded
<1>2. w'.pc = "list" /\ w'.todo = w.todo
  BY <1>1 DEF Job
<1>3. JobPart'
  BY <1>1, <1>2 DEF HistoryInv, JobPart, Unrecorded
<1>4. CASE row[w.run].status = "gone"
  <2>1. row' = row /\ succeeded' = succeeded
    BY <1>4 DEF Record
  <2>2. Frame
    BY <1>1, <2>1, FrameSame
  <2>3. RequestPart'
    BY <1>1, <2>2, FrameRequest
  <2>4. HistoryPart'
    BY <1>1, <2>1 DEF HistoryInv, HistoryPart, Successes
  <2>5. HistoryInv'
    BY <1>3, <2>3, <2>4 DEF HistoryInv
  <2> QED BY <2>2, <2>5, FrameKept, FrameNewest
<1>5. CASE row[w.run].status # "gone"
  <2>1. succeeded' = succeeded \cup {w.run}
    BY <1>5 DEF Record
  <2>2. /\ \A e \in Runs : e # w.run => row'[e] = row[e]
        /\ row'[w.run].status = "success" /\ row'[w.run].at = w.dest
    <3>1. row[w.run] \in Row /\ w.dest \in Places
      BY <1>1 DEF TypeInv, TypeOK, Job
    <3>2. row' = [row EXCEPT ![w.run] = [row[w.run] EXCEPT !.status = "success", !.at = w.dest]]
      BY <1>1, <1>5, <3>1 DEF Record, Row, TypeInv, TypeOK
    <3> QED BY <1>1, <3>1, <3>2 DEF Row, TypeInv, TypeOK
  <2>3. w.run \in given \/ file[w.run][w.dest] \in Complete
    BY <1>1 DEF FileInv
  <2>4. RequestPart'
    BY <1>1, <2>1, <2>2 DEF HistoryInv, RequestPart, TypeInv, TypeOK, Request
  <2>5. HistoryPart'
    <3>1. Successes' \subseteq succeeded'
      BY <2>1, <2>2 DEF Successes, HistoryInv, HistoryPart
    <3>2. w.run \in 1 .. made
      BY <1>1 DEF Runs, TypeInv, TypeOK
    <3> QED BY <1>1, <2>1, <3>1, <3>2 DEF HistoryInv, HistoryPart
  <2>6. HistoryInv'
    BY <1>3, <2>4, <2>5 DEF HistoryInv
  <2>7. SuccessHasFile'
    BY <1>1, <2>2, <2>3 DEF SuccessHasFile, Successes
  <2>8. NewestInv' /\ NewestKept'
    <3>1. w.run \notin doomed
      BY <1>1 DEF HistoryInv, HistoryPart
    <3>2. ASSUME NEW e \in Runs, Newest(e, succeeded)' PROVE e = w.run
      <4>1. \A f \in succeeded : f \in 1 .. made
        BY DEF HistoryInv, HistoryPart
      <4>2. w.run <= e /\ (e \in succeeded \/ e = w.run)
        BY <2>1, <3>2 DEF Newest
      <4> QED BY <1>1, <4>1, <4>2 DEF TypeInv, TypeOK, Runs
    <3>3. NewestInv'
      BY <1>1, <3>1, <3>2 DEF NewestInv
    <3>4. NewestKept'
      BY <1>1, <2>2, <2>3, <3>2 DEF NewestKept
    <3> QED BY <3>3, <3>4
  <2> QED BY <2>6, <2>7, <2>8
<1> QED BY <1>4, <1>5

\* retention chooses successes, and with a limit of at least one never the newest
LEMMA ListStep ==
    ASSUME TypeInv, HistoryInv, SuccessHasFile, List
    PROVE  /\ HistoryInv' /\ SuccessHasFile'
           /\ 0 \notin Kept /\ NewestInv /\ NewestKept => NewestInv' /\ NewestKept'
<1>1. PICK n \in Kept :
        /\ w' = [w EXCEPT !.pc = IF Beyond(Successes, n) = {} THEN "announce" ELSE "remove",
                          !.todo = Beyond(Successes, n)]
        /\ doomed' = doomed \cup Beyond(Successes, n)
  BY DEF List
<1>2. UNCHANGED <<made, row, file, a, succeeded, given>> /\ w \in Job
  BY DEF List, backupOnly, TypeInv, TypeOK
<1>3. Beyond(Successes, n) \subseteq Successes
  BY DEF Beyond
<1>4. w'.pc \in {"announce", "remove"} /\ w'.todo = Beyond(Successes, n)
  BY <1>1, <1>2 DEF Job
<1>5. HistoryInv'
  BY <1>1, <1>2, <1>3, <1>4 DEF HistoryInv, JobPart, RequestPart, HistoryPart, Unrecorded, Successes
<1>6. SuccessHasFile'
  BY <1>1, <1>2 DEF SuccessHasFile, Successes
<1>7. ASSUME 0 \notin Kept, NewestInv, NewestKept PROVE NewestInv' /\ NewestKept'
  <2>1. ASSUME NEW e \in Runs, Newest(e, succeeded) PROVE e \notin Beyond(Successes, n)
    <3>1. n \in Nat /\ n >= 1
      BY <1>7, BackupsAssumption
    <3>2. SUFFICES ASSUME e \in Successes PROVE Cardinality({f \in Successes : f >= e}) = 1
      BY <3>1, <3>2 DEF Beyond
    <3>3. {f \in Successes : f >= e} = {e}
      <4>1. \A f \in Successes : f \in Int /\ f <= e
        BY <2>1 DEF Newest, HistoryInv, HistoryPart, Successes, Runs
      <4> QED BY <3>2, <4>1
    <3> QED BY <3>3, FS_Singleton
  <2>2. NewestInv'
    BY <1>1, <1>2, <1>7, <2>1 DEF NewestInv, Newest
  <2>3. NewestKept'
    BY <1>2, <1>7 DEF NewestKept, Newest
  <2> QED BY <2>2, <2>3
<1> QED BY <1>5, <1>6, <1>7

\* the steps of the job build the file up; nobody else touches a file that has no recorded path
LEMMA FileInvStep ==
    ASSUME TypeInv, HistoryInv, FileInv, Next
    PROVE  FileInv'
<1> USE DEF At, Goto, Cut
<1> DEFINE Making == w.pc \in {"size", "upload", "unstage", "record"}
<1>0. w \in Job /\ (w.pc \notin {"idle", "insert"} => w.run \in Runs)
  BY DEF TypeInv, TypeOK, LocalInv
<1>1. ASSUME w' = w, given \subseteq given', Making => (w.run \in given' \/ file'[w.run] = file[w.run])
      PROVE  FileInv'
  BY <1>1 DEF FileInv
<1>2. ASSUME w'.pc \notin {"size", "upload", "unstage", "record"} PROVE FileInv'
  BY <1>2 DEF FileInv
<1>3. CASE Enqueue \/ ChangeDestination \/ CleanupFailed \/ CleanupMissing \/ ApiDies \/ RestoreNext
  BY <1>1, <1>3 DEF Enqueue, ChangeDestination, CleanupFailed, CleanupMissing, ApiDies, RestoreNext, RequestRestore,
     StartRestore, Fetch, Prepare, Reset, Load, Clean, RestoreConnectionGone, RecordRestore, FailRestore, backupOnly,
     requestOnly, restoreOnly
<1>4. ASSUME NEW e \in Runs, MarkSynced(e) \/ DeleteBackup(e) PROVE FileInv'
  BY <1>1, <1>4 DEF MarkSynced, DeleteBackup, requestOnly
<1>5. ASSUME NEW keep \in 1 .. MaxJobs, Prune(keep) PROVE FileInv'
  BY <1>1, <1>5 DEF Prune, requestOnly
<1>6. ASSUME NEW these \in SUBSET Runs, RequestRemovesRows(these) PROVE FileInv'
  BY <1>1, <1>6 DEF RequestRemovesRows, requestOnly
<1>7. ASSUME NEW e \in Runs, RequestRemovesFile(e) PROVE FileInv'
  <2>1. w' = w /\ given' = given /\ e \in given
    BY <1>7 DEF RequestRemovesFile, requestOnly, HistoryInv, RequestPart
  <2>2. file' = file \/ SetFile(e, row[e].at, "no")
    BY <1>7 DEF RequestRemovesFile
  <2>3. Making => (w.run \in given' \/ file'[w.run] = file[w.run])
    BY <1>0, <2>1, <2>2, FileSet
  <2> QED BY <1>1, <2>1, <2>3
<1>8. CASE TakeJob
  <2>1. ASSUME NEW b, w' = [Idle EXCEPT !.pc = "insert", !.dest = dest, !.again = b] PROVE w'.pc = "insert"
    BY <2>1 DEF Idle
  <2> QED BY <1>2, <1>8, <2>1 DEF TakeJob
<1>9. CASE InsertRow \/ ThrowOutsideTry \/ Connect \/ ConnectionGone \/ Record \/ List \/ Announce \/ ThrowInsideTry
           \/ Fail \/ WorkerDies
  <2>1. w'.pc \notin {"size", "upload", "unstage", "record"}
    <3>1. CASE ThrowOutsideTry \/ Announce \/ Fail \/ WorkerDies
      <4>1. w' = Idle
        BY <3>1 DEF ThrowOutsideTry, Announce, Fail, WorkerDies
      <4> QED BY <4>1 DEF Idle
    <3>2. CASE InsertRow \/ Connect \/ ConnectionGone
      BY <1>0, <3>2 DEF InsertRow, Connect, ConnectionGone, Job
    <3>3. CASE Record \/ List \/ ThrowInsideTry
      BY <1>0, <3>3 DEF Record, List, ThrowInsideTry, Job
    <3> QED BY <1>9, <3>1, <3>2, <3>3
  <2> QED BY <1>2, <2>1
<1>10. ASSUME NEW e \in Runs, RemoveFile(e) \/ RemoveRow(e) PROVE FileInv'
  <2>1. w'.pc \notin {"size", "upload", "unstage", "record"}
    BY <1>0, <1>10 DEF RemoveFile, RemoveRow, Job
  <2> QED BY <1>2, <2>1
<1>11. CASE Dump
  <2>1. w.run \in Runs /\ given' = given
    BY <1>0, <1>11 DEF Dump, backupOnly
  <2>2. /\ w'.run = w.run /\ w'.pc \in {"size", "catch"}
        /\ w'.conn /\ w'.pc = "size" => \E state \in Complete : SetFile(w.run, "server", state)
    BY <1>0, <1>11 DEF Dump, Job, Complete, Unpacks
  <2>3. w'.conn /\ w'.pc = "size" => file'[w.run]["server"] \in Complete
    BY <2>1, <2>2, FileSet DEF Places
  <2> QED BY <2>2, <2>3 DEF FileInv
<1>12. CASE Size
  <2>1. /\ w.pc = "size" /\ w.conn /\ file' = file /\ given' = given
        /\ w'.run = w.run /\ w'.dest = w.dest /\ w'.pc = AfterSize
    BY <1>0, <1>12 DEF Size, backupOnly, Job, AfterSize
  <2>2. w.dest \in Places
    BY <1>0 DEF Job
  <2> QED BY <2>1, <2>2 DEF FileInv, AfterSize, Places
<1>13. CASE Upload
  <2>1. w.pc = "upload" /\ w.conn /\ w.run \in Runs /\ given' = given
    BY <1>0, <1>13 DEF Upload, backupOnly
  <2>2. /\ w'.run = w.run /\ w'.pc \in {"unstage", "catch"}
        /\ w'.pc = "unstage" => SetFile(w.run, "s3", file[w.run]["server"])
    BY <1>0, <1>13 DEF Upload, Job
  <2>3. w'.pc = "unstage" => file'[w.run]["s3"] = file[w.run]["server"]
    BY <2>1, <2>2, FileSet DEF Places
  <2> QED BY <2>1, <2>2, <2>3 DEF FileInv
<1>14. CASE Unstage
  <2>1. w.pc = "unstage" /\ w.run \in Runs /\ given' = given /\ w.dest = "s3"
    BY <1>0, <1>14 DEF Unstage, backupOnly, HistoryInv, JobPart
  <2>2. /\ w'.run = w.run /\ w'.dest = w.dest /\ w'.pc = "record"
        /\ file' = file \/ SetFile(w.run, "server", "no")
    BY <1>0, <1>14 DEF Unstage, Job
  <2>3. file'[w.run]["s3"] = file[w.run]["s3"]
    BY <2>1, <2>2, FileSet DEF Places
  <2> QED BY <2>1, <2>2, <2>3 DEF FileInv
<1> QED BY <1>3, <1>4, <1>5, <1>6, <1>7, <1>8, <1>9, <1>10, <1>11, <1>12, <1>13, <1>14 DEF Next, RestoreNext

BackupInv == HistoryInv /\ FileInv /\ SuccessHasFile
NewestKeptInv == NewestInv /\ NewestKept

\* every step but the recording and the choice of the retention is framed
LEMMA StepsFramed ==
    ASSUME TypeInv, TypeInv', HistoryInv, Next
    PROVE  Record \/ List \/ (Frame /\ JobPart' /\ RequestPart')
<1>1. ASSUME Frame /\ JobPart' /\ a' = a PROVE Frame /\ JobPart' /\ RequestPart'
  BY <1>1, FrameRequest
<1>2. CASE RestoreNext
  <2>1. UNCHANGED <<made, row, file, w, a, succeeded, doomed, given>>
    BY <1>2 DEF RestoreNext, RequestRestore, StartRestore, Fetch, Prepare, Reset, Load, Clean, RestoreConnectionGone,
                RecordRestore, FailRestore, restoreOnly
  <2>2. Frame
    BY <2>1, FrameSame
  <2>3. JobPart'
    BY <2>1 DEF HistoryInv, JobPart
  <2> QED BY <1>1, <2>1, <2>2, <2>3
<1> QED BY <1>1, <1>2, JobFrame, RequestFrame DEF Next, RestoreNext

LEMMA BackupStep ==
    ASSUME TypeInv, TypeInv', BackupInv, [Next]_vars
    PROVE  /\ BackupInv'
           /\ 0 \notin Kept /\ NewestKeptInv => NewestKeptInv'
<1> USE DEF BackupInv, NewestKeptInv
<1>1. CASE Next
  <2>1. FileInv'
    BY <1>1, FileInvStep
  <2>2. CASE Record
    BY <2>1, <2>2, RecordStep
  <2>3. CASE List
    BY <2>1, <2>3, ListStep
  <2>4. CASE Frame /\ JobPart' /\ RequestPart'
    BY <2>1, <2>4, FrameHistory, FrameKept, FrameNewest
  <2> QED BY <1>1, <2>2, <2>3, <2>4, StepsFramed
<1>2. CASE UNCHANGED vars
  <2>1. UNCHANGED <<made, row, file, w, a, succeeded, doomed, given>>
    BY <1>2 DEF vars
  <2>2. Frame
    BY <2>1, FrameSame
  <2>3. JobPart'
    BY <2>1 DEF HistoryInv, JobPart
  <2>4. FileInv'
    BY <2>1 DEF FileInv
  <2> QED BY <2>1, <2>2, <2>3, <2>4, FrameRequest, FrameHistory, FrameKept, FrameNewest
<1> QED BY <1>1, <1>2

LEMMA InitBackup == Init => BackupInv /\ NewestKeptInv
<1> SUFFICES ASSUME Init PROVE BackupInv /\ NewestKeptInv
  OBVIOUS
<1>1. Successes = {}
  BY DEF Init, Successes, NoRow
<1>2. HistoryInv
  BY <1>1 DEF Init, HistoryInv, JobPart, RequestPart, HistoryPart, Idle, NoRequest, Unrecorded
<1>3. FileInv
  BY DEF Init, FileInv, Idle
<1>4. SuccessHasFile
  BY <1>1 DEF SuccessHasFile
<1>5. NewestInv /\ NewestKept
  BY DEF Init, NewestInv, NewestKept, Newest
<1> QED BY <1>2, <1>3, <1>4, <1>5 DEF BackupInv, NewestKeptInv

LEMMA AlwaysBackup == Spec => []BackupInv
<1>1. TypeInv /\ TypeInv' /\ BackupInv /\ [Next]_vars => BackupInv'
  BY BackupStep
<1>2. Init => BackupInv
  BY InitBackup
<1> QED BY <1>1, <1>2, AlwaysTyped, PTL DEF Spec

\* A backup recorded as a success that neither retention nor a user chose to remove has the complete file of its dump
\* command where its row says (backupDatabase.ts:70-104), after any failures, deaths and changes of the destination.
THEOREM SuccessfulBackupsExist == Spec => []SuccessHasFile
<1>1. BackupInv => SuccessHasFile
  BY DEF BackupInv
<1> QED BY <1>1, AlwaysBackup, PTL

\* When every retention limit leaves at least one backup, the newest success keeps its row and its file until a
\* user removes it, also when a step after the success fails (backupDatabase.ts:106-130, 142-187).
THEOREM NewestBackupKept == ASSUME 0 \notin Kept PROVE Spec => []NewestKept
<1>1. TypeInv /\ TypeInv' /\ BackupInv /\ NewestKeptInv /\ [Next]_vars => NewestKeptInv'
  BY BackupStep
<1>2. Init => NewestKeptInv
  BY InitBackup
<1>3. NewestKeptInv => NewestKept
  BY DEF NewestKeptInv
<1> QED BY <1>1, <1>2, <1>3, AlwaysTyped, AlwaysBackup, PTL DEF Spec
=============================================================================
