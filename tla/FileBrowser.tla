---------------------------- MODULE FileBrowser ----------------------------
(***************************************************************************)
(* The file browser of a container: list, read, save, upload, create a     *)
(* folder and delete, each a docker exec over SSH.  A write is staged in a *)
(* private file on the host first and streamed into the container by a     *)
(* second command, whose checks and whose cat are separate steps; several  *)
(* requests work on the same container at once, the container may stop     *)
(* under them, and a connection that is lost reads as exit code 0.         *)
(*                                                                         *)
(* Who may ask is in Tenancy.                                              *)
(***************************************************************************)
EXTENDS Integers, FiniteSets

CONSTANTS
    FileRequests,   \* requests; what one writes is named after it
    MaxFileFaults   \* lost connections, full disks and stops of the container

ASSUME FileAssumption == MaxFileFaults \in Nat /\ FileRequests \cap {"none", "dir", "cut", "old"} = {}

VARIABLES
    disk,      \* the container's files: absent, a folder, cut short, or whose content it is
    running,   \* the container runs
    staged,    \* the staging file of each request: absent, empty or full
    ask,       \* what each request is and how far it is
    reply,     \* what it was answered
    past,      \* history, for each request: the connection was lost; it wrote; it replaced a file that was there first
    fileFaults

fileVars == <<disk, running, staged, ask, reply, past, fileFaults>>

Paths == {"root", "pseudo", "top", "dir", "file", "sock"}   \* / , /proc/x , /a , /a/d , /a/d/f , /a/d/x.sock
Contents == FileRequests \cup {"none", "dir", "cut", "old"}
Steps == {"idle", "prepare", "stage", "send", "check", "open", "fill", "act", "done"}
NoAsk == [op |-> "read", path |-> "root", new |-> FALSE, at |-> "idle"]

FileTypeOK ==
    /\ disk \in [Paths -> Contents] /\ running \in BOOLEAN
    /\ staged \in [FileRequests -> {"none", "empty", "full"}]
    /\ \A r \in FileRequests : ask[r].at \in Steps /\ ask[r].path \in Paths /\ ask[r].new \in BOOLEAN
    /\ reply \in [FileRequests -> {"none", "ok", "refused", "failed", "unreachable"}]
    /\ \A r \in FileRequests : past[r] \in [lost : BOOLEAN, wrote : BOOLEAN, replaced : BOOLEAN, tried : BOOLEAN]
    /\ fileFaults \in 0 .. MaxFileFaults

----------------------------------------------------------------------------
(* What may be changed                                                     *)

\* writeRefusal, over canonical paths
writeRefusal(p, op) == p \in {"root", "pseudo", "sock"} \/ (op = "delete" /\ p = "top")

\* writeGate: writes are on for this instance, the path is canonical and may be changed
writeGate(op, p, enabled) == enabled /\ ~writeRefusal(p, op)

FolderOf(p) == CASE p = "dir" -> "top" [] p \in {"file", "sock"} -> "dir" [] OTHER -> "root"

----------------------------------------------------------------------------
(* A request                                                               *)

StepsTo(r, at) == ask' = [ask EXCEPT ![r].at = at]
Answers(r, answer) == StepsTo(r, "done") /\ reply' = [reply EXCEPT ![r] = IF @ = "none" THEN answer ELSE @]
NoFault == UNCHANGED <<running, past, fileFaults>>
Fault == fileFaults < MaxFileFaults /\ fileFaults' = fileFaults + 1

Enters(r, op, p, new, allowed, first) ==
    /\ ask[r].at = "idle"
    /\ ask' = [ask EXCEPT ![r] = [op |-> op, path |-> p, new |-> new, at |-> IF allowed THEN first ELSE "done"]]
    /\ reply' = [reply EXCEPT ![r] = IF allowed THEN @ ELSE "refused"]
    /\ UNCHANGED <<disk, staged>> /\ NoFault

\* GET files and GET files/content: a listing, or the first bytes of a file
AskList(r, p) == Enters(r, "list", p, FALSE, TRUE, "act")
AskRead(r, p) == Enters(r, "read", p, FALSE, TRUE, "act")
\* PUT file-save: within the size the editor takes, and text
AskSave(r, p, create, fits, enabled) == Enters(r, "save", p, create, writeGate("save", p, enabled) /\ fits, "prepare")
\* POST file-upload: a plain name in a folder, within the upload limit
AskUpload(r, p, overwrite, fits, enabled) == Enters(r, "upload", p, ~overwrite, writeGate("upload", p, enabled) /\ fits, "prepare")
AskMkdir(r, p, enabled) == Enters(r, "mkdir", p, FALSE, writeGate("mkdir", p, enabled), "act")
\* POST file-delete: the path is repeated as the confirmation
confirmsDelete(p, confirm) == confirm = p
AskDelete(r, p, confirm, enabled) == Enters(r, "delete", p, FALSE, writeGate("delete", p, enabled) /\ confirmsDelete(p, confirm), "act")

----------------------------------------------------------------------------
(* stageAndWrite                                                           *)

\* prepareStagingCommand: the staging file, empty and private
prepareStaging(r) ==
    /\ ask[r].at = "prepare" /\ StepsTo(r, "stage")
    /\ staged' = [staged EXCEPT ![r] = "empty"]
    /\ UNCHANGED <<disk, reply>> /\ NoFault

writeRemoteFile(r) ==
    /\ ask[r].at = "stage" /\ StepsTo(r, "send")
    /\ staged' = [staged EXCEPT ![r] = "full"]
    /\ UNCHANGED <<disk, reply>> /\ NoFault

\* mutant: the error is passed on and the staging file left
StagingFailsKept(r) ==
    /\ ask[r].at = "stage" /\ Fault /\ Answers(r, "unreachable")
    /\ UNCHANGED <<disk, running, staged, past>>

\* the host refuses the bytes: the staging file is removed before the error goes on
StagingFails(r) ==
    /\ ask[r].at = "stage" /\ Fault /\ Answers(r, "unreachable")
    /\ staged' = [staged EXCEPT ![r] = "none"]
    /\ UNCHANGED <<disk, running, past>>

\* writeFileCommand on the host: the container is looked up, with the trap that removes the staging file already set
Unstage(r) == staged' = [staged EXCEPT ![r] = "none"]
resolveContainer(r) ==
    /\ ask[r].at = "send"
    /\ IF running THEN StepsTo(r, "check") /\ UNCHANGED <<staged, reply>> ELSE Answers(r, "refused") /\ Unstage(r)
    /\ UNCHANGED disk /\ NoFault

\* mutant: an existing file is replaced by a request for a new one
GuardRefusesDirsOnly(r) == disk[ask[r].path] = "dir"

\* the guard in the container: not a folder, and nothing at all for a new file
GuardRefuses(r) == disk[ask[r].path] = "dir" \/ (ask[r].new /\ disk[ask[r].path] # "none")
GuardWrite(r) ==
    /\ ask[r].at = "check" /\ running
    /\ IF GuardRefuses(r) THEN Answers(r, "refused") /\ Unstage(r) ELSE StepsTo(r, "open") /\ UNCHANGED <<staged, reply>>
    /\ UNCHANGED disk /\ NoFault

\* cat > opens the file, which empties it; the folder it is in must be there
OpenFile(r) ==
    LET p == ask[r].path IN
    /\ ask[r].at = "open" /\ running
    /\ IF disk[FolderOf(p)] = "dir" /\ disk[p] # "dir"
         THEN /\ disk' = [disk EXCEPT ![p] = "cut"] /\ StepsTo(r, "fill")
              /\ past' = [past EXCEPT ![r].replaced = disk[p] = "old"]
              /\ UNCHANGED <<staged, reply>>
         ELSE Answers(r, "failed") /\ Unstage(r) /\ UNCHANGED <<disk, past>>
    /\ UNCHANGED <<running, fileFaults>>

\* a deleted file is still written, to nobody; two writers leave the content of the later one
FillFile(r) ==
    LET p == ask[r].path IN
    /\ ask[r].at = "fill" /\ running /\ Answers(r, "ok") /\ Unstage(r)
    /\ disk' = IF disk[p] \in {"none", "dir"} THEN disk ELSE [disk EXCEPT ![p] = r]
    /\ past' = [past EXCEPT ![r].wrote = TRUE]
    /\ UNCHANGED <<running, fileFaults>>

\* the container stops under the command: docker exec fails, the staging file is removed
WriteCut(r) ==
    /\ ask[r].at \in {"check", "open", "fill"} /\ ~running
    /\ Answers(r, "failed") /\ Unstage(r)
    /\ UNCHANGED disk /\ NoFault

----------------------------------------------------------------------------
(* The commands that need no staging                                       *)

Under(p, q) == p = q \/ FolderOf(p) = q \/ (FolderOf(p) # "root" /\ FolderOf(FolderOf(p)) = q)

listDir(r) == disk[ask[r].path] # "none" /\ UNCHANGED disk
readFile(r) == disk[ask[r].path] \notin {"none", "dir"} /\ UNCHANGED disk
makeDir(r) ==
    /\ disk[ask[r].path] = "none" /\ disk[FolderOf(ask[r].path)] = "dir"
    /\ disk' = [disk EXCEPT ![ask[r].path] = "dir"]
deleteTree(r) ==
    /\ disk[ask[r].path] # "none"
    /\ disk' = [p \in Paths |-> IF Under(p, ask[r].path) THEN "none" ELSE disk[p]]

Command(r) ==
    CASE ask[r].op = "list" -> listDir(r) [] ask[r].op = "read" -> readFile(r)
      [] ask[r].op = "mkdir" -> makeDir(r) [] OTHER -> deleteTree(r)

execBuffered(r) ==
    /\ ask[r].at = "act" /\ running /\ Command(r)
    /\ Answers(r, "ok") /\ past' = [past EXCEPT ![r].tried = TRUE]
    /\ UNCHANGED <<running, staged, fileFaults>>

\* a file that is not there, a folder that is: the command fails; and so it does without a container
CommandFails(r) ==
    /\ ask[r].at = "act" /\ Answers(r, "failed")
    /\ \/ ~running
       \/ ask[r].op \in {"list", "read", "delete"} /\ disk[ask[r].path] = "none"
       \/ ask[r].op = "read" /\ disk[ask[r].path] = "dir"
       \/ ask[r].op = "mkdir" /\ (disk[ask[r].path] # "none" \/ disk[FolderOf(ask[r].path)] # "dir")
    /\ UNCHANGED <<disk, staged>> /\ NoFault

----------------------------------------------------------------------------
(* Faults                                                                  *)

\* while staging: the clean-up cannot be sent either, and the request ends in an error
LostWhileStaging(r) ==
    /\ ask[r].at \in {"prepare", "stage", "send"} /\ Fault /\ Answers(r, "unreachable")
    /\ past' = [past EXCEPT ![r].lost = TRUE]
    /\ UNCHANGED <<disk, running, staged>>

\* under the command: the channel closes without a code, which counts as 0; the command goes on by itself
LostUnderCommand(r) ==
    /\ ask[r].at \in {"check", "open", "fill", "act"} /\ ~past[r].lost /\ Fault
    /\ reply' = [reply EXCEPT ![r] = "ok"] /\ past' = [past EXCEPT ![r].lost = TRUE]
    /\ UNCHANGED <<disk, running, staged, ask>>

ContainerToggles ==
    /\ (running => Fault) /\ (~running => UNCHANGED fileFaults)
    /\ running' = ~running
    /\ UNCHANGED <<disk, staged, ask, reply, past>>

----------------------------------------------------------------------------

FileInit ==
    /\ disk = [p \in Paths |-> IF p \in {"file", "sock"} THEN "old" ELSE "dir"] /\ running = TRUE
    /\ staged = [r \in FileRequests |-> "none"] /\ ask = [r \in FileRequests |-> NoAsk]
    /\ reply = [r \in FileRequests |-> "none"] /\ fileFaults = 0
    /\ past = [r \in FileRequests |-> [lost |-> FALSE, wrote |-> FALSE, replaced |-> FALSE, tried |-> FALSE]]

FileAsks(r) == \E p \in Paths, flag, fits, enabled \in BOOLEAN :
    \/ AskSave(r, p, flag, fits, enabled) \/ AskUpload(r, p, flag, fits, enabled)
    \/ AskMkdir(r, p, enabled) \/ AskList(r, p) \/ AskRead(r, p)
    \/ \E confirm \in {p, "root"} : AskDelete(r, p, confirm, enabled)

FileNext ==
    \/ \E r \in FileRequests :
          \/ FileAsks(r)
          \/ prepareStaging(r) \/ writeRemoteFile(r) \/ StagingFails(r) \/ resolveContainer(r)
          \/ GuardWrite(r) \/ OpenFile(r) \/ FillFile(r) \/ WriteCut(r)
          \/ execBuffered(r) \/ CommandFails(r)
          \/ LostWhileStaging(r) \/ LostUnderCommand(r)
    \/ ContainerToggles

FileSpec == FileInit /\ [][FileNext]_fileVars

----------------------------------------------------------------------------
(* Properties                                                              *)

Finished(r) == ask[r].at = "done"
Writes(r) == ask[r].op \in {"save", "upload"}

\* Whatever two requests do to one container at once: a finished request leaves
\* its staging file behind only when its connection was lost
\* (writeFileCommand's trap, stageAndWrite's catch); a write that was answered
\* "ok" over a live connection was made in full; a file is left cut short only
\* by a write that failed or lost its connection; a request for a new file
\* never replaces one that was there before it; and a socket goes only with the
\* folder around it (writeRefusal).
FilesSound ==
    /\ \A r \in FileRequests :
          /\ Finished(r) /\ staged[r] # "none" => past[r].lost
          /\ Writes(r) /\ reply[r] = "ok" /\ ~past[r].lost => past[r].wrote
          /\ ask[r].new => ~past[r].replaced
    /\ disk["file"] = "cut" => \E r \in FileRequests : Writes(r) /\ (ask[r].at = "fill" \/ reply[r] = "failed" \/ past[r].lost)
    /\ disk["sock"] # "old" => disk["sock"] = "none" /\ \E r \in FileRequests : ask[r].op = "delete" /\ ask[r].path = "dir" /\ past[r].tried

=============================================================================
