---------------------------- MODULE DeploymentLog ----------------------------
(***************************************************************************)
(* What the deployments table promises to its readers (the panel, the CI   *)
(* API, the pull request comment): a row is created queued, at most one    *)
(* deployment runs at a time, a running one ends in success or failed, an  *)
(* ended one never changes again, and deleting the application removes the *)
(* rows for good.  A worker that died weakens this and no more: the row it *)
(* left running may stay beside the next one, and an ended one whose job   *)
(* comes back may run again, but every row still ends.                     *)
(***************************************************************************)
EXTENDS Naturals

CONSTANT MaxDeployments

VARIABLES
    open,     \* the application exists
    crashed,  \* the worker has died
    created,  \* rows ever created
    status    \* deployments.status, "none" without a row

logVars == <<open, crashed, created, status>>

Rows == 1..MaxDeployments

LogInit == open = TRUE /\ crashed = FALSE /\ created = 0 /\ status = [d \in Rows |-> "none"]

Create ==
    /\ open /\ created < MaxDeployments
    /\ created' = created + 1
    /\ status' = [status EXCEPT ![created + 1] = "queued"]
    /\ UNCHANGED <<open, crashed>>

Start(d) ==
    /\ status[d] = "queued"
    /\ crashed \/ \A e \in Rows : status[e] # "running"
    /\ status' = [status EXCEPT ![d] = "running"]
    /\ UNCHANGED <<open, crashed, created>>

Finish(d) ==
    /\ status[d] = "running"
    /\ \E outcome \in {"success", "failed"} : status' = [status EXCEPT ![d] = outcome]
    /\ UNCHANGED <<open, crashed, created>>

Remove ==
    /\ open
    /\ open' = FALSE
    /\ status' = [d \in Rows |-> "none"]
    /\ UNCHANGED <<crashed, created>>

\* the job of an ended row is delivered once more
Again(d) ==
    /\ crashed /\ status[d] \in {"success", "failed"}
    /\ status' = [status EXCEPT ![d] = "running"]
    /\ UNCHANGED <<open, crashed, created>>

WorkerDied ==
    /\ crashed' = TRUE
    /\ UNCHANGED <<open, created, status>>

LogNext == Create \/ Remove \/ WorkerDied \/ \E d \in Rows : Start(d) \/ Finish(d) \/ Again(d)

LogSpec ==
    /\ LogInit /\ [][LogNext]_logVars
    /\ \A d \in Rows : WF_logVars(Start(d)) /\ WF_logVars(Finish(d))
=============================================================================
