------------------------ MODULE DeployPipeline_proofs ------------------------
(***************************************************************************)
(* Theorems about DeployPipeline, for every value of its constants.        *)
(***************************************************************************)
EXTENDS DeployPipeline, TLAPS, SequenceTheorems

-----------------------------------------------------------------------------
(* Type correctness.                                                       *)

\* Where a step of the processor may go that does not depend on what it retags.
NextPc == WorkerPc \ {"idle", "retag"}

LEMMA PcKinds ==
    /\ {"markRunning", "markDeploying", "prepare", "connect", "checkout", "build", "tag",
        "preDeploy", "stopOld", "runNew", "route", "health", "postDeploy", "trim",
        "finishOk", "appRunning", "announce", "finishFailed", "appError"} \subseteq NextPc
    /\ {AfterImage, AfterTag, AfterRoute, AfterHealth, AfterPost} \subseteq NextPc
    /\ {"idle", "retag", "load"} \subseteq WorkerPc
  BY DEF WorkerPc, BeforeTry, OverSsh, AfterSsh, OnFailure, NextPc,
         AfterImage, AfterTag, AfterRoute, AfterHealth, AfterPost

LEMMA RowsFrame == RowsTyped /\ UNCHANGED rowVars => RowsTyped'
  BY DEF RowsTyped, rowVars
LEMMA QueueFrame == QueueTyped /\ UNCHANGED queueVars => QueueTyped'
  BY DEF QueueTyped, queueVars
LEMMA WorkerFrame == WorkerTyped /\ UNCHANGED w => WorkerTyped'
  BY DEF WorkerTyped
LEMMA ServerFrame == ServerTyped /\ UNCHANGED serverVars => ServerTyped'
  BY DEF ServerTyped, serverVars
LEMMA HistoryFrame ==
    HistoryTyped /\ UNCHANGED <<deleteVars, historyVars, faults>> => HistoryTyped'
  BY DEF HistoryTyped, deleteVars, historyVars

LEMMA BusyHasJob == WorkerTyped /\ w.pc # "idle" => w.dep \in Deployments
  BY PipelineAssumption DEF WorkerTyped, Deployments

LEMMA GotoTyped ==
  ASSUME WorkerTyped, ~ At("idle"), NEW p \in NextPc, Goto(p)
  PROVE  WorkerTyped'
  BY DEF WorkerTyped, At, Goto, NextPc

LEMMA DroppedTyped ==
  ASSUME WorkerTyped, HistoryTyped, ~ At("idle"), NEW p \in NextPc, Dropped(p)
  PROVE  /\ WorkerTyped'
         /\ faults' \in [crash : 0..MaxCrashes, drop : 0..MaxDrops,
                         db : 0..MaxDbFaults, lost : 0..MaxLostAdds]
<1>1. WorkerTyped'
  BY DEF WorkerTyped, At, Dropped, NextPc
<1>2. faults.drop + 1 \in 0..MaxDrops
  BY PipelineAssumption DEF HistoryTyped, Dropped
<1> QED
  BY <1>1, <1>2 DEF Dropped, HistoryTyped

LEMMA IdleTyped == w' = IdleWorker => WorkerTyped'
  BY PipelineAssumption, PcKinds DEF WorkerTyped, IdleWorker, MaybeCommit

LEMMA CloseTyped ==
  ASSUME QueueTyped, NEW o \in JobState, CloseJob(o), UNCHANGED <<adding, queue, stalls>>
  PROVE  WorkerTyped' /\ QueueTyped'
<1>1. WorkerTyped'
  BY IdleTyped DEF CloseJob
<1>2. QueueTyped'
  BY DEF CloseJob, QueueTyped
<1> QED
  BY <1>1, <1>2

LEMMA InitTyped == Init => TypeOK
<1> SUFFICES ASSUME Init PROVE TypeOK
  OBVIOUS
<1>1. RowsTyped
  <2>1. deployed \in BOOLEAN
    BY DEF Init
  <2> QED
    BY <2>1, PipelineAssumption DEF Init, RowsTyped, AppStatus, RowStatus, MaybeCommit
<1>2. QueueTyped
  BY DEF Init, QueueTyped, JobState
<1>3. WorkerTyped
  BY PipelineAssumption, PcKinds DEF Init, IdleWorker, WorkerTyped, MaybeCommit
<1>4. ServerTyped
  BY PipelineAssumption DEF Init, NoContainer, ServerTyped, MaybeCommit
<1>5. HistoryTyped
  <2>1. faults \in [crash : 0..MaxCrashes, drop : 0..MaxDrops,
                    db : 0..MaxDbFaults, lost : 0..MaxLostAdds]
    BY PipelineAssumption DEF Init
  <2> QED
    BY <2>1 DEF Init, HistoryTyped, DeleteStep
<1> QED
  BY <1>1, <1>2, <1>3, <1>4, <1>5 DEF TypeOK

LEMMA StepTyped == TypeOK /\ [Next]_vars => TypeOK'
<1> SUFFICES ASSUME RowsTyped, QueueTyped, WorkerTyped, ServerTyped, HistoryTyped,
       [Next]_vars
             PROVE  TypeOK'
  BY DEF TypeOK
<1>1. CASE RequestDeploy
  <2>1. RowsTyped'
    BY <1>1, PipelineAssumption DEF RequestDeploy, InsertRow, RowsTyped, RowStatus,
         MaybeCommit, Deployments
  <2>2. QueueTyped'
    BY <1>1, PipelineAssumption DEF RequestDeploy, InsertRow, QueueTyped, RowsTyped,
         Deployments
  <2> QED
    BY <1>1, <2>1, <2>2, WorkerFrame, ServerFrame, HistoryFrame DEF RequestDeploy,
         InsertRow, TypeOK
<1>2. ASSUME NEW t \in Deployments, RequestRollbackToCommit(t)
        PROVE  TypeOK'
  <2>1. RowsTyped'
    BY <1>2, PipelineAssumption DEF RequestRollbackToCommit, InsertRow, RowsTyped,
         RowStatus, MaybeCommit, Deployments
  <2>2. QueueTyped'
    BY <1>2, PipelineAssumption DEF RequestRollbackToCommit, InsertRow, QueueTyped,
         RowsTyped, Deployments
  <2> QED
    BY <1>2, <2>1, <2>2, WorkerFrame, ServerFrame, HistoryFrame DEF
         RequestRollbackToCommit, InsertRow, TypeOK
<1>3. ASSUME NEW t \in Deployments, RequestRollbackToImage(t)
        PROVE  TypeOK'
  <2>1. RowsTyped'
    BY <1>3, PipelineAssumption DEF RequestRollbackToImage, InsertRow, RowsTyped,
         RowStatus, MaybeCommit, Deployments
  <2>2. QueueTyped'
    <3>1. \E d \in 1 .. MaxDeployments : adding' = adding \cup {d}
      BY <1>3, PipelineAssumption DEF RequestRollbackToImage, InsertRow, RowsTyped
    <3>2. UNCHANGED <<queue, job, stalls>>
      BY <1>3 DEF RequestRollbackToImage, InsertRow
    <3> QED
      BY <3>1, <3>2 DEF QueueTyped, Deployments
  <2> QED
    BY <1>3, <2>1, <2>2, WorkerFrame, ServerFrame, HistoryFrame DEF
         RequestRollbackToImage, InsertRow, TypeOK
<1>4. ASSUME NEW d \in Deployments, EnqueueJob(d)
        PROVE  TypeOK'
  <2>1. QueueTyped'
    BY <1>4 DEF EnqueueJob, QueueTyped, JobState, Deployments
  <2> QED
    BY <1>4, <2>1, RowsFrame, WorkerFrame, ServerFrame, HistoryFrame DEF EnqueueJob,
         TypeOK
<1>5. ASSUME NEW d \in Deployments, LoseJob(d)
        PROVE  TypeOK'
  <2>1. QueueTyped'
    BY <1>5 DEF LoseJob, QueueTyped, Deployments
  <2>2. HistoryTyped'
    BY <1>5, PipelineAssumption DEF LoseJob, HistoryTyped, deleteVars, historyVars
  <2> QED
    BY <1>5, <2>1, <2>2, RowsFrame, WorkerFrame, ServerFrame DEF LoseJob, TypeOK
<1>6. CASE DeleteTearDown
  <2>1. ServerTyped'
    BY <1>6, PipelineAssumption DEF DeleteTearDown, ServerTyped, NoContainer,
         MaybeCommit
  <2>2. HistoryTyped'
    BY <1>6 DEF DeleteTearDown, HistoryTyped, DeleteStep, historyVars
  <2> QED
    BY <1>6, <2>1, <2>2, RowsFrame, QueueFrame, WorkerFrame DEF DeleteTearDown, TypeOK
<1>7. CASE DeleteRows
  <2>1. RowsTyped'
    <3>1. app' \in AppStatus /\ status' \in [Deployments -> RowStatus]
      BY <1>7 DEF DeleteRows, RowsTyped, AppStatus, RowStatus
    <3>2. commit' \in [Deployments -> MaybeCommit]
      BY <1>7 DEF DeleteRows, MaybeCommit
    <3>3. deployed' \in BOOLEAN
      BY <1>7 DEF DeleteRows
    <3> QED
      BY <1>7, <3>1, <3>2, <3>3, PipelineAssumption DEF DeleteRows, RowsTyped
  <2>2. HistoryTyped'
    BY <1>7 DEF DeleteRows, HistoryTyped, DeleteStep, historyVars
  <2> QED
    BY <1>7, <2>1, <2>2, QueueFrame, WorkerFrame, ServerFrame DEF DeleteRows, TypeOK
<1>8. CASE TakeJob
  <2>1. QueueTyped'
    BY <1>8 DEF TakeJob, QueueTyped, JobState, At
  <2>2. WorkerTyped'
    <3>1. Head(queue) \in Deployments
      BY <1>8 DEF TakeJob, QueueTyped
    <3>2. "load" \in WorkerPc
      BY PcKinds
    <3>3. w' = [pc |-> "load", dep |-> Head(queue), target |-> None, img |-> 0,
           alive |-> FALSE]
      BY <1>8 DEF TakeJob, IdleWorker
    <3> QED
      BY <3>1, <3>2, <3>3, PipelineAssumption DEF WorkerTyped, MaybeCommit, Deployments
  <2> QED
    BY <1>8, <2>1, <2>2, RowsFrame, ServerFrame, HistoryFrame DEF TakeJob, TypeOK
<1>9. CASE Load
  <2>1. QueueTyped'
    BY <1>9, CloseTyped, QueueFrame DEF Load, JobState, queueVars
  <2>2. WorkerTyped'
    <3>1. CASE Exists(w.dep)
      <4>1. commit[w.dep] \in MaybeCommit /\ fromImage[w.dep] \in 0..MaxDeployments
        BY <1>9, PipelineAssumption DEF Load, RowsTyped, WorkerTyped, At, Deployments
      <4>2. "markRunning" \in WorkerPc
        BY PcKinds DEF NextPc
      <4> QED
        BY <1>9, <3>1, <4>1, <4>2 DEF Load, WorkerTyped, At
    <3>2. CASE ~ Exists(w.dep)
      BY <1>9, <3>2, IdleTyped DEF Load, CloseJob
    <3> QED
      BY <3>1, <3>2
  <2> QED
    BY <1>9, <2>1, <2>2, RowsFrame, ServerFrame, HistoryFrame DEF Load, TypeOK
<1>10. CASE MarkRunning
  <2>1. RowsTyped'
    BY <1>10 DEF MarkRunning, RowsTyped, SetStatus, RowStatus
  <2>2. WorkerTyped'
    BY <1>10, GotoTyped, PcKinds DEF MarkRunning, At
  <2> QED
    BY <1>10, <2>1, <2>2, QueueFrame, ServerFrame, HistoryFrame DEF MarkRunning, TypeOK
<1>11. CASE MarkDeploying
  <2>1. RowsTyped'
    BY <1>11 DEF MarkDeploying, RowsTyped, SetApp, AppStatus
  <2>2. WorkerTyped'
    BY <1>11, GotoTyped, PcKinds DEF MarkDeploying, At
  <2> QED
    BY <1>11, <2>1, <2>2, QueueFrame, ServerFrame, HistoryFrame DEF MarkDeploying,
         TypeOK
<1>12. CASE Prepare
  <2>1. RowsTyped'
    BY <1>12 DEF Prepare, RowsTyped
  <2>2. WorkerTyped'
    BY <1>12, GotoTyped, PcKinds DEF Prepare, At
  <2> QED
    BY <1>12, <2>1, <2>2, QueueFrame, ServerFrame, HistoryFrame DEF Prepare, TypeOK
<1>13. CASE ThrowOutsideTry
  <2>1. WorkerTyped' /\ QueueTyped'
    BY <1>13, CloseTyped DEF ThrowOutsideTry, JobState
  <2>2. HistoryTyped'
    BY <1>13, PipelineAssumption DEF ThrowOutsideTry, HistoryTyped, deleteVars,
         historyVars
  <2> QED
    BY <1>13, <2>1, <2>2, RowsFrame, ServerFrame DEF ThrowOutsideTry, TypeOK
<1>14. CASE Connect
  <2>1. WorkerTyped'
    BY <1>14, GotoTyped, PcKinds, ZenonT(60) DEF Connect, WorkerTyped, At, Raise, Goto, NextPc
  <2> QED
    BY <1>14, <2>1, RowsFrame, QueueFrame, ServerFrame, HistoryFrame DEF Connect, TypeOK
<1>15. CASE Checkout
  <2>1. RowsTyped'
    BY <1>15 DEF Checkout, RowsTyped, WorkerTyped, MaybeCommit
  <2>2. WorkerTyped'
    BY <1>15, GotoTyped, DroppedTyped, PcKinds DEF Checkout, OverConnection, At,
         Completed, Failed, Raise
  <2>3. ServerTyped'
    BY <1>15 DEF Checkout, ServerTyped, WorkerTyped, MaybeCommit
  <2>4. HistoryTyped'
    BY <1>15, DroppedTyped, PcKinds DEF Checkout, OverConnection, At, Completed, Failed,
         Raise, HistoryTyped, deleteVars, historyVars
  <2> QED
    BY <1>15, <2>1, <2>2, <2>3, <2>4, QueueFrame DEF Checkout, TypeOK
<1>16. CASE Retag
  <2>1. WorkerTyped'
    BY <1>16, GotoTyped, DroppedTyped, PcKinds DEF Retag, OverConnection, At, Completed,
         Failed, Raise
  <2>2. ServerTyped'
    BY <1>16 DEF Retag, ServerTyped, WorkerTyped, MaybeCommit, Deployments,
         OverConnection, At
  <2>3. HistoryTyped'
    BY <1>16, DroppedTyped, PcKinds DEF Retag, OverConnection, At, Completed, Failed,
         Raise, HistoryTyped, deleteVars, historyVars
  <2> QED
    BY <1>16, <2>1, <2>2, <2>3, RowsFrame, QueueFrame DEF Retag, TypeOK
<1>17. CASE Build
  <2>1. WorkerTyped'
    BY <1>17, GotoTyped, DroppedTyped, PcKinds DEF Build, OverConnection, At, Completed,
         Failed, Raise
  <2>2. ServerTyped'
    BY <1>17 DEF Build, ServerTyped, MaybeCommit
  <2>3. HistoryTyped'
    BY <1>17, DroppedTyped, PcKinds DEF Build, OverConnection, At, Completed, Failed,
         Raise, HistoryTyped, deleteVars, historyVars
  <2> QED
    BY <1>17, <2>1, <2>2, <2>3, RowsFrame, QueueFrame DEF Build, TypeOK
<1>18. CASE TagImage
  <2>1. WorkerTyped'
    BY <1>18, GotoTyped, DroppedTyped, PcKinds DEF TagImage, OverConnection, At,
         Completed, Failed, Raise
  <2>2. ServerTyped'
    BY <1>18 DEF TagImage, ServerTyped
  <2>3. HistoryTyped'
    BY <1>18, DroppedTyped, PcKinds DEF TagImage, OverConnection, At, Completed, Failed,
         Raise, HistoryTyped, deleteVars, historyVars
  <2> QED
    BY <1>18, <2>1, <2>2, <2>3, RowsFrame, QueueFrame DEF TagImage, TypeOK
<1>19. CASE PreDeploy
  <2>1. WorkerTyped'
    BY <1>19, GotoTyped, DroppedTyped, PcKinds DEF PreDeploy, OverConnection, At,
         Completed, Failed, Raise
  <2>2. HistoryTyped'
    <3>1. preRan' \subseteq Deployments
      BY <1>19, BusyHasJob DEF PreDeploy, HistoryTyped, OverConnection, At
    <3>2. faults' \in [crash : 0..MaxCrashes, drop : 0..MaxDrops,
                       db : 0..MaxDbFaults, lost : 0..MaxLostAdds]
      BY <1>19, DroppedTyped, PcKinds
      DEF PreDeploy, OverConnection, At, Completed, Failed, HistoryTyped
    <3> QED
      BY <1>19, <3>1, <3>2 DEF PreDeploy, HistoryTyped, deleteVars
  <2> QED
    BY <1>19, <2>1, <2>2, RowsFrame, QueueFrame, ServerFrame DEF PreDeploy, TypeOK
<1>20. CASE StopOld
  <2>1. WorkerTyped'
    BY <1>20, GotoTyped, DroppedTyped, PcKinds DEF StopOld, OverConnection, At,
         Completed, Failed, Raise
  <2>2. ServerTyped'
    BY <1>20, PipelineAssumption DEF StopOld, ServerTyped, Stopped, NoContainer,
         MaybeCommit
  <2>3. HistoryTyped'
    BY <1>20, DroppedTyped, PcKinds DEF StopOld, OverConnection, At, Completed, Failed,
         Raise, HistoryTyped, deleteVars, historyVars
  <2> QED
    BY <1>20, <2>1, <2>2, <2>3, RowsFrame, QueueFrame DEF StopOld, TypeOK
<1>21. CASE RunNew
  <2>1. WorkerTyped'
    BY <1>21, GotoTyped, DroppedTyped, PcKinds DEF RunNew, OverConnection, At,
         Completed, Failed, Raise
  <2>2. ServerTyped'
    BY <1>21, PipelineAssumption DEF RunNew, ServerTyped, WorkerTyped, NewContainer,
         OverConnection, At
  <2>3. HistoryTyped'
    BY <1>21, DroppedTyped, PcKinds DEF RunNew, OverConnection, At, Completed, Failed,
         Raise, HistoryTyped, deleteVars, historyVars
  <2> QED
    BY <1>21, <2>1, <2>2, <2>3, RowsFrame, QueueFrame DEF RunNew, TypeOK
<1>22. CASE Route
  <2>1. WorkerTyped'
    BY <1>22, GotoTyped, DroppedTyped, PcKinds DEF Route, OverConnection, At, Completed,
         Failed, Raise
  <2>2. ServerTyped'
    BY <1>22 DEF Route, ServerTyped, Started
  <2>3. HistoryTyped'
    BY <1>22, DroppedTyped, PcKinds DEF Route, OverConnection, At, Completed, Failed,
         Raise, HistoryTyped, deleteVars, historyVars
  <2> QED
    BY <1>22, <2>1, <2>2, <2>3, RowsFrame, QueueFrame DEF Route, TypeOK
<1>23. CASE HealthWait
  <2>1. WorkerTyped'
    BY <1>23, GotoTyped, DroppedTyped, PcKinds DEF HealthWait, OverConnection, At,
         Completed, Failed, Raise
  <2>2. HistoryTyped'
    <3>1. sawHealthy' \subseteq Deployments
      BY <1>23, BusyHasJob DEF HealthWait, HistoryTyped, OverConnection, At
    <3>2. faults' \in [crash : 0..MaxCrashes, drop : 0..MaxDrops,
                       db : 0..MaxDbFaults, lost : 0..MaxLostAdds]
      BY <1>23, DroppedTyped, PcKinds
      DEF HealthWait, OverConnection, At, Completed, Failed, HistoryTyped
    <3> QED
      BY <1>23, <3>1, <3>2 DEF HealthWait, HistoryTyped, deleteVars
  <2> QED
    BY <1>23, <2>1, <2>2, RowsFrame, QueueFrame, ServerFrame DEF HealthWait, TypeOK
<1>24. CASE PostDeploy
  <2>1. WorkerTyped'
    BY <1>24, GotoTyped, DroppedTyped, PcKinds DEF PostDeploy, OverConnection, At,
         Completed, Failed, Raise
  <2>2. HistoryTyped'
    BY <1>24, DroppedTyped, PcKinds DEF PostDeploy, OverConnection, At, Completed,
         Failed, Raise, HistoryTyped, deleteVars, historyVars
  <2> QED
    BY <1>24, <2>1, <2>2, RowsFrame, QueueFrame, ServerFrame DEF PostDeploy, TypeOK
<1>25. CASE Trim
  <2>1. WorkerTyped'
    BY <1>25, GotoTyped, PcKinds DEF Trim, At
  <2>2. ServerTyped'
    BY <1>25 DEF Trim, ServerTyped, MaybeCommit
  <2> QED
    BY <1>25, <2>1, <2>2, RowsFrame, QueueFrame, HistoryFrame DEF Trim, TypeOK
<1>26. CASE ConnectionGone
  <2>1. WorkerTyped'
    BY <1>26, GotoTyped, PcKinds DEF ConnectionGone, At, Raise, OverSsh
  <2> QED
    BY <1>26, <2>1, RowsFrame, QueueFrame, ServerFrame, HistoryFrame DEF ConnectionGone,
         TypeOK
<1>27. CASE FinishOk
  <2>1. RowsTyped'
    BY <1>27 DEF FinishOk, RowsTyped, SetStatus, RowStatus
  <2>2. WorkerTyped'
    BY <1>27, GotoTyped, PcKinds DEF FinishOk, At
  <2> QED
    BY <1>27, <2>1, <2>2, QueueFrame, ServerFrame, HistoryFrame DEF FinishOk, TypeOK
<1>28. CASE AppRunning
  <2>1. RowsTyped'
    BY <1>28 DEF AppRunning, RowsTyped, SetApp, AppStatus
  <2>2. WorkerTyped'
    BY <1>28, GotoTyped, PcKinds DEF AppRunning, At
  <2> QED
    BY <1>28, <2>1, <2>2, QueueFrame, ServerFrame, HistoryFrame DEF AppRunning, TypeOK
<1>29. CASE Announce
  <2>1. WorkerTyped' /\ QueueTyped'
    BY <1>29, CloseTyped DEF Announce, JobState
  <2> QED
    BY <1>29, <2>1, RowsFrame, ServerFrame, HistoryFrame DEF Announce, TypeOK
<1>30. CASE ThrowInsideTry
  <2>1. WorkerTyped'
    BY <1>30, GotoTyped, PcKinds DEF ThrowInsideTry, At, Raise, AfterSsh
  <2>2. HistoryTyped'
    BY <1>30, PipelineAssumption DEF ThrowInsideTry, HistoryTyped, deleteVars,
         historyVars
  <2> QED
    BY <1>30, <2>1, <2>2, RowsFrame, QueueFrame, ServerFrame DEF ThrowInsideTry, TypeOK
<1>31. CASE FinishFailed
  <2>1. RowsTyped'
    BY <1>31 DEF FinishFailed, RowsTyped, SetStatus, RowStatus
  <2>2. WorkerTyped'
    BY <1>31, GotoTyped, PcKinds DEF FinishFailed, At
  <2> QED
    BY <1>31, <2>1, <2>2, QueueFrame, ServerFrame, HistoryFrame DEF FinishFailed, TypeOK
<1>32. CASE AppError
  <2>1. WorkerTyped' /\ QueueTyped'
    BY <1>32, CloseTyped DEF AppError, JobState
  <2>2. RowsTyped'
    BY <1>32 DEF AppError, RowsTyped, SetApp, AppStatus
  <2> QED
    BY <1>32, <2>1, <2>2, ServerFrame, HistoryFrame DEF AppError, TypeOK
<1>33. CASE ThrowInCatch
  <2>1. WorkerTyped' /\ QueueTyped'
    BY <1>33, CloseTyped DEF ThrowInCatch, JobState
  <2>2. HistoryTyped'
    BY <1>33, PipelineAssumption DEF ThrowInCatch, HistoryTyped, deleteVars, historyVars
  <2> QED
    BY <1>33, <2>1, <2>2, RowsFrame, ServerFrame DEF ThrowInCatch, TypeOK
<1>34. CASE Crash
  <2>1. QueueTyped'
    BY <1>34 DEF Crash, QueueTyped, JobState
  <2>2. WorkerTyped'
    BY <1>34, IdleTyped DEF Crash
  <2>3. HistoryTyped'
    BY <1>34, PipelineAssumption DEF Crash, HistoryTyped, deleteVars, historyVars
  <2> QED
    BY <1>34, <2>1, <2>2, <2>3, RowsFrame, ServerFrame DEF Crash, TypeOK
<1>35. ASSUME NEW d \in Deployments, RequeueStalled(d)
        PROVE  TypeOK'
  <2>1. QueueTyped'
    <3>1. ASSUME queue' = <<d>> \o queue
          PROVE  queue' \in Seq(Deployments)
      <4>1. <<d>> \in Seq(Deployments)
        OBVIOUS
      <4> QED
        BY <3>1, <4>1, ConcatProperties DEF QueueTyped
    <3>2. ASSUME queue' = queue
          PROVE  queue' \in Seq(Deployments)
      BY <3>2 DEF QueueTyped
    <3>3. queue' \in Seq(Deployments)
      BY <1>35, <3>1, <3>2 DEF RequeueStalled
    <3> QED
      BY <1>35, <3>3, SMTT(30) DEF RequeueStalled, QueueTyped, JobState
  <2> QED
    BY <1>35, <2>1, RowsFrame, WorkerFrame, ServerFrame, HistoryFrame DEF
         RequeueStalled, TypeOK
<1>36. CASE UNCHANGED vars
  BY <1>36, RowsFrame, QueueFrame, WorkerFrame, ServerFrame, HistoryFrame DEF vars, TypeOK
<1> QED
  BY <1>1, <1>2, <1>3, <1>4, <1>5, <1>6, <1>7, <1>8, <1>9, <1>10, <1>11, <1>12, <1>13,
       <1>14, <1>15, <1>16, <1>17, <1>18, <1>19, <1>20, <1>21, <1>22, <1>23, <1>24,
       <1>25, <1>26, <1>27, <1>28, <1>29, <1>30, <1>31, <1>32, <1>33, <1>34, <1>35,
       <1>36 DEF Next, Request, WorkerStep, RemoteStep, Fault

\* The rows, the queue, the worker and the server keep their types; the worker has a job
\* exactly when it is not idle and retags an image only for a row that names one.
THEOREM TypeCorrect == Spec => []TypeOK
  BY InitTyped, StepTyped, PTL DEF Spec

-----------------------------------------------------------------------------
(* Jobs and rows.                                                          *)

\* What a row beyond the last one created looks like: nothing refers to it yet.
Fresh(d) == job[d] = "none" /\ status[d] = "none" /\ retained[d] = None /\ d \notin adding

\* The job in the "active" state is the one the worker holds; a row is queued once and
\* only rows that were created are queued; and a deployment whose outcome is being
\* written up is not marked running any more.
JobsInv ==
    /\ \A d \in Deployments : job[d] = "active" <=> w.dep = d
    /\ \A d \in Deployments : d > created => Fresh(d)
    /\ \A d \in adding : job[d] = "none"
    /\ \A i \in 1..Len(queue) : queue[i] <= created /\ queue[i] \notin adding
    /\ w.dep <= created /\ container.dep <= created
    /\ w.pc \in {"appRunning", "announce", "appError"} => status[w.dep] # "running"
    /\ RunningIsOwned

\* The commit a row names, the local variables of its job, the working tree, the image
\* and the container agree.  A commit that was recorded is never replaced.
ImagePcs == {"tag", "preDeploy", "stopOld", "runNew"}
LocalsInv ==
    ~ At("idle") /\ ~ At("load") /\ Exists(w.dep) =>
        /\ w.img = fromImage[w.dep]
        /\ w.target # None => commit[w.dep] = w.target
        /\ w.pc \in {"markRunning", "markDeploying", "prepare", "connect", "checkout"} =>
              commit[w.dep] = w.target
        /\ At("build") /\ w.alive => commit[w.dep] # None /\ tree \in {None, commit[w.dep]}
        /\ w.pc \in ImagePcs /\ w.alive => commit[w.dep] # None /\ latest = commit[w.dep]
RowsInv ==
    \A d \in Deployments : Exists(d) =>
        /\ retained[d] # None => retained[d] = commit[d]
        /\ fromImage[d] # 0 =>
              /\ Exists(fromImage[d])
              /\ commit[d] # None /\ commit[d] = commit[fromImage[d]]
\* Behind the build, whether or not its connection is still there, a job's row has its
\* commit; so has every row that can be gone back to.
PastBuild == ImagePcs \cup {"route", "health", "postDeploy", "trim", "finishOk", "appRunning",
                            "announce"}
CommittedInv ==
    /\ SuccessNamesCommit
    /\ w.pc \in PastBuild /\ Exists(w.dep) => commit[w.dep] # None
ContainerInv ==
    container.state # "absent" /\ Exists(container.dep) =>
        container.commit # None /\ container.commit = commit[container.dep]
GateInv ==
    w.pc \in {"stopOld", "runNew"} /\ w.alive /\ HasPreDeploy /\ ~ IsRollback =>
        w.dep \in preRan
LEMMA InitJobs == Init => JobsInv
  BY PipelineAssumption
  DEF Init, JobsInv, Fresh, RunningIsOwned, IdleWorker, NoContainer, Deployments

LEMMA GotoSets ==
  ASSUME WorkerTyped, NEW p, Goto(p)
  PROVE  w'.pc = p /\ w'.dep = w.dep /\ w'.target = w.target /\ w'.img = w.img
            /\ w'.alive = w.alive
  BY DEF WorkerTyped, Goto
LEMMA DroppedSets ==
  ASSUME WorkerTyped, HistoryTyped, NEW p, Dropped(p)
  PROVE  /\ w'.pc = p /\ w'.dep = w.dep /\ w'.target = w.target /\ w'.img = w.img
         /\ w'.alive = FALSE
         /\ faults'.db = faults.db
  BY DEF WorkerTyped, HistoryTyped, Dropped

\* A step that leaves the rows' status, the queue and the jobs alone.
WritingUp == {"appRunning", "announce", "appError"}
Quiet ==
    /\ UNCHANGED <<status, created, adding, queue, job, stalls>>
    /\ w'.dep = w.dep
    /\ w'.pc \in WritingUp => w.pc \in WritingUp
    /\ container'.dep \in {container.dep, w.dep, 0}
    /\ \A d \in Deployments : retained'[d] \in {retained[d], None} \/ d = w.dep
    /\ faults'.db >= faults.db

LEMMA QuietJobs ==
  ASSUME TypeOK, JobsInv, Quiet, faults'.db \in Nat
  PROVE  JobsInv'
<1>1. faults.db \in Nat /\ created \in Nat
  BY PipelineAssumption DEF TypeOK, HistoryTyped, RowsTyped
<1>2. \A d \in Deployments : d > created => Fresh(d)'
  BY <1>1 DEF JobsInv, Fresh, Quiet, Deployments
<1>3. w'.pc \in WritingUp => status'[w'.dep] # "running"
  BY DEF JobsInv, Quiet, WritingUp
<1>4. RunningIsOwned'
  BY <1>1 DEF JobsInv, Quiet, RunningIsOwned, Abandoned
<1>5. container'.dep <= created'
  BY <1>1 DEF JobsInv, Quiet, TypeOK, ServerTyped
<1> QED
  BY <1>2, <1>3, <1>4, <1>5 DEF JobsInv, Quiet, WritingUp

LEMMA ClosedJobs ==
  ASSUME TypeOK, JobsInv, ~ At("idle"), NEW o \in {"done", "failed"}, CloseJob(o),
         UNCHANGED <<status, created, adding, queue, stalls, retained, container>>,
         status[w.dep] = "running" => o = "failed" /\ faults'.db > 0,
         faults'.db >= faults.db, faults'.db \in Nat
  PROVE  JobsInv'
<1>1. faults.db \in Nat /\ created \in Nat /\ w.dep \in Deployments
  BY PipelineAssumption, BusyHasJob DEF TypeOK, HistoryTyped, RowsTyped, At
<1>2. w'.dep = 0 /\ w'.pc = "idle" /\ job' = [job EXCEPT ![w.dep] = o]
  BY DEF CloseJob, IdleWorker
<1>3. \A d \in Deployments : job'[d] = IF d = w.dep THEN o ELSE job[d]
  BY <1>1, <1>2 DEF TypeOK, QueueTyped
<1>4. \A d \in Deployments : job'[d] = "active" <=> w'.dep = d
  BY <1>1, <1>2, <1>3 DEF JobsInv, Deployments
<1>5. \A d \in Deployments : d > created => Fresh(d)'
  BY <1>1, <1>3 DEF JobsInv, Fresh, Deployments
<1>6. \A d \in adding : job'[d] = "none"
  BY <1>1, <1>3 DEF JobsInv, TypeOK, QueueTyped
<1>7. RunningIsOwned'
  BY <1>1, <1>3 DEF JobsInv, RunningIsOwned, Abandoned
<1> QED
  BY <1>1, <1>2, <1>4, <1>5, <1>6, <1>7 DEF JobsInv

\* Where the remote steps go on to.
Onward == {"build", "stopOld", "runNew", "route", "finishOk", "finishFailed",
           AfterImage, AfterTag, AfterRoute, AfterHealth, AfterPost}
LEMMA OnwardKinds == Onward \cap WritingUp = {} /\ Onward \subseteq NextPc
<1>1. Onward \cap WritingUp = {}
  BY DEF Onward, WritingUp, AfterImage, AfterTag, AfterRoute, AfterHealth, AfterPost
<1> QED
  BY <1>1, PcKinds DEF Onward

RemoteShape == \E p \in Onward : (Goto(p) /\ UNCHANGED faults) \/ Dropped(p)
LEMMA RemoteGoesOn == RemoteStep => RemoteShape
  BY DEF RemoteStep, RemoteShape, Onward, Checkout, Retag, Build, TagImage, PreDeploy,
         StopOld, RunNew, Route, HealthWait, PostDeploy, Trim, Completed, Failed, Raise

LEMMA RemoteQuiet ==
  ASSUME TypeOK, RemoteStep
  PROVE  Quiet
<1>1. /\ w'.dep = w.dep /\ w'.pc \notin WritingUp /\ faults'.db >= faults.db
  <2>1. PICK p \in Onward : (Goto(p) /\ UNCHANGED faults) \/ Dropped(p)
    BY RemoteGoesOn DEF RemoteShape
  <2>2. w'.dep = w.dep /\ w'.pc = p /\ faults'.db = faults.db
    BY <2>1, GotoSets, DroppedSets DEF TypeOK
  <2> QED
    BY <2>2, OnwardKinds, PipelineAssumption DEF TypeOK, HistoryTyped
<1>2. UNCHANGED <<status, created, adding, queue, job, stalls>>
  BY DEF RemoteStep, Checkout, Retag, Build, TagImage, PreDeploy, StopOld, RunNew, Route,
         HealthWait, PostDeploy, Trim, rowVars, queueVars
<1>3. container'.dep \in {container.dep, w.dep, 0}
  BY DEF RemoteStep, Checkout, Retag, Build, TagImage, PreDeploy, StopOld, RunNew, Route,
         HealthWait, PostDeploy, Trim, serverVars, TypeOK, ServerTyped, Stopped, Started,
         NewContainer, NoContainer
<1>4. \A d \in Deployments : retained'[d] \in {retained[d], None} \/ d = w.dep
  BY DEF RemoteStep, Checkout, Retag, Build, TagImage, PreDeploy, StopOld, RunNew, Route,
         HealthWait, PostDeploy, Trim, serverVars, TypeOK, ServerTyped
<1> QED
  BY <1>1, <1>2, <1>3, <1>4 DEF Quiet

LEMMA StepJobs == TypeOK /\ JobsInv /\ [Next]_vars => JobsInv'
<1> SUFFICES ASSUME TypeOK, JobsInv, [Next]_vars
             PROVE  JobsInv'
  OBVIOUS
<1>0. /\ faults.db \in Nat /\ faults'.db \in Nat
      /\ created \in Nat /\ created' \in Nat
      /\ w.pc # "idle" => w.dep \in Deployments
  BY StepTyped, PipelineAssumption, BusyHasJob DEF TypeOK, HistoryTyped, RowsTyped
<1>1. ASSUME NEW k, NEW c, NEW g, InsertRow(k, c, g)
      PROVE  JobsInv'
  <2>1. created + 1 \in Deployments /\ created' = created + 1 /\ ~ (created + 1 <= created)
    BY <1>1, <1>0, PipelineAssumption DEF InsertRow, Deployments
  <2>2. \A d \in Deployments : status'[d] = IF d = created + 1 THEN "queued" ELSE status[d]
    BY <1>1, <2>1 DEF InsertRow, TypeOK, RowsTyped
  <2>3. \A i \in 1..Len(queue) : queue[i] <= created' /\ queue[i] \notin adding'
    <3>1. \A i \in 1..Len(queue) : queue[i] \in Nat
      BY DEF TypeOK, QueueTyped, Deployments
    <3> QED
      BY <1>1, <1>0, <3>1 DEF InsertRow, JobsInv
  <2>4. w.dep \in Nat /\ container.dep \in Nat
    BY DEF TypeOK, WorkerTyped, ServerTyped
  <2>5. job[created + 1] = "none"
    BY <2>1, <1>0 DEF JobsInv, Fresh
  <2>6. \A d \in Deployments : d > created' => Fresh(d)'
    BY <1>1, <1>0, <2>1, <2>2 DEF InsertRow, JobsInv, Fresh, Deployments, serverVars
  <2>7. RunningIsOwned'
    BY <1>1, <2>2 DEF InsertRow, JobsInv, RunningIsOwned, Abandoned
  <2>8. w.pc \in WritingUp => status'[w.dep] # "running"
    BY <1>0, <2>2 DEF JobsInv, WritingUp
  <2> QED
    BY <1>1, <1>0, <2>1, <2>3, <2>4, <2>5, <2>6, <2>7, <2>8 DEF InsertRow, JobsInv,
           WritingUp, serverVars
<1>2. ASSUME NEW d \in Deployments, EnqueueJob(d)
      PROVE  JobsInv'
  BY <1>2, <1>0 DEF EnqueueJob, JobsInv, Fresh, RunningIsOwned, Abandoned, Deployments,
                    TypeOK, QueueTyped, rowVars, serverVars
<1>3. ASSUME NEW d \in Deployments, LoseJob(d)
      PROVE  JobsInv'
  BY <1>3, <1>0 DEF LoseJob, JobsInv, Fresh, RunningIsOwned, Abandoned, Deployments,
                    TypeOK, QueueTyped, HistoryTyped, rowVars, serverVars
<1>4. CASE DeleteRows
  BY <1>4, <1>0 DEF DeleteRows, JobsInv, Fresh, RunningIsOwned, Deployments, queueVars,
                    serverVars, TypeOK, WorkerTyped
<1>5. CASE TakeJob
  <2>1. Head(queue) \in Deployments /\ Head(queue) = queue[1] /\ 1 \in 1..Len(queue)
    BY <1>5 DEF TakeJob, TypeOK, QueueTyped
  <2>2. w'.dep = Head(queue) /\ w'.pc = "load" /\ w.dep = 0
    BY <1>5 DEF TakeJob, IdleWorker, TypeOK, WorkerTyped, At
  <2>3. \A d \in Deployments : job'[d] = IF d = Head(queue) THEN "active" ELSE job[d]
    BY <1>5 DEF TakeJob, TypeOK, QueueTyped
  <2>4. \A i \in 1..Len(queue') : queue'[i] <= created /\ queue'[i] \notin adding
    <3>1. \A i \in 1..Len(queue') : i + 1 \in 1..Len(queue) /\ queue'[i] = queue[i + 1]
      BY <1>5 DEF TakeJob, TypeOK, QueueTyped
    <3> QED
      BY <3>1 DEF JobsInv
  <2>5. \A d \in adding : d # Head(queue)
    BY <2>1 DEF JobsInv
  <2> QED
    BY <1>5, <1>0, <2>1, <2>2, <2>3, <2>4, <2>5 DEF TakeJob, JobsInv, Fresh,
           RunningIsOwned, Abandoned, Deployments, rowVars, serverVars
<1>6. CASE Load
  <2>1. CASE Exists(w.dep)
    <3>1. w'.dep = w.dep /\ w'.pc = "markRunning" /\ UNCHANGED job
      BY <1>6, <2>1 DEF Load, TypeOK, WorkerTyped
    <3> QED
      BY <1>6, <1>0, <3>1, QuietJobs DEF Load, Quiet, rowVars, serverVars, WritingUp
  <2>2. CASE ~ Exists(w.dep)
    BY <1>6, <2>2, <1>0, ClosedJobs DEF Load, rowVars, serverVars, At, Exists
  <2> QED
    BY <2>1, <2>2
<1>7. CASE MarkRunning
  BY <1>7, <1>0 DEF MarkRunning, JobsInv, Fresh, RunningIsOwned, Abandoned, Deployments,
                    TypeOK, RowsTyped, WorkerTyped, queueVars, serverVars, SetStatus,
                           Goto, At, Exists
<1>8. CASE FinishOk
  BY <1>8, <1>0 DEF FinishOk, JobsInv, Fresh, RunningIsOwned, Abandoned, Deployments,
                    TypeOK, RowsTyped, WorkerTyped, queueVars, serverVars, SetStatus,
                           Goto, At, Exists
<1>9. CASE FinishFailed
  BY <1>9, <1>0 DEF FinishFailed, JobsInv, Fresh, RunningIsOwned, Abandoned, Deployments,
                    TypeOK, RowsTyped, WorkerTyped, queueVars, serverVars, SetStatus,
                           Goto, At, Exists
<1>10. CASE ThrowOutsideTry \/ ThrowInCatch
  BY <1>10, <1>0, ClosedJobs DEF ThrowOutsideTry, ThrowInCatch, rowVars, serverVars, At,
         BeforeTry, OnFailure, TypeOK, HistoryTyped
<1>11. CASE Announce \/ AppError
  BY <1>11, <1>0, ClosedJobs DEF Announce, AppError, rowVars, serverVars, At, JobsInv
<1>12. CASE Crash
  BY <1>12, <1>0 DEF Crash, JobsInv, Fresh, RunningIsOwned, Abandoned, Deployments,
                    TypeOK, QueueTyped, HistoryTyped, rowVars, serverVars, IdleWorker, At
<1>13. ASSUME NEW d \in Deployments, RequeueStalled(d)
       PROVE  JobsInv'
  <2>1. \A i \in 1..Len(queue') : queue'[i] <= created /\ queue'[i] \notin adding
    <3>1. d <= created /\ d \notin adding
      BY <1>13, <1>0 DEF RequeueStalled, JobsInv, Fresh, Deployments
    <3>2. ASSUME queue' = <<d>> \o queue
          PROVE  \A i \in 1..Len(queue') :
                     queue'[i] = d \/ \E j \in 1..Len(queue) : queue'[i] = queue[j]
      <4>1. <<d>> \in Seq(Deployments)
        OBVIOUS
      <4> QED
        BY <3>2, <4>1, ConcatProperties DEF TypeOK, QueueTyped
    <3>3. CASE queue' = <<d>> \o queue
      BY <3>1, <3>2, <3>3 DEF JobsInv
    <3>4. CASE queue' = queue
      BY <3>4 DEF JobsInv
    <3> QED
      BY <1>13, <3>3, <3>4 DEF RequeueStalled
  <2>2. RunningIsOwned'
    <3>1. \A e \in Deployments :
             job'[e] # job[e] => e = d /\ (job'[e] = "waiting" \/ (stalls'[e] > MaxStalls /\ job'[e] = "failed"))
      <4>1. stalls'[d] = stalls[d] + 1 /\ stalls[d] \in Nat
        BY <1>13 DEF RequeueStalled, TypeOK, QueueTyped
      <4>2. job'[d] = "waiting" \/ (stalls[d] >= MaxStalls /\ job'[d] = "failed")
        BY <1>13 DEF RequeueStalled, TypeOK, QueueTyped
      <4>3. \A e \in Deployments \ {d} : job'[e] = job[e]
        BY <1>13 DEF RequeueStalled, TypeOK, QueueTyped
      <4> QED
        BY <4>1, <4>2, <4>3, PipelineAssumption
    <3>2. \A e \in Deployments : stalls'[e] >= stalls[e] /\ stalls[e] \in Nat /\ stalls'[e] \in Nat
      BY <1>13 DEF RequeueStalled, TypeOK, QueueTyped
    <3> QED
      BY <1>13, <1>0, <3>1, <3>2, PipelineAssumption DEF RequeueStalled, JobsInv,
             RunningIsOwned, Abandoned, rowVars
  <2> QED
    <3>1. \A e \in Deployments : job'[e] = IF e = d THEN job'[d] ELSE job[e]
      BY <1>13 DEF RequeueStalled, TypeOK, QueueTyped
    <3>2. job[d] = "stalled" /\ job'[d] \in {"waiting", "failed"}
      BY <1>13 DEF RequeueStalled, TypeOK, QueueTyped
    <3> QED
      BY <2>1, <2>2, <3>1, <3>2, <1>13 DEF RequeueStalled, JobsInv, Fresh, rowVars,
             serverVars,
         TypeOK, QueueTyped
<1>14. CASE MarkDeploying \/ Prepare \/ Connect \/ ConnectionGone \/ AppRunning \/ DeleteTearDown
  <2>1. UNCHANGED <<status, created, adding, queue, job, stalls, retained, faults>>
    BY <1>14 DEF MarkDeploying, Prepare, Connect, ConnectionGone, AppRunning,
                 DeleteTearDown, queueVars, rowVars, serverVars
  <2>2. w'.dep = w.dep /\ (w'.pc \in WritingUp => w.pc \in WritingUp)
    <3>1. CASE MarkDeploying \/ Prepare \/ ConnectionGone \/ AppRunning
      BY <3>1, GotoSets DEF MarkDeploying, Prepare, ConnectionGone, AppRunning, WritingUp,
                            At, Raise, TypeOK
    <3>2. CASE Connect
      <4>1. CASE Raise
        BY <4>1, GotoSets DEF Raise, TypeOK, WritingUp
      <4>2. CASE w' = [w EXCEPT !.alive = TRUE,
             !.pc = IF w.img # 0 THEN "retag" ELSE "checkout"]
        BY <4>2 DEF TypeOK, WorkerTyped, WritingUp
      <4> QED
        BY <3>2, <4>1, <4>2 DEF Connect
    <3>3. CASE DeleteTearDown
      BY <3>3 DEF DeleteTearDown
    <3> QED
      BY <1>14, <3>1, <3>2, <3>3
  <2>3. container'.dep \in {container.dep, w.dep, 0}
    BY <1>14 DEF MarkDeploying, Prepare, Connect, ConnectionGone, AppRunning,
       DeleteTearDown, serverVars, NoContainer
  <2> QED
    BY <2>1, <2>2, <2>3, <1>0, QuietJobs DEF Quiet
<1>15. CASE ThrowInsideTry
  BY <1>15, <1>0, QuietJobs DEF Quiet, ThrowInsideTry, WritingUp, queueVars, rowVars,
         serverVars, Raise, Goto, TypeOK, WorkerTyped, HistoryTyped
<1>16. CASE RemoteStep
  BY <1>16, <1>0, RemoteQuiet, QuietJobs
<1>17. CASE UNCHANGED vars
  BY <1>17, <1>0, QuietJobs DEF Quiet, vars, queueVars, rowVars, serverVars
<1> QED
  BY <1>1, <1>2, <1>3, <1>4, <1>5, <1>6, <1>7, <1>8, <1>9, <1>10, <1>11, <1>12, <1>13,
         <1>14, <1>15, <1>16, <1>17
  DEF Next, Request, RequestDeploy, RequestRollbackToCommit, RequestRollbackToImage,
         WorkerStep, Fault

\* A row that says running belongs to a job that is being worked on or will be again, or
\* to one of the two ways a job can be given up that bypass its catch block.
THEOREM RunningAlwaysOwned == Spec => []RunningIsOwned
<1>1. TypeOK /\ JobsInv /\ [Next]_vars => (TypeOK /\ JobsInv)'
  BY StepTyped, StepJobs
<1>2. JobsInv => RunningIsOwned
  BY DEF JobsInv
<1> QED
  BY InitTyped, InitJobs, <1>1, <1>2, PTL DEF Spec

-----------------------------------------------------------------------------
(* Commits, images and the container.                                      *)

ProvInv == LocalsInv /\ RowsInv /\ CommittedInv /\ ContainerInv

LEMMA InitProv == Init => ProvInv /\ GateInv
  BY DEF Init, ProvInv, LocalsInv, RowsInv, CommittedInv, SuccessNamesCommit, PastBuild,
         ImagePcs, ContainerInv, GateInv, IdleWorker, NoContainer, At, Exists

\* The steps that write deployments.status.
LEMMA StatusSteps ==
  ASSUME [Next]_vars
  PROVE  \/ Request \/ DeleteRows \/ MarkRunning \/ FinishOk \/ FinishFailed
         \/ UNCHANGED <<status, fromImage>>
  BY DEF Next, WorkerStep, RemoteStep, Fault, vars, rowVars, EnqueueJob, LoseJob,
     DeleteTearDown, TakeJob, Load, MarkDeploying, Prepare, ThrowOutsideTry, Connect,
     Checkout, Retag, Build, TagImage, PreDeploy, StopOld, RunNew, Route, HealthWait,
     PostDeploy, Trim, ConnectionGone, AppRunning, Announce, ThrowInsideTry, AppError,
     ThrowInCatch, Crash, RequeueStalled

\* Rows are only ever created by an insert and only ever removed by the delete handler.
LEMMA RowsStay ==
  ASSUME TypeOK, [Next]_vars
  PROVE  \/ \E k, c, g : InsertRow(k, c, g) /\ (g # 0 => g \in Deployments /\ commit[g] = c
                                                /\ status[g] = "success")
         \/ DeleteRows
         \/ fromImage' = fromImage /\ \A d \in Deployments : Exists(d)' <=> Exists(d)
<1>1. CASE Request
  <2>1. ASSUME NEW t \in Deployments, RequestRollbackToImage(t)
        PROVE  status[t] = "success"
    BY <2>1 DEF RequestRollbackToImage, RollbackTarget
  <2> QED
    BY <1>1, <2>1 DEF Request, RequestDeploy, RequestRollbackToCommit, RequestRollbackToImage
<1>2. ASSUME NEW s \in {"running", "success", "failed"}, SetStatus(w.dep, s), fromImage' = fromImage
      PROVE  fromImage' = fromImage /\ \A d \in Deployments : Exists(d)' <=> Exists(d)
  BY <1>2 DEF SetStatus, Exists, TypeOK, RowsTyped
<1>3. CASE MarkRunning \/ FinishOk \/ FinishFailed
  BY <1>2, <1>3 DEF MarkRunning, FinishOk, FinishFailed
<1>4. ASSUME UNCHANGED <<status, fromImage>>
      PROVE  fromImage' = fromImage /\ \A d \in Deployments : Exists(d)' <=> Exists(d)
  BY <1>4 DEF Exists
<1> QED
  BY <1>1, <1>3, <1>4, StatusSteps

LEMMA CommitSteps ==
  ASSUME [Next]_vars
  PROVE  \/ \E k, c, g : InsertRow(k, c, g)
         \/ DeleteRows \/ Checkout \/ UNCHANGED commit
  BY DEF Next, Request, RequestDeploy, RequestRollbackToCommit, RequestRollbackToImage,
     WorkerStep, RemoteStep, Fault, vars, rowVars, EnqueueJob, LoseJob, MarkRunning,
            FinishOk,
     FinishFailed,
     DeleteTearDown, TakeJob, Load, MarkDeploying, Prepare, ThrowOutsideTry, Connect,
     Retag, Build, TagImage, PreDeploy, StopOld, RunNew, Route, HealthWait,
     PostDeploy, Trim, ConnectionGone, AppRunning, Announce, ThrowInsideTry, AppError,
     ThrowInCatch, Crash, RequeueStalled

\* A recorded commit stays for as long as the row is there.
LEMMA CommitStays ==
  ASSUME TypeOK, JobsInv, LocalsInv, [Next]_vars
  PROVE  \A d \in Deployments : commit[d] # None /\ Exists(d) /\ Exists(d)' => commit'[d] = commit[d]
<1>1. ASSUME NEW k, NEW c, NEW g, InsertRow(k, c, g), NEW d \in Deployments, Exists(d)
      PROVE  commit'[d] = commit[d]
  <2>1. d # created + 1
    BY <1>1, PipelineAssumption DEF JobsInv, Fresh, Exists, TypeOK, RowsTyped, Deployments
  <2> QED
    BY <1>1, <2>1 DEF InsertRow, TypeOK, RowsTyped
<1>2. ASSUME DeleteRows, NEW d \in Deployments
      PROVE  ~ Exists(d)'
  BY <1>2 DEF DeleteRows, Exists
<1>3. ASSUME Checkout, NEW d \in Deployments, commit[d] # None, Exists(d)
      PROVE  commit'[d] = commit[d]
  <2>1. w.dep \in Deployments
    BY <1>3, BusyHasJob DEF Checkout, OverConnection, At, TypeOK
  <2>2. CASE d = w.dep
    <3>1. commit[d] = w.target
      BY <1>3, <2>2 DEF Checkout, OverConnection, At, LocalsInv
    <3>2. commit' = [commit EXCEPT ![w.dep] = w.target] \/ commit' = commit
      BY <1>3, <2>2, <3>1 DEF Checkout
    <3> QED
      BY <2>1, <2>2, <3>1, <3>2 DEF TypeOK, RowsTyped
  <2>3. CASE d # w.dep
    BY <1>3, <2>3 DEF Checkout, TypeOK, RowsTyped
  <2> QED
    BY <2>2, <2>3
<1> QED
  BY <1>1, <1>2, <1>3, CommitSteps

LEMMA StepRows ==
  TypeOK /\ JobsInv /\ LocalsInv /\ RowsInv /\ CommittedInv /\ [Next]_vars => RowsInv'
<1> SUFFICES ASSUME TypeOK, JobsInv, LocalsInv, RowsInv, CommittedInv, [Next]_vars
             PROVE  RowsInv'
  OBVIOUS
<1>1. ASSUME NEW k, NEW c, NEW g, InsertRow(k, c, g),
             g # 0 => g \in Deployments /\ commit[g] = c /\ status[g] = "success"
      PROVE  RowsInv'
  <2>1. created + 1 \in Deployments /\ Fresh(created + 1)
    BY <1>1, PipelineAssumption DEF InsertRow, JobsInv, Deployments, TypeOK, RowsTyped
  <2>2. \A d \in Deployments : Exists(d)' <=> Exists(d) \/ d = created + 1
    BY <1>1, <2>1 DEF InsertRow, Exists, TypeOK, RowsTyped
  <2>3. \A d \in Deployments \ {created + 1} :
           commit'[d] = commit[d] /\ fromImage'[d] = fromImage[d] /\ retained'[d] = retained[d]
    BY <1>1 DEF InsertRow, TypeOK, RowsTyped, serverVars
  <2>4. /\ commit'[created + 1] = c /\ fromImage'[created + 1] = g
        /\ retained'[created + 1] = None /\ ~ Exists(created + 1)
    BY <1>1, <2>1 DEF InsertRow, TypeOK, RowsTyped, serverVars, Fresh, Exists
  <2>5. \A d \in Deployments : fromImage[d] # 0 => fromImage[d] \in Deployments
    BY PipelineAssumption DEF TypeOK, RowsTyped, Deployments
  <2>6. g # 0 => Exists(g) /\ commit[g] # None
    BY <1>1 DEF CommittedInv, SuccessNamesCommit, Exists
  <2> QED
    BY <1>1, <2>1, <2>2, <2>3, <2>4, <2>5, <2>6 DEF RowsInv
<1>2. CASE DeleteRows
  BY <1>2 DEF DeleteRows, RowsInv, Exists
<1>3. ASSUME fromImage' = fromImage, \A d \in Deployments : Exists(d)' <=> Exists(d)
      PROVE  RowsInv'
  <2>1. \A d \in Deployments : Exists(d) => retained'[d] \in {retained[d], None, commit[d]}
    <3>1. CASE TagImage
      <4>1. w.dep \in Deployments
        BY <3>1, BusyHasJob DEF TagImage, OverConnection, At, TypeOK
      <4>2. Exists(w.dep) => latest = commit[w.dep]
        BY <3>1 DEF TagImage, OverConnection, At, LocalsInv, ImagePcs
      <4> QED
        BY <3>1, <4>1, <4>2 DEF TagImage, TypeOK, ServerTyped
    <3>2. CASE Trim
      BY <3>2 DEF Trim
    <3>3. CASE ~ TagImage /\ ~ Trim
      BY <3>3 DEF Next, Request, RequestDeploy, RequestRollbackToCommit,
             RequestRollbackToImage,
         InsertRow, DeleteRows, serverVars,
     WorkerStep, RemoteStep, Fault, vars, EnqueueJob, LoseJob, MarkRunning, FinishOk,
     FinishFailed, Checkout,
     DeleteTearDown, TakeJob, Load, MarkDeploying, Prepare, ThrowOutsideTry, Connect,
     Retag, Build, PreDeploy, StopOld, RunNew, Route, HealthWait,
     PostDeploy, ConnectionGone, AppRunning, Announce, ThrowInsideTry, AppError,
     ThrowInCatch, Crash, RequeueStalled
    <3> QED
      BY <3>1, <3>2, <3>3
  <2>2. \A d \in Deployments : fromImage[d] # 0 => fromImage[d] \in Deployments
    BY PipelineAssumption DEF TypeOK, RowsTyped, Deployments
  <2>3. \A d \in Deployments : commit[d] # None /\ Exists(d) => commit'[d] = commit[d]
    BY <1>3, CommitStays
  <2>4. ASSUME NEW d \in Deployments, Exists(d)
        PROVE  /\ retained'[d] # None => retained'[d] = commit'[d]
               /\ fromImage[d] # 0 =>
                    /\ Exists(fromImage[d])
                    /\ commit'[d] # None /\ commit'[d] = commit'[fromImage[d]]
    BY <2>1, <2>2, <2>3, <2>4 DEF RowsInv
  <2> QED
    BY <1>3, <2>2, <2>4 DEF RowsInv
<1> QED
  BY <1>1, <1>2, <1>3, RowsStay

\* A row that was inserted before is not there again once it is gone.
LEMMA NoRebirth ==
  ASSUME TypeOK, [Next]_vars
  PROVE  \A d \in Deployments : d <= created /\ Exists(d)' => Exists(d)
<1>1. ASSUME NEW k, NEW c, NEW g, InsertRow(k, c, g), NEW d \in Deployments, d <= created
      PROVE  Exists(d)' => Exists(d)
  BY <1>1, PipelineAssumption DEF InsertRow, Exists, TypeOK, RowsTyped, Deployments
<1>2. CASE DeleteRows
  BY <1>2 DEF DeleteRows, Exists
<1> QED
  BY <1>1, <1>2, RowsStay

LEMMA StepContainer ==
  TypeOK /\ JobsInv /\ LocalsInv /\ ContainerInv /\ [Next]_vars => ContainerInv'
<1> SUFFICES ASSUME TypeOK, JobsInv, LocalsInv, ContainerInv, [Next]_vars
             PROVE  ContainerInv'
  OBVIOUS
<1>0. container.state # "absent" => container.dep \in Deployments
  BY PipelineAssumption DEF TypeOK, ServerTyped, Deployments
<1>1. \A d \in Deployments : d <= created /\ Exists(d)' => Exists(d)
  BY NoRebirth
\* A container that was there keeps the version it was created with.
<1>2. ASSUME \/ container'.state = "absent"
             \/ /\ container.state # "absent"
                /\ container'.dep = container.dep /\ container'.commit = container.commit
      PROVE  ContainerInv'
  BY <1>0, <1>1, <1>2, CommitStays DEF ContainerInv, JobsInv
<1>3. CASE RunNew
  <2>1. w.alive /\ w.pc = "runNew" /\ w.dep \in Deployments /\ w.dep <= created
    BY <1>3, BusyHasJob DEF RunNew, OverConnection, At, TypeOK, JobsInv
  <2>2. commit' = commit /\ status' = status
    BY <1>3 DEF RunNew, rowVars
  <2>3. Exists(w.dep) => commit[w.dep] # None /\ latest = commit[w.dep]
    BY <2>1 DEF LocalsInv, ImagePcs, At
  <2>4. CASE container' = container
    BY <2>4, <1>2
  <2>5. CASE container' \in {NewContainer("running"), NewContainer("exited")}
    BY <2>2, <2>3, <2>5 DEF NewContainer, ContainerInv, Exists
  <2> QED
    BY <1>3, <2>4, <2>5 DEF RunNew
<1>4. CASE StopOld \/ Route
  BY <1>2, <1>4 DEF StopOld, Route, Stopped, Started, NoContainer, TypeOK, ServerTyped
<1>5. CASE DeleteTearDown
  BY <1>2, <1>5 DEF DeleteTearDown, NoContainer
<1>6. UNCHANGED container \/ RunNew \/ StopOld \/ Route \/ DeleteTearDown
  BY DEF Next, Request, RequestDeploy, RequestRollbackToCommit, RequestRollbackToImage,
     InsertRow, DeleteRows, serverVars, WorkerStep, RemoteStep, Fault, vars, EnqueueJob,
     LoseJob, MarkRunning, FinishOk, FinishFailed, Checkout, TakeJob, Load, MarkDeploying,
     Prepare, ThrowOutsideTry, Connect, Retag, Build, TagImage, PreDeploy, HealthWait,
     PostDeploy, Trim, ConnectionGone, AppRunning, Announce, ThrowInsideTry, AppError,
     ThrowInCatch, Crash, RequeueStalled
<1> QED
  BY <1>2, <1>3, <1>4, <1>5, <1>6

\* How a remote command can end.
LEMMA CompletedPc ==
  ASSUME TypeOK, NEW p, Completed(p)
  PROVE  w'.pc = p /\ w'.alive = w.alive
  BY GotoSets DEF Completed, TypeOK
LEMMA DroppedPc ==
  ASSUME TypeOK, NEW p, Dropped(p)
  PROVE  w'.pc = p /\ ~ w'.alive
  BY DroppedSets DEF TypeOK
LEMMA FailedPc == TypeOK /\ Failed => w'.pc = "finishFailed"
  BY GotoSets DEF Failed, Raise, TypeOK

\* What a step that keeps the row's commit does to the local variables' agreement.
Early == {"markRunning", "markDeploying", "prepare", "connect", "checkout"}
LEMMA LocalsKept ==
  ASSUME TypeOK, LocalsInv, [Next]_vars, ~ At("idle"), ~ At("load"),
         w'.dep = w.dep, w'.img = w.img, w'.target = w.target,
         UNCHANGED <<commit, fromImage>>, Exists(w.dep)' => Exists(w.dep),
         w'.pc \in Early => w.pc \in Early,
         w'.pc = "build" /\ w'.alive => w.pc = "build" /\ w.alive /\ tree' \in {None, tree},
         w'.pc \in ImagePcs /\ w'.alive => w.pc \in ImagePcs /\ w.alive /\ latest' = latest
  PROVE  LocalsInv'
<1>1. Exists(w.dep) <=> status[w.dep] # "none"
  BY DEF Exists
<1> QED
  BY <1>1 DEF LocalsInv, At, Early, Exists

LEMMA StepLocals ==
  TypeOK /\ JobsInv /\ LocalsInv /\ RowsInv /\ [Next]_vars => LocalsInv'
<1> SUFFICES ASSUME TypeOK, JobsInv, LocalsInv, RowsInv, [Next]_vars
             PROVE  LocalsInv'
  OBVIOUS
<1>0. w.pc # "idle" => w.dep \in Deployments
  BY BusyHasJob DEF TypeOK
<1>1. ASSUME w' = w, UNCHANGED latest, tree' \in {None, tree}
      PROVE  LocalsInv'
  <2>1. CASE w.pc \in {"idle", "load"}
    BY <1>1, <2>1 DEF LocalsInv, At
  <2>2. CASE w.pc \notin {"idle", "load"} /\ Exists(w.dep)'
    <3>1. w.dep <= created
      BY DEF JobsInv
    <3>2. Exists(w.dep)
      <4>1. ASSUME NEW k, NEW c, NEW g, InsertRow(k, c, g)
            PROVE  Exists(w.dep)' => Exists(w.dep)
        BY <4>1, <1>1, <1>0, <2>2, <3>1, PipelineAssumption
        DEF InsertRow, Exists, TypeOK, RowsTyped, Deployments
      <4>2. CASE DeleteRows
        BY <4>2, <2>2, <1>1, <1>0 DEF DeleteRows, Exists
      <4> QED
        BY <4>1, <4>2, <2>2, <1>0, <1>1, RowsStay DEF Exists
    <3>3. fromImage'[w.dep] = fromImage[w.dep] /\ commit'[w.dep] = commit[w.dep]
      <4>1. ASSUME NEW k, NEW c, NEW g, InsertRow(k, c, g)
            PROVE  fromImage'[w.dep] = fromImage[w.dep] /\ commit'[w.dep] = commit[w.dep]
        BY <4>1, <1>0, <2>2, <3>1, PipelineAssumption
        DEF InsertRow, TypeOK, RowsTyped, Deployments
      <4>2. ~ DeleteRows
        BY <1>0, <1>1, <2>2 DEF DeleteRows, Exists
      <4>3. ~ Checkout
        <5>1. ASSUME Checkout PROVE FALSE
          <6>1. w.pc = "checkout"
            BY <5>1 DEF Checkout, OverConnection, At
          <6>2. w'.pc # "checkout"
            BY <5>1, CompletedPc, DroppedPc, FailedPc DEF Checkout
          <6> QED
            BY <6>1, <6>2, <1>1
        <5> QED
          BY <5>1
      <4> QED
        BY <4>1, <4>2, <4>3, CommitSteps, RowsStay
    <3> QED
      BY <1>1, <2>2, <3>2, <3>3 DEF LocalsInv, At
  <2>3. CASE ~ Exists(w.dep)'
    BY <1>1, <2>3 DEF LocalsInv
  <2> QED
    BY <2>1, <2>2, <2>3
<1>2. CASE w'.pc \in {"idle", "load"}
  BY <1>2 DEF LocalsInv, At
<1>3. CASE Load
  <2>1. CASE w' = IdleWorker
    BY <2>1 DEF LocalsInv, At, IdleWorker
  <2>2. CASE w' = [w EXCEPT !.pc = "markRunning", !.target = commit[w.dep],
                            !.img = fromImage[w.dep]]
    BY <1>3, <2>2 DEF Load, LocalsInv, At, ImagePcs, TypeOK, WorkerTyped, rowVars
  <2> QED
    BY <1>3, <2>1, <2>2 DEF Load, CloseJob
<1>4. CASE MarkRunning \/ MarkDeploying \/ Prepare
  <2>1. /\ w'.dep = w.dep /\ w'.img = w.img /\ w'.target = w.target
        /\ w.pc \in Early /\ w'.pc \in Early
    BY <1>4, GotoSets DEF MarkRunning, MarkDeploying, Prepare, At, Early, TypeOK
  <2>2. UNCHANGED <<commit, fromImage>> /\ (status'[w.dep] # "none" => status[w.dep] # "none")
    BY <1>4 DEF MarkRunning, MarkDeploying, Prepare, SetStatus, Exists
  <2> QED
    BY <2>1, <2>2, LocalsKept DEF Early, ImagePcs, At, Exists
<1>5. CASE Connect
  <2>1. CASE Raise
    BY <1>5, <2>1, GotoSets, LocalsKept DEF Connect, Raise, At, Early, ImagePcs, TypeOK,
           rowVars, Exists
  <2>2. CASE w' = [w EXCEPT !.alive = TRUE, !.pc = IF w.img # 0 THEN "retag" ELSE "checkout"]
    <3>1. /\ w'.dep = w.dep /\ w'.img = w.img /\ w'.target = w.target
          /\ w'.pc \in {"retag", "checkout"}
      BY <2>2 DEF TypeOK, WorkerTyped
    <3> QED
      BY <1>5, <3>1, LocalsKept DEF Connect, At, Early, ImagePcs, rowVars, Exists
  <2> QED
    BY <1>5, <2>1, <2>2 DEF Connect
<1>6. CASE Checkout
  <2>1. /\ w'.dep = w.dep /\ w'.img = w.img /\ w'.target = w.target
        /\ w'.pc \in {"build", "finishFailed"}
        /\ ~ w'.alive \/ w'.pc = "finishFailed" \/ Goto("build")
    BY <1>6, GotoSets, DroppedSets DEF Checkout, Completed, Failed, Raise, TypeOK
  <2>2. w.dep \in Deployments /\ At("checkout") /\ UNCHANGED <<status, fromImage>>
    BY <1>6, <1>0 DEF Checkout, OverConnection, At
  <2>3. CASE UNCHANGED commit /\ ~ (w'.pc = "build" /\ w'.alive)
    BY <2>1, <2>2, <2>3 DEF LocalsInv, At, ImagePcs, Exists
  <2>4. ASSUME NEW c \in (IF w.target = None THEN Commits ELSE {w.target}), tree' = c,
               commit' = IF Exists(w.dep) THEN [commit EXCEPT ![w.dep] = c] ELSE commit
        PROVE  LocalsInv'
    <3>1. Exists(w.dep) => commit'[w.dep] = c /\ c # None
      BY <2>2, <2>4, PipelineAssumption DEF TypeOK, RowsTyped
    <3> QED
      BY <2>1, <2>2, <2>4, <3>1 DEF LocalsInv, At, ImagePcs, Exists
  <2>5. ASSUME NEW c, Dropped("build") \/ Failed, UNCHANGED commit
        PROVE  ~ (w'.pc = "build" /\ w'.alive)
    BY <2>5, DroppedPc, FailedPc
  <2> QED
    BY <1>6, <2>3, <2>4, <2>5 DEF Checkout
<1>7. CASE Retag
  <2>1. PICK p \in Onward : (Goto(p) /\ UNCHANGED faults) \/ Dropped(p)
    BY <1>7, RemoteGoesOn DEF RemoteStep, RemoteShape
  <2>2. /\ w'.dep = w.dep /\ w'.img = w.img /\ w'.target = w.target
        /\ UNCHANGED <<status, commit, fromImage>> /\ w.pc = "retag"
    BY <1>7, <2>1, GotoSets, DroppedSets DEF Retag, OverConnection, At, TypeOK, rowVars
  <2>3. w'.pc \in {"finishFailed", AfterImage}
    BY <1>7, GotoSets, DroppedSets DEF Retag, Completed, Failed, Raise, TypeOK
  <2>4. w'.pc \notin Early /\ w'.pc # "build"
    BY <2>3 DEF Early, AfterImage, AfterTag
  <2>5. w'.pc \in ImagePcs /\ w'.alive => latest' = retained[w.img] /\ retained[w.img] # None
    BY <1>7, DroppedPc, FailedPc DEF Retag, ImagePcs
  <2>6. Exists(w.dep) => w.img = fromImage[w.dep] /\ (w.target # None => commit[w.dep] = w.target)
    BY <2>2 DEF LocalsInv, At
  <2>7. w.img \in Deployments /\ w.dep \in Deployments
    BY <2>2, <1>0, PipelineAssumption DEF TypeOK, WorkerTyped, Deployments
  <2>8. Exists(w.dep) /\ retained[w.img] # None =>
            commit[w.dep] # None /\ retained[w.img] = commit[w.dep]
    BY <2>6, <2>7, PipelineAssumption DEF RowsInv, Deployments
  <2> QED
    BY <2>2, <2>4, <2>5, <2>6, <2>8 DEF LocalsInv, At, Early, Exists
<1>8. CASE Build
  <2>1. PICK p \in Onward : (Goto(p) /\ UNCHANGED faults) \/ Dropped(p)
    BY <1>8, RemoteGoesOn DEF RemoteStep, RemoteShape
  <2>2. /\ w'.dep = w.dep /\ w'.img = w.img /\ w'.target = w.target
        /\ UNCHANGED <<status, commit, fromImage>> /\ w.pc = "build" /\ w.alive
    BY <1>8, <2>1, GotoSets, DroppedSets DEF Build, OverConnection, At, TypeOK, rowVars
  <2>3. w'.pc \in {"finishFailed", AfterImage}
    BY <1>8, GotoSets, DroppedSets DEF Build, Completed, Failed, Raise, TypeOK
  <2>4. w'.pc \notin Early /\ w'.pc # "build"
    BY <2>3 DEF Early, AfterImage, AfterTag
  <2>5. w'.pc \in ImagePcs /\ w'.alive => latest' = tree /\ tree # None
    BY <1>8, DroppedPc, FailedPc DEF Build, ImagePcs
  <2> QED
    BY <2>2, <2>4, <2>5 DEF LocalsInv, At, Early, Exists
<1>9. CASE TagImage \/ PreDeploy \/ StopOld \/ RunNew \/ Route \/ HealthWait \/ PostDeploy \/ Trim
  <2>1. PICK p \in Onward : (Goto(p) /\ UNCHANGED faults) \/ Dropped(p)
    BY <1>9, RemoteGoesOn DEF RemoteStep, RemoteShape
  <2>2. /\ w'.dep = w.dep /\ w'.img = w.img /\ w'.target = w.target
        /\ (w'.alive => w.alive)
    BY <2>1, GotoSets, DroppedSets DEF TypeOK
  <2>3. UNCHANGED <<status, commit, fromImage, latest>>
    BY <1>9 DEF TagImage, PreDeploy, StopOld, RunNew, Route, HealthWait, PostDeploy, Trim,
                rowVars, serverVars
  <2>4. w'.pc \notin Early /\ w'.pc # "build"
    <3>1. w'.pc \in {AfterTag, "stopOld", "runNew", "route", AfterRoute, AfterHealth,
                     AfterPost, "finishOk", "finishFailed"}
      BY <1>9, CompletedPc, DroppedPc, FailedPc, GotoSets
      DEF TagImage, PreDeploy, StopOld, RunNew, Route, HealthWait, PostDeploy, Trim, TypeOK
    <3> QED
      BY <3>1 DEF Early, AfterTag, AfterRoute, AfterHealth, AfterPost
  <2>5. w'.pc \in ImagePcs => w.pc \in ImagePcs
    <3>1. CASE TagImage \/ PreDeploy \/ StopOld
      BY <3>1 DEF TagImage, PreDeploy, StopOld, OverConnection, At, ImagePcs
    <3>2. CASE RunNew \/ Route \/ HealthWait \/ PostDeploy \/ Trim
      <4>1. w'.pc \in {"route", AfterRoute, AfterHealth, AfterPost, "finishOk", "finishFailed"}
        BY <3>2, CompletedPc, DroppedPc, FailedPc, GotoSets
        DEF RunNew, Route, HealthWait, PostDeploy, Trim, TypeOK
      <4> QED
        BY <4>1 DEF ImagePcs, AfterRoute, AfterHealth, AfterPost
    <3> QED
      BY <1>9, <3>1, <3>2
  <2>6. w.pc \notin {"idle", "load"}
    BY <1>9 DEF TagImage, PreDeploy, StopOld, RunNew, Route, HealthWait, PostDeploy, Trim,
                OverConnection, At
  <2> QED
    BY <2>2, <2>3, <2>4, <2>5, <2>6, LocalsKept DEF At, Exists
<1>10. CASE ConnectionGone \/ FinishOk \/ AppRunning \/ ThrowInsideTry \/ FinishFailed
  <2>1. /\ w'.dep = w.dep /\ w'.img = w.img /\ w'.target = w.target
        /\ w'.pc \in {"finishFailed", "appRunning", "announce", "appError"}
    BY <1>10, GotoSets DEF ConnectionGone, FinishOk, AppRunning, ThrowInsideTry,
           FinishFailed,
                           Raise, TypeOK
  <2>2. UNCHANGED <<commit, fromImage>> /\ (status'[w.dep] # "none" => status[w.dep] # "none")
    BY <1>10 DEF ConnectionGone, FinishOk, AppRunning, ThrowInsideTry, FinishFailed,
                 SetStatus, Exists, rowVars
  <2>3. w.pc \notin {"idle", "load"}
    BY <1>10 DEF ConnectionGone, FinishOk, AppRunning, ThrowInsideTry, FinishFailed, At,
                 OverSsh, AfterSsh
  <2> QED
    BY <2>1, <2>2, <2>3, LocalsKept DEF At, Early, ImagePcs, Exists
<1>11. \/ w' = w /\ UNCHANGED latest /\ tree' \in {None, tree}
       \/ w'.pc \in {"idle", "load"}
       \/ Load \/ MarkRunning \/ MarkDeploying \/ Prepare \/ Connect \/ RemoteStep
       \/ ConnectionGone \/ FinishOk \/ AppRunning \/ ThrowInsideTry \/ FinishFailed
  <2>1. IdleWorker.pc = "idle"
    BY DEF IdleWorker
  <2>2. CASE TakeJob
    BY <2>2 DEF TakeJob, IdleWorker
  <2>3. CASE ThrowOutsideTry \/ Announce \/ AppError \/ ThrowInCatch \/ Crash
    BY <2>1, <2>3 DEF ThrowOutsideTry, Announce, AppError, ThrowInCatch, Crash, CloseJob
  <2>4. CASE \/ Request \/ DeleteTearDown \/ DeleteRows \/ UNCHANGED vars
             \/ \E d \in Deployments : EnqueueJob(d) \/ LoseJob(d) \/ RequeueStalled(d)
    BY <2>4 DEF Request, RequestDeploy, RequestRollbackToCommit, RequestRollbackToImage,
       InsertRow, DeleteRows, serverVars, vars, EnqueueJob, LoseJob, DeleteTearDown,
       RequeueStalled
  <2> QED
    BY <2>2, <2>3, <2>4 DEF Next, WorkerStep, Fault
<1> QED
  BY <1>1, <1>2, <1>3, <1>4, <1>5, <1>6, <1>7, <1>8, <1>9, <1>10, <1>11 DEF RemoteStep

\* What the processor has done by the time it takes the old container down.
LEMMA StepGate == TypeOK /\ GateInv /\ [Next]_vars => GateInv'
<1> SUFFICES ASSUME TypeOK, GateInv, [Next]_vars, w'.pc \in {"stopOld", "runNew"}, w'.alive,
                    HasPreDeploy, ~ IsRollback'
             PROVE  w'.dep \in preRan'
  BY DEF GateInv
<1>1. preRan \subseteq preRan'
  BY DEF Next, Request, RequestDeploy, RequestRollbackToCommit, RequestRollbackToImage,
     InsertRow, DeleteRows, historyVars, WorkerStep, RemoteStep, Fault, vars, EnqueueJob,
     LoseJob, MarkRunning, FinishOk, FinishFailed, Checkout, TakeJob, Load, MarkDeploying,
     Prepare, ThrowOutsideTry, Connect, Retag, Build, TagImage, PreDeploy, HealthWait,
     StopOld, RunNew, Route, DeleteTearDown, PostDeploy, Trim, ConnectionGone, AppRunning,
     Announce, ThrowInsideTry, AppError, ThrowInCatch, Crash, RequeueStalled
<1>2. CASE w' = w
  BY <1>1, <1>2 DEF GateInv, IsRollback
<1>3. CASE RemoteStep
  <2>1. w'.dep = w.dep /\ w'.img = w.img /\ w'.target = w.target /\ (w'.alive => w.alive)
    BY <1>3, RemoteGoesOn, GotoSets, DroppedSets DEF RemoteShape, TypeOK
  <2>2. ~ IsRollback
    BY <2>1 DEF IsRollback
  <2>3. CASE Retag
    BY <2>2, <2>3 DEF Retag, OverConnection, At, IsRollback, TypeOK, WorkerTyped
  <2>4. CASE PreDeploy
    <3>1. w'.pc \in ImagePcs => w.dep \in preRan'
      BY <2>4, DroppedPc, FailedPc DEF PreDeploy, ImagePcs
    <3> QED
      BY <2>1, <3>1 DEF ImagePcs
  <2>5. CASE Build \/ TagImage
    <3>1. w'.pc \in {"tag", "preDeploy", "finishFailed"}
      BY <2>2, <2>5, CompletedPc, DroppedPc, FailedPc
      DEF Build, TagImage, AfterImage, AfterTag
    <3> QED
      BY <3>1
  <2>6. CASE StopOld
    BY <1>1, <2>1, <2>2, <2>6 DEF StopOld, OverConnection, At, GateInv
  <2>7. CASE Checkout \/ RunNew \/ Route \/ HealthWait \/ PostDeploy \/ Trim
    <3>1. w'.pc \in {"build", "route", AfterRoute, AfterHealth, AfterPost, "finishOk", "finishFailed"}
      BY <2>7, CompletedPc, DroppedPc, FailedPc, GotoSets
      DEF Checkout, RunNew, Route, HealthWait, PostDeploy, Trim, TypeOK
    <3> QED
      BY <3>1 DEF AfterRoute, AfterHealth, AfterPost
  <2> QED
    BY <1>3, <2>3, <2>4, <2>5, <2>6, <2>7 DEF RemoteStep
<1>4. CASE ~ RemoteStep /\ w' # w
  <2>1. w'.pc \notin {"stopOld", "runNew"}
    <3>1. CASE TakeJob \/ Load
      <4>1. TakeJob => w'.pc = "load"
        BY DEF TakeJob, IdleWorker
      <4>2. ASSUME Load PROVE w'.pc \in {"markRunning", "idle"}
        <5>1. w' = IdleWorker => w'.pc = "idle"
          BY DEF IdleWorker
        <5>2. w' = [w EXCEPT !.pc = "markRunning", !.target = commit[w.dep],
                             !.img = fromImage[w.dep]] => w'.pc = "markRunning"
          BY DEF TypeOK, WorkerTyped
        <5> QED
          BY <4>2, <5>1, <5>2 DEF Load, CloseJob
      <4> QED
        BY <3>1, <4>1, <4>2
    <3>4. CASE Connect
      <4>1. Raise => w'.pc = "finishFailed"
        BY GotoSets DEF Raise, TypeOK
      <4> QED
        BY <3>4, <4>1 DEF Connect, TypeOK, WorkerTyped
    <3>2. CASE ThrowOutsideTry \/ Announce \/ AppError \/ ThrowInCatch \/ Crash
      BY <3>2 DEF ThrowOutsideTry, Announce, AppError, ThrowInCatch, Crash, CloseJob,
             IdleWorker
    <3>3. CASE \/ MarkRunning \/ MarkDeploying \/ Prepare \/ ConnectionGone \/ FinishOk
               \/ AppRunning \/ ThrowInsideTry \/ FinishFailed
      <4>1. w'.pc \in {"markDeploying", "prepare", "connect", "finishFailed", "appRunning",
                       "announce", "appError"}
        BY <3>3, GotoSets DEF MarkRunning, MarkDeploying, Prepare, ConnectionGone, FinishOk,
           AppRunning, ThrowInsideTry, FinishFailed, Raise, TypeOK
      <4> QED
        BY <4>1
    <3> QED
      BY <1>4, <3>1, <3>2, <3>3, <3>4
      DEF Next, WorkerStep, Fault, Request, RequestDeploy, RequestRollbackToCommit,
          RequestRollbackToImage, InsertRow, EnqueueJob, LoseJob, RequeueStalled,
                 DeleteTearDown,
          DeleteRows, vars
  <2> QED
    BY <2>1
<1> QED
  BY <1>2, <1>3, <1>4

\* A job only gets behind the build from an image it built or retagged.
LEMMA PastBuildSteps ==
  ASSUME TypeOK, [Next]_vars, w'.pc \in PastBuild
  PROVE  /\ w'.dep = w.dep
         /\ w.pc \in PastBuild \/ w.pc = "retag" \/ (w.pc = "build" /\ w.alive)
<1>1. CASE w' = w
  BY <1>1
<1>2. CASE RemoteStep
  <2>1. PICK p \in Onward : (Goto(p) /\ UNCHANGED faults) \/ Dropped(p)
    BY <1>2, RemoteGoesOn DEF RemoteShape
  <2>2. w'.dep = w.dep
    BY <2>1, GotoSets, DroppedSets DEF TypeOK
  <2>3. ~ Checkout
    BY CompletedPc, DroppedPc, FailedPc DEF Checkout, PastBuild, ImagePcs
  <2> QED
    BY <1>2, <2>2, <2>3 DEF RemoteStep, Retag, Build, TagImage, PreDeploy, StopOld, RunNew,
       Route, HealthWait, PostDeploy, Trim, OverConnection, At, PastBuild, ImagePcs
<1>3. CASE FinishOk \/ AppRunning
  BY <1>3, GotoSets DEF FinishOk, AppRunning, At, PastBuild, TypeOK
<1>4. ASSUME ~ RemoteStep, ~ FinishOk, ~ AppRunning, w' # w
      PROVE  FALSE
  <2>1. CASE TakeJob
    BY <2>1 DEF TakeJob, IdleWorker, PastBuild, ImagePcs
  <2>2. CASE Load
    <3>1. w' = IdleWorker => w'.pc = "idle"
      BY DEF IdleWorker
    <3>2. w' = [w EXCEPT !.pc = "markRunning", !.target = commit[w.dep],
                         !.img = fromImage[w.dep]] => w'.pc = "markRunning"
      BY DEF TypeOK, WorkerTyped
    <3> QED
      BY <2>2, <3>1, <3>2 DEF Load, CloseJob, PastBuild, ImagePcs
  <2>3. CASE Connect
    <3>1. Raise => w'.pc = "finishFailed"
      BY GotoSets DEF Raise, TypeOK
    <3>2. w' = [w EXCEPT !.alive = TRUE, !.pc = IF w.img # 0 THEN "retag" ELSE "checkout"]
            => w'.pc \in {"retag", "checkout"}
      BY DEF TypeOK, WorkerTyped
    <3> QED
      BY <2>3, <3>1, <3>2 DEF Connect, PastBuild, ImagePcs
  <2>4. CASE ThrowOutsideTry \/ Announce \/ AppError \/ ThrowInCatch \/ Crash
    BY <2>4 DEF ThrowOutsideTry, Announce, AppError, ThrowInCatch, Crash, CloseJob,
       IdleWorker, PastBuild, ImagePcs
  <2>5. CASE \/ MarkRunning \/ MarkDeploying \/ Prepare \/ ConnectionGone
             \/ ThrowInsideTry \/ FinishFailed
    <3>1. w'.pc \in {"markDeploying", "prepare", "connect", "finishFailed", "appError"}
      BY <2>5, GotoSets DEF MarkRunning, MarkDeploying, Prepare, ConnectionGone,
         ThrowInsideTry, FinishFailed, Raise, TypeOK
    <3> QED
      BY <3>1 DEF PastBuild, ImagePcs
  <2> QED
    BY <1>4, <2>1, <2>2, <2>3, <2>4, <2>5
    DEF Next, WorkerStep, Fault, Request, RequestDeploy, RequestRollbackToCommit,
        RequestRollbackToImage, InsertRow, EnqueueJob, LoseJob, RequeueStalled,
        DeleteTearDown, DeleteRows, vars
<1> QED
  BY <1>1, <1>2, <1>3, <1>4

LEMMA StepCommitted ==
  TypeOK /\ JobsInv /\ LocalsInv /\ RowsInv /\ CommittedInv /\ [Next]_vars => CommittedInv'
<1> SUFFICES ASSUME TypeOK, JobsInv, LocalsInv, RowsInv, CommittedInv, [Next]_vars
             PROVE  CommittedInv'
  OBVIOUS
<1>1. ASSUME NEW d \in Deployments, status'[d] = "success"
      PROVE  commit'[d] # None
  <2>1. CASE status[d] = "success"
    <3>1. Exists(d) /\ Exists(d)' /\ commit[d] # None
      BY <1>1, <2>1 DEF Exists, CommittedInv, SuccessNamesCommit
    <3> QED
      BY <3>1, CommitStays
  <2>2. CASE FinishOk /\ d = w.dep /\ Exists(d)
    BY <2>2 DEF FinishOk, At, CommittedInv, PastBuild
  <2>3. status[d] = "success" \/ (FinishOk /\ d = w.dep /\ Exists(d))
    <3>1. ASSUME NEW k, NEW c, NEW g, InsertRow(k, c, g)
          PROVE  status[d] = "success"
      BY <1>1, <3>1 DEF InsertRow, TypeOK, RowsTyped
    <3>2. ASSUME NEW s \in {"running", "failed"}, SetStatus(w.dep, s)
          PROVE  status[d] = "success"
      BY <1>1, <3>2 DEF SetStatus, TypeOK, RowsTyped
    <3>3. FinishOk => status[d] = "success" \/ (d = w.dep /\ Exists(d))
      BY <1>1 DEF FinishOk, SetStatus, TypeOK, RowsTyped
    <3>4. ~ DeleteRows
      BY <1>1 DEF DeleteRows
    <3> QED
      BY <1>1, <3>1, <3>2, <3>3, <3>4, StatusSteps
      DEF Request, RequestDeploy, RequestRollbackToCommit, RequestRollbackToImage,
          MarkRunning, FinishFailed
  <2> QED
    BY <2>1, <2>2, <2>3
<1>2. ASSUME w'.pc \in PastBuild, status'[w'.dep] # "none"
      PROVE  commit'[w'.dep] # None
  <2>1. w'.dep = w.dep /\ w.pc # "idle" /\ w.pc # "load"
    BY <1>2, PastBuildSteps DEF PastBuild, ImagePcs
  <2>2. w.dep \in Deployments /\ w.dep <= created
    BY <2>1, BusyHasJob DEF TypeOK, JobsInv
  <2>3. status'[w.dep] # "none" /\ Exists(w.dep)
    <3>1. status'[w.dep] # "none"
      BY <1>2, <2>1
    <3> QED
      BY <2>2, <3>1, NoRebirth DEF Exists
  <2>4. commit[w.dep] # None
    <3>1. CASE w.pc \in PastBuild
      BY <2>3, <3>1 DEF CommittedInv
    <3>2. CASE w.pc = "build" /\ w.alive
      BY <2>3, <3>2 DEF LocalsInv, At
    <3>3. CASE w.pc = "retag"
      BY <2>1, <2>2, <2>3, <3>3 DEF LocalsInv, RowsInv, At, TypeOK, WorkerTyped
    <3> QED
      BY <1>2, <3>1, <3>2, <3>3, PastBuildSteps
  <2>5. \A d \in Deployments : commit[d] # None /\ status[d] # "none" /\ status'[d] # "none"
                                  => commit'[d] = commit[d]
    BY CommitStays DEF Exists
  <2> QED
    BY <2>1, <2>2, <2>3, <2>4, <2>5 DEF Exists
<1> QED
  <2>1. SuccessNamesCommit'
    BY <1>1 DEF SuccessNamesCommit
  <2>2. w'.pc \in PastBuild /\ status'[w'.dep] # "none" => commit'[w'.dep] # None
    BY <1>2
  <2> QED
    BY <2>1, <2>2 DEF CommittedInv, Exists

\* Everything that is invariant, in one step.
LEMMA DeployInvariant == Spec => [](TypeOK /\ JobsInv /\ ProvInv /\ GateInv)
<1>1. TypeOK /\ JobsInv /\ ProvInv /\ GateInv /\ [Next]_vars
        => (TypeOK /\ JobsInv /\ ProvInv /\ GateInv)'
  BY StepTyped, StepJobs, StepLocals, StepRows, StepCommitted, StepContainer, StepGate
  DEF ProvInv
<1> QED
  BY InitTyped, InitJobs, InitProv, <1>1, PTL DEF Spec

\* The commit_sha of a deployment whose container is there is the commit in that
\* container, through rollbacks, redeliveries and lost connections.
THEOREM CommitAlwaysRuns == Spec => []CommitIsWhatRuns
<1>1. ProvInv => CommitIsWhatRuns
  BY DEF ProvInv, ContainerInv, CommitIsWhatRuns
<1> QED
  BY DeployInvariant, <1>1, PTL

\* Every deployment that counts as a success names the commit it can be gone back to.
THEOREM SuccessAlwaysCommitted == Spec => []SuccessNamesCommit
<1>1. ProvInv => SuccessNamesCommit
  BY DEF ProvInv, CommittedInv
<1> QED
  BY DeployInvariant, <1>1, PTL

\* The worker does not touch the serving container before the new version's image is
\* built and its pre-deploy command has completed.
THEOREM SwitchAlwaysReady == Spec => SwitchOnlyWhenReady
<1>1. ASSUME TypeOK, LocalsInv, GateInv, [Next]_vars,
             container.state = "running", container'.state # "running", del' = del
      PROVE  /\ w.alive
             /\ Exists(w.dep) => latest = commit[w.dep]
             /\ HasPreDeploy /\ ~ IsRollback => w.dep \in preRan
  <2>1. StopOld
    <3>1. ~ RunNew /\ ~ Route /\ ~ DeleteTearDown
      BY <1>1 DEF RunNew, Route, DeleteTearDown, Started, TypeOK, ServerTyped
    <3>2. UNCHANGED container \/ StopOld
      BY <1>1, <3>1 DEF Next, Request, RequestDeploy, RequestRollbackToCommit,
             RequestRollbackToImage,
         InsertRow, DeleteRows, serverVars, WorkerStep, RemoteStep, Fault, vars, EnqueueJob,
         LoseJob, MarkRunning, FinishOk, FinishFailed, Checkout, TakeJob, Load,
                MarkDeploying,
         Prepare, ThrowOutsideTry, Connect, Retag, Build, TagImage, PreDeploy, HealthWait,
         PostDeploy, Trim, ConnectionGone, AppRunning, Announce, ThrowInsideTry, AppError,
         ThrowInCatch, Crash, RequeueStalled
    <3> QED
      BY <1>1, <3>2
  <2> QED
    BY <1>1, <2>1 DEF StopOld, OverConnection, At, LocalsInv, ImagePcs, GateInv
<1> QED
  BY <1>1, DeployInvariant, PTL DEF SwitchOnlyWhenReady, ProvInv, Spec

\* A recorded commit_sha is never overwritten, whatever is redelivered or rolled back.
THEOREM RecordedCommitStays == Spec => CommitNeverReplaced
<1>1. TypeOK /\ JobsInv /\ LocalsInv /\ [Next]_vars =>
        \A d \in Deployments :
          commit[d] # None /\ Exists(d) /\ Exists(d)' => commit'[d] = commit[d]
  BY CommitStays
<1> QED
  BY <1>1, DeployInvariant, PTL DEF CommitNeverReplaced, ProvInv, Spec
=============================================================================
