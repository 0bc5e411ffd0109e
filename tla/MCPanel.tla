------------------------------- MODULE MCPanel -------------------------------
(***************************************************************************)
(* The panel around the resources, for model checking: who may sign in and *)
(* reach what, and what is relayed to browsers, watched, delivered,        *)
(* scheduled, backed up and updated.                                       *)
(* The components share no state, so an interleaving of two of them shows  *)
(* nothing that each does not show alone: a behaviour is about the one in  *)
(* focus and leaves the others in their initial states.                    *)
(***************************************************************************)
EXTENDS Tenancy, SignIn, Connections, ContainerWatch, Delivery, VolumeBackups, PlatformUpdates, TaskSchedules,
        PanelBackup, FileBrowser, SecretsAtRest

CONSTANTS ta, tb, u1, u2   \* two teams and two users

VARIABLE focus

TwoTeams == {ta, tb}
TwoUsers == {u1, u2}
SomeMembers == {<<u1, ta>>, <<u1, tb>>, <<u2, tb>>}
TeamsOf == [x \in {"s1", "s2", "r1", "r2"} |-> IF x \in {"s1", "r1"} THEN "ta" ELSE "tb"]

\* every component but the one in focus stays as it is
Others ==
    /\ UNCHANGED focus
    /\ focus # "tenancy" => UNCHANGED tenantVars
    /\ focus # "signin" => UNCHANGED authVars
    /\ focus \notin {"relay", "terminals"} => UNCHANGED connVars
    /\ focus # "watch" => UNCHANGED watchVars
    /\ focus # "delivery" => UNCHANGED deliveryVars
    /\ focus # "volumes" => UNCHANGED volumeVars
    /\ focus # "updates" => UNCHANGED updateVars
    /\ focus # "tasks" => UNCHANGED taskVars
    /\ focus # "panelbackup" => UNCHANGED panelVars
    /\ focus # "files" => UNCHANGED fileVars
    /\ focus # "secrets" => UNCHANGED secretVars

TenancySteps == focus = "tenancy" /\ TenantNext /\ Others
SignInSteps == focus = "signin" /\ AuthNext /\ Others
RelaySteps == focus = "relay" /\ (RelayNext \/ \E s \in Logins : SessionEnds(s)) /\ Others
TerminalSteps == focus = "terminals" /\ (TerminalNext \/ \E s \in Logins : SessionEnds(s)) /\ Others
WatchSteps == focus = "watch" /\ WatchNext /\ Others
DeliverySteps == focus = "delivery" /\ DeliveryNext /\ Others
VolumeSteps == focus = "volumes" /\ VolumeNext /\ Others
UpdateSteps == focus = "updates" /\ UpdateNext /\ Others
TaskSteps == focus = "tasks" /\ TaskNext /\ Others
PanelBackupSteps == focus = "panelbackup" /\ PanelNext /\ Others
FileSteps == focus = "files" /\ FileNext /\ Others
SecretSteps == focus = "secrets" /\ SecretNext /\ Others

\* a component with several initial states takes all of them only when it is in focus
AllInit ==
    /\ focus \in {"tenancy", "signin", "relay", "terminals", "watch", "delivery", "volumes", "updates", "tasks",
                   "panelbackup", "files", "secrets"}
    /\ TenantInit /\ (focus # "tenancy" => topic = "registry" /\ owner.environment[1] = ta)
    /\ AuthInit /\ (focus # "signin" => \A u \in Accounts : ~account[u].exists)
    /\ SecretInit /\ (focus # "secrets" => \A s \in Secrets : ~isEncrypted(stored[s]))
    /\ ConnInit /\ WatchInit /\ DeliveryInit /\ VolumeInit /\ UpdateInit /\ TaskInit /\ PanelInit /\ FileInit

AllSteps ==
    \/ TenancySteps
    \/ SignInSteps
    \/ RelaySteps
    \/ TerminalSteps
    \/ WatchSteps
    \/ DeliverySteps
    \/ VolumeSteps
    \/ UpdateSteps
    \/ TaskSteps
    \/ PanelBackupSteps
    \/ FileSteps
    \/ SecretSteps

AllVars == <<focus, tenantVars, authVars, connVars, watchVars, deliveryVars, volumeVars, updateVars, taskVars, panelVars,
             fileVars, secretVars>>

AllSpec == AllInit /\ [][AllSteps]_AllVars

\* The variables of the component in focus have their types.
PanelTypesOK ==
    CASE focus = "tenancy" -> TenantTypeOK [] focus = "signin" -> AuthTypeOK [] focus \in {"relay", "terminals"} -> ConnTypeOK
      [] focus = "watch" -> WatchTypeOK [] focus = "delivery" -> DeliveryTypeOK [] focus = "volumes" -> VolumeTypeOK
      [] focus = "updates" -> UpdateTypeOK [] focus = "tasks" -> TaskTypeOK [] focus = "panelbackup" -> PanelTypeOK
      [] focus = "files" -> FileTypeOK [] focus = "secrets" -> SecretTypeOK

\* Who is let in is who may be: a spent second factor, challenge or reset signs nobody in, a password reset ends the
\* sessions, and a browser gets events and terminals only while its session lasts, of its team, and within the limit
\* (auth.ts, passkeys.ts, the ws service and terminal.ts).
AccessHolds == AccessSound /\ ConnectionsSound

\* What is reported is what happened: a container's settled state is told once, previews follow their pull requests, a
\* push deploys once, and one channel that fails keeps nothing from the others (containerWatch.ts, previews.ts, notify.ts).
ReportsHold == WatchSound /\ DeliverySound

\* Archives of volumes and backups of the panel are there when they are listed, kept as retention says, and a restore
\* loses nothing it was not told to (volumeBackup.ts, restoreVolume.ts, instanceBackup.ts).
BackupsHold == VolumesSound /\ PanelBackupSound

\* An operation on the platform ends as it really ended and is never left without a job, and tasks run as their rows say
\* (platformOperation.ts, applications.ts tasks, runScheduledTask.ts).
JobsHold == UpdatesSound /\ TasksSound

\* What a user saved is what is stored: files in a container are written whole or left, staged content does not stay
\* behind, and every secret can be read back with the keys at hand (fileWrite.ts, encryption.ts, encryptExisting.ts).
StoredDataHolds == FilesSound /\ SecretsSound

=============================================================================
