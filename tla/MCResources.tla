----------------------------- MODULE MCResources -----------------------------
(***************************************************************************)
(* What the panel keeps on servers: applications, databases with their     *)
(* backups, services and the servers themselves, for model checking.  The  *)
(* components share no state, so an interleaving of two of them shows      *)
(* nothing that each does not show alone: a behaviour is about the one in  *)
(* focus and leaves the others in their initial states.                    *)
(***************************************************************************)
EXTENDS DatabaseBackups, AppControl, ServerSetup, DatabaseSetup, ServiceSetup

VARIABLE focus

\* the others of the focus stay as they are
NotBackups == UNCHANGED vars
NotApps == UNCHANGED appVars
NotServers == UNCHANGED serverVars
NotDatabases == UNCHANGED dbVars
NotServices == UNCHANGED svcVars

\* a component with several initial states takes all of them only when it is in focus
ResourcesInit ==
    /\ focus \in {"backups", "apps", "servers", "databases", "services"}
    /\ Init /\ (focus # "backups" => dest = "server")
    /\ AppInit /\ (focus # "apps" => app.server = CHOOSE s \in Servers : TRUE)
    /\ ServerInit /\ DbInit /\ SvcInit

ResourcesNext ==
    /\ UNCHANGED focus
    /\ \/ focus = "backups" /\ Next /\ NotApps /\ NotServers /\ NotDatabases /\ NotServices
       \/ focus = "apps" /\ AppNext /\ NotBackups /\ NotServers /\ NotDatabases /\ NotServices
       \/ focus = "servers" /\ ServerNext /\ NotBackups /\ NotApps /\ NotDatabases /\ NotServices
       \/ focus = "databases" /\ DbNext /\ NotBackups /\ NotApps /\ NotServers /\ NotServices
       \/ focus = "services" /\ SvcNext /\ NotBackups /\ NotApps /\ NotServers /\ NotDatabases

ResourcesSpec == ResourcesInit /\ [][ResourcesNext]_<<vars, appVars, serverVars, dbVars, svcVars, focus>>

\* Bound of the run: the backups see two faults, a fault and a request, or two requests; an application sees three
\* requests, or two and a fault.
FewDisturbances == used["fault"] + used["request"] <= 2 /\ appUsed["fault"] + appUsed["request"] <= 3

\* The variables of applications, servers, databases and services have their types.
ResourcesTypeOK == AppTypeOK /\ ServerTypeOK /\ DbTypeOK /\ SvcTypeOK

\* A row that says work is under way is one a waiting or running job will take out of it: a server or its tunnel that is
\* being set up, a database or a service that is being provisioned (provisionProxy.ts, provisionDatabase.ts,
\* provisionService.ts and the routes that queue them).
WorkIsOwned == ProvisioningIsOwned /\ DatabaseWorkIsOwned /\ ServiceWorkIsOwned

\* What a row says of a machine is what stands on it, once its jobs are through: the proxy, tunnel and cleanups of a
\* server, the port and limits of a database, the status and the maintenance page of a service; and a database or a
\* service that was deleted leaves no container, mount or router behind (servers.ts, databases.ts, services.ts with
\* their jobs).
RowsMatchMachines ==
    /\ MachineFollowsRows
    /\ DatabaseRunsAsRecorded /\ DeletedDatabaseIsGone
    /\ ServiceStatusIsReal /\ MaintenanceFollowsRow /\ DeletedServiceIsGone

\* An application is served as it is configured, once its jobs are through: the proxy and the waker know its domains,
\* maintenance page and scale to zero, and a row without pending changes is what its container runs (appRouting.ts,
\* applications.ts, pendingChanges.ts).
AppServedAsConfigured == RoutingSettles /\ WakerKnowsItsApps /\ NothingPendingMeansCurrent

=============================================================================
