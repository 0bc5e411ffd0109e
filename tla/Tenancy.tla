------------------------------- MODULE Tenancy -------------------------------
(***************************************************************************)
(* The rows of the panel and the teams they belong to: what the routes let *)
(* a signed-in user, an API token and a GitHub callback read and write.    *)
(*                                                                         *)
(* The path of a request (team, environment, id) and its body are chosen   *)
(* freely: nothing stops a client from mixing the ids of two teams.  A     *)
(* behaviour is about one kind of team-owned row, its topic, and the       *)
(* applications that refer to it.                                          *)
(***************************************************************************)
EXTENDS Integers, FiniteSets

CONSTANTS
    Teams, Users,
    Members,        \* who belongs to which team: no route changes it for a team there is
    Apps,           \* identities of applications, never used twice
    Nobody,         \* no team, no row
    MaxTenantRequests

\* users, applications and the rows a token is one of are told apart
ASSUME TenancyAssumption ==
    /\ Members \subseteq Users \X Teams /\ Nobody \notin Teams \cup Users \cup Apps
    /\ Users \cap Apps = {} /\ {1, 2} \cap (Users \cup Apps \cup {Nobody}) = {}
    /\ MaxTenantRequests \in Nat

VARIABLES
    topic,     \* the kind of row this behaviour is about
    owner,     \* environment, server and topic rows: the team of each
    app,       \* the applications
    links,     \* resource_tags: <<application, tag>>
    policy,    \* teams that require two-factor authentication, users who have it, teams with MCP on
    states,    \* signed states of GitHub installs that were handed out: <<team, user>>
    build,     \* a build-server request between its check and its write
    touched,   \* history: who made the last request, and the teams whose rows it read or wrote
    requests   \* requests so far

tenantVars == <<topic, owner, app, links, policy, states, build, touched, requests>>

Kinds == {"registry", "source", "storage", "key", "tag", "drain", "channel", "variable", "token", "github", "hook"}
Ids == {1, 2}
Places == {1, 2, 3}
Owners == Teams \cup {Nobody}
NoRef == 0
NoApp == [made |-> FALSE, team |-> Nobody, env |-> NoRef, server |-> NoRef, builder |-> NoRef, ref |-> NoRef, shared |-> NoRef, hook |-> Nobody]
NoBuild == [app |-> Nobody, server |-> NoRef]
Quiet == [who |-> Nobody, teams |-> {}]

TenantTypeOK ==
    /\ topic \in Kinds
    /\ owner.environment \in [Places -> Teams] /\ owner.server \in [Places -> Teams] /\ owner.row \in [Ids -> Owners]
    /\ \A a \in Apps :
          /\ app[a].team \in Owners /\ app[a].env \in Places \cup {NoRef} /\ app[a].server \in Places \cup {NoRef}
          /\ app[a].builder \in Places \cup {NoRef} /\ app[a].ref \in Ids \cup {NoRef} /\ app[a].shared \in Places \cup {NoRef}
          /\ app[a].hook \in Apps \cup {Nobody}
    /\ links \subseteq Apps \X Ids
    /\ policy.strict \subseteq Teams /\ policy.totp \subseteq Users /\ policy.mcp \subseteq Teams
    /\ states \subseteq Teams \X Users
    /\ build.app \in Apps \cup {Nobody}
    /\ touched.teams \subseteq Owners
    /\ requests \in 0 .. MaxTenantRequests

----------------------------------------------------------------------------
(* Who may act on a team                                                   *)

\* assertMember: a member, and with two-factor authentication when the team asks for it
assertMember(t, u) == <<u, t>> \in Members /\ (t \in policy.strict => u \in policy.totp)

\* mutant: only the membership is checked
requireNoScope(t, e) == TRUE

\* requireEnvironmentScope: the environment of the path is one of the team of the path
requireEnvironmentScope(t, e) == owner.environment[e] = t

Counted == requests < MaxTenantRequests /\ requests' = requests + 1
\* a request that was let in reads or writes rows of these teams
Acts(who, teams) == Counted /\ touched' = [who |-> who, teams |-> teams]
Session(t, u, teams) == assertMember(t, u) /\ Acts(u, teams)

Live(a) == app[a].team # Nobody
NeverMade(a) == ~app[a].made
AppsOf(t) == {a \in Apps : app[a].team = t}
\* loadApplication: by environment and id, joined with its server
loadApplication(e, a) == Live(a) /\ app[a].env = e
AppTeams(a) == {app[a].team, owner.environment[app[a].env], owner.server[app[a].server]}
InScope(t, e, u, a) == requireEnvironmentScope(t, e) /\ loadApplication(e, a) /\ Session(t, u, AppTeams(a) \cup {owner.environment[e]})

RowsOf(t) == {i \in Ids : owner.row[i] = t}
KeepRows == UNCHANGED <<topic, owner, app, links, policy, states, build>>
KeepAll == UNCHANGED <<topic, policy, states, build>>

----------------------------------------------------------------------------
(* The rows a team owns: list, add, edit, remove                           *)

Lists(t, u) == Session(t, u, {owner.row[i] : i \in RowsOf(t)}) /\ KeepRows

Adds(t, u, i) ==
    /\ owner.row[i] = Nobody /\ Session(t, u, {t})
    /\ owner' = [owner EXCEPT !.row[i] = t]
    /\ KeepAll /\ UNCHANGED <<app, links>>

\* mutant: the row is looked up by its id alone
EditsById(t, u, i) == owner.row[i] # Nobody /\ Session(t, u, {owner.row[i]}) /\ KeepRows

\* an update or a test of a row, looked up by id and team
Edits(t, u, i) == owner.row[i] = t /\ Session(t, u, {owner.row[i]}) /\ KeepRows

\* a row is removed: references to it are set null, links to it go with it
Removes(t, u, i) ==
    /\ owner.row[i] = t /\ Session(t, u, {owner.row[i]})
    /\ owner' = [owner EXCEPT !.row[i] = Nobody]
    /\ app' = [a \in Apps |-> IF app[a].ref = i THEN [app[a] EXCEPT !.ref = NoRef] ELSE app[a]]
    /\ links' = {l \in links : topic = "tag" => l[2] # i}
    /\ KeepAll

Registries(t, u) == topic = "registry" /\ (Lists(t, u) \/ \E i \in Ids : Adds(t, u, i) \/ Edits(t, u, i) \/ Removes(t, u, i))
GitSources(t, u) == topic = "source" /\ (Lists(t, u) \/ \E i \in Ids : Adds(t, u, i) \/ Edits(t, u, i) \/ Removes(t, u, i))
Storages(t, u) == topic = "storage" /\ (Lists(t, u) \/ \E i \in Ids : Adds(t, u, i) \/ Edits(t, u, i) \/ Removes(t, u, i))
SshKeys(t, u) == topic = "key" /\ (Lists(t, u) \/ \E i \in Ids : Adds(t, u, i) \/ Removes(t, u, i))
LogDrains(t, u) == topic = "drain" /\ (Lists(t, u) \/ \E i \in Ids : Adds(t, u, i) \/ Edits(t, u, i) \/ Removes(t, u, i))
Channels(t, u) == topic = "channel" /\ (Lists(t, u) \/ \E i \in Ids : Adds(t, u, i) \/ Edits(t, u, i) \/ Removes(t, u, i))
Tags(t, u) == topic = "tag" /\ (Lists(t, u) \/ \E i \in Ids : Adds(t, u, i))
ChangeTag(t, u, i) == topic = "tag" /\ (Edits(t, u, i) \/ Removes(t, u, i))
ApiTokens(t, u) == topic = "token" /\ (Lists(t, u) \/ \E i \in Ids : Adds(t, u, i) \/ Removes(t, u, i))

\* a variable of an environment: the environment is looked up in the team
AddVariable(t, u, i, e) == owner.environment[e] = t /\ Adds(t, u, i)
SharedVariables(t, u) ==
    /\ topic = "variable"
    /\ Lists(t, u) \/ \E i \in Ids : (\E e \in Places : AddVariable(t, u, i, e)) \/ Edits(t, u, i) \/ Removes(t, u, i)

\* PUT tags/assign: the tags of one application are replaced, out of the team's own
resourceBelongsToTeam(a, t) == Live(a) /\ app[a].team = t
AssignTags(t, u, a, wanted) ==
    /\ topic = "tag" /\ resourceBelongsToTeam(a, t) /\ wanted \subseteq RowsOf(t)
    /\ Session(t, u, {app[a].team} \cup {owner.row[i] : i \in wanted})
    /\ links' = {l \in links : l[1] # a \/ l[2] \notin RowsOf(t)} \cup {<<a, i>> : i \in wanted}
    /\ KeepAll /\ UNCHANGED <<owner, app>>

----------------------------------------------------------------------------
(* The GitHub App: the state that travels through GitHub                   *)

InstallUrl(t, u) ==
    /\ topic = "github" /\ Session(t, u, {t})
    /\ states' = states \cup {<<t, u>>}
    /\ UNCHANGED <<topic, owner, app, links, policy, build>>

\* a team has one installation row: it is inserted, or the one it has is updated
Installs(t, i) == IF RowsOf(t) = {} THEN owner.row[i] = Nobody /\ owner' = [owner EXCEPT !.row[i] = t] ELSE UNCHANGED owner

\* mutant: the callback trusts the team of the state
GithubCallbackAnyUser(s, u, i) ==
    /\ topic = "github" /\ s \in states
    /\ Acts(u, {s[1]}) /\ Installs(s[1], i)
    /\ KeepAll /\ UNCHANGED <<app, links>>

\* the callback: the signed-in user is the one of the state, and still a member
GithubCallback(s, u, i) ==
    /\ topic = "github" /\ s \in states /\ s[2] = u
    /\ Session(s[1], u, {s[1]}) /\ Installs(s[1], i)
    /\ KeepAll /\ UNCHANGED <<app, links>>

StateExpires(s) ==
    /\ s \in states /\ states' = states \ {s} /\ touched' = Quiet
    /\ UNCHANGED <<topic, owner, app, links, policy, build, requests>>

\* the installation, its repositories, the applications that use it, and its removal; applications keep its number
GithubTeam(t, u) ==
    /\ topic = "github"
    /\ \/ Lists(t, u)
       \/ Session(t, u, {app[a].team : a \in AppsOf(t)}) /\ KeepRows
       \/ /\ Session(t, u, {t}) /\ owner' = [owner EXCEPT !.row = [i \in Ids |-> IF owner.row[i] = t THEN Nobody ELSE owner.row[i]]]
          /\ KeepAll /\ UNCHANGED <<app, links>>

----------------------------------------------------------------------------
(* Teams, projects and environments                                        *)

TeamReads(t, u) == Session(t, u, {app[a].team : a \in AppsOf(t)} \cup {t}) /\ KeepRows

\* the search of the panel: applications, databases, services and servers of the team
Search(t, u) == Session(t, u, {app[a].team : a \in AppsOf(t)} \cup {owner.server[s] : s \in {p \in Places : owner.server[p] = t}}) /\ KeepRows

Projects(t, u, e) == owner.environment[e] = t /\ Session(t, u, {owner.environment[e]}) /\ KeepRows
\* the environments of a project, with what is in them counted; a project is looked up like an environment
ProjectEnvironments(t, u, e) == owner.environment[e] = t /\ Session(t, u, {owner.environment[e]} \cup {app[a].team : a \in {b \in Apps : loadApplication(e, b)}}) /\ KeepRows

SetSecurity(t, u, on) ==
    /\ <<u, t>> \in Members /\ (on => u \in policy.totp)
    /\ Acts(Nobody, {})
    /\ policy' = [policy EXCEPT !.strict = IF on THEN @ \cup {t} ELSE @ \ {t}]
    /\ UNCHANGED <<topic, owner, app, links, states, build>>

\* the user turns two-factor authentication on or off
TwoFactor(u) ==
    /\ Acts(Nobody, {})
    /\ policy' = [policy EXCEPT !.totp = IF u \in @ THEN @ \ {u} ELSE @ \cup {u}]
    /\ UNCHANGED <<topic, owner, app, links, states, build>>

SetMcp(t, u) ==
    /\ topic = "token" /\ Session(t, u, {t})
    /\ policy' = [policy EXCEPT !.mcp = IF t \in @ THEN @ \ {t} ELSE @ \cup {t}]
    /\ UNCHANGED <<topic, owner, app, links, states, build>>

----------------------------------------------------------------------------
(* Applications                                                            *)

ListApplications(t, e, u) ==
    /\ requireEnvironmentScope(t, e)
    /\ Session(t, u, (UNION {AppTeams(a) : a \in {b \in Apps : Live(b) /\ app[b].env = e}}) \cup {owner.environment[e]})
    /\ KeepRows
\* databases and services are listed alike
ListDatabases(t, e, u) == ListApplications(t, e, u)
ListServices(t, e, u) == ListApplications(t, e, u)

\* what the body may name: a Git source, an SSH key, the team's GitHub installation
TeamRef(t, i) == i # NoRef => topic \in {"source", "key", "github"} /\ owner.row[i] = t
KeptRef(i) == IF topic = "key" THEN NoRef ELSE i

CreateApplication(t, e, u, a, s, i) ==
    /\ requireEnvironmentScope(t, e) /\ NeverMade(a)
    /\ owner.server[s] = t /\ TeamRef(t, i)
    /\ Session(t, u, {owner.environment[e], owner.server[s], IF i = NoRef THEN t ELSE owner.row[i]})
    /\ app' = [app EXCEPT ![a] = [NoApp EXCEPT !.made = TRUE, !.team = t, !.env = e, !.server = s, !.ref = KeptRef(i)]]
    /\ KeepAll /\ UNCHANGED <<owner, links>>

\* PUT source: another repository of the installation
SetSource(t, e, u, a, i) ==
    /\ topic = "github" /\ owner.row[i] = t /\ InScope(t, e, u, a)
    /\ app' = [app EXCEPT ![a].ref = i]
    /\ KeepAll /\ UNCHANGED <<owner, links>>

SetRegistry(t, e, u, a, i) ==
    /\ topic = "registry" /\ InScope(t, e, u, a) /\ (i # NoRef => owner.row[i] = t)
    /\ app' = [app EXCEPT ![a].ref = i, ![a].builder = IF i = NoRef THEN NoRef ELSE @]
    /\ KeepAll /\ UNCHANGED <<owner, links>>

\* PUT build-server: it needs a registry, checked on the row that was read
BeginBuildServer(t, e, u, a, s) ==
    /\ topic = "registry" /\ build = NoBuild /\ InScope(t, e, u, a)
    /\ app[a].ref # NoRef /\ owner.server[s] = t
    /\ build' = [app |-> a, server |-> s]
    /\ UNCHANGED <<topic, owner, app, links, policy, states>>

CommitBuildServer ==
    /\ build # NoBuild
    /\ app' = IF Live(build.app) THEN [app EXCEPT ![build.app].builder = build.server] ELSE app
    /\ build' = NoBuild /\ touched' = Quiet
    /\ UNCHANGED <<topic, owner, links, policy, states, requests>>

\* PUT move, and move-resource of the CI routes
environmentInTeam(e, t) == owner.environment[e] = t

MoveApplication(t, e, u, a, to) ==
    /\ InScope(t, e, u, a) /\ to # app[a].env /\ environmentInTeam(to, t)
    /\ app' = [app EXCEPT ![a].env = to]
    /\ KeepAll /\ UNCHANGED <<owner, links>>

\* a database's file mounted into an application on the same server (connect-application)
ConnectFile(t, e, u, a) ==
    /\ topic = "variable" /\ InScope(t, e, u, a)
    /\ app' = [app EXCEPT ![a].shared = app[a].server]
    /\ KeepAll /\ UNCHANGED <<owner, links>>

\* clone: every setting but the hostnames and the deploy token, with its volumes, into any environment and server of the team
Clone(t, e, u, a, copy, to, s) ==
    /\ InScope(t, e, u, a) /\ NeverMade(copy)
    /\ environmentInTeam(to, t) /\ owner.server[s] = t
    /\ app' = [app EXCEPT ![copy] = [app[a] EXCEPT !.env = to, !.server = s, !.hook = Nobody]]
    /\ KeepAll /\ UNCHANGED <<owner, links>>

DeleteApplication(t, e, u, a) ==
    /\ InScope(t, e, u, a)
    /\ app' = [app EXCEPT ![a] = [NoApp EXCEPT !.made = TRUE]]
    /\ KeepAll /\ UNCHANGED <<owner, links>>

----------------------------------------------------------------------------
(* Deploy tokens: the address of a hook that needs no session              *)

SetDeployToken(t, e, u, a) ==
    /\ topic = "hook" /\ InScope(t, e, u, a)
    /\ app' = [app EXCEPT ![a].hook = a]
    /\ KeepAll /\ UNCHANGED <<owner, links>>

RemoveDeployToken(t, e, u, a) ==
    /\ topic = "hook" /\ InScope(t, e, u, a)
    /\ app' = [app EXCEPT ![a].hook = Nobody]
    /\ KeepAll /\ UNCHANGED <<owner, links>>

\* the application whose token it is, whoever calls
HookDeploys(a, b) == Live(b) /\ app[b].hook = a /\ Acts(a, {app[b].team}) /\ KeepRows

----------------------------------------------------------------------------
(* Routes under one application, database or service that change none of   *)
(* these rows: all three are looked up alike, by environment and id        *)

Visits(t, e, u, a) == InScope(t, e, u, a) /\ KeepRows

\* mutant: what stands under a resource is looked up by its id alone
BelongsToAny(b, a) == TRUE

\* a task, volume, deployment or backup of resource b, asked for under resource a: looked up by its id and its owner
BelongsTo(b, a) == b = a
VisitsPart(t, e, u, a, b) ==
    /\ requireEnvironmentScope(t, e) /\ loadApplication(e, a) /\ Live(b) /\ BelongsTo(b, a)
    /\ Session(t, u, AppTeams(a) \cup AppTeams(b)) /\ KeepRows

GetApplication(t, e, u, a) == Visits(t, e, u, a)
SetDeployCommands(t, e, u, a) == Visits(t, e, u, a)
ContainerLogs(t, e, u, a) == Visits(t, e, u, a)
ListTasks(t, e, u, a) == Visits(t, e, u, a)
TaskExecutions(t, e, u, a, b) == VisitsPart(t, e, u, a, b)
ListVolumes(t, e, u, a) == Visits(t, e, u, a)
ContainerStats(t, e, u, a) == Visits(t, e, u, a)
MetricHistories(t, e, u, a) == Visits(t, e, u, a)
ListDeployments(t, e, u, a) == Visits(t, e, u, a)
GetDeployment(t, e, u, a, b) == VisitsPart(t, e, u, a, b)
ListRollbackImages(t, e, u, a) == Visits(t, e, u, a)
GetDatabase(t, e, u, a) == Visits(t, e, u, a)
DatabaseConnection(t, e, u, a) == Visits(t, e, u, a)
BackupSchedules(t, e, u, a, b) == VisitsPart(t, e, u, a, b)
DownloadBackup(t, e, u, a, b) == VisitsPart(t, e, u, a, b)
UploadRestore(t, e, u, a) == Visits(t, e, u, a)
GetService(t, e, u, a) == Visits(t, e, u, a)
SetServiceLimits(t, e, u, a) == Visits(t, e, u, a)
StackContainers(t, e, u, a) == Visits(t, e, u, a)
StackLogs(t, e, u, a) == Visits(t, e, u, a)
StackVolumes(t, e, u, a, b) == VisitsPart(t, e, u, a, b)
BrowseFiles(t, e, u, a) == Visits(t, e, u, a)

ApplicationVisits(t, e, u, a) ==
    \/ GetApplication(t, e, u, a) \/ SetDeployCommands(t, e, u, a) \/ ContainerLogs(t, e, u, a) \/ ListTasks(t, e, u, a)
    \/ ListVolumes(t, e, u, a) \/ ContainerStats(t, e, u, a) \/ MetricHistories(t, e, u, a) \/ ListDeployments(t, e, u, a)
    \/ ListRollbackImages(t, e, u, a) \/ BrowseFiles(t, e, u, a)
DatabaseVisits(t, e, u, a) == GetDatabase(t, e, u, a) \/ DatabaseConnection(t, e, u, a) \/ UploadRestore(t, e, u, a)
ServiceVisits(t, e, u, a) ==
    GetService(t, e, u, a) \/ SetServiceLimits(t, e, u, a) \/ StackContainers(t, e, u, a) \/ StackLogs(t, e, u, a)
PartVisits(t, e, u, a, b) ==
    \/ TaskExecutions(t, e, u, a, b) \/ GetDeployment(t, e, u, a, b) \/ BackupSchedules(t, e, u, a, b)
    \/ DownloadBackup(t, e, u, a, b) \/ StackVolumes(t, e, u, a, b)

----------------------------------------------------------------------------
(* Servers: looked up by id and team                                       *)

VisitsServer(t, u, s) == owner.server[s] = t /\ Session(t, u, {owner.server[s]}) /\ KeepRows

ListServers(t, u) == Session(t, u, {owner.server[s] : s \in {p \in Places : owner.server[p] = t}}) /\ KeepRows
\* a machine at a provider, with one of the team's keys; the row it adds is of the team of the path
CreateVps(t, u, i) == topic = "key" /\ owner.row[i] = t /\ Session(t, u, {t, owner.row[i]}) /\ KeepRows
SetServerFlags(t, u, s) == VisitsServer(t, u, s)
ServerMaintenance(t, u, s) == VisitsServer(t, u, s)
ProxyLogs(t, u, s) == VisitsServer(t, u, s)
ImageUpdates(t, u) == Session(t, u, {app[a].team : a \in AppsOf(t)}) /\ KeepRows

----------------------------------------------------------------------------
(* API tokens: the CI routes and MCP                                       *)

\* resolveApiToken, and the team of the path is the token's
Bearer(t, i, teams) == topic = "token" /\ owner.row[i] = t /\ Acts(i, teams)

CiReads(t, i) == Bearer(t, i, {app[a].team : a \in AppsOf(t)}) /\ KeepRows

CiTriggers(t, i, a) == Live(a) /\ app[a].team = t /\ Bearer(t, i, {app[a].team}) /\ KeepRows

moveResource(t, i, a, to) ==
    /\ Live(a) /\ app[a].team = t /\ environmentInTeam(to, t)
    /\ Bearer(t, i, {app[a].team, owner.environment[to]})
    /\ app' = [app EXCEPT ![a].env = to]
    /\ KeepAll /\ UNCHANGED <<owner, links>>

Mcp(t, i) == t \in policy.mcp /\ (CiReads(t, i) \/ \E a \in Apps : CiTriggers(t, i, a))

----------------------------------------------------------------------------

TenantInit ==
    /\ topic \in Kinds
    /\ \E ta, tb \in Teams :
          /\ ta # tb /\ (\A u \in Users : <<u, tb>> \in Members)
          /\ owner = [environment |-> <<ta, tb, tb>>, server |-> <<ta, tb, tb>>, row |-> [i \in Ids |-> Nobody]]
    /\ app = [a \in Apps |-> NoApp] /\ links = {}
    /\ policy = [strict |-> {}, totp |-> {}, mcp |-> {}] /\ states = {} /\ build = NoBuild
    /\ touched = Quiet /\ requests = 0

TeamRows == \E t \in Teams, u \in Users :
    \/ Registries(t, u) \/ GitSources(t, u) \/ Storages(t, u) \/ SshKeys(t, u) \/ LogDrains(t, u)
    \/ Channels(t, u) \/ Tags(t, u) \/ ApiTokens(t, u) \/ SharedVariables(t, u)
    \/ \E a \in Apps, wanted \in SUBSET Ids : AssignTags(t, u, a, wanted)
    \/ InstallUrl(t, u) \/ GithubTeam(t, u)
    \/ TeamReads(t, u) \/ Search(t, u) \/ SetMcp(t, u) \/ ListServers(t, u) \/ ImageUpdates(t, u)
    \/ \E i \in Ids : CreateVps(t, u, i)
    \/ \E s \in Places : SetServerFlags(t, u, s) \/ ServerMaintenance(t, u, s) \/ ProxyLogs(t, u, s)
    \/ \E i \in Ids : ChangeTag(t, u, i)
    \/ \E e \in Places : Projects(t, u, e) \/ ProjectEnvironments(t, u, e)
    \/ \E on \in BOOLEAN : SetSecurity(t, u, on)

\* onBeforeHandle: the scope is checked before any of these handlers
ApplicationRows == \E t \in Teams, u \in Users, e \in Places : requireEnvironmentScope(t, e) /\
    \/ ListApplications(t, e, u) \/ ListDatabases(t, e, u) \/ ListServices(t, e, u)
    \/ \E a \in Apps, s \in Places, i \in Ids \cup {NoRef} : CreateApplication(t, e, u, a, s, i)
    \/ \E a \in {b \in Apps : loadApplication(e, b)} :
          \/ \E i \in Ids : SetSource(t, e, u, a, i)
          \/ \E i \in Ids \cup {NoRef} : SetRegistry(t, e, u, a, i)
          \/ \E s \in Places : BeginBuildServer(t, e, u, a, s)
          \/ \E to \in Places : MoveApplication(t, e, u, a, to)
          \/ ConnectFile(t, e, u, a) \/ DeleteApplication(t, e, u, a)
          \/ \E copy \in Apps, to, s \in Places : Clone(t, e, u, a, copy, to, s)
          \/ SetDeployToken(t, e, u, a) \/ RemoveDeployToken(t, e, u, a)
          \/ ApplicationVisits(t, e, u, a) \/ DatabaseVisits(t, e, u, a) \/ ServiceVisits(t, e, u, a)
          \/ \E b \in Apps : PartVisits(t, e, u, a, b)

TokenRows == \E t \in Teams, i \in Ids :
    \/ CiReads(t, i) \/ Mcp(t, i)
    \/ \E a \in Apps : CiTriggers(t, i, a) \/ \E to \in Places : moveResource(t, i, a, to)

TenantNext ==
    \/ TeamRows \/ ApplicationRows \/ TokenRows \/ CommitBuildServer
    \/ \E a, b \in Apps : HookDeploys(a, b)
    \/ \E u \in Users : TwoFactor(u)
    \/ \E s \in states, u \in Users, i \in Ids : GithubCallback(s, u, i)
    \/ \E s \in states : StateExpires(s)

TenantSpec == TenantInit /\ [][TenantNext]_tenantVars

----------------------------------------------------------------------------
(* Properties                                                              *)

\* whoever made the last request: a member let in, a token of that very team, or the hook of one of its applications
Permitted(who, t) ==
    IF who \in Users THEN assertMember(t, who) ELSE IF who \in Apps THEN app[who].team = t ELSE owner.row[who] = t

\* No request, whatever ids its path and body mix, reads or writes a row of a
\* team its user or token may not act on, and what an application refers to
\* (environment, server, build server, registry, source, installation, tags)
\* stays in its own team through creates, copies, moves, assignments and
\* removals, and no copy answers to the deploy token of its original (lib/access.ts, lib/scope.ts, lib/ciActions.ts,
\* lib/appCopy.ts and every team route).
TeamsStayApart ==
    /\ touched.who # Nobody => \A t \in touched.teams : Permitted(touched.who, t)
    /\ \A a \in {b \in Apps : Live(b)} :
          /\ owner.environment[app[a].env] = app[a].team /\ owner.server[app[a].server] = app[a].team
          /\ app[a].builder # NoRef => owner.server[app[a].builder] = app[a].team
          /\ app[a].shared # NoRef => owner.server[app[a].shared] = app[a].team
          /\ app[a].ref # NoRef /\ topic \in {"registry", "source"} => owner.row[app[a].ref] = app[a].team
          /\ app[a].hook \in {a, Nobody}
          /\ \A l \in links : l[1] = a => owner.row[l[2]] = app[a].team

==============================================================================
