---------------------------- MODULE Panel_proofs ----------------------------
(***************************************************************************)
(* Theorems about the panel around the resources, for any number of teams, *)
(* operations, requests, sockets, files and secrets: who may reach what,   *)
(* what the panel reports of its jobs, who it lets in, and what it stores. *)
(* One section per component, with the invariants of that component alone; *)
(* the components share no state.                                          *)
(***************************************************************************)
EXTENDS MCPanel, FiniteSetTheorems, SequenceTheorems, WellFoundedInduction, TLAPS

----------------------------------------------------------------------------
(* Teams                                                                    *)

AppRow == [made : BOOLEAN, team : Owners, env : Places \cup {NoRef}, server : Places \cup {NoRef},
           builder : Places \cup {NoRef}, ref : Ids \cup {NoRef}, shared : Places \cup {NoRef},
           hook : Apps \cup {Nobody}]

\* The rows are whole records.
OwnerTyped == owner \in [environment : [Places -> Teams], server : [Places -> Teams], row : [Ids -> Owners]]
AppTyped == app \in [Apps -> AppRow]
RestTyped ==
    /\ topic \in Kinds
    /\ links \subseteq Apps \X Ids
    /\ policy \in [strict : SUBSET Teams, totp : SUBSET Users, mcp : SUBSET Teams]
    /\ states \subseteq Teams \X Users
    /\ build \in [app : Apps \cup {Nobody}, server : Places \cup {NoRef}]
RowsTyped == OwnerTyped /\ AppTyped /\ RestTyped

\* What a row of an application refers to is of its team.
InTeam(r) ==
    /\ r.env \in Places /\ r.server \in Places /\ r.made
    /\ owner.environment[r.env] = r.team /\ owner.server[r.server] = r.team
    /\ r.builder # NoRef => owner.server[r.builder] = r.team
    /\ r.shared # NoRef => owner.server[r.shared] = r.team
    /\ r.ref # NoRef /\ topic \in {"registry", "source"} => owner.row[r.ref] = r.team
RefsInv == \A a \in Apps : app[a].team # Nobody => InTeam(app[a]) /\ app[a].hook \in {a, Nobody}

\* Only tags are linked, a link is of an application there was, and while there is one its tags are of its team.
LinksInv ==
    \A l \in links : /\ topic = "tag" /\ app[l[1]].made
                     /\ app[l[1]].team # Nobody => owner.row[l[2]] = app[l[1]].team

\* A build server that is being set is of the team its application has, if it is still there.
BuildInv ==
    build # NoBuild =>
      /\ build.app \in Apps /\ build.server \in Places /\ app[build.app].made
      /\ app[build.app].team # Nobody => owner.server[build.server] = app[build.app].team

TeamInv == RowsTyped /\ RefsInv /\ LinksInv /\ BuildInv

LEMMA InitTeams == TenantInit => TeamInv
<1> SUFFICES ASSUME TenantInit PROVE TeamInv
  OBVIOUS
<1>1. PICK x \in Teams, y \in Teams :
        owner = [environment |-> <<x, y, y>>, server |-> <<x, y, y>>, row |-> [i \in Ids |-> Nobody]]
  BY DEF TenantInit
<1>2. <<x, y, y>> \in [Places -> Teams]
  BY DEF Places
<1>3. OwnerTyped
  BY <1>1, <1>2 DEF OwnerTyped, Owners
<1>4. AppTyped /\ RestTyped
  BY DEF TenantInit, AppTyped, AppRow, RestTyped, NoApp, NoBuild, Owners
<1>5. \A a \in Apps : app[a].team = Nobody
  BY DEF TenantInit, NoApp
<1>6. RefsInv /\ LinksInv /\ BuildInv
  BY <1>5 DEF TenantInit, RefsInv, LinksInv, BuildInv
<1> QED
  BY <1>3, <1>4, <1>6 DEF TeamInv, RowsTyped

----------------------------------------------------------------------------
(* Who acted, and on which team                                             *)

\* Whoever made the last request acts on one team, and may: a user who is let in, a token of that team, or the hook of
\* one of its applications.
ByUser(t, u) ==
    assertMember(t, u) /\ touched'.who = u /\ touched'.teams \subseteq {t}
        /\ policy'.strict = policy.strict /\ policy'.totp = policy.totp
ByToken(t, i) == owner.row[i] = t /\ touched'.who = i /\ touched'.teams \subseteq {t} /\ UNCHANGED owner
ByHook(a) == touched'.who = a /\ touched'.teams \subseteq {app[a].team} /\ UNCHANGED app
Lawful ==
    \/ touched' = Quiet
    \/ \E t \in Teams, u \in Users : ByUser(t, u)
    \/ \E t \in Teams, i \in Ids : ByToken(t, i)
    \/ \E a \in Apps : ByHook(a)

\* A session acts lawfully on the teams it was let in to, as long as these are one.
LEMMA SessionLawful ==
  ASSUME NEW t \in Teams, NEW u \in Users, NEW teams, Session(t, u, teams), teams \subseteq {t},
         UNCHANGED policy
  PROVE  ByUser(t, u)
  BY DEF Session, Acts, ByUser

\* An application that is found through an environment of a team is of that team, and so is all it refers to.
LEMMA ScopeIsTeam ==
  ASSUME TeamInv, NEW t \in Teams, NEW e \in Places, NEW a \in Apps,
         requireEnvironmentScope(t, e), loadApplication(e, a)
  PROVE  app[a].team = t /\ AppTeams(a) = {t} /\ InTeam(app[a])
  BY DEF TeamInv, RefsInv, InTeam, requireEnvironmentScope, loadApplication, Live, AppTeams

LEMMA ScopeLawful ==
  ASSUME TeamInv, NEW t \in Teams, NEW u \in Users, NEW e \in Places, NEW a \in Apps, InScope(t, e, u, a),
         UNCHANGED policy
  PROVE  ByUser(t, u) /\ app[a].team = t /\ InTeam(app[a])
<1>1. app[a].team = t /\ AppTeams(a) = {t} /\ InTeam(app[a])
  BY ScopeIsTeam DEF InScope
<1>2. AppTeams(a) \cup {owner.environment[e]} \subseteq {t}
  BY <1>1 DEF InScope, requireEnvironmentScope
<1> QED
  BY <1>1, <1>2, SessionLawful DEF InScope

LEMMA TeamRowsLawful ==
  ASSUME TeamInv, TeamRows
  PROVE  Lawful
<1> SUFFICES ASSUME NEW t \in Teams, NEW u \in Users,
               \/ Registries(t, u) \/ GitSources(t, u) \/ Storages(t, u) \/ SshKeys(t, u) \/ LogDrains(t, u)
               \/ Channels(t, u) \/ Tags(t, u) \/ ApiTokens(t, u) \/ SharedVariables(t, u)
               \/ \E a \in Apps, wanted \in SUBSET Ids : AssignTags(t, u, a, wanted)
               \/ InstallUrl(t, u) \/ GithubTeam(t, u)
               \/ TeamReads(t, u) \/ Search(t, u) \/ SetMcp(t, u) \/ ListServers(t, u) \/ ImageUpdates(t, u)
               \/ \E i \in Ids : CreateVps(t, u, i)
               \/ \E s \in Places : SetServerFlags(t, u, s) \/ ServerMaintenance(t, u, s) \/ ProxyLogs(t, u, s)
               \/ \E i \in Ids : ChangeTag(t, u, i)
               \/ \E e \in Places : Projects(t, u, e) \/ ProjectEnvironments(t, u, e)
               \/ \E on \in BOOLEAN : SetSecurity(t, u, on)
             PROVE  ByUser(t, u) \/ touched' = Quiet
  BY DEF TeamRows, Lawful
<1> USE DEF KeepRows, KeepAll
<1>1. ASSUME Lists(t, u) PROVE ByUser(t, u)
  BY <1>1, SessionLawful DEF Lists, RowsOf
<1>2. ASSUME NEW i \in Ids, Adds(t, u, i) \/ Edits(t, u, i) \/ Removes(t, u, i) PROVE ByUser(t, u)
  BY <1>2, SessionLawful DEF Adds, Edits, Removes
<1>3. CASE \/ Registries(t, u) \/ GitSources(t, u) \/ Storages(t, u) \/ SshKeys(t, u) \/ LogDrains(t, u)
           \/ Channels(t, u) \/ Tags(t, u) \/ ApiTokens(t, u) \/ SharedVariables(t, u)
           \/ \E i \in Ids : ChangeTag(t, u, i)
  BY <1>1, <1>2, <1>3 DEF Registries, GitSources, Storages, SshKeys, LogDrains, Channels, Tags, ApiTokens,
     SharedVariables, AddVariable, ChangeTag
<1>4. ASSUME NEW a \in Apps, NEW wanted \in SUBSET Ids, AssignTags(t, u, a, wanted) PROVE ByUser(t, u)
  BY <1>4, SessionLawful DEF AssignTags, resourceBelongsToTeam, RowsOf
<1>5. CASE InstallUrl(t, u)
  BY <1>5, SessionLawful DEF InstallUrl
<1>6. CASE GithubTeam(t, u)
  BY <1>1, <1>6, SessionLawful DEF GithubTeam, AppsOf
<1>7. CASE SetMcp(t, u)
  BY <1>7 DEF SetMcp, Session, Acts, ByUser, TeamInv, RowsTyped, RestTyped
<1>8. CASE TeamReads(t, u) \/ ImageUpdates(t, u)
  BY <1>8, SessionLawful DEF TeamReads, ImageUpdates, AppsOf
<1>9. CASE Search(t, u) \/ ListServers(t, u)
  BY <1>9, SessionLawful DEF Search, ListServers, AppsOf
<1>10. ASSUME NEW i \in Ids, CreateVps(t, u, i) PROVE ByUser(t, u)
  BY <1>10, SessionLawful DEF CreateVps
<1>11. ASSUME NEW s \in Places, SetServerFlags(t, u, s) \/ ServerMaintenance(t, u, s) \/ ProxyLogs(t, u, s)
       PROVE  ByUser(t, u)
  BY <1>11, SessionLawful DEF SetServerFlags, ServerMaintenance, ProxyLogs, VisitsServer
<1>12. ASSUME NEW e \in Places, Projects(t, u, e) PROVE ByUser(t, u)
  BY <1>12, SessionLawful DEF Projects
<1>13. ASSUME NEW e \in Places, ProjectEnvironments(t, u, e) PROVE ByUser(t, u)
  <2>1. \A b \in Apps : loadApplication(e, b) => app[b].team = t
    BY <1>13, ScopeIsTeam DEF ProjectEnvironments, requireEnvironmentScope
  <2> QED
    BY <1>13, <2>1, SessionLawful DEF ProjectEnvironments
<1>14. ASSUME NEW on \in BOOLEAN, SetSecurity(t, u, on) PROVE touched' = Quiet
  BY <1>14 DEF SetSecurity, Acts, Quiet
<1> QED
  BY <1>3, <1>4, <1>5, <1>6, <1>7, <1>8, <1>9, <1>10, <1>11, <1>12, <1>13, <1>14

LEMMA ApplicationRowsLawful ==
  ASSUME TeamInv, ApplicationRows
  PROVE  Lawful
<1> SUFFICES ASSUME NEW t \in Teams, NEW u \in Users, NEW e \in Places, requireEnvironmentScope(t, e),
               \/ ListApplications(t, e, u) \/ ListDatabases(t, e, u) \/ ListServices(t, e, u)
               \/ \E a \in Apps, s \in Places, i \in Ids \cup {NoRef} : CreateApplication(t, e, u, a, s, i)
               \/ \E a \in {b \in Apps : loadApplication(e, b)} :
                     \/ \E i \in Ids : SetSource(t, e, u, a, i)
                     \/ \E i \in Ids \cup {NoRef} : SetRegistry(t, e, u, a, i)
                     \/ \E s \in Places : BeginBuildServer(t, e, u, a, s)
                     \/ \E to \in Places : MoveApplication(t, e, u, a, to)
                     \/ ConnectFile(t, e, u, a) \/ DeleteApplication(t, e, u, a)
                     \/ \E copy \in Apps, to, s \in Places : Clone(t, e, u, a, copy, to, s)
                     \/ SetDeployToken(t, e, u, a) \/ RemoveDeployToken(t, e, u, a)
                     \/ ApplicationVisits(t, e, u, a) \/ DatabaseVisits(t, e, u, a) \/ ServiceVisits(t, e, u, a)
                     \/ \E b \in Apps : PartVisits(t, e, u, a, b)
             PROVE  ByUser(t, u)
  BY DEF ApplicationRows, Lawful
<1> USE DEF KeepRows, KeepAll
<1>1. CASE ListApplications(t, e, u) \/ ListDatabases(t, e, u) \/ ListServices(t, e, u)
  <2>1. \A b \in Apps : loadApplication(e, b) => AppTeams(b) = {t}
    BY ScopeIsTeam
  <2>2. (UNION {AppTeams(a) : a \in {b \in Apps : Live(b) /\ app[b].env = e}}) \cup {owner.environment[e]} \subseteq {t}
    BY <2>1 DEF loadApplication, requireEnvironmentScope
  <2> QED
    BY <1>1, <2>2, SessionLawful DEF ListApplications, ListDatabases, ListServices
<1>2. ASSUME NEW a \in Apps, NEW s \in Places, NEW i \in Ids \cup {NoRef}, CreateApplication(t, e, u, a, s, i)
      PROVE  ByUser(t, u)
  <2>1. {owner.environment[e], owner.server[s], IF i = NoRef THEN t ELSE owner.row[i]} \subseteq {t}
    BY <1>2 DEF CreateApplication, requireEnvironmentScope, TeamRef
  <2> QED
    BY <1>2, <2>1, SessionLawful DEF CreateApplication
<1>3. ASSUME NEW a \in Apps, InScope(t, e, u, a), UNCHANGED policy PROVE ByUser(t, u)
  BY <1>3, ScopeLawful
<1>4. ASSUME NEW a \in Apps, NEW b \in Apps, VisitsPart(t, e, u, a, b) PROVE ByUser(t, u)
  <2>1. AppTeams(a) \cup AppTeams(b) \subseteq {t}
    BY <1>4, ScopeIsTeam DEF VisitsPart, BelongsTo
  <2> QED
    BY <1>4, <2>1, SessionLawful DEF VisitsPart
<1>5. ASSUME NEW a \in Apps,
             \/ \E i \in Ids : SetSource(t, e, u, a, i)
             \/ \E i \in Ids \cup {NoRef} : SetRegistry(t, e, u, a, i)
             \/ \E s \in Places : BeginBuildServer(t, e, u, a, s)
             \/ \E to \in Places : MoveApplication(t, e, u, a, to)
             \/ ConnectFile(t, e, u, a) \/ DeleteApplication(t, e, u, a)
             \/ \E copy \in Apps, to, s \in Places : Clone(t, e, u, a, copy, to, s)
             \/ SetDeployToken(t, e, u, a) \/ RemoveDeployToken(t, e, u, a)
      PROVE  ByUser(t, u)
  BY <1>3, <1>5 DEF SetSource, SetRegistry, BeginBuildServer, MoveApplication, ConnectFile, DeleteApplication, Clone,
     SetDeployToken, RemoveDeployToken
<1>6. ASSUME NEW a \in Apps, ApplicationVisits(t, e, u, a) \/ DatabaseVisits(t, e, u, a) \/ ServiceVisits(t, e, u, a)
      PROVE  ByUser(t, u)
  <2>1. Visits(t, e, u, a)
    BY <1>6 DEF ApplicationVisits, DatabaseVisits, ServiceVisits, GetApplication, SetDeployCommands, ContainerLogs,
       ListTasks, ListVolumes, ContainerStats, MetricHistories, ListDeployments, ListRollbackImages, BrowseFiles,
       GetDatabase, DatabaseConnection, UploadRestore, GetService, SetServiceLimits, StackContainers, StackLogs
  <2> QED
    BY <1>3, <2>1 DEF Visits
<1>7. ASSUME NEW a \in Apps, NEW b \in Apps, PartVisits(t, e, u, a, b) PROVE ByUser(t, u)
  BY <1>4, <1>7 DEF PartVisits, TaskExecutions, GetDeployment, BackupSchedules, DownloadBackup, StackVolumes
<1> QED
  BY <1>1, <1>2, <1>5, <1>6, <1>7

LEMMA OthersLawful ==
  ASSUME TeamInv, TenantNext, ~ TeamRows, ~ ApplicationRows
  PROVE  Lawful
<1> USE DEF KeepRows, KeepAll
<1>1. ASSUME NEW t \in Teams, NEW i \in Ids, CiReads(t, i) \/ \E a \in Apps : CiTriggers(t, i, a)
      PROVE  ByToken(t, i)
  BY <1>1 DEF CiReads, CiTriggers, Bearer, Acts, ByToken, AppsOf
<1>2. ASSUME NEW t \in Teams, NEW i \in Ids, NEW a \in Apps, NEW to \in Places, moveResource(t, i, a, to)
      PROVE  ByToken(t, i)
  BY <1>2 DEF moveResource, environmentInTeam, Bearer, Acts, ByToken
<1>3. CASE TokenRows
  <2>1. PICK t \in Teams, i \in Ids : ByToken(t, i)
    BY <1>1, <1>2, <1>3 DEF TokenRows, Mcp
  <2> QED
    BY <2>1 DEF Lawful
<1>4. ASSUME NEW a \in Apps, NEW b \in Apps, HookDeploys(a, b)
      PROVE  ByHook(a)
  <2>1. b = a
    BY <1>4, TenancyAssumption DEF HookDeploys, Live, TeamInv, RefsInv
  <2> QED
    BY <1>4, <2>1 DEF HookDeploys, Acts, ByHook
<1>5. ASSUME NEW s \in states, NEW u \in Users, NEW i \in Ids, GithubCallback(s, u, i)
      PROVE  s[1] \in Teams /\ ByUser(s[1], u)
  BY <1>5, SessionLawful DEF GithubCallback, TeamInv, RowsTyped, RestTyped
<1>6. CASE CommitBuildServer \/ (\E u \in Users : TwoFactor(u)) \/ (\E s \in states : StateExpires(s))
  BY <1>6 DEF CommitBuildServer, TwoFactor, StateExpires, Acts, Quiet, Lawful
<1> QED
  BY <1>3, <1>4, <1>5, <1>6 DEF TenantNext, Lawful

----------------------------------------------------------------------------
(* What a request changes                                                   *)

\* An application is made, changed or deleted: its references stay in its team, and it stays in it until it goes.
LEMMA ChangeApp ==
  ASSUME TeamInv, NEW a \in Apps, NEW r \in AppRow, app' = [app EXCEPT ![a] = r],
         UNCHANGED <<topic, owner, links, policy, states>>, build' \in {build, NoBuild},
         r.made, r.team \in {app[a].team, Nobody} \/ ~ app[a].made,
         r.team # Nobody => InTeam(r) /\ r.hook \in {a, Nobody}
  PROVE  TeamInv'
<1> USE DEF TeamInv, RowsTyped
<1>1. /\ app' \in [Apps -> AppRow] /\ app'[a] = r
      /\ \A b \in Apps : b # a => app'[b] = app[b]
  BY DEF AppTyped
<1>2. RowsTyped'
  BY <1>1 DEF OwnerTyped, AppTyped, RestTyped, NoBuild
<1>3. RefsInv'
  <2> SUFFICES ASSUME NEW b \in Apps, app'[b].team # Nobody
               PROVE  InTeam(app[b])' /\ app'[b].hook \in {b, Nobody}
    BY DEF RefsInv
  <2>1. CASE b = a
    BY <1>1, <2>1 DEF InTeam
  <2>2. CASE b # a
    BY <1>1, <2>2 DEF InTeam, RefsInv
  <2> QED
    BY <2>1, <2>2
<1>4. LinksInv'
  <2> SUFFICES ASSUME NEW l \in links
               PROVE  /\ topic = "tag" /\ app'[l[1]].made
                      /\ app'[l[1]].team # Nobody => owner.row[l[2]] = app'[l[1]].team
    BY DEF LinksInv
  <2>1. l[1] \in Apps
    BY DEF RestTyped
  <2>2. CASE l[1] = a
    BY <1>1, <2>2 DEF LinksInv
  <2>3. CASE l[1] # a
    BY <1>1, <2>1, <2>3 DEF LinksInv
  <2> QED
    BY <2>2, <2>3
<1>5. BuildInv'
  <2> SUFFICES ASSUME build' = build, build # NoBuild PROVE BuildInv'
    BY DEF BuildInv
  <2>1. /\ build.app \in Apps /\ build.server \in Places /\ app[build.app].made
        /\ app[build.app].team # Nobody => owner.server[build.server] = app[build.app].team
    BY DEF BuildInv
  <2>2. CASE build.app = a
    BY <1>1, <2>1, <2>2 DEF BuildInv
  <2>3. CASE build.app # a
    BY <1>1, <2>1, <2>3 DEF BuildInv
  <2> QED
    BY <2>2, <2>3
<1> QED
  BY <1>2, <1>3, <1>4, <1>5

\* What the routes of an application change in its row: one that is there, seen from an environment of its team.
LEMMA ChangeOwnApp ==
  ASSUME TeamInv, NEW t \in Teams, NEW e \in Places, NEW u \in Users, NEW a \in Apps,
         \/ \E i \in Ids : SetSource(t, e, u, a, i)
         \/ \E i \in Ids \cup {NoRef} : SetRegistry(t, e, u, a, i)
         \/ \E to \in Places : MoveApplication(t, e, u, a, to)
         \/ ConnectFile(t, e, u, a) \/ DeleteApplication(t, e, u, a)
         \/ SetDeployToken(t, e, u, a) \/ RemoveDeployToken(t, e, u, a)
  PROVE  TeamInv'
<1> USE DEF KeepAll
<1>1. InScope(t, e, u, a) /\ UNCHANGED <<topic, owner, links, policy, states, build>>
  BY DEF SetSource, SetRegistry, MoveApplication, ConnectFile, DeleteApplication, SetDeployToken, RemoveDeployToken
<1>2. app[a].team = t /\ InTeam(app[a]) /\ t # Nobody
  BY <1>1, ScopeLawful, TenancyAssumption
<1>3. app[a] \in AppRow /\ app[a].hook \in {a, Nobody} /\ app \in [Apps -> AppRow]
  BY <1>2 DEF TeamInv, RowsTyped, AppTyped, RefsInv
<1>4. ASSUME NEW i \in Ids, SetSource(t, e, u, a, i) PROVE TeamInv'
  <2> DEFINE r == [app[a] EXCEPT !.ref = i]
  <2>1. app' = [app EXCEPT ![a] = r] /\ topic = "github"
    BY <1>4 DEF SetSource
  <2>2. r \in AppRow /\ InTeam(r) /\ r.team = t /\ r.hook = app[a].hook
    BY <1>2, <1>3, <2>1 DEF AppRow, InTeam
  <2> HIDE DEF r
  <2> QED
    BY <1>1, <1>2, <1>3, <2>1, <2>2, ChangeApp DEF InTeam
<1>5. ASSUME NEW i \in Ids \cup {NoRef}, SetRegistry(t, e, u, a, i) PROVE TeamInv'
  <2> DEFINE r == [app[a] EXCEPT !.ref = i, !.builder = IF i = NoRef THEN NoRef ELSE @]
  <2>1. app' = [app EXCEPT ![a] = r] /\ (i # NoRef => owner.row[i] = t)
    BY <1>5 DEF SetRegistry
  <2>2. r \in AppRow /\ InTeam(r) /\ r.team = t /\ r.hook = app[a].hook
    BY <1>2, <1>3, <2>1 DEF AppRow, InTeam
  <2> HIDE DEF r
  <2> QED
    BY <1>1, <1>2, <1>3, <2>1, <2>2, ChangeApp DEF InTeam
<1>6. ASSUME NEW to \in Places, MoveApplication(t, e, u, a, to) PROVE TeamInv'
  <2> DEFINE r == [app[a] EXCEPT !.env = to]
  <2>1. app' = [app EXCEPT ![a] = r] /\ owner.environment[to] = t
    BY <1>6 DEF MoveApplication, environmentInTeam
  <2>2. r \in AppRow /\ InTeam(r) /\ r.team = t /\ r.hook = app[a].hook
    BY <1>2, <1>3, <2>1 DEF AppRow, InTeam
  <2> HIDE DEF r
  <2> QED
    BY <1>1, <1>2, <1>3, <2>1, <2>2, ChangeApp DEF InTeam
<1>7. CASE ConnectFile(t, e, u, a)
  <2> DEFINE r == [app[a] EXCEPT !.shared = app[a].server]
  <2>1. app' = [app EXCEPT ![a] = r]
    BY <1>7 DEF ConnectFile
  <2>2. r \in AppRow /\ InTeam(r) /\ r.team = t /\ r.hook = app[a].hook
    BY <1>2, <1>3, <2>1 DEF AppRow, InTeam
  <2> HIDE DEF r
  <2> QED
    BY <1>1, <1>2, <1>3, <2>1, <2>2, ChangeApp DEF InTeam
<1>8. CASE DeleteApplication(t, e, u, a)
  <2> DEFINE r == [NoApp EXCEPT !.made = TRUE]
  <2>1. app' = [app EXCEPT ![a] = r]
    BY <1>8 DEF DeleteApplication
  <2>2. r \in AppRow /\ r.made /\ r.team = Nobody
    BY DEF AppRow, NoApp, Owners
  <2> HIDE DEF r
  <2> QED
    BY <1>1, <2>1, <2>2, ChangeApp
<1>9. ASSUME NEW hook \in {a, Nobody}, app' = [app EXCEPT ![a].hook = hook] PROVE TeamInv'
  <2> DEFINE r == [app[a] EXCEPT !.hook = hook]
  <2>1. app' = [app EXCEPT ![a] = r]
    BY <1>9
  <2>2. r \in AppRow /\ InTeam(r) /\ r.team = t /\ r.hook = hook
    BY <1>2, <1>3, <2>1 DEF AppRow, InTeam
  <2> HIDE DEF r
  <2> QED
    BY <1>1, <1>2, <1>3, <2>1, <2>2, ChangeApp DEF InTeam
<1>10. CASE SetDeployToken(t, e, u, a) \/ RemoveDeployToken(t, e, u, a)
  BY <1>9, <1>10 DEF SetDeployToken, RemoveDeployToken
<1> QED
  BY <1>4, <1>5, <1>6, <1>7, <1>8, <1>10

\* An application is made, by a create or a copy.
LEMMA MakeApp ==
  ASSUME TeamInv, NEW t \in Teams, NEW e \in Places, NEW u \in Users,
         \/ \E a \in Apps, s \in Places, i \in Ids \cup {NoRef} : CreateApplication(t, e, u, a, s, i)
         \/ \E a, copy \in Apps, to, s \in Places : Clone(t, e, u, a, copy, to, s)
  PROVE  TeamInv'
<1> USE DEF KeepAll
<1>1. ASSUME NEW a \in Apps, NEW s \in Places, NEW i \in Ids \cup {NoRef}, CreateApplication(t, e, u, a, s, i)
      PROVE  TeamInv'
  <2> DEFINE r == [NoApp EXCEPT !.made = TRUE, !.team = t, !.env = e, !.server = s, !.ref = KeptRef(i)]
  <2>1. /\ app' = [app EXCEPT ![a] = r] /\ ~ app[a].made
        /\ owner.environment[e] = t /\ owner.server[s] = t
        /\ i # NoRef => topic \in {"source", "key", "github"} /\ owner.row[i] = t
        /\ UNCHANGED <<topic, owner, links, policy, states, build>>
    BY <1>1 DEF CreateApplication, NeverMade, requireEnvironmentScope, TeamRef
  <2>2. KeptRef(i) \in Ids \cup {NoRef} /\ (KeptRef(i) # NoRef => KeptRef(i) = i)
    BY DEF KeptRef
  <2>3. NoApp \in AppRow
    BY DEF NoApp, AppRow, Owners
  <2>4. /\ r \in AppRow
        /\ r.made /\ r.team = t /\ r.env = e /\ r.server = s /\ r.builder = NoRef /\ r.ref = KeptRef(i)
        /\ r.shared = NoRef /\ r.hook = Nobody
    <3>1. KeptRef(i) \in Ids \cup {NoRef} /\ t \in Owners
      BY <2>2 DEF Owners
    <3>2. /\ NoApp.builder = NoRef /\ NoApp.shared = NoRef /\ NoApp.hook = Nobody
      BY DEF NoApp
    <3> QED
      BY <2>3, <3>1, <3>2 DEF AppRow
  <2> HIDE DEF r
  <2>5. InTeam(r)
    BY <2>1, <2>2, <2>4 DEF InTeam
  <2> QED
    BY <2>1, <2>4, <2>5, ChangeApp
<1>2. ASSUME NEW a \in Apps, NEW copy \in Apps, NEW to \in Places, NEW s \in Places, Clone(t, e, u, a, copy, to, s)
      PROVE  TeamInv'
  <2> DEFINE r == [app[a] EXCEPT !.env = to, !.server = s, !.hook = Nobody]
  <2>1. /\ app' = [app EXCEPT ![copy] = r] /\ ~ app[copy].made /\ InScope(t, e, u, a)
        /\ owner.environment[to] = t /\ owner.server[s] = t
        /\ UNCHANGED <<topic, owner, links, policy, states, build>>
    BY <1>2 DEF Clone, NeverMade, environmentInTeam
  <2>2. app[a].team = t /\ InTeam(app[a]) /\ app[a] \in AppRow
    BY <2>1, ScopeLawful DEF TeamInv, RowsTyped, AppTyped
  <2>3. r \in AppRow /\ InTeam(r) /\ r.hook = Nobody
    BY <2>1, <2>2 DEF AppRow, InTeam
  <2> HIDE DEF r
  <2> QED
    BY <2>1, <2>3, ChangeApp DEF InTeam
<1> QED
  BY <1>1, <1>2

LEMMA MoveOrBuild ==
  ASSUME TeamInv,
         \/ \E t \in Teams, i \in Ids, a \in Apps, to \in Places : moveResource(t, i, a, to)
         \/ CommitBuildServer
  PROVE  TeamInv'
<1> USE DEF KeepAll
<1>1. ASSUME NEW t \in Teams, NEW i \in Ids, NEW a \in Apps, NEW to \in Places, moveResource(t, i, a, to)
      PROVE  TeamInv'
  <2> DEFINE r == [app[a] EXCEPT !.env = to]
  <2>1. /\ app' = [app EXCEPT ![a] = r] /\ app[a].team = t /\ t # Nobody /\ owner.environment[to] = t
        /\ UNCHANGED <<topic, owner, links, policy, states, build>>
    BY <1>1 DEF moveResource, environmentInTeam, Live
  <2>2. InTeam(app[a]) /\ app[a] \in AppRow /\ app[a].hook \in {a, Nobody}
    BY <2>1 DEF TeamInv, RefsInv, RowsTyped, AppTyped
  <2>3. r \in AppRow /\ InTeam(r) /\ r.team = t /\ r.hook = app[a].hook
    BY <2>1, <2>2 DEF AppRow, InTeam
  <2> HIDE DEF r
  <2> QED
    BY <2>1, <2>2, <2>3, ChangeApp DEF InTeam
<1>2. CASE CommitBuildServer
  <2>1. /\ build # NoBuild /\ build' = NoBuild /\ UNCHANGED <<topic, owner, links, policy, states>>
        /\ app' = IF Live(build.app) THEN [app EXCEPT ![build.app].builder = build.server] ELSE app
    BY <1>2 DEF CommitBuildServer
  <2>2. /\ build.app \in Apps /\ build.server \in Places /\ app[build.app].made /\ app[build.app] \in AppRow
        /\ app[build.app].team # Nobody => owner.server[build.server] = app[build.app].team
    BY <2>1 DEF TeamInv, BuildInv, RowsTyped, AppTyped
  <2>3. CASE Live(build.app)
    <3> DEFINE r == [app[build.app] EXCEPT !.builder = build.server]
    <3>1. app' = [app EXCEPT ![build.app] = r]
      BY <2>1, <2>3
    <3>2. InTeam(app[build.app]) /\ app[build.app].hook \in {build.app, Nobody}
      BY <2>2, <2>3 DEF TeamInv, RefsInv, Live
    <3>3. r \in AppRow /\ InTeam(r) /\ r.team = app[build.app].team /\ r.hook = app[build.app].hook
      BY <2>2, <2>3, <3>2 DEF AppRow, InTeam, Live
    <3> HIDE DEF r
    <3> QED
      BY <2>1, <2>2, <3>1, <3>2, <3>3, ChangeApp DEF InTeam
  <2>4. CASE ~ Live(build.app)
    <3>1. UNCHANGED <<app, topic, owner, links, policy, states>>
      BY <2>1, <2>4
    <3> QED
      BY <2>1, <3>1 DEF TeamInv, RowsTyped, OwnerTyped, AppTyped, RestTyped, RefsInv, InTeam, LinksInv, BuildInv, NoBuild
  <2> QED
    BY <2>3, <2>4
<1> QED
  BY <1>1, <1>2

\* The rows of a team: one is added, where there was none, or some are removed with the references to them.
LEMMA ChangeRow ==
  ASSUME TeamInv, NEW row \in [Ids -> Owners], owner' = [owner EXCEPT !.row = row],
         UNCHANGED <<topic, policy, states, build>>,
         app' \in [Apps -> AppRow],
         \A a \in Apps : app'[a] = app[a] \/ app'[a] = [app[a] EXCEPT !.ref = NoRef],
         links' \subseteq links,
         \A i \in Ids : \/ row[i] = owner.row[i]
                        \/ owner.row[i] = Nobody
                        \/ /\ \A a \in Apps : topic \in {"registry", "source"} => app'[a].ref # i
                           /\ \A l \in links' : l[2] # i
  PROVE  TeamInv'
<1> USE DEF TeamInv, RowsTyped
<1>1. /\ owner' \in [environment : [Places -> Teams], server : [Places -> Teams], row : [Ids -> Owners]]
      /\ owner'.environment = owner.environment /\ owner'.server = owner.server /\ owner'.row = row
  BY DEF OwnerTyped
<1>2. RowsTyped'
  BY <1>1 DEF OwnerTyped, AppTyped, RestTyped
<1>3. ASSUME NEW a \in Apps
      PROVE  /\ app'[a].made = app[a].made /\ app'[a].team = app[a].team /\ app'[a].env = app[a].env
             /\ app'[a].server = app[a].server /\ app'[a].builder = app[a].builder
             /\ app'[a].shared = app[a].shared /\ app'[a].hook = app[a].hook
             /\ app'[a].ref \in {app[a].ref, NoRef}
  BY DEF AppTyped, AppRow
<1>4. RefsInv'
  <2> SUFFICES ASSUME NEW a \in Apps, app'[a].team # Nobody
               PROVE  InTeam(app[a])' /\ app'[a].hook \in {a, Nobody}
    BY DEF RefsInv
  <2>1. InTeam(app[a]) /\ app[a].hook \in {a, Nobody}
    BY <1>3 DEF RefsInv
  <2>2. ASSUME app'[a].ref # NoRef, topic \in {"registry", "source"}
        PROVE  row[app'[a].ref] = app'[a].team
    <3>1. app'[a].ref = app[a].ref /\ app[a].ref \in Ids
      BY <1>3, <2>2 DEF AppTyped, AppRow
    <3>2. owner.row[app[a].ref] = app[a].team
      BY <2>1, <2>2, <3>1 DEF InTeam
    <3>3. app[a].team # Nobody /\ app'[a].team = app[a].team
      BY <1>3
    <3> QED
      BY <2>2, <3>1, <3>2, <3>3
  <2> QED
    BY <1>1, <1>3, <2>1, <2>2 DEF InTeam
<1>5. LinksInv'
  <2> SUFFICES ASSUME NEW l \in links'
               PROVE  /\ topic = "tag" /\ app'[l[1]].made
                      /\ app'[l[1]].team # Nobody => row[l[2]] = app'[l[1]].team
    BY <1>1 DEF LinksInv
  <2>1. l \in links /\ l[1] \in Apps /\ l[2] \in Ids
    BY DEF RestTyped
  <2> QED
    BY <1>3, <2>1 DEF LinksInv
<1>6. BuildInv'
  BY <1>1, <1>3 DEF BuildInv
<1> QED
  BY <1>2, <1>4, <1>5, <1>6

LEMMA RowsKeepTeams ==
  ASSUME TeamInv, NEW t \in Teams,
         \/ \E u \in Users, i \in Ids : Adds(t, u, i)
         \/ \E u \in Users, i \in Ids : Removes(t, u, i)
         \/ /\ topic = "github" /\ UNCHANGED <<topic, policy, states, build, app, links>>
            /\ \/ \E i \in Ids : Installs(t, i)
               \/ owner' = [owner EXCEPT !.row = [i \in Ids |-> IF owner.row[i] = t THEN Nobody ELSE owner.row[i]]]
  PROVE  TeamInv'
<1> USE DEF KeepAll
<1>1. owner.row \in [Ids -> Owners] /\ t \in Owners /\ Nobody \in Owners /\ app \in [Apps -> AppRow]
  BY DEF TeamInv, RowsTyped, OwnerTyped, AppTyped, Owners
<1>2. ASSUME NEW i \in Ids, owner.row[i] = Nobody, owner' = [owner EXCEPT !.row[i] = t],
             UNCHANGED <<topic, policy, states, build, app, links>>
      PROVE  TeamInv'
  <2> DEFINE row == [owner.row EXCEPT ![i] = t]
  <2>1. owner' = [owner EXCEPT !.row = row]
    BY <1>2 DEF TeamInv, RowsTyped, OwnerTyped
  <2>2. row \in [Ids -> Owners] /\ \A j \in Ids : row[j] = owner.row[j] \/ owner.row[j] = Nobody
    BY <1>1, <1>2
  <2> HIDE DEF row
  <2> QED
    BY <1>1, <1>2, <2>1, <2>2, ChangeRow
<1>3. ASSUME NEW u \in Users, NEW i \in Ids, Adds(t, u, i) PROVE TeamInv'
  BY <1>2, <1>3 DEF Adds
<1>4. ASSUME NEW u \in Users, NEW i \in Ids, Removes(t, u, i) PROVE TeamInv'
  <2> DEFINE row == [owner.row EXCEPT ![i] = Nobody]
  <2>1. owner' = [owner EXCEPT !.row = row] /\ UNCHANGED <<topic, policy, states, build>>
    BY <1>4 DEF Removes, TeamInv, RowsTyped, OwnerTyped
  <2>2. row \in [Ids -> Owners] /\ \A j \in Ids : j # i => row[j] = owner.row[j]
    BY <1>1
  <2>3. app' = [a \in Apps |-> IF app[a].ref = i THEN [app[a] EXCEPT !.ref = NoRef] ELSE app[a]]
    BY <1>4 DEF Removes
  <2>4. /\ app' \in [Apps -> AppRow]
        /\ \A a \in Apps : app'[a] = app[a] \/ app'[a] = [app[a] EXCEPT !.ref = NoRef]
        /\ \A a \in Apps : app'[a].ref # i
    <3> SUFFICES ASSUME NEW a \in Apps
                 PROVE  /\ app'[a] \in AppRow /\ app'[a].ref # i
                        /\ app'[a] = app[a] \/ app'[a] = [app[a] EXCEPT !.ref = NoRef]
      BY <2>3
    <3>1. app[a] \in AppRow /\ i # NoRef
      BY <1>1 DEF Ids, NoRef
    <3>2. CASE app[a].ref = i
      <4>1. app'[a] = [app[a] EXCEPT !.ref = NoRef]
        BY <2>3, <3>2
      <4> QED
        BY <3>1, <4>1 DEF AppRow
    <3>3. CASE app[a].ref # i
      BY <2>3, <3>1, <3>3
    <3> QED
      BY <3>2, <3>3
  <2>5. links' \subseteq links /\ \A l \in links' : l[2] # i
    BY <1>4 DEF Removes, TeamInv, LinksInv
  <2> HIDE DEF row
  <2> QED
    BY <2>1, <2>2, <2>4, <2>5, ChangeRow
<1>5. CASE /\ topic = "github" /\ UNCHANGED <<topic, policy, states, build, app, links>>
           /\ owner' = [owner EXCEPT !.row = [i \in Ids |-> IF owner.row[i] = t THEN Nobody ELSE owner.row[i]]]
  <2> DEFINE row == [i \in Ids |-> IF owner.row[i] = t THEN Nobody ELSE owner.row[i]]
  <2>1. owner' = [owner EXCEPT !.row = row] /\ row \in [Ids -> Owners]
    BY <1>1, <1>5
  <2>2. links = {}
    BY <1>5 DEF TeamInv, LinksInv
  <2> HIDE DEF row
  <2> QED
    BY <1>1, <1>5, <2>1, <2>2, ChangeRow
<1>6. ASSUME topic = "github", UNCHANGED <<topic, policy, states, build, app, links>>, NEW i \in Ids, Installs(t, i)
      PROVE  TeamInv'
  <2>1. CASE UNCHANGED owner
    <3>1. owner' = [owner EXCEPT !.row = owner.row]
      BY <2>1 DEF TeamInv, RowsTyped, OwnerTyped
    <3> QED
      BY <1>1, <1>6, <3>1, ChangeRow
  <2>2. CASE owner.row[i] = Nobody /\ owner' = [owner EXCEPT !.row[i] = t]
    BY <1>2, <1>6, <2>2
  <2> QED
    BY <1>6, <2>1, <2>2 DEF Installs
<1> QED
  BY <1>3, <1>4, <1>5, <1>6

\* The rest changes neither rows nor references: links, signed states, policies and the request for a build server.
LEMMA RestKeepsTeams ==
  ASSUME TeamInv,
         \/ KeepRows \/ UNCHANGED tenantVars
         \/ \E t \in Teams, u \in Users, a \in Apps, wanted \in SUBSET Ids : AssignTags(t, u, a, wanted)
         \/ \E t \in Teams, u \in Users :
              \/ InstallUrl(t, u) \/ SetMcp(t, u)
              \/ \E on \in BOOLEAN : SetSecurity(t, u, on)
              \/ \E e \in Places, a \in Apps, s \in Places : BeginBuildServer(t, e, u, a, s)
         \/ \E u \in Users : TwoFactor(u)
         \/ \E s \in states : StateExpires(s)
  PROVE  TeamInv'
<1> USE DEF KeepRows, KeepAll
<1>1. ASSUME UNCHANGED <<topic, owner, app, links, build>>,
             policy' \in [strict : SUBSET Teams, totp : SUBSET Users, mcp : SUBSET Teams],
             states' \subseteq Teams \X Users
      PROVE  TeamInv'
  BY <1>1 DEF TeamInv, RowsTyped, OwnerTyped, AppTyped, RestTyped, RefsInv, InTeam, LinksInv, BuildInv
<1>2. /\ policy \in [strict : SUBSET Teams, totp : SUBSET Users, mcp : SUBSET Teams]
      /\ states \subseteq Teams \X Users
  BY DEF TeamInv, RowsTyped, RestTyped
<1>3. CASE KeepRows \/ UNCHANGED tenantVars
  BY <1>1, <1>2, <1>3 DEF tenantVars
<1>4. ASSUME NEW t \in Teams, NEW u \in Users, NEW a \in Apps, NEW wanted \in SUBSET Ids, AssignTags(t, u, a, wanted)
      PROVE  TeamInv'
  <2>1. /\ topic = "tag" /\ app[a].team = t /\ t # Nobody /\ wanted \subseteq Ids
        /\ \A i \in wanted : owner.row[i] = t
        /\ links' = {l \in links : l[1] # a \/ l[2] \notin RowsOf(t)} \cup {<<a, i>> : i \in wanted}
        /\ UNCHANGED <<topic, policy, states, build, owner, app>>
    BY <1>4 DEF AssignTags, resourceBelongsToTeam, Live, RowsOf
  <2>2. app[a].made
    BY <2>1 DEF TeamInv, RefsInv, InTeam
  <2>3. \A l \in links' : l \in links \/ (l \in Apps \X Ids /\ l[1] = a /\ owner.row[l[2]] = t)
    BY <2>1
  <2>4. links' \subseteq Apps \X Ids /\ LinksInv'
    BY <2>1, <2>2, <2>3 DEF TeamInv, LinksInv, RowsTyped, RestTyped
  <2> QED
    BY <2>1, <2>4 DEF TeamInv, RowsTyped, OwnerTyped, AppTyped, RestTyped, RefsInv, InTeam, BuildInv
<1>5. ASSUME NEW t \in Teams, NEW u \in Users,
             InstallUrl(t, u) \/ SetMcp(t, u) \/ \E on \in BOOLEAN : SetSecurity(t, u, on)
      PROVE  TeamInv'
  <2>1. CASE InstallUrl(t, u)
    BY <1>1, <1>2, <2>1 DEF InstallUrl
  <2>2. CASE SetMcp(t, u)
    BY <1>1, <1>2, <2>2 DEF SetMcp
  <2>3. CASE \E on \in BOOLEAN : SetSecurity(t, u, on)
    BY <1>1, <1>2, <2>3 DEF SetSecurity
  <2> QED
    BY <1>5, <2>1, <2>2, <2>3
<1>6. ASSUME NEW t \in Teams, NEW u \in Users, NEW e \in Places, NEW a \in Apps, NEW s \in Places,
             BeginBuildServer(t, e, u, a, s)
      PROVE  TeamInv'
  <2>1. /\ build' = [app |-> a, server |-> s] /\ InScope(t, e, u, a) /\ owner.server[s] = t
        /\ UNCHANGED <<topic, owner, app, links, policy, states>>
    BY <1>6 DEF BeginBuildServer
  <2>2. app[a].team = t /\ app[a].made
    BY <2>1, ScopeLawful DEF InTeam
  <2>3. build' \in [app : Apps \cup {Nobody}, server : Places \cup {NoRef}] /\ BuildInv'
    BY <2>1, <2>2 DEF BuildInv
  <2> QED
    BY <2>1, <2>3 DEF TeamInv, RowsTyped, OwnerTyped, AppTyped, RestTyped, RefsInv, InTeam, LinksInv
<1>7. ASSUME NEW u \in Users, TwoFactor(u) PROVE TeamInv'
  BY <1>1, <1>2, <1>7 DEF TwoFactor
<1>8. ASSUME NEW s \in states, StateExpires(s) PROVE TeamInv'
  BY <1>1, <1>2, <1>8 DEF StateExpires
<1> QED
  BY <1>3, <1>4, <1>5, <1>6, <1>7, <1>8

LEMMA StepTeams == TeamInv /\ [TenantNext]_tenantVars => TeamInv'
<1> SUFFICES ASSUME TeamInv, [TenantNext]_tenantVars PROVE TeamInv'
  OBVIOUS
<1>1. KeepRows => TeamInv'
  BY RestKeepsTeams
<1>2. ASSUME NEW t \in Teams, NEW u \in Users, NEW i \in Ids,
             Lists(t, u) \/ Edits(t, u, i) \/ Adds(t, u, i) \/ Removes(t, u, i)
      PROVE  TeamInv'
  <2>1. Lists(t, u) \/ Edits(t, u, i) => KeepRows
    BY DEF Lists, Edits
  <2> QED
    BY <1>1, <1>2, <2>1, RowsKeepTeams
<1>3. ASSUME NEW t \in Teams, NEW u \in Users,
             \/ Registries(t, u) \/ GitSources(t, u) \/ Storages(t, u) \/ SshKeys(t, u) \/ LogDrains(t, u)
             \/ Channels(t, u) \/ Tags(t, u) \/ ApiTokens(t, u) \/ SharedVariables(t, u)
             \/ \E i \in Ids : ChangeTag(t, u, i)
      PROVE  TeamInv'
  <2>1. PICK i \in Ids : Lists(t, u) \/ Edits(t, u, i) \/ Adds(t, u, i) \/ Removes(t, u, i)
    <3>1. 1 \in Ids
      BY DEF Ids
    <3> QED
      BY <1>3, <3>1 DEF Registries, GitSources, Storages, SshKeys, LogDrains, Channels, Tags, ApiTokens,
         SharedVariables, AddVariable, ChangeTag
  <2> QED
    BY <1>2, <2>1
<1>4. ASSUME NEW t \in Teams, NEW u \in Users,
             \/ TeamReads(t, u) \/ Search(t, u) \/ ListServers(t, u) \/ ImageUpdates(t, u)
             \/ \E i \in Ids : CreateVps(t, u, i)
             \/ \E s \in Places : SetServerFlags(t, u, s) \/ ServerMaintenance(t, u, s) \/ ProxyLogs(t, u, s)
             \/ \E e \in Places : Projects(t, u, e) \/ ProjectEnvironments(t, u, e)
      PROVE  TeamInv'
  BY <1>1, <1>4 DEF TeamReads, Search, ListServers, ImageUpdates, CreateVps, SetServerFlags, ServerMaintenance,
     ProxyLogs, VisitsServer, Projects, ProjectEnvironments
<1>5. ASSUME NEW t \in Teams, NEW u \in Users, GithubTeam(t, u) PROVE TeamInv'
  <2>1. KeepRows \/ (/\ topic = "github" /\ UNCHANGED <<topic, policy, states, build, app, links>>
                     /\ owner' = [owner EXCEPT !.row = [i \in Ids |-> IF owner.row[i] = t THEN Nobody ELSE owner.row[i]]])
    BY <1>5 DEF GithubTeam, Lists, KeepAll
  <2> QED
    BY <1>1, <2>1, RowsKeepTeams
<1>6. CASE TeamRows
  <2>1. PICK t \in Teams, u \in Users :
               \/ Registries(t, u) \/ GitSources(t, u) \/ Storages(t, u) \/ SshKeys(t, u) \/ LogDrains(t, u)
               \/ Channels(t, u) \/ Tags(t, u) \/ ApiTokens(t, u) \/ SharedVariables(t, u)
               \/ \E a \in Apps, wanted \in SUBSET Ids : AssignTags(t, u, a, wanted)
               \/ InstallUrl(t, u) \/ GithubTeam(t, u)
               \/ TeamReads(t, u) \/ Search(t, u) \/ SetMcp(t, u) \/ ListServers(t, u) \/ ImageUpdates(t, u)
               \/ \E i \in Ids : CreateVps(t, u, i)
               \/ \E s \in Places : SetServerFlags(t, u, s) \/ ServerMaintenance(t, u, s) \/ ProxyLogs(t, u, s)
               \/ \E i \in Ids : ChangeTag(t, u, i)
               \/ \E e \in Places : Projects(t, u, e) \/ ProjectEnvironments(t, u, e)
               \/ \E on \in BOOLEAN : SetSecurity(t, u, on)
    BY <1>6 DEF TeamRows
  <2>2. \/ \E a \in Apps, wanted \in SUBSET Ids : AssignTags(t, u, a, wanted)
        \/ InstallUrl(t, u) \/ SetMcp(t, u) \/ \E on \in BOOLEAN : SetSecurity(t, u, on)
        => TeamInv'
    BY RestKeepsTeams
  <2> QED
    BY <1>3, <1>4, <1>5, <2>1, <2>2
<1>7. ASSUME NEW t \in Teams, NEW u \in Users, NEW e \in Places, NEW a \in Apps,
             \/ ApplicationVisits(t, e, u, a) \/ DatabaseVisits(t, e, u, a) \/ ServiceVisits(t, e, u, a)
             \/ \E b \in Apps : PartVisits(t, e, u, a, b)
      PROVE  TeamInv'
  BY <1>1, <1>7 DEF ApplicationVisits, DatabaseVisits, ServiceVisits, GetApplication, SetDeployCommands, ContainerLogs,
     ListTasks, ListVolumes, ContainerStats, MetricHistories, ListDeployments, ListRollbackImages, BrowseFiles,
     GetDatabase, DatabaseConnection, UploadRestore, GetService, SetServiceLimits, StackContainers, StackLogs,
     Visits, PartVisits, TaskExecutions, GetDeployment, BackupSchedules, DownloadBackup, StackVolumes, VisitsPart
<1>8. CASE ApplicationRows
  <2>1. PICK t \in Teams, u \in Users, e \in Places :
               \/ ListApplications(t, e, u) \/ ListDatabases(t, e, u) \/ ListServices(t, e, u)
               \/ \E a \in Apps, s \in Places, i \in Ids \cup {NoRef} : CreateApplication(t, e, u, a, s, i)
               \/ \E a \in {b \in Apps : loadApplication(e, b)} :
                     \/ \E i \in Ids : SetSource(t, e, u, a, i)
                     \/ \E i \in Ids \cup {NoRef} : SetRegistry(t, e, u, a, i)
                     \/ \E s \in Places : BeginBuildServer(t, e, u, a, s)
                     \/ \E to \in Places : MoveApplication(t, e, u, a, to)
                     \/ ConnectFile(t, e, u, a) \/ DeleteApplication(t, e, u, a)
                     \/ \E copy \in Apps, to, s \in Places : Clone(t, e, u, a, copy, to, s)
                     \/ SetDeployToken(t, e, u, a) \/ RemoveDeployToken(t, e, u, a)
                     \/ ApplicationVisits(t, e, u, a) \/ DatabaseVisits(t, e, u, a) \/ ServiceVisits(t, e, u, a)
                     \/ \E b \in Apps : PartVisits(t, e, u, a, b)
    BY <1>8 DEF ApplicationRows
  <2>2. ListApplications(t, e, u) \/ ListDatabases(t, e, u) \/ ListServices(t, e, u) => KeepRows
    BY DEF ListApplications, ListDatabases, ListServices
  <2>3. CASE \E a \in {b \in Apps : loadApplication(e, b)} :
                \/ \E i \in Ids : SetSource(t, e, u, a, i)
                \/ \E i \in Ids \cup {NoRef} : SetRegistry(t, e, u, a, i)
                \/ \E s \in Places : BeginBuildServer(t, e, u, a, s)
                \/ \E to \in Places : MoveApplication(t, e, u, a, to)
                \/ ConnectFile(t, e, u, a) \/ DeleteApplication(t, e, u, a)
                \/ \E copy \in Apps, to, s \in Places : Clone(t, e, u, a, copy, to, s)
                \/ SetDeployToken(t, e, u, a) \/ RemoveDeployToken(t, e, u, a)
                \/ ApplicationVisits(t, e, u, a) \/ DatabaseVisits(t, e, u, a) \/ ServiceVisits(t, e, u, a)
                \/ \E b \in Apps : PartVisits(t, e, u, a, b)
    <3>1. PICK a \in Apps :
                \/ \E i \in Ids : SetSource(t, e, u, a, i)
                \/ \E i \in Ids \cup {NoRef} : SetRegistry(t, e, u, a, i)
                \/ \E s \in Places : BeginBuildServer(t, e, u, a, s)
                \/ \E to \in Places : MoveApplication(t, e, u, a, to)
                \/ ConnectFile(t, e, u, a) \/ DeleteApplication(t, e, u, a)
                \/ \E copy \in Apps, to, s \in Places : Clone(t, e, u, a, copy, to, s)
                \/ SetDeployToken(t, e, u, a) \/ RemoveDeployToken(t, e, u, a)
                \/ ApplicationVisits(t, e, u, a) \/ DatabaseVisits(t, e, u, a) \/ ServiceVisits(t, e, u, a)
                \/ \E b \in Apps : PartVisits(t, e, u, a, b)
      BY <2>3
    <3>2. (\E s \in Places : BeginBuildServer(t, e, u, a, s)) => TeamInv'
      BY RestKeepsTeams
    <3>3. (\E copy \in Apps, to, s \in Places : Clone(t, e, u, a, copy, to, s)) => TeamInv'
      BY MakeApp
    <3> QED
      BY <1>7, <3>1, <3>2, <3>3, ChangeOwnApp
  <2> QED
    BY <1>1, <2>1, <2>2, <2>3, MakeApp
<1>9. CASE TokenRows
  <2>1. KeepRows \/ \E t \in Teams, i \in Ids, a \in Apps, to \in Places : moveResource(t, i, a, to)
    BY <1>9 DEF TokenRows, CiReads, Mcp, CiTriggers
  <2> QED
    BY <1>1, <2>1, MoveOrBuild
<1>10. ASSUME NEW s \in states, NEW u \in Users, NEW i \in Ids, GithubCallback(s, u, i)
       PROVE  TeamInv'
  <2>1. /\ s[1] \in Teams /\ topic = "github" /\ Installs(s[1], i)
        /\ UNCHANGED <<topic, policy, states, build, app, links>>
    BY <1>10 DEF GithubCallback, KeepAll, TeamInv, RowsTyped, RestTyped
  <2> QED
    BY <2>1, RowsKeepTeams
<1>11. \/ CommitBuildServer \/ UNCHANGED tenantVars
       \/ \E a, b \in Apps : HookDeploys(a, b)
       \/ \E u \in Users : TwoFactor(u)
       \/ \E s \in states : StateExpires(s)
       => TeamInv'
  BY <1>1, MoveOrBuild, RestKeepsTeams DEF HookDeploys
<1> QED
  BY <1>6, <1>8, <1>9, <1>10, <1>11 DEF TenantNext

----------------------------------------------------------------------------
(* The theorem                                                              *)

\* The last request and the number of requests.
TouchInv ==
    /\ touched.teams \subseteq Owners
    /\ touched.who # Nobody => \A t \in touched.teams : Permitted(touched.who, t)

LEMMA StepTouch == TeamInv /\ TouchInv /\ [TenantNext]_tenantVars => TouchInv'
<1> SUFFICES ASSUME TeamInv, TouchInv, [TenantNext]_tenantVars PROVE TouchInv'
  OBVIOUS
<1>1. CASE UNCHANGED tenantVars
  BY <1>1 DEF tenantVars, TouchInv, Permitted, assertMember
<1>2. CASE TenantNext
  <2>1. Lawful
    BY <1>2, TeamRowsLawful, ApplicationRowsLawful, OthersLawful
  <2>2. CASE touched' = Quiet
    BY <2>2 DEF Quiet, TouchInv
  <2>3. ASSUME NEW t \in Teams, NEW u \in Users, ByUser(t, u) PROVE TouchInv'
    BY <2>3 DEF ByUser, TouchInv, Permitted, assertMember, Owners
  <2>4. ASSUME NEW t \in Teams, NEW i \in Ids, ByToken(t, i) PROVE TouchInv'
    <3>1. i \notin Users /\ i \notin Apps
      BY TenancyAssumption DEF Ids
    <3> QED
      BY <2>4, <3>1 DEF ByToken, TouchInv, Permitted, Owners
  <2>5. ASSUME NEW a \in Apps, ByHook(a) PROVE TouchInv'
    <3>1. a \notin Users /\ app[a].team \in Owners
      BY TenancyAssumption DEF TeamInv, RowsTyped, AppTyped, AppRow
    <3> QED
      BY <2>5, <3>1 DEF ByHook, TouchInv, Permitted
  <2> QED
    BY <2>1, <2>2, <2>3, <2>4, <2>5 DEF Lawful
<1> QED
  BY <1>1, <1>2

LEMMA ApartHolds == TeamInv /\ TouchInv => TeamsStayApart
<1> SUFFICES ASSUME TeamInv, TouchInv PROVE TeamsStayApart
  OBVIOUS
<1>1. ASSUME NEW a \in Apps, app[a].team # Nobody
      PROVE  InTeam(app[a]) /\ app[a].hook \in {a, Nobody} /\ \A l \in links : l[1] = a => owner.row[l[2]] = app[a].team
  BY <1>1 DEF TeamInv, RefsInv, LinksInv
<1> QED
  BY <1>1 DEF TeamsStayApart, TouchInv, InTeam, Live

\* Over every team route, token route, callback and hook, whatever ids a request mixes: nobody reads or writes a row of
\* a team they may not act on, and what an application refers to stays in its team (lib/access.ts, lib/scope.ts,
\* lib/ciActions.ts, lib/appCopy.ts).
THEOREM TeamsAlwaysApart == TenantSpec => []TeamsStayApart
<1>1. TenantInit => TouchInv
  BY DEF TenantInit, TouchInv, Quiet
<1> QED
  BY <1>1, InitTeams, StepTeams, StepTouch, ApartHolds, PTL DEF TenantSpec
----------------------------------------------------------------------------
(* A step of the panel is a step of one component, and none of the others.  *)

LEMMA PanelSteps ==
  ASSUME [AllSteps]_AllVars
  PROVE  /\ [AuthNext]_authVars
         /\ [RelayNext \/ TerminalNext \/ \E s \in Logins : SessionEnds(s)]_connVars
         /\ [WatchNext]_watchVars
         /\ [DeliveryNext]_deliveryVars
         /\ [VolumeNext]_volumeVars
         /\ [PanelNext]_panelVars
         /\ [UpdateNext]_updateVars
         /\ [TaskNext]_taskVars
         /\ [FileNext]_fileVars
         /\ [SecretNext]_secretVars
<1>1. UNCHANGED AllVars => /\ UNCHANGED watchVars /\ UNCHANGED deliveryVars /\ UNCHANGED volumeVars /\ UNCHANGED panelVars
                           /\ UNCHANGED authVars /\ UNCHANGED connVars /\ UNCHANGED updateVars
                           /\ UNCHANGED taskVars /\ UNCHANGED fileVars /\ UNCHANGED secretVars
  BY DEF AllVars
<1>2. ASSUME Others, NEW f, focus = f
      PROVE  /\ f # "signin" => UNCHANGED authVars
             /\ f \notin {"relay", "terminals"} => UNCHANGED connVars
             /\ f # "watch" => UNCHANGED watchVars
             /\ f # "delivery" => UNCHANGED deliveryVars
             /\ f # "volumes" => UNCHANGED volumeVars
             /\ f # "panelbackup" => UNCHANGED panelVars
             /\ f # "updates" => UNCHANGED updateVars
             /\ f # "tasks" => UNCHANGED taskVars
             /\ f # "files" => UNCHANGED fileVars
             /\ f # "secrets" => UNCHANGED secretVars
  BY <1>2 DEF Others
<1>3. AllSteps => /\ Others
                  /\ (focus = "signin" /\ AuthNext) \/ focus # "signin"
                  /\ (focus \in {"relay", "terminals"} /\ (RelayNext \/ TerminalNext \/ \E s \in Logins : SessionEnds(s)))
                     \/ focus \notin {"relay", "terminals"}
                  /\ (focus = "watch" /\ WatchNext) \/ focus # "watch"
                  /\ (focus = "delivery" /\ DeliveryNext) \/ focus # "delivery"
                  /\ (focus = "volumes" /\ VolumeNext) \/ focus # "volumes"
                  /\ (focus = "panelbackup" /\ PanelNext) \/ focus # "panelbackup"
                  /\ (focus = "updates" /\ UpdateNext) \/ focus # "updates"
                  /\ (focus = "tasks" /\ TaskNext) \/ focus # "tasks"
                  /\ (focus = "files" /\ FileNext) \/ focus # "files"
                  /\ (focus = "secrets" /\ SecretNext) \/ focus # "secrets"
  BY DEF AllSteps, TenancySteps, SignInSteps, RelaySteps, TerminalSteps, WatchSteps, DeliverySteps, VolumeSteps,
     UpdateSteps, TaskSteps, PanelBackupSteps, FileSteps, SecretSteps
<1> QED
  BY <1>1, <1>2, <1>3

----------------------------------------------------------------------------
(* Operations on the platform                                               *)

\* The rows, the job in progress and the updates on the host are whole records.
UpdateTyped ==
    /\ pop \in [UpdateIds -> [status : {"absent", "queued", "running", "success", "failed"}, kind : {"panel", "system"}]]
    /\ pjobs \in [UpdateIds -> [fresh : Nat, again : Nat]]
    /\ pjob = NoUpdateJob \/ pjob \in [id : UpdateIds, pc : {"launch", "mark", "requeue", "poll", "system"}, run : 0..1]
    /\ process \in [Launches -> [of : 0..UpdateRows, phase : {"none", "building", "restarted", "ok", "failed"}]]
    /\ hostLog \in [by : 0..MaxLaunches, marker : {"none", "ok", "failed"}]
    /\ preq \in {"none", "panel", "system"}
    /\ pused \in [fault : Nat, death : Nat]
    /\ mixed \in BOOLEAN /\ stranded \subseteq UpdateIds

OpenUpdate(i) == pop[i].status \in {"queued", "running"}
Polled(i) == pop[i].status = "running" \/ (pjob.id = i /\ pjob.pc \in {"mark", "requeue", "poll"})

\* Of one operation there is one job, waiting or in progress, and none once it is over.
OneUpdateJob ==
    \A i \in UpdateIds :
      /\ pjobs[i].fresh + pjobs[i].again + (IF pjob.id = i THEN 1 ELSE 0) <= 1
      /\ ~ OpenUpdate(i) => pjobs[i].fresh + pjobs[i].again = 0 /\ pjob.id # i

\* The job in progress does what its row says.
JobOfKind ==
    /\ pjob.pc = "system" => pop[pjob.id].kind = "system"
    /\ pjob.pc \in {"launch", "mark", "requeue", "poll"} => pop[pjob.id].kind = "panel"
    /\ pjob.pc \in {"requeue", "poll"} => pop[pjob.id].status = "running"

\* The marker in the log file is the end of the update that writes it, and, when no two operations overlap, that is the
\* one that is polled.
LogIsReal ==
    /\ hostLog.by = 0 => hostLog.marker = "none"
    /\ hostLog.marker = "ok" => process[hostLog.by].phase = "ok"
LogIsPolled ==
    ~ mixed => /\ \A i, j \in UpdateIds : OpenUpdate(i) /\ OpenUpdate(j) => i = j
               /\ \A i \in UpdateIds : OpenUpdate(i) /\ pop[i].kind = "panel" /\ Polled(i)
                      => hostLog.by # 0 /\ process[hostLog.by].of = i

UpdateInv == UpdateTyped /\ OneUpdateJob /\ JobOfKind /\ LogIsReal /\ LogIsPolled

LEMMA InitUpdates == UpdateInit => UpdateInv /\ UpdatesSound
<1> SUFFICES ASSUME UpdateInit PROVE UpdateInv /\ UpdatesSound
  OBVIOUS
<1>1. UpdateTyped
  <2>1. /\ pop \in [UpdateIds -> [status : {"absent", "queued", "running", "success", "failed"}, kind : {"panel", "system"}]]
        /\ pjobs \in [UpdateIds -> [fresh : Nat, again : Nat]]
    BY DEF UpdateInit, NoUpdate
  <2>2. process \in [Launches -> [of : 0..UpdateRows, phase : {"none", "building", "restarted", "ok", "failed"}]]
    BY UpdateAssumption DEF UpdateInit, NoProcess
  <2>3. hostLog \in [by : 0..MaxLaunches, marker : {"none", "ok", "failed"}]
    BY UpdateAssumption DEF UpdateInit
  <2> QED
    BY <2>1, <2>2, <2>3 DEF UpdateInit, UpdateTyped
<1>2. \A i \in UpdateIds : pop[i].status = "absent" /\ pjobs[i].fresh = 0 /\ pjobs[i].again = 0 /\ pjob.id # i
  BY UpdateAssumption DEF UpdateInit, NoUpdate, NoUpdateJob, UpdateIds
<1>3. OneUpdateJob
  BY <1>2 DEF OneUpdateJob
<1>4. JobOfKind /\ LogIsReal /\ LogIsPolled
  BY <1>2 DEF UpdateInit, NoUpdateJob, JobOfKind, LogIsReal, LogIsPolled, OpenUpdate
<1>5. UpdatesSound
  BY <1>2 DEF UpdatesSound, UpdatesAreOwned, UpdateSuccessIsReal
<1> QED
  BY <1>1, <1>3, <1>4, <1>5 DEF UpdateInv

\* Steps that change no row and no job: checks, and the host writing its log.
LEMMA HostKeepsUpdates ==
  ASSUME UpdateInv, UpdatesSound,
         \/ UNCHANGED updateVars
         \/ \E kind \in {"panel", "system"} : CheckIdle(kind)
         \/ \E k \in Launches : UpdateEnds(k, "ok") \/ UpdateEnds(k, "failed")
  PROVE  UpdateInv' /\ UpdatesSound'
<1> USE DEF UpdateInv
<1>1. CASE UNCHANGED updateVars \/ \E kind \in {"panel", "system"} : CheckIdle(kind)
  <2>1. UNCHANGED <<pop, pjobs, pjob, process, hostLog, pused, mixed, stranded>> /\ preq' \in {"none", "panel", "system"}
    BY <1>1 DEF updateVars, CheckIdle, UpdateTyped
  <2> QED
    BY <2>1 DEF UpdateTyped, OneUpdateJob, JobOfKind, LogIsReal, LogIsPolled, OpenUpdate, Polled, UpdatesSound,
       UpdatesAreOwned, UpdateSuccessIsReal
<1>2. ASSUME NEW k \in Launches, NEW how \in {"ok", "failed"}, UpdateEnds(k, how)
      PROVE  UpdateInv' /\ UpdatesSound'
  <2>1. /\ process[k].phase \in {"restarted", "building"} /\ process' = [process EXCEPT ![k].phase = how]
        /\ hostLog' = IF hostLog.by = k THEN [hostLog EXCEPT !.marker = how] ELSE hostLog
        /\ UNCHANGED <<pop, pjobs, pjob, preq, pused, mixed, stranded>>
    BY <1>2 DEF UpdateEnds
  <2>2. /\ process'[k].phase = how
        /\ \A l \in Launches : process'[l].of = process[l].of /\ (process[l].phase = "ok" => process'[l] = process[l])
    BY <2>1 DEF UpdateTyped
  <2>3. hostLog'.by = hostLog.by /\ hostLog'.marker = IF hostLog.by = k THEN how ELSE hostLog.marker
    BY <2>1 DEF UpdateTyped
  <2>4. k # 0 /\ (hostLog.by # 0 => hostLog.by \in Launches)
    BY UpdateAssumption DEF Launches, UpdateTyped
  <2>5. UpdateTyped'
    BY <2>1 DEF UpdateTyped
  <2>6. OneUpdateJob' /\ JobOfKind'
    BY <2>1 DEF OneUpdateJob, JobOfKind, OpenUpdate
  <2>7. LogIsReal'
    BY <2>2, <2>3, <2>4 DEF LogIsReal
  <2>8. LogIsPolled'
    BY <2>1, <2>2, <2>3, <2>4 DEF LogIsPolled, OpenUpdate, Polled
  <2>9. UpdatesSound'
    BY <2>1, <2>2 DEF UpdatesSound, UpdatesAreOwned, UpdateSuccessIsReal
  <2> QED
    BY <2>5, <2>6, <2>7, <2>8, <2>9
<1> QED
  BY <1>1, <1>2

LEMMA InsertKeepsUpdates ==
  ASSUME UpdateInv, UpdatesSound, InsertUpdate
  PROVE  UpdateInv' /\ UpdatesSound'
<1> USE DEF UpdateInv
<1>1. PICK i \in UpdateIds : /\ NextUpdate(i)
                             /\ pop' = [pop EXCEPT ![i] = [status |-> "queued", kind |-> preq]]
                             /\ pjobs' = [pjobs EXCEPT ![i].fresh = @ + 1]
  BY DEF InsertUpdate, Requeued
<1>2. /\ preq \in {"panel", "system"} /\ preq' = "none" /\ mixed' = (mixed \/ OpenUpdates # {})
      /\ UNCHANGED <<pjob, process, hostLog, pused, stranded>>
  BY DEF InsertUpdate, UpdateTyped
<1>3. ~ OpenUpdate(i) /\ pjobs[i].fresh = 0 /\ pjobs[i].again = 0 /\ pjob.id # i
  BY <1>1 DEF NextUpdate, Fresh, OpenUpdate, OneUpdateJob, UpdateTyped
<1>4. /\ pop'[i] = [status |-> "queued", kind |-> preq] /\ pjobs'[i].fresh = 1 /\ pjobs'[i].again = 0
      /\ \A j \in UpdateIds : j # i => pop'[j] = pop[j] /\ pjobs'[j] = pjobs[j]
  BY <1>1, <1>3 DEF UpdateTyped
<1>5. UpdateTyped'
  BY <1>1, <1>2 DEF UpdateTyped
<1>6. OneUpdateJob'
  BY <1>2, <1>3, <1>4 DEF OneUpdateJob, OpenUpdate
<1>7. JobOfKind'
  <2>1. pjob.pc \in {"system", "launch", "mark", "requeue", "poll"} => pjob.id \in UpdateIds
    BY DEF UpdateTyped, NoUpdateJob
  <2> QED
    BY <1>2, <1>3, <1>4, <2>1 DEF JobOfKind
<1>8. LogIsReal'
  BY <1>2 DEF LogIsReal
<1>9. LogIsPolled'
  <2> SUFFICES ASSUME ~ mixed' PROVE LogIsPolled'
    BY DEF LogIsPolled
  <2>1. ~ mixed /\ \A j \in UpdateIds : ~ OpenUpdate(j)
    BY <1>2 DEF OpenUpdates, OpenUpdate, UpdateTyped
  <2> QED
    BY <1>2, <1>3, <1>4, <2>1 DEF LogIsPolled, OpenUpdate, Polled
<1>10. UpdatesAreOwned'
  <2> SUFFICES ASSUME NEW j \in UpdateIds, pop'[j].status \in {"queued", "running"}, j \notin stranded
               PROVE  pjobs'[j].fresh + pjobs'[j].again > 0 \/ pjob.id = j
    BY <1>2 DEF UpdatesAreOwned
  <2>1. CASE j = i
    BY <1>4, <2>1
  <2>2. CASE j # i
    BY <1>4, <2>2 DEF UpdatesSound, UpdatesAreOwned
  <2> QED
    BY <2>1, <2>2
<1>11. UpdateSuccessIsReal'
  <2> SUFFICES ASSUME ~ mixed', NEW j \in UpdateIds, pop'[j].kind = "panel", pop'[j].status = "success"
               PROVE  \E k \in Launches : process[k] = [of |-> j, phase |-> "ok"]
    BY <1>2 DEF UpdateSuccessIsReal
  <2>1. ~ mixed
    BY <1>2
  <2>2. j # i /\ pop'[j] = pop[j]
    BY <1>4
  <2> QED
    BY <2>1, <2>2 DEF UpdatesSound, UpdateSuccessIsReal
<1> QED
  BY <1>5, <1>6, <1>7, <1>8, <1>9, <1>10, <1>11 DEF UpdatesSound

LEMMA TakeKeepsUpdates ==
  ASSUME UpdateInv, UpdatesSound, NEW i \in UpdateIds, NEW run \in 0..1, TakeUpdateJob(i, run)
  PROVE  UpdateInv' /\ UpdatesSound'
<1> USE DEF UpdateInv
<1>1. pjob = NoUpdateJob /\ pjob.id = 0 /\ 0 \notin UpdateIds
  BY DEF TakeUpdateJob, UpdateTyped, NoUpdateJob, UpdateIds
<1>2. /\ pjobs[i].fresh + pjobs[i].again = 1 /\ OpenUpdate(i)
      /\ pjobs'[i].fresh = 0 /\ pjobs'[i].again = 0 /\ pjobs' \in [UpdateIds -> [fresh : Nat, again : Nat]]
      /\ \A j \in UpdateIds : j # i => pjobs'[j] = pjobs[j]
  <2>1. pjobs \in [UpdateIds -> [fresh : Nat, again : Nat]]
    BY DEF UpdateTyped
  <2>2. /\ pjobs[i].fresh \in Nat /\ pjobs[i].again \in Nat
        /\ pjobs[i].fresh + pjobs[i].again <= 1
        /\ ~ OpenUpdate(i) => pjobs[i].fresh + pjobs[i].again = 0
    <3>1. IF pjob.id = i THEN FALSE ELSE TRUE
      BY <1>1
    <3> QED
      BY <2>1, <3>1 DEF OneUpdateJob
  <2>3. CASE run = 0
    <3>1. pjobs[i].fresh > 0 /\ pjobs' = [pjobs EXCEPT ![i].fresh = @ - 1]
      BY <2>3 DEF TakeUpdateJob
    <3>2. pjobs[i].fresh = 1 /\ pjobs[i].again = 0 /\ OpenUpdate(i)
      BY <2>2, <3>1
    <3> QED
      BY <2>1, <3>1, <3>2
  <2>4. CASE run # 0
    <3>1. pjobs[i].again > 0 /\ pjobs' = [pjobs EXCEPT ![i].again = @ - 1]
      BY <2>4 DEF TakeUpdateJob
    <3>2. pjobs[i].fresh = 0 /\ pjobs[i].again = 1 /\ OpenUpdate(i)
      BY <2>2, <3>1
    <3> QED
      BY <2>1, <3>1, <3>2
  <2> QED
    BY <2>3, <2>4
<1>3. /\ UNCHANGED <<process, hostLog, preq, pused, mixed, stranded>>
      /\ pop' = IF pop[i].kind = "system" THEN [pop EXCEPT ![i].status = "running"] ELSE pop
      /\ pjob' = IF FirstUpdateStep(i) = "rest" THEN NoUpdateJob ELSE [id |-> i, pc |-> FirstUpdateStep(i), run |-> run]
  BY DEF TakeUpdateJob
<1>4. /\ FirstUpdateStep(i) \in {"system", "launch", "poll"}
      /\ FirstUpdateStep(i) = "system" <=> pop[i].kind = "system"
      /\ FirstUpdateStep(i) = "poll" => pop[i].status = "running"
  BY <1>2 DEF FirstUpdateStep, OpenUpdate, UpdateTyped
<1>5. pjob' = [id |-> i, pc |-> FirstUpdateStep(i), run |-> run]
  BY <1>3, <1>4
<1>6. /\ pop' \in [UpdateIds -> [status : {"absent", "queued", "running", "success", "failed"}, kind : {"panel", "system"}]]
      /\ \A j \in UpdateIds : pop'[j].kind = pop[j].kind /\ (pop[j].kind = "panel" \/ j # i => pop'[j] = pop[j])
      /\ OpenUpdate(i)'
  BY <1>2, <1>3 DEF UpdateTyped, OpenUpdate
<1>7. UpdateTyped'
  BY <1>2, <1>3, <1>4, <1>5, <1>6 DEF UpdateTyped
<1>8. \A j \in UpdateIds : OpenUpdate(j)' <=> OpenUpdate(j)
  BY <1>2, <1>6 DEF OpenUpdate
<1>9. OneUpdateJob'
  <2> SUFFICES ASSUME NEW j \in UpdateIds
               PROVE  /\ pjobs'[j].fresh + pjobs'[j].again + (IF pjob'.id = j THEN 1 ELSE 0) <= 1
                      /\ ~ OpenUpdate(j)' => pjobs'[j].fresh + pjobs'[j].again = 0 /\ pjob'.id # j
    BY DEF OneUpdateJob
  <2>1. pjob'.id = i
    BY <1>5
  <2>2. CASE j = i
    BY <1>2, <1>6, <2>1, <2>2
  <2>3. CASE j # i
    BY <1>1, <1>2, <1>8, <2>1, <2>3 DEF OneUpdateJob
  <2> QED
    BY <2>2, <2>3
<1>10. JobOfKind' /\ LogIsReal'
  BY <1>3, <1>4, <1>5, <1>6, <1>7 DEF JobOfKind, LogIsReal, UpdateTyped
<1>11. LogIsPolled'
  BY <1>1, <1>3, <1>4, <1>5, <1>6, <1>8 DEF LogIsPolled, Polled
<1>12. UpdatesSound'
  <2>1. UpdatesAreOwned'
    <3> SUFFICES ASSUME NEW j \in UpdateIds, pop'[j].status \in {"queued", "running"}, j \notin stranded
                 PROVE  pjobs'[j].fresh + pjobs'[j].again > 0 \/ pjob'.id = j
      BY <1>3 DEF UpdatesAreOwned
    <3>1. CASE j = i
      BY <1>5, <3>1
    <3>2. CASE j # i
      BY <1>1, <1>2, <1>6, <3>2 DEF UpdatesSound, UpdatesAreOwned
    <3> QED
      BY <3>1, <3>2
  <2>2. UpdateSuccessIsReal'
    BY <1>3, <1>6 DEF UpdatesSound, UpdateSuccessIsReal
  <2> QED
    BY <2>1, <2>2 DEF UpdatesSound
<1> QED
  BY <1>7, <1>9, <1>10, <1>11, <1>12

\* What an operation's job may do to the updates on the host: whatever ended well stays.
HostKept ==
    /\ process' \in [Launches -> [of : 0..UpdateRows, phase : {"none", "building", "restarted", "ok", "failed"}]]
    /\ hostLog' \in [by : 0..MaxLaunches, marker : {"none", "ok", "failed"}]
    /\ LogIsReal'
    /\ \A k \in Launches : process[k].phase = "ok" => process'[k] = process[k]

LEMMA JobIsOpen ==
  ASSUME UpdateInv, pjob.pc # "rest"
  PROVE  /\ pjob \in [id : UpdateIds, pc : {"launch", "mark", "requeue", "poll", "system"}, run : 0..1]
         /\ OpenUpdate(pjob.id) /\ pjobs[pjob.id].fresh = 0 /\ pjobs[pjob.id].again = 0
         /\ NoUpdateJob.id \notin UpdateIds /\ NoUpdateJob.pc = "rest"
<1>1. pjob \in [id : UpdateIds, pc : {"launch", "mark", "requeue", "poll", "system"}, run : 0..1]
  BY DEF UpdateInv, UpdateTyped, NoUpdateJob
<1>2. pjobs[pjob.id] \in [fresh : Nat, again : Nat]
  BY <1>1 DEF UpdateInv, UpdateTyped
<1>3. /\ pjobs[pjob.id].fresh + pjobs[pjob.id].again + 1 <= 1
      /\ OpenUpdate(pjob.id)
  BY <1>1 DEF UpdateInv, OneUpdateJob
<1>4. NoUpdateJob.id \notin UpdateIds /\ NoUpdateJob.pc = "rest"
  BY DEF NoUpdateJob, UpdateIds
<1> QED
  BY <1>1, <1>2, <1>3, <1>4

\* An operation ends: nothing is under way then, unless operations overlapped.
LEMMA FinishKeepsUpdates ==
  ASSUME UpdateInv, UpdatesSound, pjob.pc # "rest", NEW status \in {"success", "failed"}, FinishUpdate(status),
         UNCHANGED <<pjobs, preq, mixed, stranded>>, pused' \in [fault : Nat, death : Nat], HostKept,
         ~ mixed /\ status = "success" /\ pop[pjob.id].kind = "panel"
             => \E k \in Launches : process'[k] = [of |-> pjob.id, phase |-> "ok"]
  PROVE  UpdateInv' /\ UpdatesSound'
<1> USE DEF UpdateInv
<1> DEFINE id == pjob.id
<1>1. /\ id \in UpdateIds /\ OpenUpdate(id) /\ pjobs[id].fresh = 0 /\ pjobs[id].again = 0
      /\ pjob' = NoUpdateJob /\ pjob'.id \notin UpdateIds /\ pjob'.pc = "rest"
  BY JobIsOpen DEF FinishUpdate
<1>2. /\ pop'[id].status = status /\ pop'[id].kind = pop[id].kind
      /\ \A j \in UpdateIds : j # id => pop'[j] = pop[j]
      /\ pop' \in [UpdateIds -> [status : {"absent", "queued", "running", "success", "failed"}, kind : {"panel", "system"}]]
  BY <1>1 DEF FinishUpdate, UpdateTyped
<1>3. UpdateTyped'
  BY <1>1, <1>2 DEF UpdateTyped, HostKept
<1>4. OneUpdateJob'
  <2> SUFFICES ASSUME NEW j \in UpdateIds
               PROVE  /\ pjobs[j].fresh + pjobs[j].again + (IF pjob'.id = j THEN 1 ELSE 0) <= 1
                      /\ ~ OpenUpdate(j)' => pjobs[j].fresh + pjobs[j].again = 0 /\ pjob'.id # j
    BY DEF OneUpdateJob
  <2>1. CASE j = id
    BY <1>1, <2>1
  <2>2. CASE j # id
    BY <1>1, <1>2, <2>2 DEF OneUpdateJob, OpenUpdate, UpdateTyped
  <2> QED
    BY <2>1, <2>2
<1>5. JobOfKind' /\ LogIsReal'
  BY <1>1 DEF JobOfKind, HostKept
<1>6. LogIsPolled'
  <2> SUFFICES ASSUME ~ mixed, NEW j \in UpdateIds, OpenUpdate(j)' PROVE FALSE
    BY DEF LogIsPolled
  <2>1. j # id /\ OpenUpdate(j)
    BY <1>2 DEF OpenUpdate
  <2> QED
    BY <1>1, <2>1 DEF LogIsPolled
<1>7. UpdatesAreOwned'
  <2> SUFFICES ASSUME NEW j \in UpdateIds, pop'[j].status \in {"queued", "running"}, j \notin stranded
               PROVE  pjobs[j].fresh + pjobs[j].again > 0
    BY DEF UpdatesAreOwned
  <2>1. j # id /\ pop'[j] = pop[j]
    BY <1>2
  <2> QED
    BY <2>1 DEF UpdatesSound, UpdatesAreOwned
<1>8. UpdateSuccessIsReal'
  <2> SUFFICES ASSUME ~ mixed, NEW j \in UpdateIds, pop'[j].kind = "panel", pop'[j].status = "success"
               PROVE  \E k \in Launches : process'[k] = [of |-> j, phase |-> "ok"]
    BY DEF UpdateSuccessIsReal
  <2>1. CASE j = id
    BY <1>2, <2>1
  <2>2. CASE j # id
    <3>1. PICK k \in Launches : process[k] = [of |-> j, phase |-> "ok"]
      BY <1>2, <2>2 DEF UpdatesSound, UpdateSuccessIsReal
    <3> QED
      BY <3>1 DEF HostKept
  <2> QED
    BY <2>1, <2>2
<1> QED
  BY <1>3, <1>4, <1>5, <1>6, <1>7, <1>8 DEF UpdatesSound

\* A job ends without an end of its operation: another one is queued, or the operation is stranded.
LEMMA GiveBackKeepsUpdates ==
  ASSUME UpdateInv, UpdatesSound, pjob.pc # "rest", pjob' = NoUpdateJob,
         UNCHANGED <<pop, preq, mixed, hostLog>>, pused' \in [fault : Nat, death : Nat], HostKept,
         \A k \in Launches : process'[k].of = process[k].of,
         \/ pjobs' = [pjobs EXCEPT ![pjob.id].fresh = @ + 1] /\ UNCHANGED stranded
         \/ pjobs' = [pjobs EXCEPT ![pjob.id].again = @ + 1] /\ UNCHANGED stranded
         \/ stranded' = stranded \cup {pjob.id} /\ UNCHANGED pjobs
  PROVE  UpdateInv' /\ UpdatesSound'
<1> USE DEF UpdateInv
<1> DEFINE id == pjob.id
<1>1. /\ id \in UpdateIds /\ OpenUpdate(id) /\ pjobs[id].fresh = 0 /\ pjobs[id].again = 0
      /\ pjob'.id \notin UpdateIds /\ pjob'.pc = "rest"
  BY JobIsOpen
<1>2. /\ pjobs' \in [UpdateIds -> [fresh : Nat, again : Nat]]
      /\ pjobs'[id].fresh + pjobs'[id].again <= 1
      /\ \A j \in UpdateIds : j # id => pjobs'[j] = pjobs[j]
      /\ stranded' \subseteq UpdateIds /\ stranded \subseteq stranded'
      /\ id \in stranded' \/ pjobs'[id].fresh + pjobs'[id].again > 0
  <2>1. pjobs \in [UpdateIds -> [fresh : Nat, again : Nat]] /\ stranded \subseteq UpdateIds
    BY DEF UpdateTyped
  <2> QED
    BY <1>1, <2>1
<1>3. UpdateTyped'
  BY <1>2 DEF UpdateTyped, HostKept
<1>4. OneUpdateJob'
  <2> SUFFICES ASSUME NEW j \in UpdateIds
               PROVE  /\ pjobs'[j].fresh + pjobs'[j].again + (IF pjob'.id = j THEN 1 ELSE 0) <= 1
                      /\ ~ OpenUpdate(j)' => pjobs'[j].fresh + pjobs'[j].again = 0 /\ pjob'.id # j
    BY DEF OneUpdateJob
  <2>1. pjobs'[j].fresh \in Nat /\ pjobs'[j].again \in Nat /\ (OpenUpdate(j)' <=> OpenUpdate(j))
    BY <1>2 DEF OpenUpdate
  <2>2. CASE j = id
    BY <1>1, <1>2, <2>1, <2>2
  <2>3. CASE j # id
    BY <1>1, <1>2, <2>1, <2>3 DEF OneUpdateJob
  <2> QED
    BY <2>2, <2>3
<1>5. JobOfKind' /\ LogIsReal'
  BY <1>1 DEF JobOfKind, HostKept
<1>6. LogIsPolled'
  <2> SUFFICES ASSUME ~ mixed, NEW i \in UpdateIds, OpenUpdate(i)
               PROVE  /\ \A j \in UpdateIds : OpenUpdate(j) => i = j
                      /\ pop[i].kind = "panel" /\ Polled(i)' => hostLog.by # 0 /\ process'[hostLog.by].of = i
    BY DEF LogIsPolled, OpenUpdate
  <2>1. Polled(i)' => Polled(i)
    BY <1>1 DEF Polled
  <2>2. hostLog.by # 0 => hostLog.by \in Launches
    BY UpdateAssumption DEF UpdateTyped, Launches
  <2> QED
    BY <2>1, <2>2 DEF LogIsPolled
<1>7. UpdatesAreOwned'
  <2> SUFFICES ASSUME NEW j \in UpdateIds, pop[j].status \in {"queued", "running"}, j \notin stranded'
               PROVE  pjobs'[j].fresh + pjobs'[j].again > 0
    BY DEF UpdatesAreOwned
  <2>1. CASE j = id
    BY <1>2, <2>1
  <2>2. CASE j # id
    BY <1>2, <2>2 DEF UpdatesSound, UpdatesAreOwned
  <2> QED
    BY <2>1, <2>2
<1>8. UpdateSuccessIsReal'
  <2> SUFFICES ASSUME ~ mixed, NEW j \in UpdateIds, pop[j].kind = "panel", pop[j].status = "success"
               PROVE  \E k \in Launches : process'[k] = [of |-> j, phase |-> "ok"]
    BY DEF UpdateSuccessIsReal
  <2>1. PICK k \in Launches : process[k] = [of |-> j, phase |-> "ok"]
    BY DEF UpdatesSound, UpdateSuccessIsReal
  <2> QED
    BY <2>1 DEF HostKept
<1> QED
  BY <1>3, <1>4, <1>5, <1>6, <1>7, <1>8 DEF UpdatesSound

\* A launch: the log is that of an update that has just begun.
LEMMA LaunchKeepsHost ==
  ASSUME UpdateInv, pjob.pc # "rest", Launched
  PROVE  /\ HostKept
         /\ hostLog'.by \in Launches /\ hostLog'.by # 0 /\ process'[hostLog'.by].of = pjob.id
<1> USE DEF UpdateInv
<1>1. PICK k \in Launches : /\ process[k].phase = "none"
                            /\ process' = [process EXCEPT ![k] = [of |-> pjob.id, phase |-> "building"]]
                            /\ hostLog' = [by |-> k, marker |-> "none"]
  BY DEF Launched
<1>2. pjob.id \in 1..UpdateRows
  BY JobIsOpen DEF UpdateIds
<1>3. /\ process \in [Launches -> [of : 0..UpdateRows, phase : {"none", "building", "restarted", "ok", "failed"}]]
      /\ [of |-> pjob.id, phase |-> "building"] \in [of : 0..UpdateRows, phase : {"none", "building", "restarted", "ok", "failed"}]
  BY <1>2, UpdateAssumption DEF UpdateTyped
<1>4. process' \in [Launches -> [of : 0..UpdateRows, phase : {"none", "building", "restarted", "ok", "failed"}]]
  BY <1>1, <1>3
<1>5. k # 0 /\ k \in 0..MaxLaunches
  BY UpdateAssumption DEF Launches
<1>6. process'[k].of = pjob.id /\ \A l \in Launches : process[l].phase = "ok" => process'[l] = process[l]
  BY <1>1, <1>3
<1>7. hostLog'.by = k /\ hostLog'.marker = "none" /\ hostLog' \in [by : 0..MaxLaunches, marker : {"none", "ok", "failed"}]
  BY <1>1, <1>5
<1>8. LogIsReal'
  BY <1>7 DEF LogIsReal
<1> QED
  BY <1>4, <1>5, <1>6, <1>7, <1>8 DEF HostKept

LEMMA NothingHappensOnHost ==
  ASSUME UpdateInv, UNCHANGED <<process, hostLog>>
  PROVE  HostKept
BY DEF UpdateInv, UpdateTyped, HostKept, LogIsReal

\* A job launches its update, and marks its row.
LEMMA LaunchKeepsUpdates ==
  ASSUME UpdateInv, UpdatesSound, LaunchUpdate \/ MarkLaunched
  PROVE  UpdateInv' /\ UpdatesSound'
<1> USE DEF UpdateInv
<1> DEFINE id == pjob.id
<1>1. /\ pjob.pc \in {"launch", "mark"} /\ UNCHANGED <<pjobs, preq, pused, mixed, stranded>> /\ HostKept
      /\ pop' = pop \/ pop' = [pop EXCEPT ![id].status = "running"]
      /\ pjob' \in {[pjob EXCEPT !.pc = "mark"], [pjob EXCEPT !.pc = "requeue"]}
      /\ pjob' = [pjob EXCEPT !.pc = "requeue"] => pop' = [pop EXCEPT ![id].status = "running"] /\ pjob.pc = "mark" /\ UNCHANGED <<process, hostLog>>
      /\ pjob.pc = "launch" => hostLog'.by # 0 /\ process'[hostLog'.by].of = id /\ pjob' = [pjob EXCEPT !.pc = "mark"]
      /\ pjob.pc = "mark" => UNCHANGED <<process, hostLog>> /\ pjob' = [pjob EXCEPT !.pc = "requeue"]
  <2>1. CASE LaunchUpdate
    <3>1. pjob.pc = "launch" /\ Launched /\ pjob' = [pjob EXCEPT !.pc = "mark"] /\ UNCHANGED <<pop, pjobs, preq, pused, mixed, stranded>>
      BY <2>1 DEF LaunchUpdate
    <3>2. pjob'.pc = "mark" /\ [pjob EXCEPT !.pc = "requeue"].pc = "requeue"
      BY <3>1, JobIsOpen
    <3> QED
      BY <3>1, <3>2, LaunchKeepsHost
  <2>2. CASE MarkLaunched
    BY <2>2, NothingHappensOnHost DEF MarkLaunched
  <2> QED
    BY <2>1, <2>2
<1>2. /\ pjob \in [id : UpdateIds, pc : {"launch", "mark", "requeue", "poll", "system"}, run : 0..1]
      /\ id \in UpdateIds /\ OpenUpdate(id) /\ pop[id].kind = "panel"
  BY <1>1, JobIsOpen DEF JobOfKind
<1>3. /\ pjob' \in [id : UpdateIds, pc : {"launch", "mark", "requeue", "poll", "system"}, run : 0..1]
      /\ pjob'.id = id /\ pjob'.pc \in {"mark", "requeue"}
  BY <1>1, <1>2
<1>4. /\ pop' \in [UpdateIds -> [status : {"absent", "queued", "running", "success", "failed"}, kind : {"panel", "system"}]]
      /\ \A j \in UpdateIds : pop'[j].kind = pop[j].kind /\ (j # id => pop'[j] = pop[j])
      /\ pop'[id].status \in {"queued", "running"}
      /\ pjob'.pc = "requeue" => pop'[id].status = "running"
  <2>1. pop \in [UpdateIds -> [status : {"absent", "queued", "running", "success", "failed"}, kind : {"panel", "system"}]]
    BY DEF UpdateTyped
  <2>2. pjob'.pc = "requeue" => pop' = [pop EXCEPT ![id].status = "running"]
    BY <1>1, <1>2
  <2> QED
    BY <1>1, <1>2, <2>1, <2>2 DEF OpenUpdate
<1>5. UpdateTyped'
  BY <1>1, <1>3, <1>4 DEF UpdateTyped, HostKept
<1>6. \A j \in UpdateIds : OpenUpdate(j)' <=> OpenUpdate(j)
  BY <1>2, <1>4 DEF OpenUpdate
<1>7. OneUpdateJob' /\ JobOfKind' /\ LogIsReal'
  BY <1>1, <1>2, <1>3, <1>4, <1>6 DEF OneUpdateJob, JobOfKind, HostKept
<1>8. LogIsPolled'
  <2> SUFFICES ASSUME ~ mixed, NEW i \in UpdateIds, OpenUpdate(i)
               PROVE  /\ \A j \in UpdateIds : OpenUpdate(j) => i = j
                      /\ pop[i].kind = "panel" /\ Polled(i)' => hostLog'.by # 0 /\ process'[hostLog'.by].of = i
    BY <1>1, <1>4, <1>6 DEF LogIsPolled
  <2>1. i = id /\ \A j \in UpdateIds : OpenUpdate(j) => i = j
    BY <1>2 DEF LogIsPolled
  <2>2. pjob.pc = "mark" => Polled(i)
    BY <2>1 DEF Polled
  <2> QED
    BY <1>1, <1>2, <2>1, <2>2 DEF LogIsPolled
<1>9. UpdatesAreOwned'
  BY <1>1, <1>2, <1>3, <1>4 DEF UpdatesSound, UpdatesAreOwned
<1>10. UpdateSuccessIsReal'
  <2> SUFFICES ASSUME ~ mixed, NEW j \in UpdateIds, pop'[j].kind = "panel", pop'[j].status = "success"
               PROVE  \E k \in Launches : process'[k] = [of |-> j, phase |-> "ok"]
    BY <1>1 DEF UpdateSuccessIsReal
  <2>1. j # id
    BY <1>4
  <2>2. PICK k \in Launches : process[k] = [of |-> j, phase |-> "ok"]
    BY <1>4, <2>1 DEF UpdatesSound, UpdateSuccessIsReal
  <2> QED
    BY <1>1, <2>2 DEF HostKept
<1> QED
  BY <1>5, <1>7, <1>8, <1>9, <1>10 DEF UpdatesSound

\* A job ends its operation.
LEMMA EndsKeepUpdates ==
  ASSUME UpdateInv, UpdatesSound,
         \/ \E status \in {"success", "failed"} : EndSystemUpdate(status)
         \/ \E lost \in BOOLEAN : LaunchFails(lost)
         \/ PollTimesOut
         \/ PollUpdate /\ MarkerSays # "running"
  PROVE  UpdateInv' /\ UpdatesSound'
<1> USE DEF UpdateInv
<1>1. pused \in [fault : Nat, death : Nat]
  BY DEF UpdateTyped
<1>2. ASSUME NEW status \in {"success", "failed"}, EndSystemUpdate(status) PROVE UpdateInv' /\ UpdatesSound'
  <2>1. HostKept /\ pop[pjob.id].kind = "system"
    BY <1>2, NothingHappensOnHost DEF EndSystemUpdate, JobOfKind
  <2> QED
    BY <1>1, <1>2, <2>1, FinishKeepsUpdates DEF EndSystemUpdate
<1>3. ASSUME NEW lost \in BOOLEAN, LaunchFails(lost) PROVE UpdateInv' /\ UpdatesSound'
  <2>1. HostKept
    BY <1>3, LaunchKeepsHost, NothingHappensOnHost DEF LaunchFails
  <2>2. pused' \in [fault : Nat, death : Nat]
    BY <1>1, <1>3 DEF LaunchFails, UpdateFault
  <2> QED
    BY <1>3, <2>1, <2>2, FinishKeepsUpdates DEF LaunchFails
<1>4. CASE PollTimesOut
  <2>1. HostKept
    BY <1>4, NothingHappensOnHost DEF PollTimesOut
  <2>2. pused' \in [fault : Nat, death : Nat]
    BY <1>1, <1>4 DEF PollTimesOut, UpdateFault
  <2> QED
    BY <1>4, <2>1, <2>2, FinishKeepsUpdates DEF PollTimesOut
<1>5. CASE PollUpdate /\ MarkerSays # "running"
  <2>1. /\ HostKept /\ pjob.pc = "poll" /\ MarkerSays \in {"success", "failed"}
        /\ FinishUpdate(MarkerSays) /\ UNCHANGED <<pjobs, preq, pused, mixed, stranded>>
    BY <1>5, NothingHappensOnHost DEF PollUpdate, MarkerSays
  <2>2. ASSUME ~ mixed, MarkerSays = "success"
        PROVE  \E k \in Launches : process'[k] = [of |-> pjob.id, phase |-> "ok"]
    <3>1. hostLog.marker = "ok" /\ hostLog.by # 0 /\ process[hostLog.by].phase = "ok"
      BY <2>2 DEF MarkerSays, LogIsReal
    <3>2. hostLog.by \in Launches
      BY <3>1, UpdateAssumption DEF UpdateTyped, Launches
    <3>3. pjob.id \in UpdateIds /\ OpenUpdate(pjob.id) /\ Polled(pjob.id) /\ pop[pjob.id].kind = "panel"
      BY <2>1, JobIsOpen DEF Polled, JobOfKind
    <3>4. process[hostLog.by].of = pjob.id
      BY <2>2, <3>3 DEF LogIsPolled
    <3>5. process[hostLog.by] = [of |-> pjob.id, phase |-> "ok"]
      BY <3>1, <3>2, <3>4 DEF UpdateTyped
    <3> QED
      BY <1>5, <3>2, <3>5 DEF PollUpdate
  <2>3. pused' \in [fault : Nat, death : Nat]
    BY <1>1, <2>1
  <2> DEFINE says == MarkerSays
  <2>4. says \in {"success", "failed"} /\ FinishUpdate(says) /\ (~ mixed /\ says = "success" => \E k \in Launches : process'[k] = [of |-> pjob.id, phase |-> "ok"])
    BY <2>1, <2>2
  <2> HIDE DEF says
  <2> QED
    BY <2>1, <2>3, <2>4, FinishKeepsUpdates
<1> QED
  BY <1>2, <1>3, <1>4, <1>5

\* A job ends, and its operation goes on: the next poll, a poll that throws, the restart of the worker.
LEMMA RestartsKeepUpdates ==
  ASSUME UpdateInv, UpdatesSound,
         \/ QueuePoll \/ PollFindsNothing \/ PollThrows \/ UpdateWorkerDies
         \/ PollUpdate /\ MarkerSays = "running"
         \/ \E k \in Launches : UpdateRestartsWorker(k)
  PROVE  UpdateInv' /\ UpdatesSound'
<1> USE DEF UpdateInv
<1>1. pused \in [fault : Nat, death : Nat]
  BY DEF UpdateTyped
<1>2. CASE QueuePoll
  <2>1. HostKept
    BY <1>2, NothingHappensOnHost DEF QueuePoll
  <2> QED
    BY <1>1, <1>2, <2>1, GiveBackKeepsUpdates DEF QueuePoll, Requeued
<1>3. CASE PollFindsNothing
  <2>1. HostKept
    BY <1>3, NothingHappensOnHost DEF PollFindsNothing
  <2>2. pused' \in [fault : Nat, death : Nat]
    BY <1>1, <1>3 DEF PollFindsNothing, UpdateFault
  <2> QED
    BY <1>3, <2>1, <2>2, GiveBackKeepsUpdates DEF PollFindsNothing, Requeued
<1>4. CASE PollThrows
  <2>1. HostKept
    BY <1>4, NothingHappensOnHost DEF PollThrows
  <2>2. pused' \in [fault : Nat, death : Nat]
    BY <1>1, <1>4 DEF PollThrows, UpdateFault
  <2> QED
    BY <1>4, <2>1, <2>2, GiveBackKeepsUpdates DEF PollThrows
<1>5. CASE PollUpdate /\ MarkerSays = "running"
  <2>1. HostKept
    BY <1>5, NothingHappensOnHost DEF PollUpdate
  <2>2. pjob \in [id : UpdateIds, pc : {"launch", "mark", "requeue", "poll", "system"}, run : 0..1] /\ pop[pjob.id].status = "running"
    BY <1>5, JobIsOpen DEF PollUpdate, JobOfKind
  <2>3. pop' = pop
    BY <1>5, <2>2 DEF PollUpdate, FinishUpdate, UpdateTyped
  <2> QED
    BY <1>1, <1>5, <2>1, <2>3, GiveBackKeepsUpdates DEF PollUpdate, FinishUpdate, Requeued
<1>6. ASSUME pjob.pc # "rest", WorkerGone
      PROVE  /\ pjob' = NoUpdateJob
             /\ \/ pjobs' = [pjobs EXCEPT ![pjob.id].fresh = @ + 1] /\ UNCHANGED stranded
                \/ pjobs' = [pjobs EXCEPT ![pjob.id].again = @ + 1] /\ UNCHANGED stranded
                \/ stranded' = stranded \cup {pjob.id} /\ UNCHANGED pjobs
  <2>1. pjob.run = 0 \/ pjob.run = 1
    BY <1>6, JobIsOpen
  <2> QED
    BY <1>6, <2>1 DEF WorkerGone
<1>7. CASE UpdateWorkerDies
  <2>1. HostKept
    BY <1>7, NothingHappensOnHost DEF UpdateWorkerDies
  <2>2. pused' \in [fault : Nat, death : Nat]
    BY <1>1, <1>7 DEF UpdateWorkerDies
  <2> QED
    BY <1>6, <1>7, <2>1, <2>2, GiveBackKeepsUpdates DEF UpdateWorkerDies
<1>8. ASSUME NEW k \in Launches, UpdateRestartsWorker(k) PROVE UpdateInv' /\ UpdatesSound'
  <2>1. /\ process[k].phase = "building" /\ process' = [process EXCEPT ![k].phase = "restarted"] /\ WorkerGone
        /\ UNCHANGED <<pop, hostLog, preq, pused, mixed>>
    BY <1>8 DEF UpdateRestartsWorker
  <2>2. /\ process' \in [Launches -> [of : 0..UpdateRows, phase : {"none", "building", "restarted", "ok", "failed"}]]
        /\ \A l \in Launches : process'[l].of = process[l].of /\ (process[l].phase = "ok" => process'[l] = process[l])
    BY <2>1 DEF UpdateTyped
  <2>3. hostLog.by # 0 => hostLog.by \in Launches
    BY UpdateAssumption DEF UpdateTyped, Launches
  <2>4. HostKept
    BY <2>1, <2>2, <2>3 DEF UpdateTyped, HostKept, LogIsReal
  <2>5. CASE pjob.pc # "rest"
    BY <1>1, <1>6, <2>1, <2>2, <2>4, <2>5, GiveBackKeepsUpdates
  <2>6. CASE pjob.pc = "rest"
    <3>1. pjob = NoUpdateJob
      BY <2>6 DEF UpdateTyped
    <3>2. UNCHANGED <<pop, pjobs, pjob, hostLog, preq, pused, mixed, stranded>>
      BY <2>1, <2>6, <3>1 DEF WorkerGone
    <3>3. UpdateTyped' /\ LogIsReal'
      BY <2>4, <3>2 DEF UpdateTyped, HostKept
    <3>4. OneUpdateJob' /\ JobOfKind' /\ LogIsPolled'
      BY <2>2, <2>3, <3>2 DEF OneUpdateJob, JobOfKind, LogIsPolled, OpenUpdate, Polled
    <3>5. UpdatesSound'
      BY <2>2, <3>2 DEF UpdatesSound, UpdatesAreOwned, UpdateSuccessIsReal
    <3> QED
      BY <3>3, <3>4, <3>5
  <2> QED
    BY <2>5, <2>6
<1> QED
  BY <1>2, <1>3, <1>4, <1>5, <1>7, <1>8

LEMMA StepUpdates ==
  ASSUME UpdateInv, UpdatesSound, [UpdateNext]_updateVars
  PROVE  UpdateInv' /\ UpdatesSound'
<1>1. CASE \/ UNCHANGED updateVars
           \/ \E kind \in {"panel", "system"} : CheckIdle(kind)
           \/ \E k \in Launches : UpdateEnds(k, "ok") \/ UpdateEnds(k, "failed")
  BY <1>1, HostKeepsUpdates
<1>2. CASE InsertUpdate
  BY <1>2, InsertKeepsUpdates
<1>3. CASE \E i \in UpdateIds, run \in 0..1 : TakeUpdateJob(i, run)
  BY <1>3, TakeKeepsUpdates
<1>4. CASE LaunchUpdate \/ MarkLaunched
  BY <1>4, LaunchKeepsUpdates
<1>5. CASE \/ \E status \in {"success", "failed"} : EndSystemUpdate(status)
           \/ \E lost \in BOOLEAN : LaunchFails(lost)
           \/ PollTimesOut
           \/ PollUpdate /\ MarkerSays # "running"
  BY <1>5, EndsKeepUpdates
<1>6. CASE \/ QueuePoll \/ PollFindsNothing \/ PollThrows \/ UpdateWorkerDies
           \/ PollUpdate /\ MarkerSays = "running"
           \/ \E k \in Launches : UpdateRestartsWorker(k)
  BY <1>6, RestartsKeepUpdates
<1> QED
  BY <1>1, <1>2, <1>3, <1>4, <1>5, <1>6 DEF UpdateNext, UpdateRequests, UpdateJobs, HostSteps

----------------------------------------------------------------------------
(* Scheduled tasks                                                          *)

TaskTyped ==
    /\ task \in {"absent", "enabled", "disabled", "deleted"} /\ scheduler \in BOOLEAN
    /\ asking \in [Askers -> {NotAsking} \cup [op : {"create", "update", "write", "delete", "erase"}, on : BOOLEAN]]
    /\ tasks \in Seq([manual : BOOLEAN, run : 0..1])
    /\ taskJob = NoTaskJob \/ taskJob \in [pc : {"exec", "keep"}, manual : BOOLEAN, run : 0..1]
    /\ history \in Seq({"running", "success", "failed"})
    /\ taskUsed \in [request : Nat, run : Nat, fault : Nat]
    /\ taskCalm \in BOOLEAN

\* What the row and the scheduler say of each other while a request is between its two writes.
Follows(a) ==
    LET on == asking[a].on
    IN  /\ asking[a].op = "create" => ~ scheduler /\ task = Enabled(on)
        /\ asking[a].op \in {"update", "delete"} => HasTask /\ (scheduler <=> task = "enabled")
        /\ asking[a].op = "write" => HasTask /\ (scheduler <=> on)
        /\ asking[a].op = "erase" => ~ scheduler

CalmTasks ==
    taskCalm => /\ \A a, b \in Askers : asking[a] # NotAsking /\ asking[b] # NotAsking => a = b
                /\ \A a \in Askers : Follows(a)
                /\ NobodyAsks => (scheduler <=> task = "enabled")

\* Without faults the history is over by one at most, while a job runs, and only that job's execution says running.
Recorded ==
    taskUsed.fault = 0 =>
        /\ Len(history) <= KeepExecutions + (IF taskJob.pc = "rest" THEN 0 ELSE 1)
        /\ \A i \in DOMAIN history : history[i] = "running" => i = 1 /\ taskJob.pc = "exec"

TaskInv == TaskTyped /\ CalmTasks /\ Recorded

LEMMA InitTasks == TaskInit => TaskInv
<1> SUFFICES ASSUME TaskInit PROVE TaskInv
  OBVIOUS
<1>1. \A a \in Askers : asking[a] = NotAsking /\ asking[a].op = "none"
  BY DEF TaskInit, NotAsking
<1>2. TaskTyped
  <2>1. <<>> \in Seq([manual : BOOLEAN, run : 0..1]) /\ <<>> \in Seq({"running", "success", "failed"})
    OBVIOUS
  <2> QED
    BY <2>1 DEF TaskInit, TaskTyped
<1>3. CalmTasks
  BY <1>1 DEF TaskInit, CalmTasks, Follows
<1>4. Recorded
  BY TaskAssumption DEF TaskInit, Recorded
<1> QED
  BY <1>2, <1>3, <1>4 DEF TaskInv

LEMMA TasksAreSound == TaskInv => TasksSound
<1> SUFFICES ASSUME TaskInv PROVE ScheduleFollowsRow /\ HistoryBounded
  BY DEF TasksSound
<1>1. ScheduleFollowsRow
  BY DEF TaskInv, CalmTasks, ScheduleFollowsRow
<1>2. ASSUME taskJob.pc = "rest", taskUsed.fault = 0 PROVE Len(history) <= KeepExecutions
  BY <1>2, TaskAssumption DEF TaskInv, Recorded
<1> QED
  BY <1>1, <1>2 DEF TaskInv, Recorded, HistoryBounded

\* A request begins.
LEMMA AskKeepsTasks ==
  ASSUME TaskInv, NEW a \in Askers, NEW op \in {"create", "update", "delete"}, NEW on \in BOOLEAN, Asks(a, op, on),
         UNCHANGED <<scheduler, tasks, taskJob, history>>,
         \/ op = "create" /\ task = "absent" /\ task' = Enabled(on)
         \/ op # "create" /\ HasTask /\ task' = task
  PROVE  TaskInv'
<1> USE DEF TaskInv
<1>1. /\ asking[a] = NotAsking /\ asking' = [asking EXCEPT ![a] = [op |-> op, on |-> on]]
      /\ taskUsed' = [taskUsed EXCEPT !.request = @ + 1] /\ taskCalm' = (taskCalm /\ NobodyAsks)
  BY DEF Asks
<1>2. /\ asking'[a].op = op /\ asking'[a].on = on /\ \A b \in Askers : b # a => asking'[b] = asking[b]
      /\ asking' \in [Askers -> {NotAsking} \cup [op : {"create", "update", "write", "delete", "erase"}, on : BOOLEAN]]
      /\ asking'[a] # NotAsking
  BY <1>1 DEF TaskTyped, NotAsking
<1>3. taskUsed' \in [request : Nat, run : Nat, fault : Nat] /\ taskUsed'.fault = taskUsed.fault
  BY <1>1 DEF TaskTyped
<1>4. task' \in {"absent", "enabled", "disabled", "deleted"} /\ (op = "create" => task' = Enabled(on)) /\ (op # "create" => HasTask /\ task' = task)
  BY DEF TaskTyped, Enabled
<1>5. TaskTyped'
  BY <1>1, <1>2, <1>3, <1>4 DEF TaskTyped
<1>6. Recorded'
  BY <1>3 DEF Recorded
<1>7. CalmTasks'
  <2> SUFFICES ASSUME taskCalm, NobodyAsks PROVE CalmTasks'
    BY <1>1 DEF CalmTasks
  <2>1. \A b \in Askers : b # a => asking'[b] = NotAsking
    BY <1>2 DEF NobodyAsks
  <2>2. ~ NobodyAsks'
    BY <1>2 DEF NobodyAsks
  <2>3. scheduler <=> task = "enabled"
    BY DEF CalmTasks
  <2>4. ASSUME NEW b \in Askers PROVE Follows(b)'
    <3>1. CASE b = a
      <4>1. op = "create" => ~ scheduler
        BY <2>3
      <4> QED
        BY <1>2, <1>4, <2>3, <3>1, <4>1 DEF Follows, HasTask
    <3>2. CASE b # a
      BY <2>1, <3>2 DEF Follows, NotAsking
    <3> QED
      BY <3>1, <3>2
  <2> QED
    BY <2>1, <2>2, <2>4 DEF CalmTasks
<1> QED
  BY <1>5, <1>6, <1>7

\* A request makes its other write and is answered.
LEMMA AnswerKeepsTasks ==
  ASSUME TaskInv, NEW a \in Askers, asking[a] # NotAsking, Answered(a), UNCHANGED <<tasks, taskJob, taskCalm>>,
         task' \in {"absent", "enabled", "disabled", "deleted"}, scheduler' \in BOOLEAN, history' = history \/ history' = <<>>,
         taskUsed' \in [request : Nat, run : Nat, fault : Nat], taskUsed'.fault = 0 => taskUsed.fault = 0,
         taskCalm => (scheduler' <=> task' = "enabled")
  PROVE  TaskInv'
<1> USE DEF TaskInv
<1>1. /\ asking'[a] = NotAsking /\ \A b \in Askers : b # a => asking'[b] = asking[b]
      /\ asking' \in [Askers -> {NotAsking} \cup [op : {"create", "update", "write", "delete", "erase"}, on : BOOLEAN]]
  BY DEF Answered, TaskTyped
<1>2. TaskTyped'
  <2>1. <<>> \in Seq({"running", "success", "failed"})
    OBVIOUS
  <2> QED
    BY <1>1, <2>1 DEF TaskTyped
<1>3. Recorded'
  <2>1. CASE history' = history
    BY <2>1 DEF Recorded
  <2>2. CASE history' = <<>>
    <3>1. Len(history') = 0 /\ DOMAIN history' = {}
      BY <2>2
    <3> QED
      BY <3>1, TaskAssumption DEF Recorded
  <2> QED
    BY <2>1, <2>2
<1>4. CalmTasks'
  <2> SUFFICES ASSUME taskCalm PROVE CalmTasks'
    BY DEF CalmTasks
  <2>1. \A b \in Askers : asking'[b] = NotAsking
    BY <1>1 DEF CalmTasks
  <2>2. \A b \in Askers : Follows(b)'
    BY <2>1 DEF Follows, NotAsking
  <2> QED
    BY <2>1, <2>2 DEF CalmTasks
<1> QED
  BY <1>2, <1>3, <1>4

\* A request makes its first write, to the scheduler.
LEMMA RescheduleKeepsTasks ==
  ASSUME TaskInv, NEW a \in Askers, Reschedule(a) \/ Unschedule(a)
  PROVE  TaskInv'
<1> USE DEF TaskInv
<1> DEFINE op == IF asking[a].op = "update" THEN "write" ELSE "erase"
<1>1. /\ asking[a].op \in {"update", "delete"} /\ asking' = [asking EXCEPT ![a].op = op]
      /\ scheduler' = IF asking[a].op = "update" THEN asking[a].on ELSE FALSE
      /\ UNCHANGED <<task, tasks, taskJob, history, taskUsed, taskCalm>>
  BY DEF Reschedule, Unschedule
<1>2. asking[a] # NotAsking /\ asking[a] \in [op : {"create", "update", "write", "delete", "erase"}, on : BOOLEAN]
  BY <1>1 DEF TaskTyped, NotAsking
<1>3. /\ asking'[a].op = op /\ asking'[a].on = asking[a].on /\ \A b \in Askers : b # a => asking'[b] = asking[b]
      /\ asking' \in [Askers -> {NotAsking} \cup [op : {"create", "update", "write", "delete", "erase"}, on : BOOLEAN]]
      /\ asking'[a] # NotAsking
  BY <1>1, <1>2 DEF TaskTyped, NotAsking
<1>4. TaskTyped'
  BY <1>1, <1>2, <1>3 DEF TaskTyped
<1>5. Recorded'
  BY <1>1 DEF Recorded
<1>6. CalmTasks'
  <2> SUFFICES ASSUME taskCalm PROVE CalmTasks'
    BY <1>1 DEF CalmTasks
  <2>1. \A b \in Askers : b # a => asking'[b] = NotAsking
    BY <1>2, <1>3 DEF CalmTasks
  <2>2. ~ NobodyAsks'
    BY <1>3 DEF NobodyAsks
  <2>3. HasTask
    BY <1>1 DEF CalmTasks, Follows
  <2>4. ASSUME NEW b \in Askers PROVE Follows(b)'
    <3>1. CASE b = a
      BY <1>1, <1>2, <1>3, <2>3, <3>1 DEF Follows, HasTask
    <3>2. CASE b # a
      BY <2>1, <3>2 DEF Follows, NotAsking
    <3> QED
      BY <3>1, <3>2
  <2> QED
    BY <2>1, <2>2, <2>4 DEF CalmTasks
<1> QED
  BY <1>4, <1>5, <1>6

\* Jobs and deaths: the row, the scheduler and the requests stay.
LEMMA JobsKeepTasks ==
  ASSUME TaskInv, RunNow \/ Fires \/ TakeTask \/ TrimHistory \/ TaskWorkerDies \/ ApiDies \/ (\E status \in {"success", "failed"} : EndTask(status))
  PROVE  TaskInv'
<1> USE DEF TaskInv
<1>t. /\ taskUsed \in [request : Nat, run : Nat, fault : Nat] /\ tasks \in Seq([manual : BOOLEAN, run : 0..1])
      /\ history \in Seq({"running", "success", "failed"})
  BY DEF TaskTyped
<1>c. ASSUME UNCHANGED <<task, scheduler, asking, taskCalm>> PROVE CalmTasks'
  BY <1>c DEF CalmTasks, Follows, NobodyAsks, HasTask
<1>1. CASE RunNow \/ Fires
  <2>1. PICK manual \in BOOLEAN : QueueTask(manual)
    BY <1>1 DEF RunNow, Fires
  <2>2. taskUsed' \in [request : Nat, run : Nat, fault : Nat] /\ taskUsed'.fault = taskUsed.fault /\ tasks' \in Seq([manual : BOOLEAN, run : 0..1])
    BY <1>t, <2>1, SMTT(30) DEF QueueTask
  <2> QED
    BY <1>c, <2>1, <2>2 DEF QueueTask, TaskTyped, Recorded
<1>2. CASE TakeTask
  <2> DEFINE j == Head(tasks)
             runs == task = "enabled" \/ (task = "disabled" /\ j.manual)
  <2>1. /\ taskJob.pc = "rest" /\ tasks # <<>> /\ tasks' = Tail(tasks)
        /\ taskJob' = IF runs THEN [pc |-> "exec", manual |-> j.manual, run |-> j.run] ELSE NoTaskJob
        /\ history' = IF runs THEN <<"running">> \o history ELSE history
        /\ UNCHANGED <<task, scheduler, asking, taskUsed, taskCalm>>
    BY <1>2 DEF TakeTask
  <2>2. j \in [manual : BOOLEAN, run : 0..1] /\ tasks' \in Seq([manual : BOOLEAN, run : 0..1])
    <3>1. Head(tasks) \in [manual : BOOLEAN, run : 0..1] /\ Tail(tasks) \in Seq([manual : BOOLEAN, run : 0..1])
      BY <1>t, <2>1, HeadTailProperties
    <3> QED
      BY <2>1, <3>1
  <2>3. taskJob' = NoTaskJob \/ taskJob' \in [pc : {"exec", "keep"}, manual : BOOLEAN, run : 0..1]
    BY <2>1, <2>2
  <2>4. history' \in Seq({"running", "success", "failed"})
    <3>1. <<"running">> \in Seq({"running", "success", "failed"})
      OBVIOUS
    <3>2. <<"running">> \o history \in Seq({"running", "success", "failed"})
      BY <1>t, <3>1
    <3> QED
      BY <1>t, <2>1, <3>2
  <2>5. TaskTyped'
    BY <2>1, <2>2, <2>3, <2>4 DEF TaskTyped
  <2>6. Recorded'
    <3> SUFFICES ASSUME taskUsed.fault = 0 PROVE Recorded'
      BY <2>1 DEF Recorded
    <3>1. Len(history) <= KeepExecutions /\ \A i \in DOMAIN history : history[i] # "running"
      <4>1. Len(history) <= KeepExecutions + 0 /\ \A i \in DOMAIN history : history[i] # "running"
        BY <2>1 DEF Recorded
      <4> QED
        BY <4>1, TaskAssumption
    <3>2. CASE runs
      <4>1. taskJob'.pc = "exec" /\ history' = <<"running">> \o history
        BY <2>1, <3>2
      <4>2. Len(history') = Len(history) + 1 /\ \A i \in DOMAIN history' : i # 1 => history'[i] = history[i - 1] /\ i - 1 \in DOMAIN history
        BY <1>t, <4>1
      <4> QED
        BY <1>t, <3>1, <4>1, <4>2, TaskAssumption DEF Recorded
    <3>3. CASE ~ runs
      BY <1>t, <2>1, <3>1, <3>3, TaskAssumption DEF Recorded, NoTaskJob
    <3> QED
      BY <3>2, <3>3
  <2> QED
    BY <1>c, <2>1, <2>5, <2>6
<1>3. CASE TrimHistory
  <2>1. taskJob.pc = "keep" /\ history' = Kept(history) /\ taskJob' = NoTaskJob /\ UNCHANGED <<task, scheduler, asking, tasks, taskUsed, taskCalm>>
    BY <1>3 DEF TrimHistory
  <2>2. /\ history' \in Seq({"running", "success", "failed"}) /\ Len(history') <= KeepExecutions
        /\ \A i \in DOMAIN history' : i \in DOMAIN history /\ history'[i] = history[i]
    <3>1. CASE Len(history) > KeepExecutions
      BY <1>t, <2>1, <3>1, TaskAssumption DEF Kept
    <3>2. CASE ~ Len(history) > KeepExecutions
      BY <1>t, <2>1, <3>2, TaskAssumption DEF Kept
    <3> QED
      BY <3>1, <3>2
  <2>3. TaskTyped' /\ Recorded'
    BY <1>t, <2>1, <2>2, TaskAssumption DEF TaskTyped, Recorded, NoTaskJob
  <2> QED
    BY <1>c, <2>1, <2>3
<1>4. CASE TaskWorkerDies
  <2>1. /\ taskJob.pc # "rest" /\ taskUsed' = [taskUsed EXCEPT !.fault = @ + 1] /\ taskJob' = NoTaskJob
        /\ tasks' = IF taskJob.run = 0 THEN <<[manual |-> taskJob.manual, run |-> 1]>> \o tasks ELSE tasks
        /\ UNCHANGED <<task, scheduler, asking, history, taskCalm>>
    BY <1>4 DEF TaskWorkerDies, TaskFault
  <2>2. taskUsed' \in [request : Nat, run : Nat, fault : Nat] /\ taskUsed'.fault # 0
    BY <1>t, <2>1
  <2>3. [manual |-> taskJob.manual, run |-> 1] \in [manual : BOOLEAN, run : 0..1]
    BY <2>1 DEF TaskTyped, NoTaskJob
  <2>4. tasks' \in Seq([manual : BOOLEAN, run : 0..1])
    <3> DEFINE again == [manual |-> taskJob.manual, run |-> 1]
    <3>1. <<again>> \in Seq([manual : BOOLEAN, run : 0..1])
      BY <2>3
    <3>2. tasks' = tasks \/ tasks' = <<again>> \o tasks
      BY <2>1
    <3>3. <<again>> \o tasks \in Seq([manual : BOOLEAN, run : 0..1])
      BY <1>t, <3>1, ConcatProperties
    <3> QED
      BY <1>t, <3>2, <3>3
  <2> QED
    BY <1>c, <2>1, <2>2, <2>4 DEF TaskTyped, Recorded
<1>5. CASE ApiDies
  <2>1. /\ taskUsed' = [taskUsed EXCEPT !.fault = @ + 1] /\ asking' = [a \in Askers |-> NotAsking] /\ taskCalm' = FALSE
        /\ UNCHANGED <<task, scheduler, tasks, taskJob, history>>
    BY <1>5 DEF ApiDies, TaskFault
  <2>2. taskUsed' \in [request : Nat, run : Nat, fault : Nat] /\ taskUsed'.fault # 0
    BY <1>t, <2>1
  <2> QED
    BY <2>1, <2>2 DEF TaskTyped, Recorded, CalmTasks
<1>6. ASSUME NEW status \in {"success", "failed"}, EndTask(status) PROVE TaskInv'
  <2>1. /\ taskJob.pc = "exec" /\ history' = (IF history = <<>> THEN history ELSE <<status>> \o Tail(history))
        /\ taskJob' = [taskJob EXCEPT !.pc = "keep"]
        /\ UNCHANGED <<task, scheduler, asking, tasks, taskUsed, taskCalm>>
    BY <1>6 DEF EndTask
  <2>2. taskJob' \in [pc : {"exec", "keep"}, manual : BOOLEAN, run : 0..1] /\ taskJob'.pc = "keep"
    BY <2>1 DEF TaskTyped, NoTaskJob
  <2>3. /\ history' \in Seq({"running", "success", "failed"}) /\ Len(history') = Len(history)
        /\ \A i \in DOMAIN history' : i \in DOMAIN history /\ (i # 1 => history'[i] = history[i])
        /\ 1 \in DOMAIN history' => history'[1] = status
    <3>1. CASE history = <<>>
      BY <1>t, <2>1, <3>1
    <3>2. CASE history # <<>>
      <4>1. Tail(history) \in Seq({"running", "success", "failed"}) /\ Len(Tail(history)) = Len(history) - 1 /\ Len(history) \in Nat \ {0}
        BY <1>t, <3>2
      <4>2. history' = <<status>> \o Tail(history)
        BY <2>1, <3>2
      <4>3. Len(history') = Len(history) /\ history' \in Seq({"running", "success", "failed"})
        BY <4>1, <4>2
      <4>4. \A i \in DOMAIN history' : i # 1 => history'[i] = history[i]
        BY <1>t, <4>1, <4>2
      <4> QED
        BY <1>t, <4>1, <4>2, <4>3, <4>4
    <3> QED
      BY <3>1, <3>2
  <2>4. TaskTyped'
    BY <2>1, <2>2, <2>3 DEF TaskTyped
  <2>5. Recorded'
    BY <1>t, <2>1, <2>2, <2>3 DEF Recorded
  <2> QED
    BY <1>c, <2>1, <2>4, <2>5
<1> QED
  BY <1>1, <1>2, <1>3, <1>4, <1>5, <1>6

LEMMA StepTasks ==
  ASSUME TaskInv, [TaskNext]_taskVars
  PROVE  TaskInv'
<1> USE DEF TaskInv
<1>1. CASE UNCHANGED taskVars
  BY <1>1 DEF taskVars, TaskTyped, CalmTasks, Follows, NobodyAsks, HasTask, Recorded
<1>2. ASSUME NEW a \in Askers, NEW on \in BOOLEAN, InsertTask(a, on) \/ UpdateTask(a, on) PROVE TaskInv'
  BY <1>2, AskKeepsTasks DEF InsertTask, UpdateTask
<1>3. ASSUME NEW a \in Askers, DeleteTask(a) PROVE TaskInv'
  BY <1>3, AskKeepsTasks DEF DeleteTask
<1>4. ASSUME NEW a \in Askers, ScheduleTask(a) \/ RejectSchedule(a) \/ WriteTask(a) \/ EraseTask(a) PROVE TaskInv'
  <2>1. /\ asking[a].op \in {"create", "write", "erase"} /\ Answered(a) /\ UNCHANGED <<tasks, taskJob, taskCalm>>
        /\ history' = history \/ history' = <<>>
    BY <1>4 DEF ScheduleTask, RejectSchedule, WriteTask, EraseTask
  <2>2. asking[a] # NotAsking /\ asking[a].on \in BOOLEAN
    BY <2>1 DEF TaskTyped, NotAsking
  <2>3. taskUsed \in [request : Nat, run : Nat, fault : Nat] /\ (taskUsed' = taskUsed \/ taskUsed' = [taskUsed EXCEPT !.fault = @ + 1])
    BY <1>4 DEF ScheduleTask, RejectSchedule, WriteTask, EraseTask, TaskFault, TaskTyped
  <2>4. taskUsed' \in [request : Nat, run : Nat, fault : Nat] /\ (taskUsed'.fault = 0 => taskUsed.fault = 0)
    BY <2>3
  <2>5. task' \in {"absent", "enabled", "disabled", "deleted"} /\ scheduler' \in BOOLEAN
    BY <1>4, <2>2 DEF ScheduleTask, RejectSchedule, WriteTask, EraseTask, TaskTyped, Enabled
  <2>6. ASSUME taskCalm PROVE scheduler' <=> task' = "enabled"
    <3>1. Follows(a)
      BY <2>6 DEF CalmTasks
    <3> QED
      BY <1>4, <2>2, <3>1 DEF Follows, ScheduleTask, RejectSchedule, WriteTask, EraseTask, Enabled, HasTask
  <2> QED
    BY <2>1, <2>2, <2>4, <2>5, <2>6, AnswerKeepsTasks
<1>5. ASSUME NEW a \in Askers, Reschedule(a) \/ Unschedule(a) PROVE TaskInv'
  BY <1>5, RescheduleKeepsTasks
<1> QED
  BY <1>1, <1>2, <1>3, <1>4, <1>5, JobsKeepTasks DEF TaskNext

\* An operation on the platform is recorded as it ended and is never left without a job, however requests, polls, deaths
\* of the worker and the update's own restart of it fall; an enabled task has its scheduler and no other one has, and its
\* history is kept (platformOperation.ts, updates.ts, the task routes of applications.ts, scheduledTask.ts).
THEOREM JobsAlwaysHold == AllSpec => []JobsHold
<1> DEFINE Inv == UpdateInv /\ UpdatesSound /\ TaskInv
<1>1. AllInit => Inv
  BY InitUpdates, InitTasks DEF AllInit
<1>2. Inv /\ [AllSteps]_AllVars => Inv'
  BY PanelSteps, StepUpdates, StepTasks
<1>3. Inv => JobsHold
  BY TasksAreSound DEF JobsHold
<1> QED
  BY <1>1, <1>2, <1>3, PTL DEF AllSpec

----------------------------------------------------------------------------
(* Secrets at rest                                                          *)

SecretTyped ==
    /\ stored \in [Secrets -> [key : Nat, val : Nat]]
    /\ ring \in [current : Nat \ {0}, previous : SUBSET Nat]
    /\ keys \in [Processes -> [current : Nat \ {0}, previous : SUBSET Nat]]
    /\ rewrite \in [at : {"off", "select", "rows", "ended"}, todo : SUBSET (Secrets \X Nat), failed : BOOLEAN]
    /\ lastSaved \in [Secrets -> Nat] /\ overtaken \subseteq Secrets

\* The .env file holds every key there was, and no process and no row has another one.
KeysInOrder ==
    /\ ring.previous = 1 .. ring.current - 1
    /\ \A p \in Processes : keys[p].current <= ring.current
    /\ \A s \in Secrets : stored[s].key <= ring.current

\* A row the sweep has neither encrypted nor failed on is still to be written.
SweepIsWhole ==
    /\ rewrite.at = "ended" => rewrite.todo = {}
    /\ rewrite.at \in {"rows", "ended"} /\ ~ rewrite.failed =>
           \A s \in Secrets : isEncrypted(stored[s]) \/ \E t \in rewrite.todo : t[1] = s

\* What the sweep is going to write is what was saved last, unless the row was saved meanwhile.
SweepIsFresh ==
    /\ \A t \in rewrite.todo : t[1] \in overtaken \/ t[2] = lastSaved[t[1]]
    /\ \A s \in Secrets : s \in overtaken \/ stored[s].val = lastSaved[s]

SecretInv == SecretTyped /\ KeysInOrder /\ SweepIsWhole /\ SweepIsFresh

LEMMA InitSecrets == SecretInit => SecretInv
<1> SUFFICES ASSUME SecretInit PROVE SecretInv
  OBVIOUS
<1>1. /\ ring = [current |-> 1, previous |-> {}] /\ \A p \in Processes : keys[p] = ring
      /\ keys \in [Processes -> {ring}]
      /\ \A s \in Secrets : stored[s].key \in {0, 1} /\ stored[s].val = 0 /\ lastSaved[s] = 0
      /\ rewrite.at = "off" /\ rewrite.todo = {}
  BY DEF SecretInit, NoRewrite, Plain
<1>2. SecretTyped
  BY <1>1 DEF SecretInit, NoRewrite, Plain, SecretTyped
<1>3. KeysInOrder
  BY <1>1 DEF KeysInOrder
<1>4. SweepIsWhole /\ SweepIsFresh
  BY <1>1 DEF SweepIsWhole, SweepIsFresh
<1> QED
  BY <1>2, <1>3, <1>4 DEF SecretInv

LEMMA SecretsAreSound == SecretInv => SecretsSound
<1> SUFFICES ASSUME SecretInv PROVE SecretsSound
  OBVIOUS
<1>1. ASSUME NEW p \in Processes, NEW s \in Secrets, keys[p] = ring PROVE Decrypts(keys[p], stored[s])
  <2>1. stored[s].key \in Nat /\ stored[s].key <= ring.current /\ ring.current \in Nat /\ ring.previous = 1 .. ring.current - 1
    BY DEF SecretInv, SecretTyped, KeysInOrder
  <2>2. stored[s].key = 0 \/ stored[s].key = ring.current \/ stored[s].key \in ring.previous
    BY <2>1
  <2> QED
    BY <1>1, <2>2 DEF Decrypts, isEncrypted, keyring, Plain
<1>2. ASSUME rewrite.at = "ended", ~ rewrite.failed, NEW s \in Secrets PROVE isEncrypted(stored[s])
  BY <1>2 DEF SecretInv, SweepIsWhole
<1>3. ASSUME NEW s \in Secrets, stored[s].val # lastSaved[s] PROVE s \in overtaken
  BY <1>3 DEF SecretInv, SweepIsFresh
<1> QED
  BY <1>1, <1>2, <1>3 DEF SecretsSound

\* What the API encrypts has its key.
LEMMA Encrypted ==
  ASSUME SecretInv, NEW v \in Nat
  PROVE  LET c == encryptSecret(keys["api"], v)
         IN  c \in [key : Nat, val : Nat] /\ c.key <= ring.current /\ isEncrypted(c) /\ c.val = v
BY DEF SecretInv, SecretTyped, KeysInOrder, Processes, encryptSecret, isEncrypted, Plain

LEMMA StepSecrets ==
  ASSUME SecretInv, [SecretNext]_secretVars
  PROVE  SecretInv'
<1> USE DEF SecretInv
<1>t. /\ ring.current \in Nat \ {0} /\ ring.previous \in SUBSET Nat
      /\ rewrite.todo \subseteq Secrets \X Nat
      /\ "api" \in Processes /\ "worker" \in Processes
  BY DEF SecretTyped, Processes
<1>1. CASE UNCHANGED <<stored, ring, keys, rewrite, lastSaved, overtaken>>
  BY <1>1 DEF SecretTyped, KeysInOrder, SweepIsWhole, SweepIsFresh, isEncrypted
<1>2. ASSUME NEW s \in Secrets, NEW v \in 1 .. MaxSaves, SaveSecret(s, v) PROVE SecretInv'
  <2> DEFINE c == encryptSecret(keys["api"], v)
  <2>0. v \in Nat
    BY SecretsAssumption
  <2>1. c \in [key : Nat, val : Nat] /\ c.key <= ring.current /\ isEncrypted(c) /\ c.val = v
    BY <2>0, Encrypted
  <2>2. /\ stored' = [stored EXCEPT ![s] = c] /\ lastSaved' = [lastSaved EXCEPT ![s] = v]
        /\ overtaken' = IF \E t \in rewrite.todo : t[1] = s THEN overtaken \cup {s} ELSE overtaken \ {s}
        /\ UNCHANGED <<ring, keys, rewrite>>
    BY <1>2 DEF SaveSecret
  <2> HIDE DEF c
  <2>3. /\ stored'[s] = c /\ lastSaved'[s] = v
        /\ \A x \in Secrets : x # s => stored'[x] = stored[x] /\ lastSaved'[x] = lastSaved[x] /\ (x \in overtaken <=> x \in overtaken')
        /\ (\E t \in rewrite.todo : t[1] = s) => s \in overtaken'
    BY <2>2 DEF SecretTyped
  <2>4. SecretTyped'
    BY <2>0, <2>1, <2>2 DEF SecretTyped
  <2>5. KeysInOrder' /\ SweepIsWhole'
    BY <2>1, <2>2, <2>3 DEF KeysInOrder, SweepIsWhole, isEncrypted
  <2>6. SweepIsFresh'
    <3>1. ASSUME NEW t \in rewrite.todo PROVE t[1] \in overtaken' \/ t[2] = lastSaved'[t[1]]
      <4>1. t[1] \in Secrets
        BY <1>t
      <4>2. CASE t[1] = s
        BY <2>3, <4>2
      <4>3. CASE t[1] # s
        BY <2>3, <4>1, <4>3 DEF SweepIsFresh
      <4> QED
        BY <4>2, <4>3
    <3>2. ASSUME NEW x \in Secrets PROVE x \in overtaken' \/ stored'[x].val = lastSaved'[x]
      BY <2>1, <2>3 DEF SweepIsFresh
    <3> QED
      BY <2>2, <3>1, <3>2 DEF SweepIsFresh
  <2> QED
    BY <2>4, <2>5, <2>6
<1>3. CASE RotateKey
  <2>1. /\ ring' = [current |-> ring.current + 1, previous |-> ring.previous \cup {ring.current}]
        /\ UNCHANGED <<stored, keys, rewrite, lastSaved, overtaken>>
    BY <1>3 DEF RotateKey
  <2>2. /\ ring'.current = ring.current + 1 /\ ring'.previous = ring.previous \cup {ring.current}
        /\ ring' \in [current : Nat \ {0}, previous : SUBSET Nat]
    BY <1>t, <2>1
  <2>3. ring'.previous = 1 .. ring'.current - 1
    BY <1>t, <2>2 DEF KeysInOrder
  <2>4. /\ \A p \in Processes : keys[p].current \in Nat /\ keys[p].current <= ring.current
        /\ \A s \in Secrets : stored[s].key \in Nat /\ stored[s].key <= ring.current
    BY DEF SecretTyped, KeysInOrder
  <2>5. KeysInOrder'
    BY <1>t, <2>1, <2>2, <2>3, <2>4 DEF KeysInOrder
  <2> QED
    BY <2>1, <2>2, <2>5 DEF SecretTyped, SweepIsWhole, SweepIsFresh, isEncrypted
<1>4. CASE RestartWorker \/ RestartApi \/ ApiDiesMidway
  <2>1. /\ keys' = [keys EXCEPT !["worker"] = ring] \/ keys' = [keys EXCEPT !["api"] = ring]
        /\ rewrite' = rewrite \/ rewrite' = [NoRewrite EXCEPT !.at = "select"]
        /\ UNCHANGED <<stored, ring, lastSaved, overtaken>>
    BY <1>4 DEF RestartWorker, RestartApi, ApiDiesMidway, StartsApi
  <2>2. keys' \in [Processes -> [current : Nat \ {0}, previous : SUBSET Nat]] /\ \A p \in Processes : keys'[p] = keys[p] \/ keys'[p] = ring
    BY <1>t, <2>1 DEF SecretTyped
  <2>3. /\ rewrite' \in [at : {"off", "select", "rows", "ended"}, todo : SUBSET (Secrets \X Nat), failed : BOOLEAN]
        /\ rewrite' = rewrite \/ (rewrite'.at = "select" /\ rewrite'.todo = {})
    BY <2>1 DEF SecretTyped, NoRewrite
  <2>4. SecretTyped'
    BY <2>1, <2>2, <2>3 DEF SecretTyped
  <2>5. KeysInOrder'
    BY <1>t, <2>1, <2>2 DEF KeysInOrder
  <2>6. SweepIsWhole' /\ SweepIsFresh'
    BY <2>1, <2>3 DEF SweepIsWhole, SweepIsFresh, isEncrypted
  <2> QED
    BY <2>4, <2>5, <2>6
<1>5. CASE SelectPlain
  <2> DEFINE plain == {<<s, stored[s].val>> : s \in {x \in Secrets : ~isEncrypted(stored[x])}}
  <2>1. rewrite.at = "select" /\ rewrite' = [rewrite EXCEPT !.at = "rows", !.todo = plain] /\ UNCHANGED <<stored, ring, keys, lastSaved, overtaken>>
    BY <1>5 DEF SelectPlain
  <2>2. plain \subseteq Secrets \X Nat
    BY DEF SecretTyped
  <2>3. \A s \in Secrets : isEncrypted(stored[s]) \/ \E t \in plain : t[1] = s
    <3> SUFFICES ASSUME NEW s \in Secrets, ~ isEncrypted(stored[s]) PROVE \E t \in plain : t[1] = s
      OBVIOUS
    <3>1. <<s, stored[s].val>> \in plain /\ <<s, stored[s].val>>[1] = s
      OBVIOUS
    <3> HIDE DEF plain
    <3> QED
      BY <3>1
  <2>4. \A t \in plain : t[1] \in overtaken \/ t[2] = lastSaved[t[1]]
    BY DEF SweepIsFresh
  <2> HIDE DEF plain
  <2>5. rewrite'.at = "rows" /\ rewrite'.todo = plain /\ rewrite' \in [at : {"off", "select", "rows", "ended"}, todo : SUBSET (Secrets \X Nat), failed : BOOLEAN]
    BY <2>1, <2>2 DEF SecretTyped
  <2> QED
    BY <2>1, <2>3, <2>4, <2>5 DEF SecretTyped, KeysInOrder, SweepIsWhole, SweepIsFresh, isEncrypted
<1>6. CASE EndRewrite
  <2>1. rewrite.at = "rows" /\ rewrite.todo = {} /\ rewrite' = [rewrite EXCEPT !.at = "ended"] /\ UNCHANGED <<stored, ring, keys, lastSaved, overtaken>>
    BY <1>6 DEF EndRewrite
  <2>2. /\ rewrite'.at = "ended" /\ rewrite'.todo = rewrite.todo /\ rewrite'.failed = rewrite.failed
        /\ rewrite' \in [at : {"off", "select", "rows", "ended"}, todo : SUBSET (Secrets \X Nat), failed : BOOLEAN]
    BY <2>1 DEF SecretTyped
  <2> QED
    BY <2>1, <2>2 DEF SecretTyped, KeysInOrder, SweepIsWhole, SweepIsFresh, isEncrypted
<1>7. ASSUME NEW t \in rewrite.todo, EncryptRow(t) PROVE SecretInv'
  <2>0. t[1] \in Secrets /\ t[2] \in Nat
    BY <1>t
  <2> DEFINE c == encryptSecret(keys["api"], t[2])
  <2>1. c \in [key : Nat, val : Nat] /\ c.key <= ring.current /\ isEncrypted(c) /\ c.val = t[2]
    BY <2>0, Encrypted
  <2>2. /\ rewrite.at = "rows" /\ rewrite' = [rewrite EXCEPT !.todo = rewrite.todo \ {t}] /\ stored' = [stored EXCEPT ![t[1]] = c]
        /\ UNCHANGED <<ring, keys, lastSaved, overtaken>>
    BY <1>7 DEF EncryptRow
  <2> HIDE DEF c
  <2>3. stored'[t[1]] = c /\ \A x \in Secrets : x # t[1] => stored'[x] = stored[x]
    BY <2>0, <2>2 DEF SecretTyped
  <2>4. /\ rewrite'.at = "rows" /\ rewrite'.todo = rewrite.todo \ {t} /\ rewrite'.failed = rewrite.failed
        /\ rewrite' \in [at : {"off", "select", "rows", "ended"}, todo : SUBSET (Secrets \X Nat), failed : BOOLEAN]
    BY <2>2 DEF SecretTyped
  <2>5. SecretTyped'
    BY <2>0, <2>1, <2>2, <2>4 DEF SecretTyped
  <2>6. KeysInOrder'
    BY <2>1, <2>2, <2>3 DEF KeysInOrder
  <2>7. SweepIsWhole'
    <3> SUFFICES ASSUME ~ rewrite.failed, NEW x \in Secrets, ~ isEncrypted(stored'[x]) PROVE \E l \in rewrite'.todo : l[1] = x
      BY <2>4 DEF SweepIsWhole, isEncrypted
    <3>1. x # t[1] /\ ~ isEncrypted(stored[x])
      BY <2>1, <2>3
    <3>2. PICK l \in rewrite.todo : l[1] = x
      BY <2>2, <3>1 DEF SweepIsWhole
    <3> QED
      BY <2>4, <3>1, <3>2
  <2>8. SweepIsFresh'
    <3>1. ASSUME NEW x \in Secrets PROVE x \in overtaken \/ stored'[x].val = lastSaved[x]
      <4>1. CASE x = t[1]
        BY <2>1, <2>3, <4>1 DEF SweepIsFresh
      <4>2. CASE x # t[1]
        BY <2>3, <4>2 DEF SweepIsFresh
      <4> QED
        BY <4>1, <4>2
    <3> QED
      BY <2>2, <2>4, <3>1 DEF SweepIsFresh
  <2> QED
    BY <2>5, <2>6, <2>7, <2>8
<1>8. ASSUME NEW t \in rewrite.todo, RowFails(t) PROVE SecretInv'
  <2>1. rewrite' = [rewrite EXCEPT !.todo = rewrite.todo \ {t}, !.failed = TRUE] /\ rewrite.at = "rows" /\ UNCHANGED <<stored, ring, keys, lastSaved, overtaken>>
    BY <1>8 DEF RowFails
  <2>2. /\ rewrite'.at = "rows" /\ rewrite'.todo = rewrite.todo \ {t} /\ rewrite'.failed
        /\ rewrite' \in [at : {"off", "select", "rows", "ended"}, todo : SUBSET (Secrets \X Nat), failed : BOOLEAN]
    BY <2>1 DEF SecretTyped
  <2> QED
    BY <2>1, <2>2 DEF SecretTyped, KeysInOrder, SweepIsWhole, SweepIsFresh
<1>9. CASE UNCHANGED secretVars \/ reencryptSecrets
  BY <1>1, <1>9 DEF secretVars, reencryptSecrets
<1> QED
  BY <1>2, <1>3, <1>4, <1>5, <1>6, <1>7, <1>8, <1>9 DEF SecretNext

----------------------------------------------------------------------------
(* Files of a container                                                     *)

Ops == {"list", "read", "save", "upload", "mkdir", "delete"}
Replies == {"none", "ok", "refused", "failed", "unreachable"}
Pasts == [lost : BOOLEAN, wrote : BOOLEAN, replaced : BOOLEAN, tried : BOOLEAN]

FileTyped ==
    /\ disk \in [Paths -> Contents]
    /\ staged \in [FileRequests -> {"none", "empty", "full"}]
    /\ ask \in [FileRequests -> [op : Ops, path : Paths, new : BOOLEAN, at : Steps]]
    /\ reply \in [FileRequests -> Replies]
    /\ past \in [FileRequests -> Pasts]

\* How far a request is, and what it may have done by then.
Orderly(r) ==
    /\ ask[r].at = "idle" => reply[r] = "none" /\ staged[r] = "none" /\ ~ past[r].lost /\ ~ past[r].tried
    /\ ask[r].at \in {"idle", "prepare", "stage", "send", "check", "open"} => ~ past[r].replaced
    /\ ask[r].at \in {"prepare", "stage", "send", "check", "open", "fill"} => Writes(r) /\ ~ writeRefusal(ask[r].path, ask[r].op)
    /\ ask[r].at = "act" => ~ Writes(r) /\ (ask[r].op \in {"mkdir", "delete"} => ~ writeRefusal(ask[r].path, ask[r].op))
    /\ ask[r].at # "done" /\ reply[r] # "none" => past[r].lost
    /\ staged[r] # "none" => ask[r].at \in {"stage", "send", "check", "open", "fill"} \/ past[r].lost
    /\ Writes(r) /\ reply[r] = "ok" /\ ~ past[r].lost => past[r].wrote
    /\ ask[r].new => ~ past[r].replaced

\* Nothing that was there before a request for a new file is there once its guard has passed.
Guarded(r) == ask[r].at = "open" /\ ask[r].new => disk[ask[r].path] # "old"

\* The request that left the file cut short, and the one the socket went with.
Cuts(r) == Writes(r) /\ ask[r].path = "file" /\ (ask[r].at = "fill" \/ reply[r] = "failed" \/ past[r].lost)
Tears(r) == ask[r].op = "delete" /\ ask[r].path = "dir" /\ past[r].tried

FileInv ==
    /\ FileTyped
    /\ \A r \in FileRequests : Orderly(r) /\ Guarded(r)
    /\ disk["file"] = "cut" => \E r \in FileRequests : Cuts(r)
    /\ disk["sock"] # "old" => disk["sock"] = "none" /\ \E r \in FileRequests : Tears(r)

LEMMA InitFiles == FileInit => FileInv
<1> SUFFICES ASSUME FileInit PROVE FileInv
  OBVIOUS
<1>1. FileTyped
  <2>1. NoAsk \in [op : Ops, path : Paths, new : BOOLEAN, at : Steps]
    BY DEF NoAsk, Ops, Paths, Steps
  <2>2. disk \in [Paths -> Contents]
    BY DEF FileInit, Contents
  <2> QED
    BY <2>1, <2>2 DEF FileInit, FileTyped, Replies, Pasts
<1>2. ASSUME NEW r \in FileRequests PROVE Orderly(r) /\ Guarded(r)
  BY DEF FileInit, NoAsk, Orderly, Guarded, Writes
<1>3. disk["file"] = "old" /\ disk["sock"] = "old"
  BY DEF FileInit, Paths
<1> QED
  BY <1>1, <1>2, <1>3 DEF FileInv

LEMMA FilesAreSound == FileInv => FilesSound
<1> SUFFICES ASSUME FileInv PROVE FilesSound
  OBVIOUS
<1>1. ASSUME NEW r \in FileRequests
      PROVE  /\ Finished(r) /\ staged[r] # "none" => past[r].lost
             /\ Writes(r) /\ reply[r] = "ok" /\ ~past[r].lost => past[r].wrote
             /\ ask[r].new => ~past[r].replaced
  BY DEF FileInv, Orderly, Finished
<1>2. disk["file"] = "cut" => \E r \in FileRequests : Writes(r) /\ (ask[r].at = "fill" \/ reply[r] = "failed" \/ past[r].lost)
  BY DEF FileInv, Cuts
<1>3. disk["sock"] # "old" => disk["sock"] = "none" /\ \E r \in FileRequests : ask[r].op = "delete" /\ ask[r].path = "dir" /\ past[r].tried
  BY DEF FileInv, Tears
<1> QED
  BY <1>1, <1>2, <1>3 DEF FilesSound

\* A step of one request that leaves the others alone.
LEMMA OneRequest ==
  ASSUME FileInv, NEW r \in FileRequests, FileTyped', Orderly(r)', Guarded(r)',
         \A x \in FileRequests : x # r => ask'[x] = ask[x] /\ staged'[x] = staged[x] /\ reply'[x] = reply[x] /\ past'[x] = past[x],
         \A p \in Paths : disk'[p] = "old" => disk[p] = "old",
         disk'["file"] = "cut" => disk["file"] = "cut" \/ Cuts(r)',
         Cuts(r) => Cuts(r)' \/ disk'["file"] # "cut",
         disk'["sock"] # disk["sock"] => disk'["sock"] = "none" /\ Tears(r)',
         Tears(r) => Tears(r)'
  PROVE  FileInv'
<1> USE DEF FileInv
<1>1. ASSUME NEW x \in FileRequests, x # r
      PROVE  Orderly(x)' /\ Guarded(x)' /\ (Cuts(x) => Cuts(x)') /\ (Tears(x) => Tears(x)')
  <2>1. ask[x].path \in Paths
    BY DEF FileTyped
  <2> QED
    BY <1>1, <2>1 DEF Orderly, Guarded, Cuts, Tears, Writes
<1>2. \A x \in FileRequests : Orderly(x)' /\ Guarded(x)'
  BY <1>1
<1>3. ASSUME disk'["file"] = "cut" PROVE \E x \in FileRequests : Cuts(x)'
  <2>1. CASE Cuts(r)'
    BY <2>1
  <2>2. CASE ~ Cuts(r)'
    <3>1. PICK x \in FileRequests : Cuts(x)
      BY <1>3, <2>2
    <3>2. x # r
      BY <1>3, <2>2, <3>1
    <3> QED
      BY <1>1, <3>1, <3>2
  <2> QED
    BY <2>1, <2>2
<1>4. ASSUME disk'["sock"] # "old" PROVE disk'["sock"] = "none" /\ \E x \in FileRequests : Tears(x)'
  <2>1. CASE disk'["sock"] # disk["sock"]
    BY <2>1
  <2>2. CASE disk'["sock"] = disk["sock"]
    <3>1. PICK x \in FileRequests : Tears(x)
      BY <1>4, <2>2
    <3> QED
      BY <1>1, <1>4, <2>2, <3>1
  <2> QED
    BY <2>1, <2>2
<1> QED
  BY <1>2, <1>3, <1>4

\* A request that goes on to its next step, and one that is answered.
LEMMA GoesOn ==
  ASSUME FileTyped, NEW r \in FileRequests, NEW at \in Steps, StepsTo(r, at)
  PROVE  /\ ask' \in [FileRequests -> [op : Ops, path : Paths, new : BOOLEAN, at : Steps]]
         /\ ask'[r].op = ask[r].op /\ ask'[r].path = ask[r].path /\ ask'[r].new = ask[r].new /\ ask'[r].at = at
         /\ \A x \in FileRequests : x # r => ask'[x] = ask[x]
BY DEF FileTyped, StepsTo

LEMMA IsAnswered ==
  ASSUME FileTyped, NEW r \in FileRequests, NEW answer \in Replies \ {"none"}, Answers(r, answer)
  PROVE  /\ ask' \in [FileRequests -> [op : Ops, path : Paths, new : BOOLEAN, at : Steps]]
         /\ ask'[r].op = ask[r].op /\ ask'[r].path = ask[r].path /\ ask'[r].new = ask[r].new /\ ask'[r].at = "done"
         /\ \A x \in FileRequests : x # r => ask'[x] = ask[x] /\ reply'[x] = reply[x]
         /\ reply' \in [FileRequests -> Replies] /\ reply'[r] = IF reply[r] = "none" THEN answer ELSE reply[r]
<1>1. "done" \in Steps /\ StepsTo(r, "done")
  BY DEF Answers, Steps
<1>2. reply' \in [FileRequests -> Replies] /\ reply'[r] = (IF reply[r] = "none" THEN answer ELSE reply[r])
      /\ \A x \in FileRequests : x # r => reply'[x] = reply[x]
  BY DEF Answers, FileTyped
<1> QED
  BY <1>1, <1>2, GoesOn

LEMMA IsUnstaged ==
  ASSUME FileTyped, NEW r \in FileRequests, NEW left \in {"none", "empty", "full"}, staged' = [staged EXCEPT ![r] = left]
  PROVE  /\ staged' \in [FileRequests -> {"none", "empty", "full"}] /\ staged'[r] = left
         /\ \A x \in FileRequests : x # r => staged'[x] = staged[x]
BY DEF FileTyped

\* A request comes in, and is let in or refused.
LEMMA EnterKeepsFiles ==
  ASSUME FileInv, NEW r \in FileRequests, NEW op \in Ops, NEW p \in Paths, NEW new \in BOOLEAN, NEW allowed \in BOOLEAN,
         NEW first \in {"prepare", "act"}, Enters(r, op, p, new, allowed, first),
         first = "prepare" <=> op \in {"save", "upload"},
         allowed /\ op \in {"save", "upload", "mkdir", "delete"} => ~ writeRefusal(p, op)
  PROVE  FileInv'
<1> USE DEF FileInv
<1> DEFINE at == IF allowed THEN first ELSE "done"
<1>1. /\ ask[r].at = "idle" /\ ask' = [ask EXCEPT ![r] = [op |-> op, path |-> p, new |-> new, at |-> at]]
      /\ reply' = [reply EXCEPT ![r] = IF allowed THEN @ ELSE "refused"] /\ UNCHANGED <<disk, staged, past>>
  BY DEF Enters, NoFault
<1>2. at \in Steps /\ (allowed => at = first) /\ (~ allowed => at = "done")
  BY DEF Steps
<1> HIDE DEF at
<1>3. /\ ask' \in [FileRequests -> [op : Ops, path : Paths, new : BOOLEAN, at : Steps]]
      /\ ask'[r].op = op /\ ask'[r].path = p /\ ask'[r].new = new /\ ask'[r].at = at
      /\ \A x \in FileRequests : x # r => ask'[x] = ask[x]
  BY <1>1, <1>2 DEF FileTyped
<1>4. /\ reply' \in [FileRequests -> Replies] /\ reply'[r] = (IF allowed THEN reply[r] ELSE "refused")
      /\ \A x \in FileRequests : x # r => reply'[x] = reply[x]
  BY <1>1 DEF FileTyped, Replies
<1>5. FileTyped'
  BY <1>1, <1>3, <1>4 DEF FileTyped
<1>6. reply[r] = "none" /\ staged[r] = "none" /\ ~ past[r].lost /\ ~ past[r].replaced
  BY <1>1 DEF Orderly
<1>7. Orderly(r)'
  BY <1>1, <1>2, <1>3, <1>4, <1>6 DEF Orderly, Writes
<1>8. Guarded(r)' /\ ~ Cuts(r) /\ ~ Tears(r)
  BY <1>1, <1>2, <1>3, <1>6 DEF Orderly, Guarded, Cuts, Tears
<1> QED
  BY <1>1, <1>3, <1>4, <1>5, <1>7, <1>8, OneRequest

LEMMA AsksKeepFiles ==
  ASSUME FileInv, NEW r \in FileRequests, FileAsks(r)
  PROVE  FileInv'
<1>1. PICK p \in Paths, flag \in BOOLEAN, fits \in BOOLEAN, enabled \in BOOLEAN :
         \/ AskSave(r, p, flag, fits, enabled) \/ AskUpload(r, p, flag, fits, enabled)
         \/ AskMkdir(r, p, enabled) \/ AskList(r, p) \/ AskRead(r, p)
         \/ \E confirm \in {p, "root"} : AskDelete(r, p, confirm, enabled)
  BY DEF FileAsks
<1>2. ASSUME NEW op \in {"save", "upload"}, NEW new \in BOOLEAN, Enters(r, op, p, new, writeGate(op, p, enabled) /\ fits, "prepare")
      PROVE  FileInv'
  <2>1. (writeGate(op, p, enabled) /\ fits) \in BOOLEAN /\ (writeGate(op, p, enabled) /\ fits => ~ writeRefusal(p, op))
    BY DEF writeGate
  <2> QED
    BY <1>2, <2>1, EnterKeepsFiles DEF Ops
<1>3. ASSUME NEW op \in {"mkdir", "delete"}, NEW given \in BOOLEAN, Enters(r, op, p, FALSE, writeGate(op, p, enabled) /\ given, "act")
      PROVE  FileInv'
  <2>1. (writeGate(op, p, enabled) /\ given) \in BOOLEAN /\ (writeGate(op, p, enabled) /\ given => ~ writeRefusal(p, op))
    BY DEF writeGate
  <2> QED
    BY <1>3, <2>1, EnterKeepsFiles DEF Ops
<1>4. CASE AskSave(r, p, flag, fits, enabled)
  BY <1>2, <1>4 DEF AskSave
<1>5. CASE AskUpload(r, p, flag, fits, enabled)
  BY <1>2, <1>5 DEF AskUpload
<1>6. CASE AskMkdir(r, p, enabled)
  <2>1. Enters(r, "mkdir", p, FALSE, writeGate("mkdir", p, enabled) /\ TRUE, "act")
    BY <1>6 DEF AskMkdir, Enters
  <2> QED
    BY <1>3, <2>1
<1>7. CASE AskList(r, p) \/ AskRead(r, p)
  BY <1>7, EnterKeepsFiles DEF AskList, AskRead, Ops
<1>8. CASE \E confirm \in {p, "root"} : AskDelete(r, p, confirm, enabled)
  <2>1. PICK confirm \in {p, "root"} : AskDelete(r, p, confirm, enabled)
    BY <1>8
  <2>2. confirmsDelete(p, confirm) \in BOOLEAN
    BY DEF confirmsDelete
  <2> QED
    BY <1>3, <2>1, <2>2 DEF AskDelete
<1> QED
  BY <1>1, <1>4, <1>5, <1>6, <1>7, <1>8

\* What a step has to say of the request it is about, when the container's files stay as they are.
LEMMA OneRequestOnly ==
  ASSUME FileInv, NEW r \in FileRequests, FileTyped', Orderly(r)', Guarded(r)', UNCHANGED disk,
         \A x \in FileRequests : x # r => ask'[x] = ask[x] /\ staged'[x] = staged[x] /\ reply'[x] = reply[x] /\ past'[x] = past[x],
         Cuts(r) => Cuts(r)', ask'[r].op = ask[r].op, ask'[r].path = ask[r].path, past'[r].tried = past[r].tried
  PROVE  FileInv'
BY OneRequest DEF Tears

\* The steps of a write up to its guard, and its failures: the files stay.
LEMMA StagingKeepsFiles ==
  ASSUME FileInv, NEW r \in FileRequests,
         prepareStaging(r) \/ writeRemoteFile(r) \/ StagingFails(r) \/ resolveContainer(r) \/ GuardWrite(r) \/ WriteCut(r)
  PROVE  FileInv'
<1> USE DEF FileInv
<1>t. FileTyped /\ {"stage", "send", "check", "open"} \subseteq Steps /\ {"refused", "failed", "unreachable"} \subseteq Replies \ {"none"}
      /\ ask[r].op \in Ops /\ ask[r].path \in Paths /\ ask[r].new \in BOOLEAN
  BY DEF FileTyped, Steps, Replies
<1>w. /\ Writes(r) /\ ~ writeRefusal(ask[r].path, ask[r].op)
      /\ ask[r].at \in {"prepare", "stage", "send", "check", "open", "fill"} /\ (reply[r] # "none" => past[r].lost)
      /\ (ask[r].new => ~ past[r].replaced) /\ (ask[r].at # "fill" => ~ past[r].replaced)
      /\ UNCHANGED <<disk, past>>
  BY DEF prepareStaging, writeRemoteFile, StagingFails, resolveContainer, GuardWrite, WriteCut, NoFault, Orderly
<1>1. ASSUME NEW at \in {"stage", "send", "check", "open"}, NEW left \in {"none", "empty", "full"}, StepsTo(r, at), UNCHANGED reply,
             ask[r].at # "fill", staged' = [staged EXCEPT ![r] = left], at = "open" => ~ GuardRefuses(r)
      PROVE  FileInv'
  <2>1. /\ ask' \in [FileRequests -> [op : Ops, path : Paths, new : BOOLEAN, at : Steps]]
        /\ ask'[r].op = ask[r].op /\ ask'[r].path = ask[r].path /\ ask'[r].new = ask[r].new /\ ask'[r].at = at
        /\ \A x \in FileRequests : x # r => ask'[x] = ask[x]
    BY <1>1, <1>t, GoesOn
  <2>2. /\ staged' \in [FileRequests -> {"none", "empty", "full"}] /\ staged'[r] = left
        /\ \A x \in FileRequests : x # r => staged'[x] = staged[x]
    BY <1>1, <1>t, IsUnstaged
  <2>3. FileTyped'
    BY <1>1, <1>w, <2>1, <2>2 DEF FileTyped
  <2>4. Orderly(r)'
    BY <1>1, <1>w, <2>1, <2>2 DEF Orderly, Writes
  <2>5. Guarded(r)'
    BY <1>1, <1>w, <2>1 DEF Guarded, GuardRefuses
  <2>5a. disk[ask[r].path] = "old" /\ ask[r].new => GuardRefuses(r)
    BY DEF GuardRefuses
  <2>6. Cuts(r) => Cuts(r)'
    BY <1>1, <1>w, <2>1 DEF Cuts, Writes
  <2> QED
    BY <1>1, <1>w, <2>1, <2>2, <2>3, <2>4, <2>5, <2>6, OneRequestOnly
<1>2. ASSUME NEW answer \in {"refused", "failed", "unreachable"}, Answers(r, answer), Unstage(r), ask[r].at = "fill" => answer = "failed"
      PROVE  FileInv'
  <2>1. /\ ask' \in [FileRequests -> [op : Ops, path : Paths, new : BOOLEAN, at : Steps]]
        /\ ask'[r].op = ask[r].op /\ ask'[r].path = ask[r].path /\ ask'[r].new = ask[r].new /\ ask'[r].at = "done"
        /\ \A x \in FileRequests : x # r => ask'[x] = ask[x] /\ reply'[x] = reply[x]
        /\ reply' \in [FileRequests -> Replies] /\ reply'[r] = IF reply[r] = "none" THEN answer ELSE reply[r]
    BY <1>2, <1>t, IsAnswered
  <2>2. /\ staged' \in [FileRequests -> {"none", "empty", "full"}] /\ staged'[r] = "none"
        /\ \A x \in FileRequests : x # r => staged'[x] = staged[x]
    BY <1>2, <1>t, IsUnstaged DEF Unstage
  <2>3. FileTyped'
    BY <1>w, <2>1, <2>2 DEF FileTyped
  <2>4. Orderly(r)'
    BY <1>w, <2>1, <2>2 DEF Orderly, Writes
  <2>5. Guarded(r)'
    BY <2>1 DEF Guarded
  <2>6. Cuts(r) => Cuts(r)'
    BY <1>2, <1>w, <2>1 DEF Cuts, Writes
  <2> QED
    BY <1>w, <2>1, <2>2, <2>3, <2>4, <2>5, <2>6, OneRequestOnly
<1>s. ASSUME UNCHANGED staged PROVE \E left \in {"none", "empty", "full"} : staged' = [staged EXCEPT ![r] = left]
  <2>1. staged[r] \in {"none", "empty", "full"} /\ staged' = [staged EXCEPT ![r] = staged[r]]
    BY <1>s, <1>t DEF FileTyped
  <2> QED
    BY <2>1
<1>3. CASE prepareStaging(r) \/ writeRemoteFile(r)
  BY <1>1, <1>3 DEF prepareStaging, writeRemoteFile
<1>4. CASE StagingFails(r)
  BY <1>2, <1>4 DEF StagingFails, Unstage
<1>5. CASE resolveContainer(r)
  BY <1>1, <1>2, <1>5, <1>s DEF resolveContainer
<1>6. CASE GuardWrite(r)
  BY <1>1, <1>2, <1>6, <1>s DEF GuardWrite
<1>7. CASE WriteCut(r)
  BY <1>2, <1>7 DEF WriteCut
<1> QED
  BY <1>3, <1>4, <1>5, <1>6, <1>7

\* The steps that write to a file.
LEMMA WritingKeepsFiles ==
  ASSUME FileInv, NEW r \in FileRequests, OpenFile(r) \/ FillFile(r)
  PROVE  FileInv'
<1> USE DEF FileInv
<1> DEFINE p == ask[r].path
<1>t. FileTyped /\ "fill" \in Steps /\ {"ok", "failed"} \subseteq Replies \ {"none"}
      /\ ask[r].op \in Ops /\ p \in Paths /\ ask[r].new \in BOOLEAN /\ {"sock", "file"} \subseteq Paths
  BY DEF FileTyped, Steps, Replies, Paths
<1>w. /\ Writes(r) /\ p # "sock" /\ p # "root"
      /\ ask[r].at \in {"open", "fill"} /\ (reply[r] # "none" => past[r].lost)
      /\ (ask[r].new => ~ past[r].replaced) /\ (ask[r].at = "open" => ~ past[r].replaced)
      /\ ~ Tears(r) /\ ask[r].op # "delete"
  BY DEF OpenFile, FillFile, Orderly, writeRefusal, Tears, Writes
<1>1. CASE OpenFile(r) /\ disk[FolderOf(p)] = "dir" /\ disk[p] # "dir"
  <2>1. /\ ask[r].at = "open" /\ disk' = [disk EXCEPT ![p] = "cut"] /\ StepsTo(r, "fill")
        /\ past' = [past EXCEPT ![r].replaced = (disk[p] = "old")] /\ UNCHANGED <<staged, reply>>
    BY <1>1 DEF OpenFile
  <2>2. /\ ask' \in [FileRequests -> [op : Ops, path : Paths, new : BOOLEAN, at : Steps]]
        /\ ask'[r].op = ask[r].op /\ ask'[r].path = p /\ ask'[r].new = ask[r].new /\ ask'[r].at = "fill"
        /\ \A x \in FileRequests : x # r => ask'[x] = ask[x]
    BY <1>t, <2>1, GoesOn
  <2>3. /\ past' \in [FileRequests -> Pasts] /\ past'[r].replaced = (disk[p] = "old") /\ past'[r].lost = past[r].lost
        /\ past'[r].wrote = past[r].wrote /\ \A x \in FileRequests : x # r => past'[x] = past[x]
    BY <1>t, <2>1, ZenonT(60) DEF FileTyped, Pasts
  <2>4. disk' \in [Paths -> Contents] /\ disk'[p] = "cut" /\ \A q \in Paths : q # p => disk'[q] = disk[q]
    BY <1>t, <2>1 DEF FileTyped, Contents
  <2>5. FileTyped'
    BY <2>1, <2>2, <2>3, <2>4 DEF FileTyped
  <2>6. ask[r].new => disk[p] # "old"
    BY <2>1 DEF Guarded
  <2>7. Orderly(r)' /\ Guarded(r)'
    BY <1>w, <2>1, <2>2, <2>3, <2>6 DEF Orderly, Guarded, Writes
  <2>8. Cuts(r)' <=> p = "file"
    BY <1>w, <2>2 DEF Cuts, Writes
  <2>9. /\ \A q \in Paths : disk'[q] = "old" => disk[q] = "old"
        /\ disk'["file"] = "cut" => disk["file"] = "cut" \/ Cuts(r)'
        /\ Cuts(r) => Cuts(r)'
        /\ disk'["sock"] = disk["sock"]
    BY <1>t, <1>w, <2>4, <2>8 DEF Cuts
  <2> QED
    BY <1>w, <2>1, <2>2, <2>3, <2>5, <2>7, <2>9, OneRequest
<1>2. CASE OpenFile(r) /\ ~ (disk[FolderOf(p)] = "dir" /\ disk[p] # "dir")
  <2>1. ask[r].at = "open" /\ Answers(r, "failed") /\ staged' = [staged EXCEPT ![r] = "none"] /\ UNCHANGED <<disk, past>>
    BY <1>2 DEF OpenFile, Unstage
  <2>2. /\ ask' \in [FileRequests -> [op : Ops, path : Paths, new : BOOLEAN, at : Steps]]
        /\ ask'[r].op = ask[r].op /\ ask'[r].path = ask[r].path /\ ask'[r].new = ask[r].new /\ ask'[r].at = "done"
        /\ \A x \in FileRequests : x # r => ask'[x] = ask[x] /\ reply'[x] = reply[x]
        /\ reply' \in [FileRequests -> Replies] /\ reply'[r] = IF reply[r] = "none" THEN "failed" ELSE reply[r]
    BY <1>t, <2>1, IsAnswered
  <2>3. /\ staged' \in [FileRequests -> {"none", "empty", "full"}] /\ staged'[r] = "none"
        /\ \A x \in FileRequests : x # r => staged'[x] = staged[x]
    BY <1>t, <2>1, IsUnstaged
  <2>4. FileTyped'
    BY <2>1, <2>2, <2>3 DEF FileTyped
  <2>5. Orderly(r)' /\ Guarded(r)' /\ (Cuts(r) => Cuts(r)')
    BY <1>w, <2>1, <2>2, <2>3 DEF Orderly, Guarded, Writes, Cuts
  <2> QED
    BY <2>1, <2>2, <2>3, <2>4, <2>5, OneRequestOnly
<1>3. CASE FillFile(r)
  <2>1. /\ ask[r].at = "fill" /\ Answers(r, "ok") /\ staged' = [staged EXCEPT ![r] = "none"] /\ past' = [past EXCEPT ![r].wrote = TRUE]
        /\ disk' = IF disk[p] \in {"none", "dir"} THEN disk ELSE [disk EXCEPT ![p] = r]
    BY <1>3 DEF FillFile, Unstage
  <2>2. /\ ask' \in [FileRequests -> [op : Ops, path : Paths, new : BOOLEAN, at : Steps]]
        /\ ask'[r].op = ask[r].op /\ ask'[r].path = p /\ ask'[r].new = ask[r].new /\ ask'[r].at = "done"
        /\ \A x \in FileRequests : x # r => ask'[x] = ask[x] /\ reply'[x] = reply[x]
        /\ reply' \in [FileRequests -> Replies] /\ reply'[r] = IF reply[r] = "none" THEN "ok" ELSE reply[r]
    BY <1>t, <2>1, IsAnswered
  <2>3. /\ staged' \in [FileRequests -> {"none", "empty", "full"}] /\ staged'[r] = "none"
        /\ \A x \in FileRequests : x # r => staged'[x] = staged[x]
    BY <1>t, <2>1, IsUnstaged
  <2>4. /\ past' \in [FileRequests -> Pasts] /\ past'[r].replaced = past[r].replaced /\ past'[r].lost = past[r].lost
        /\ past'[r].wrote = TRUE /\ \A x \in FileRequests : x # r => past'[x] = past[x]
    BY <1>t, <2>1 DEF FileTyped, Pasts
  <2>5. r # "old" /\ r # "cut" /\ r \in Contents
    BY FileAssumption DEF Contents
  <2>6. /\ disk' \in [Paths -> Contents] /\ \A q \in Paths : disk'[q] = disk[q] \/ (q = p /\ disk'[q] = r)
        /\ disk'[p] # "cut"
    BY <1>t, <2>1, <2>5 DEF FileTyped
  <2>7. FileTyped'
    BY <2>2, <2>3, <2>4, <2>6 DEF FileTyped
  <2>8. Orderly(r)' /\ Guarded(r)'
    BY <1>w, <2>1, <2>2, <2>3, <2>4 DEF Orderly, Guarded, Writes
  <2>9. /\ \A q \in Paths : disk'[q] = "old" => disk[q] = "old"
        /\ disk'["file"] = "cut" => disk["file"] = "cut"
        /\ Cuts(r) => disk'["file"] # "cut"
        /\ disk'["sock"] = disk["sock"]
    BY <1>t, <1>w, <2>5, <2>6 DEF Cuts
  <2> QED
    BY <1>w, <2>2, <2>3, <2>4, <2>7, <2>8, <2>9, OneRequest
<1> QED
  BY <1>1, <1>2, <1>3

\* The commands that need no staging.
LEMMA CommandsKeepFiles ==
  ASSUME FileInv, NEW r \in FileRequests, execBuffered(r) \/ CommandFails(r)
  PROVE  FileInv'
<1> USE DEF FileInv
<1> DEFINE p == ask[r].path
<1>t. FileTyped /\ {"ok", "failed"} \subseteq Replies \ {"none"} /\ ask[r].op \in Ops /\ p \in Paths /\ {"sock", "file"} \subseteq Paths
  BY DEF FileTyped, Replies, Paths
<1>w. /\ ask[r].at = "act" /\ ~ Writes(r) /\ (ask[r].op \in {"mkdir", "delete"} => ~ writeRefusal(p, ask[r].op))
      /\ (reply[r] # "none" => past[r].lost) /\ (ask[r].new => ~ past[r].replaced) /\ (staged[r] # "none" => past[r].lost)
      /\ ~ Cuts(r) /\ UNCHANGED staged
  BY DEF execBuffered, CommandFails, Orderly, Cuts
<1>1. CASE CommandFails(r)
  <2>1. Answers(r, "failed") /\ UNCHANGED <<disk, past>>
    BY <1>1 DEF CommandFails, NoFault
  <2>2. /\ ask' \in [FileRequests -> [op : Ops, path : Paths, new : BOOLEAN, at : Steps]]
        /\ ask'[r].op = ask[r].op /\ ask'[r].path = ask[r].path /\ ask'[r].new = ask[r].new /\ ask'[r].at = "done"
        /\ \A x \in FileRequests : x # r => ask'[x] = ask[x] /\ reply'[x] = reply[x]
        /\ reply' \in [FileRequests -> Replies] /\ reply'[r] = IF reply[r] = "none" THEN "failed" ELSE reply[r]
    BY <1>t, <2>1, IsAnswered
  <2>3. FileTyped'
    BY <1>w, <2>1, <2>2 DEF FileTyped
  <2>4. Orderly(r)' /\ Guarded(r)'
    BY <1>w, <2>1, <2>2 DEF Orderly, Guarded, Writes
  <2> QED
    BY <1>w, <2>1, <2>2, <2>3, <2>4, OneRequestOnly
<1>2. CASE execBuffered(r)
  <2>1. Answers(r, "ok") /\ past' = [past EXCEPT ![r].tried = TRUE] /\ Command(r)
    BY <1>2 DEF execBuffered
  <2>2. /\ ask' \in [FileRequests -> [op : Ops, path : Paths, new : BOOLEAN, at : Steps]]
        /\ ask'[r].op = ask[r].op /\ ask'[r].path = ask[r].path /\ ask'[r].new = ask[r].new /\ ask'[r].at = "done"
        /\ \A x \in FileRequests : x # r => ask'[x] = ask[x] /\ reply'[x] = reply[x]
        /\ reply' \in [FileRequests -> Replies] /\ reply'[r] = IF reply[r] = "none" THEN "ok" ELSE reply[r]
    BY <1>t, <2>1, IsAnswered
  <2>3. /\ past' \in [FileRequests -> Pasts] /\ past'[r].replaced = past[r].replaced /\ past'[r].lost = past[r].lost
        /\ past'[r].tried /\ \A x \in FileRequests : x # r => past'[x] = past[x]
    BY <1>t, <2>1 DEF FileTyped, Pasts
  <2>4. /\ disk' \in [Paths -> Contents]
        /\ \A q \in Paths : disk'[q] = "old" => disk[q] = "old"
        /\ disk'["file"] = "cut" => disk["file"] = "cut"
        /\ disk'["sock"] # disk["sock"] => disk'["sock"] = "none" /\ ask[r].op = "delete" /\ p = "dir"
    <3>0. disk \in [Paths -> Contents] /\ {"none", "dir"} \subseteq Contents
      BY <1>t DEF FileTyped, Contents
    <3>1. CASE ask[r].op \in {"list", "read"}
      BY <2>1, <3>0, <3>1 DEF Command, listDir, readFile
    <3>2. CASE ask[r].op = "mkdir"
      <4>1. disk' = [disk EXCEPT ![p] = "dir"] /\ p # "sock"
        BY <1>w, <2>1, <3>2 DEF Command, makeDir, writeRefusal
      <4> QED
        BY <1>t, <3>0, <4>1
    <3>3. CASE ask[r].op = "delete"
      <4>1. /\ disk' = [q \in Paths |-> IF Under(q, p) THEN "none" ELSE disk[q]]
            /\ p \notin {"root", "pseudo", "sock", "top"}
        BY <1>w, <2>1, <3>3 DEF Command, deleteTree, writeRefusal
      <4>2. p \in {"dir", "file"}
        BY <1>t, <4>1 DEF Paths
      <4>3. Under("sock", p) => p = "dir"
        BY <4>2 DEF Under, FolderOf
      <4> QED
        BY <1>t, <3>0, <3>3, <4>1, <4>3
    <3> QED
      BY <1>t, <1>w, <3>1, <3>2, <3>3 DEF Ops, Writes
  <2>5. FileTyped'
    BY <1>w, <2>2, <2>3, <2>4 DEF FileTyped
  <2>6. Orderly(r)' /\ Guarded(r)'
    BY <1>w, <2>2, <2>3 DEF Orderly, Guarded, Writes
  <2>7. (Tears(r) => Tears(r)') /\ (ask[r].op = "delete" /\ p = "dir" => Tears(r)')
    BY <2>2, <2>3 DEF Tears
  <2> QED
    BY <1>w, <2>2, <2>3, <2>4, <2>5, <2>6, <2>7, OneRequest
<1> QED
  BY <1>1, <1>2

\* Lost connections.
LEMMA LossKeepsFiles ==
  ASSUME FileInv, NEW r \in FileRequests, LostWhileStaging(r) \/ LostUnderCommand(r)
  PROVE  FileInv'
<1> USE DEF FileInv
<1>t. FileTyped /\ "unreachable" \in Replies \ {"none"} /\ ask[r].op \in Ops /\ ask[r].path \in Paths
  BY DEF FileTyped, Replies
<1>1. past' = [past EXCEPT ![r].lost = TRUE] /\ UNCHANGED <<disk, staged>> /\ ask[r].at \in {"prepare", "stage", "send", "check", "open", "fill", "act"}
  BY DEF LostWhileStaging, LostUnderCommand
<1>2. /\ past' \in [FileRequests -> Pasts] /\ past'[r].replaced = past[r].replaced /\ past'[r].lost
      /\ past'[r].tried = past[r].tried /\ \A x \in FileRequests : x # r => past'[x] = past[x]
  BY <1>t, <1>1 DEF FileTyped, Pasts
<1>3. CASE LostWhileStaging(r)
  <2>1. ask[r].at \in {"prepare", "stage", "send"} /\ Answers(r, "unreachable")
    BY <1>3 DEF LostWhileStaging
  <2>2. /\ ask' \in [FileRequests -> [op : Ops, path : Paths, new : BOOLEAN, at : Steps]]
        /\ ask'[r].op = ask[r].op /\ ask'[r].path = ask[r].path /\ ask'[r].new = ask[r].new /\ ask'[r].at = "done"
        /\ \A x \in FileRequests : x # r => ask'[x] = ask[x] /\ reply'[x] = reply[x]
        /\ reply' \in [FileRequests -> Replies] /\ reply'[r] = IF reply[r] = "none" THEN "unreachable" ELSE reply[r]
    BY <1>t, <2>1, IsAnswered
  <2>3. FileTyped'
    BY <1>1, <1>2, <2>2 DEF FileTyped
  <2>4. Orderly(r)' /\ Guarded(r)' /\ (Cuts(r) => Cuts(r)')
    BY <1>1, <1>2, <2>1, <2>2 DEF Orderly, Guarded, Writes, Cuts
  <2> QED
    BY <1>1, <1>2, <2>2, <2>3, <2>4, OneRequestOnly
<1>4. CASE LostUnderCommand(r)
  <2>1. ask[r].at \in {"check", "open", "fill", "act"} /\ reply' = [reply EXCEPT ![r] = "ok"] /\ UNCHANGED ask
    BY <1>4 DEF LostUnderCommand
  <2>2. reply' \in [FileRequests -> Replies] /\ \A x \in FileRequests : x # r => reply'[x] = reply[x]
    BY <1>t, <2>1 DEF FileTyped, Replies
  <2>3. FileTyped'
    BY <1>1, <1>2, <2>1, <2>2 DEF FileTyped
  <2>4. Orderly(r)' /\ Guarded(r)' /\ (Cuts(r) => Cuts(r)')
    BY <1>1, <1>2, <2>1 DEF Orderly, Guarded, Writes, Cuts
  <2> QED
    BY <1>1, <1>2, <2>1, <2>2, <2>3, <2>4, OneRequestOnly
<1> QED
  BY <1>3, <1>4

LEMMA StepFiles ==
  ASSUME FileInv, [FileNext]_fileVars
  PROVE  FileInv'
<1>1. CASE UNCHANGED fileVars \/ ContainerToggles
  BY <1>1 DEF fileVars, ContainerToggles, FileInv, FileTyped, Orderly, Guarded, Cuts, Tears, Writes
<1> QED
  BY <1>1, AsksKeepFiles, StagingKeepsFiles, WritingKeepsFiles, CommandsKeepFiles, LossKeepsFiles DEF FileNext

\* However requests, stops of the container and lost connections fall, files in a container are written whole or the
\* failure is told, staged content does not stay behind, a new file replaces nothing; and over any number of rotations,
\* restarts and sweeps every secret is read back with the keys at hand (fileWrite.ts, encryption.ts, encryptExisting.ts).
THEOREM StoredDataAlwaysHolds == AllSpec => []StoredDataHolds
<1> DEFINE Inv == FileInv /\ SecretInv
<1>1. AllInit => Inv
  BY InitFiles, InitSecrets DEF AllInit
<1>2. Inv /\ [AllSteps]_AllVars => Inv'
  BY PanelSteps, StepFiles, StepSecrets
<1>3. Inv => StoredDataHolds
  BY FilesAreSound, SecretsAreSound DEF StoredDataHolds
<1> QED
  BY <1>1, <1>2, <1>3, PTL DEF AllSpec

----------------------------------------------------------------------------
(* The realtime relay                                                       *)

TeamNames == {TeamOf[x] : x \in Logins}
OpenSockets == [pc : {"upgrade", "open"}, login : Logins, teams : SUBSET TeamNames, doomed : BOOLEAN]
Events == [of : Resources, n : Nat]

RelayTyped ==
    /\ sock \in [Sockets -> {ClosedSocket} \cup OpenSockets]
    /\ pass \in [on : BOOLEAN, todo : SUBSET Sockets]
    /\ pending \subseteq Events /\ cache \subseteq Resources
    /\ got \in [Sockets -> Seq(Events)]
    /\ connUsed \in [events : Nat, faults : Nat, overlap : BOOLEAN]

\* An open socket has the team of its user, and no other one has been sent anything.
SocketOfTeam(w) ==
    /\ sock[w].pc = "open" => sock[w].teams = {TeamOf[sock[w].login]}
    /\ sock[w].pc # "open" => got[w] = <<>>
    /\ \A i \in DOMAIN got[w] : TeamOf[got[w][i].of] = TeamOf[sock[w].login]

\* A socket whose session had ended when the pass began is still before that pass.
DoomedIsNext(w) ==
    sock[w].doomed => pass.on /\ w \in pass.todo /\ sock[w].pc = "open" /\ sock[w].login \notin live

RelayInv == RelayTyped /\ \A w \in Sockets : SocketOfTeam(w) /\ DoomedIsNext(w)

LEMMA InitRelay == ConnInit => RelayInv
<1> SUFFICES ASSUME ConnInit PROVE RelayInv
  OBVIOUS
<1>1. <<>> \in Seq(Events)
  OBVIOUS
<1>2. RelayTyped
  BY <1>1 DEF ConnInit, NoPass, RelayTyped
<1>3. ASSUME NEW w \in Sockets PROVE SocketOfTeam(w) /\ DoomedIsNext(w)
  <2>1. sock[w].pc = "closed" /\ ~ sock[w].doomed /\ got[w] = <<>> /\ DOMAIN <<>> = {}
    BY DEF ConnInit, ClosedSocket
  <2> QED
    BY <2>1 DEF SocketOfTeam, DoomedIsNext
<1> QED
  BY <1>2, <1>3 DEF RelayInv

LEMMA RelayIsSound == RelayInv => EventsStayInTeam /\ RevokedIsDropped
BY DEF RelayInv, SocketOfTeam, DoomedIsNext, EventsStayInTeam, RevokedIsDropped

\* Nothing is relayed, and no socket is looked at: sessions that end, terminals, and what is cached or awaited.
LEMMA ElsewhereKeepsRelay ==
  ASSUME RelayInv, UNCHANGED <<sock, pass, got>>, live' \subseteq live, pending' \subseteq Events, cache' \subseteq Resources,
         connUsed' \in [events : Nat, faults : Nat, overlap : BOOLEAN]
  PROVE  RelayInv'
BY DEF RelayInv, RelayTyped, SocketOfTeam, DoomedIsNext

\* Sending an event keeps it in the team.
LEMMA SendsToTeam ==
  ASSUME RelayInv, NEW event \in Events, NEW known \in BOOLEAN, Sends(event, known), UNCHANGED <<sock, pass, live>>,
         pending' \subseteq Events, cache' \subseteq Resources, connUsed' \in [events : Nat, faults : Nat, overlap : BOOLEAN]
  PROVE  RelayInv'
<1> USE DEF RelayInv
<1>1. \A w \in Sockets : got[w] \in Seq(Events)
  BY DEF RelayTyped
<1>2. ASSUME NEW w \in Sockets
      PROVE  got'[w] \in Seq(Events) /\ SocketOfTeam(w)'
  <2>1. CASE sock[w].pc = "open" /\ canReceive(event, known, w)
    <3>1. got'[w] = Append(got[w], event)
      BY <2>1 DEF Sends
    <3>2. TeamOf[event.of] = TeamOf[sock[w].login]
      BY <2>1 DEF canReceive, SocketOfTeam
    <3>3. got'[w] \in Seq(Events)
      BY <1>1, <3>1, AppendProperties
    <3>4. ASSUME NEW i \in DOMAIN got'[w] PROVE TeamOf[got'[w][i].of] = TeamOf[sock[w].login]
      <4>1. CASE i = Len(got[w]) + 1
        BY <1>1, <3>1, <3>2, <4>1, AppendProperties
      <4>2. CASE i # Len(got[w]) + 1
        <5>1. i \in DOMAIN got[w] /\ got'[w][i] = got[w][i]
          BY <1>1, <3>1, <4>2, AppendProperties
        <5> QED
          BY <5>1 DEF SocketOfTeam
      <4> QED
        BY <4>1, <4>2
    <3> QED
      BY <2>1, <3>3, <3>4 DEF SocketOfTeam
  <2>2. CASE ~ (sock[w].pc = "open" /\ canReceive(event, known, w))
    <3>1. got'[w] = got[w]
      BY <2>2 DEF Sends
    <3> QED
      BY <1>1, <3>1 DEF SocketOfTeam
  <2> QED
    BY <2>1, <2>2
<1>3. got' \in [Sockets -> Seq(Events)]
  BY <1>2 DEF Sends
<1>4. \A w \in Sockets : DoomedIsNext(w)'
  BY DEF DoomedIsNext
<1> QED
  BY <1>2, <1>3, <1>4 DEF RelayTyped

\* A step about one socket.
LEMMA OneSocket ==
  ASSUME RelayInv, NEW w \in Sockets, sock' \in [Sockets -> {ClosedSocket} \cup OpenSockets], SocketOfTeam(w)', ~ sock'[w].doomed,
         \A x \in Sockets : x # w => sock'[x] = sock[x] /\ got'[x] = got[x],
         got' = got \/ got' = [got EXCEPT ![w] = <<>>],
         pass' = pass \/ pass' = [pass EXCEPT !.todo = pass.todo \ {w}],
         UNCHANGED <<live, pending, cache>>, connUsed' \in [events : Nat, faults : Nat, overlap : BOOLEAN]
  PROVE  RelayInv'
<1> USE DEF RelayInv
<1>1. <<>> \in Seq(Events)
  OBVIOUS
<1>2. /\ pass' \in [on : BOOLEAN, todo : SUBSET Sockets] /\ pass'.on = pass.on
      /\ \A x \in Sockets : x # w /\ x \in pass.todo => x \in pass'.todo
  BY DEF RelayTyped
<1>3. RelayTyped'
  <2>1. got \in [Sockets -> Seq(Events)]
    BY DEF RelayTyped
  <2>2. got' \in [Sockets -> Seq(Events)]
    BY <1>1, <2>1
  <2> QED
    BY <1>2, <2>2 DEF RelayTyped
<1>4. ASSUME NEW x \in Sockets PROVE SocketOfTeam(x)' /\ DoomedIsNext(x)'
  <2>1. CASE x = w
    BY <2>1 DEF DoomedIsNext
  <2>2. CASE x # w
    BY <1>2, <2>2 DEF SocketOfTeam, DoomedIsNext
  <2> QED
    BY <2>1, <2>2
<1> QED
  BY <1>3, <1>4

LEMMA SocketsKeepRelay ==
  ASSUME RelayInv, NEW w \in Sockets,
         (\E s \in Logins : Connect(w, s)) \/ Upgrade(w) \/ Disconnect(w) \/ Refresh(w) \/ RefreshFails(w)
  PROVE  RelayInv'
<1> USE DEF RelayInv
<1>t. /\ sock \in [Sockets -> {ClosedSocket} \cup OpenSockets] /\ got \in [Sockets -> Seq(Events)]
      /\ connUsed \in [events : Nat, faults : Nat, overlap : BOOLEAN]
  BY DEF RelayTyped
<1>e. \A x : DOMAIN <<>> = {}
  OBVIOUS
<1>1. ASSUME NEW s \in Logins, Connect(w, s) PROVE RelayInv'
  <2>1. sock[w] = ClosedSocket /\ sock' = [sock EXCEPT ![w] = [ClosedSocket EXCEPT !.pc = "upgrade", !.login = s]]
        /\ UNCHANGED <<live, pass, cache, pending, got, connUsed>>
    BY <1>1 DEF Connect, KeepTerminals
  <2>2. [ClosedSocket EXCEPT !.pc = "upgrade", !.login = s] \in OpenSockets
    BY DEF ClosedSocket, OpenSockets
  <2>3. sock' \in [Sockets -> {ClosedSocket} \cup OpenSockets] /\ sock'[w].pc = "upgrade" /\ ~ sock'[w].doomed
        /\ \A x \in Sockets : x # w => sock'[x] = sock[x]
    BY <1>t, <2>1, <2>2 DEF ClosedSocket
  <2>4. got[w] = <<>>
    BY <2>1 DEF SocketOfTeam, ClosedSocket
  <2>5. SocketOfTeam(w)'
    BY <1>e, <2>1, <2>3, <2>4 DEF SocketOfTeam
  <2> QED
    BY <1>t, <2>1, <2>3, <2>5, OneSocket
<1>2. CASE Upgrade(w)
  <2>1. sock[w].pc = "upgrade" /\ sock' = [sock EXCEPT ![w].pc = "open", ![w].teams = {TeamOf[sock[w].login]}]
        /\ UNCHANGED <<live, pass, cache, pending, got, connUsed>>
    BY <1>2 DEF Upgrade, KeepTerminals
  <2>2. sock[w] \in OpenSockets /\ ~ sock[w].doomed
    BY <1>t, <2>1 DEF ClosedSocket, DoomedIsNext
  <2>3. {TeamOf[sock[w].login]} \in SUBSET TeamNames
    BY <2>2 DEF OpenSockets, TeamNames
  <2>4. /\ sock' \in [Sockets -> {ClosedSocket} \cup OpenSockets]
        /\ sock'[w].pc = "open" /\ sock'[w].teams = {TeamOf[sock'[w].login]} /\ ~ sock'[w].doomed
        /\ \A x \in Sockets : x # w => sock'[x] = sock[x]
    BY <1>t, <2>1, <2>2, <2>3 DEF OpenSockets
  <2>5. got[w] = <<>>
    BY <2>1 DEF SocketOfTeam
  <2>6. SocketOfTeam(w)'
    BY <1>e, <2>1, <2>4, <2>5 DEF SocketOfTeam
  <2> QED
    BY <1>t, <2>1, <2>4, <2>6, OneSocket
<1>3. CASE Disconnect(w) \/ (Refresh(w) /\ sock[w].pc = "open" /\ sock[w].login \notin live)
  <2>1. /\ sock' = [sock EXCEPT ![w] = ClosedSocket] /\ got' = [got EXCEPT ![w] = <<>>]
        /\ pass' = [pass EXCEPT !.todo = pass.todo \ {w}] /\ UNCHANGED <<live, cache, pending, connUsed>>
    BY <1>3 DEF Disconnect, Refresh, KeepTerminals
  <2>2. /\ sock' \in [Sockets -> {ClosedSocket} \cup OpenSockets] /\ sock'[w].pc = "closed" /\ ~ sock'[w].doomed /\ got'[w] = <<>>
        /\ \A x \in Sockets : x # w => sock'[x] = sock[x] /\ got'[x] = got[x]
    BY <1>t, <2>1 DEF ClosedSocket
  <2>3. SocketOfTeam(w)'
    BY <1>e, <2>2 DEF SocketOfTeam
  <2> QED
    BY <1>t, <2>1, <2>2, <2>3, OneSocket
<1>4. CASE Refresh(w) /\ ~ (sock[w].pc = "open" /\ sock[w].login \notin live)
  <2>1. pass' = [pass EXCEPT !.todo = pass.todo \ {w}] /\ UNCHANGED <<sock, got, live, cache, pending, connUsed>>
    BY <1>4 DEF Refresh, KeepTerminals
  <2>2. ~ sock[w].doomed
    BY <1>4 DEF DoomedIsNext
  <2>3. SocketOfTeam(w)'
    BY <2>1 DEF SocketOfTeam
  <2> QED
    BY <1>t, <2>1, <2>2, <2>3, OneSocket
<1>5. CASE RefreshFails(w)
  <2>1. pass' = [pass EXCEPT !.todo = pass.todo \ {w}] /\ UNCHANGED <<got, live, cache, pending>>
    BY <1>5 DEF RefreshFails, KeepTerminals
  <2>2. connUsed' \in [events : Nat, faults : Nat, overlap : BOOLEAN]
    <3>1. connUsed' = [connUsed EXCEPT !.faults = @ + 1]
      BY <1>5 DEF RefreshFails, Faulty
    <3>2. connUsed \in [events : Nat, faults : Nat, overlap : BOOLEAN]
      BY <1>t
    <3> QED
      BY <3>1, <3>2
  <2> DEFINE c == [sock[w] EXCEPT !.doomed = FALSE]
  <2>3. sock' = [sock EXCEPT ![w] = c]
    BY <1>5 DEF RefreshFails
  <2>4. c \in {ClosedSocket} \cup OpenSockets /\ ~ c.doomed /\ c.pc = sock[w].pc /\ c.teams = sock[w].teams /\ c.login = sock[w].login
    <3>1. sock[w] = ClosedSocket \/ sock[w] \in OpenSockets
      BY <1>t
    <3>2. CASE sock[w] = ClosedSocket
      <4>1. /\ ClosedSocket \in [pc : {"closed"}, login : {"none"}, teams : {{}}, doomed : BOOLEAN]
            /\ ~ ClosedSocket.doomed
        BY DEF ClosedSocket
      <4>2. ASSUME NEW z \in [pc : {"closed"}, login : {"none"}, teams : {{}}, doomed : BOOLEAN], ~ z.doomed
            PROVE  [z EXCEPT !.doomed = FALSE] = z
        BY <4>2
      <4>3. c = ClosedSocket
        BY <3>2, <4>1, <4>2
      <4> HIDE DEF c
      <4> QED
        BY <3>2, <4>1, <4>3
    <3>3. CASE sock[w] \in OpenSockets
      BY <3>3 DEF OpenSockets
    <3> QED
      BY <3>1, <3>2, <3>3
  <2> HIDE DEF c
  <2>5. /\ sock' \in [Sockets -> {ClosedSocket} \cup OpenSockets] /\ ~ sock'[w].doomed
        /\ sock'[w].pc = sock[w].pc /\ sock'[w].teams = sock[w].teams /\ sock'[w].login = sock[w].login
        /\ \A x \in Sockets : x # w => sock'[x] = sock[x]
    BY <1>t, <2>3, <2>4
  <2>6. SocketOfTeam(w)'
    BY <2>1, <2>5 DEF SocketOfTeam
  <2> QED
    BY <2>1, <2>2, <2>5, <2>6, OneSocket
<1> QED
  BY <1>1, <1>2, <1>3, <1>4, <1>5

\* A pass over the sockets begins and ends.
LEMMA PassesKeepRelay ==
  ASSUME RelayInv, BeginRefresh \/ EndRefresh
  PROVE  RelayInv'
<1> USE DEF RelayInv
<1>t. sock \in [Sockets -> {ClosedSocket} \cup OpenSockets]
  BY DEF RelayTyped
<1>1. CASE BeginRefresh
  <2> DEFINE open == {w \in Sockets : sock[w].pc = "open"}
  <2>1. /\ ~ pass.on /\ pass' = [on |-> TRUE, todo |-> open]
        /\ sock' = [w \in Sockets |-> IF w \in open /\ sock[w].login \notin live THEN [sock[w] EXCEPT !.doomed = TRUE] ELSE sock[w]]
        /\ UNCHANGED <<live, cache, pending, got, connUsed>>
    BY <1>1 DEF BeginRefresh, KeepTerminals
  <2>2. ASSUME NEW w \in Sockets
        PROVE  /\ sock'[w] \in {ClosedSocket} \cup OpenSockets
               /\ sock'[w].pc = sock[w].pc /\ sock'[w].teams = sock[w].teams /\ sock'[w].login = sock[w].login
               /\ sock'[w].doomed => w \in open /\ sock[w].login \notin live
    <3>1. CASE w \in open /\ sock[w].login \notin live
      <4>1. sock[w] \in OpenSockets /\ sock'[w] = [sock[w] EXCEPT !.doomed = TRUE]
        BY <1>t, <2>1, <3>1 DEF ClosedSocket
      <4> QED
        BY <3>1, <4>1 DEF OpenSockets
    <3>2. CASE ~ (w \in open /\ sock[w].login \notin live)
      <4>1. sock'[w] = sock[w] /\ ~ sock[w].doomed
        BY <2>1, <3>2 DEF DoomedIsNext
      <4> QED
        BY <1>t, <4>1
    <3> QED
      BY <3>1, <3>2
  <2>3. pass'.on /\ pass'.todo = open /\ pass' \in [on : BOOLEAN, todo : SUBSET Sockets]
    BY <2>1
  <2>4. \A w \in open : w \in Sockets /\ sock[w].pc = "open"
    OBVIOUS
  <2> HIDE DEF open
  <2>5. RelayTyped'
    BY <2>1, <2>2, <2>3 DEF RelayTyped
  <2>6. ASSUME NEW w \in Sockets PROVE SocketOfTeam(w)' /\ DoomedIsNext(w)'
    BY <2>1, <2>2, <2>3, <2>4 DEF SocketOfTeam, DoomedIsNext
  <2> QED
    BY <2>5, <2>6
<1>2. CASE EndRefresh
  <2>1. pass.todo = {} /\ pass' = NoPass /\ UNCHANGED <<sock, live, cache, pending, got, connUsed>>
    BY <1>2 DEF EndRefresh, KeepTerminals
  <2>2. RelayTyped'
    BY <2>1 DEF RelayTyped, NoPass
  <2>3. ASSUME NEW w \in Sockets PROVE SocketOfTeam(w)' /\ DoomedIsNext(w)'
    BY <2>1 DEF SocketOfTeam, DoomedIsNext
  <2> QED
    BY <2>2, <2>3
<1> QED
  BY <1>1, <1>2

LEMMA RelayKeepsRelay ==
  ASSUME RelayInv, RelayNext
  PROVE  RelayInv'
<1> USE DEF RelayInv
<1>t. /\ connUsed \in [events : Nat, faults : Nat, overlap : BOOLEAN] /\ pending \subseteq Events /\ cache \subseteq Resources
  BY DEF RelayTyped
<1>1. ASSUME NEW r \in Resources, Publish(r) PROVE RelayInv'
  <2> DEFINE event == [of |-> r, n |-> connUsed.events + 1]
  <2>1. connUsed' = [connUsed EXCEPT !.events = @ + 1] /\ UNCHANGED <<sock, pass, cache, live>>
        /\ \/ UNCHANGED <<got, pending>>
           \/ Sends(event, TRUE) /\ UNCHANGED pending
           \/ pending' = pending \cup {event} /\ UNCHANGED got
    BY <1>1 DEF Publish, KeepTerminals
  <2>2. connUsed' \in [events : Nat, faults : Nat, overlap : BOOLEAN] /\ event \in Events
    BY <1>t, <2>1 DEF Events
  <2> HIDE DEF event
  <2>3. CASE Sends(event, TRUE) /\ UNCHANGED pending
    BY <1>t, <2>1, <2>2, <2>3, SendsToTeam
  <2>4. CASE UNCHANGED got
    BY <1>t, <2>1, <2>2, <2>4, ElsewhereKeepsRelay
  <2> QED
    BY <2>1, <2>3, <2>4
<1>2. ASSUME NEW event \in pending, OwnerFound(event) PROVE RelayInv'
  <2>1. /\ pending' \subseteq Events /\ cache' \subseteq Resources /\ event \in Events /\ (event.of \in present) \in BOOLEAN
        /\ Sends(event, event.of \in present) /\ UNCHANGED <<sock, pass, live, connUsed>>
    BY <1>t, <1>2 DEF OwnerFound, KeepTerminals, Events
  <2> QED
    BY <1>t, <2>1, SendsToTeam
<1>3. ASSUME NEW r \in Resources, ResourceDeleted(r) \/ CacheExpires(r) PROVE RelayInv'
  BY <1>t, <1>3, ElsewhereKeepsRelay DEF ResourceDeleted, CacheExpires, KeepTerminals
<1> QED
  BY <1>1, <1>2, <1>3, SocketsKeepRelay, PassesKeepRelay DEF RelayNext

----------------------------------------------------------------------------
(* Interactive terminals                                                    *)

TermRecords == [pc : {"rest", "session", "register", "connect", "shell", "open", "done"},
                socket : BOOLEAN, listed : BOOLEAN, conn : BOOLEAN, early : BOOLEAN]

\* What a terminal holds before it is on the list, and after its socket closed.
Holds(t) ==
    /\ term[t].pc = "rest" => ~ term[t].listed /\ ~ term[t].conn
    /\ Opening(t) => ~ term[t].listed /\ ~ term[t].conn /\ (~ term[t].socket => term[t].early)
    /\ ~ term[t].socket /\ ~ term[t].early => ~ term[t].listed /\ ~ term[t].conn

\* One terminal at a time is opened, and it has passed the check when it is about to be listed.
WithinLimit ==
    ~ connUsed.overlap => /\ \A t, o \in Terminals : Opening(t) /\ Opening(o) => t = o
                          /\ \A t \in Terminals : term[t].pc = "register" => Cardinality(Listed) < MaxTerminals
                          /\ Cardinality(Listed) <= MaxTerminals

TerminalInv ==
    /\ term \in [Terminals -> TermRecords] /\ connUsed \in [events : Nat, faults : Nat, overlap : BOOLEAN]
    /\ \A t \in Terminals : Holds(t)
    /\ WithinLimit

LEMMA InitTerminals == ConnInit => TerminalInv
<1> SUFFICES ASSUME ConnInit PROVE TerminalInv
  OBVIOUS
<1>1. term \in [Terminals -> TermRecords] /\ connUsed \in [events : Nat, faults : Nat, overlap : BOOLEAN]
  BY DEF ConnInit, NoTerminal, TermRecords
<1>2. \A t \in Terminals : term[t].pc = "rest" /\ ~ term[t].listed /\ ~ term[t].conn
  BY DEF ConnInit, NoTerminal
<1>3. Listed = {}
  BY <1>2 DEF Listed
<1>4. WithinLimit
  BY <1>2, <1>3, FS_EmptySet, ConnAssumption DEF WithinLimit, Opening
<1> QED
  BY <1>1, <1>2, <1>4 DEF TerminalInv, Holds, Opening

LEMMA TerminalsAreSound == TerminalInv => TerminalIsReleased /\ TerminalLimit
BY DEF TerminalInv, Holds, WithinLimit, TerminalIsReleased, TerminalLimit

LEMMA ListedIsFinite ==
  ASSUME NEW S \in SUBSET Terminals
  PROVE  IsFiniteSet(S) /\ Cardinality(S) \in Nat
BY ConnAssumption, FS_Subset, FS_CardinalityType

\* A step that lists no terminal and begins none.
LEMMA OthersKeepTerminals ==
  ASSUME TerminalInv, NEW t \in Terminals, term' \in [Terminals -> TermRecords], Holds(t)',
         \A o \in Terminals : o # t => term'[o] = term[o],
         term'[t].listed => term[t].listed,
         Opening(t)' => Opening(t), term'[t].pc = "register" => term[t].pc = "register" \/ Cardinality(Listed) < MaxTerminals,
         connUsed' \in [events : Nat, faults : Nat, overlap : BOOLEAN], connUsed'.overlap = connUsed.overlap
  PROVE  TerminalInv'
<1> USE DEF TerminalInv
<1>1. \A o \in Terminals : Holds(o)'
  BY DEF Holds, Opening
<1>2. Listed' \in SUBSET Listed /\ Listed \in SUBSET Terminals /\ Listed' \in SUBSET Terminals
  BY DEF Listed
<1>3. Cardinality(Listed') \in Nat /\ Cardinality(Listed) \in Nat /\ Cardinality(Listed') <= Cardinality(Listed)
  BY <1>2, ListedIsFinite, FS_Subset
<1>4. \A o \in Terminals : (Opening(o)' => Opening(o)) /\ (term'[o].pc = "register" => term[o].pc = "register" \/ Cardinality(Listed) < MaxTerminals)
  BY DEF Opening
<1>5. WithinLimit'
  BY <1>3, <1>4, ConnAssumption DEF WithinLimit
<1> QED
  BY <1>1, <1>5

LEMMA StepTerminals ==
  ASSUME TerminalInv, NEW t \in Terminals,
         OpenTerminal(t) \/ CheckLimit(t) \/ RegisterTerminal(t) \/ SshConnects(t) \/ ShellOpens(t) \/ CloseTerminal(t) \/ SshFails(t)
  PROVE  TerminalInv'
<1> USE DEF TerminalInv
<1>t. /\ term \in [Terminals -> TermRecords] /\ connUsed \in [events : Nat, faults : Nat, overlap : BOOLEAN]
      /\ term[t].socket \in BOOLEAN /\ term[t].listed \in BOOLEAN /\ term[t].conn \in BOOLEAN /\ term[t].early \in BOOLEAN
  BY DEF TermRecords
<1>h. Holds(t)
  OBVIOUS
<1>1. CASE OpenTerminal(t)
  <2>1. /\ term[t] = NoTerminal /\ term' = [term EXCEPT ![t] = [NoTerminal EXCEPT !.pc = "session", !.socket = TRUE]]
        /\ connUsed' = [connUsed EXCEPT !.overlap = (connUsed.overlap \/ \E o \in Terminals \ {t} : Opening(o))]
    BY <1>1 DEF OpenTerminal
  <2>2. /\ term' \in [Terminals -> TermRecords] /\ \A o \in Terminals : o # t => term'[o] = term[o]
        /\ term'[t].pc = "session" /\ term'[t].socket /\ ~ term'[t].listed /\ ~ term'[t].conn
    BY <1>t, <2>1 DEF TermRecords, NoTerminal
  <2>3. connUsed' \in [events : Nat, faults : Nat, overlap : BOOLEAN]
        /\ (~ connUsed'.overlap => ~ connUsed.overlap /\ \A o \in Terminals : o # t => ~ Opening(o))
    BY <1>t, <2>1
  <2>4. \A o \in Terminals : Holds(o)'
    BY <2>2 DEF Holds, Opening
  <2>5. Listed' = Listed
    BY <2>1, <2>2 DEF Listed, NoTerminal
  <2>6. WithinLimit'
    <3>1. \A o \in Terminals : o # t => (Opening(o)' <=> Opening(o)) /\ term'[o].pc = term[o].pc
      BY <2>2 DEF Opening
    <3> QED
      BY <2>2, <2>3, <2>5, <3>1 DEF WithinLimit
  <2> QED
    BY <2>2, <2>3, <2>4, <2>6
<1>2. CASE CheckLimit(t)
  <2>1. /\ term[t].pc = "session" /\ UNCHANGED connUsed
        /\ \/ term' = [term EXCEPT ![t].pc = "done", ![t].socket = FALSE, ![t].early = TRUE]
           \/ ~ (Cardinality(Listed) >= MaxTerminals) /\ term' = [term EXCEPT ![t].pc = "register"]
    BY <1>2 DEF CheckLimit, Goes
  <2>2. Cardinality(Listed) \in Nat
    BY ListedIsFinite DEF Listed
  <2>3. ~ term[t].listed /\ ~ term[t].conn /\ (~ term[t].socket => term[t].early)
    BY <1>h, <2>1 DEF Holds, Opening
  <2>4. /\ term' \in [Terminals -> TermRecords] /\ \A o \in Terminals : o # t => term'[o] = term[o]
        /\ ~ term'[t].listed /\ ~ term'[t].conn /\ (~ term'[t].socket => term'[t].early)
        /\ term'[t].pc = "done" \/ (term'[t].pc = "register" /\ Cardinality(Listed) < MaxTerminals)
    BY <1>t, <2>1, <2>2, <2>3, ConnAssumption DEF TermRecords
  <2>5. Holds(t)'
    BY <2>4 DEF Holds, Opening
  <2>6. Opening(t)
    BY <2>1 DEF Opening
  <2> QED
    BY <1>t, <2>1, <2>4, <2>5, <2>6, OthersKeepTerminals
<1>3. CASE RegisterTerminal(t)
  <2>1. term[t].pc = "register" /\ term' = [term EXCEPT ![t].pc = "connect", ![t].listed = TRUE] /\ UNCHANGED connUsed
    BY <1>3 DEF RegisterTerminal
  <2>2. /\ term' \in [Terminals -> TermRecords] /\ \A o \in Terminals : o # t => term'[o] = term[o]
        /\ term'[t].pc = "connect" /\ term'[t].listed /\ term'[t].socket = term[t].socket /\ term'[t].early = term[t].early
    BY <1>t, <2>1 DEF TermRecords
  <2>3. \A o \in Terminals : Holds(o)'
    BY <1>h, <2>1, <2>2 DEF Holds, Opening
  <2>4. Listed' = Listed \cup {t}
    BY <2>2 DEF Listed
  <2>5. IsFiniteSet(Listed) /\ Cardinality(Listed) \in Nat
    BY ListedIsFinite DEF Listed
  <2>6. Cardinality(Listed') \in Nat /\ Cardinality(Listed') <= Cardinality(Listed) + 1
    <3>1. Cardinality(Listed \cup {t}) = IF t \in Listed THEN Cardinality(Listed) ELSE Cardinality(Listed) + 1
      BY <2>5, FS_AddElement
    <3> QED
      BY <2>4, <2>5, <3>1
  <2>7. WithinLimit'
    <3> SUFFICES ASSUME ~ connUsed.overlap
                 PROVE  Cardinality(Listed') <= MaxTerminals /\ \A o \in Terminals : ~ Opening(o)'
      BY <2>1 DEF WithinLimit, Opening
    <3>1. Opening(t) /\ Cardinality(Listed) < MaxTerminals
      BY <2>1 DEF WithinLimit, Opening
    <3>2. \A o \in Terminals : ~ Opening(o)'
      BY <2>2, <3>1 DEF WithinLimit, Opening
    <3> QED
      BY <2>5, <2>6, <3>1, <3>2, ConnAssumption
  <2> QED
    BY <2>1, <2>2, <2>3, <2>7
<1>4. CASE SshConnects(t) \/ ShellOpens(t)
  <2>1. /\ term[t].pc \in {"connect", "shell"} /\ UNCHANGED connUsed
        /\ \/ term[t].listed /\ term' = [term EXCEPT ![t].pc = "shell", ![t].conn = TRUE]
           \/ term' = [term EXCEPT ![t].pc = "done"]
           \/ term' = [term EXCEPT ![t].pc = "open"]
    BY <1>4 DEF SshConnects, ShellOpens, Goes
  <2>2. /\ term' \in [Terminals -> TermRecords] /\ \A o \in Terminals : o # t => term'[o] = term[o]
        /\ term'[t].pc \in {"shell", "done", "open"} /\ term'[t].listed = term[t].listed
        /\ term'[t].socket = term[t].socket /\ term'[t].early = term[t].early
        /\ term'[t].conn => term[t].conn \/ term[t].listed
    BY <1>t, <2>1 DEF TermRecords
  <2>3. Holds(t)' /\ ~ Opening(t)'
    BY <1>h, <2>2 DEF Holds, Opening
  <2> QED
    BY <1>t, <2>1, <2>2, <2>3, OthersKeepTerminals
<1>5. CASE CloseTerminal(t)
  <2> DEFINE x == term[t]
             r == [x EXCEPT !.socket = FALSE, !.early = ~ x.listed, !.listed = FALSE, !.conn = FALSE,
                            !.pc = IF x.pc = "open" THEN "done" ELSE x.pc]
  <2>1. term' = [term EXCEPT ![t] = r] /\ UNCHANGED connUsed
    BY <1>5 DEF CloseTerminal
  <2>2. r \in TermRecords /\ ~ r.listed /\ ~ r.conn /\ (r.early <=> ~ x.listed) /\ (r.pc \in {"session", "register", "rest"} => r.pc = x.pc)
    <3>1. x \in TermRecords
      BY <1>t
    <3> HIDE DEF x
    <3> QED
      BY <3>1 DEF TermRecords
  <2> HIDE DEF r
  <2>3. /\ term' \in [Terminals -> TermRecords] /\ \A o \in Terminals : o # t => term'[o] = term[o]
        /\ term'[t] = r
    BY <1>t, <2>1, <2>2
  <2>4. Opening(t)' => Opening(t) /\ ~ term[t].listed /\ r.early
    BY <1>h, <2>2, <2>3 DEF Holds, Opening
  <2>5. Holds(t)'
    BY <2>2, <2>3, <2>4 DEF Holds
  <2> QED
    BY <1>t, <2>1, <2>2, <2>3, <2>4, <2>5, OthersKeepTerminals
<1>6. CASE SshFails(t)
  <2> DEFINE x == term[t]
             r == [x EXCEPT !.pc = "done", !.socket = FALSE, !.conn = FALSE, !.listed = x.listed /\ ~ x.socket]
  <2>1. term' = [term EXCEPT ![t] = r]
    BY <1>6 DEF SshFails
  <2>2. r \in TermRecords /\ r.pc = "done" /\ (r.listed => x.listed /\ ~ x.socket) /\ ~ r.conn /\ (r.early <=> x.early)
    <3>1. x \in TermRecords
      BY <1>t
    <3> HIDE DEF x
    <3> QED
      BY <3>1 DEF TermRecords
  <2> HIDE DEF r
  <2>3. /\ term' \in [Terminals -> TermRecords] /\ \A o \in Terminals : o # t => term'[o] = term[o]
        /\ term'[t] = r
    BY <1>t, <2>1, <2>2
  <2>4. connUsed' \in [events : Nat, faults : Nat, overlap : BOOLEAN] /\ connUsed'.overlap = connUsed.overlap
    <3>1. connUsed' = [connUsed EXCEPT !.faults = @ + 1] /\ connUsed \in [events : Nat, faults : Nat, overlap : BOOLEAN]
      BY <1>t, <1>6 DEF SshFails, Faulty
    <3> QED
      BY <3>1
  <2>5. Holds(t)' /\ ~ Opening(t)'
    BY <1>h, <2>2, <2>3 DEF Holds, Opening
  <2> QED
    BY <2>2, <2>3, <2>4, <2>5, OthersKeepTerminals
<1> QED
  BY <1>1, <1>2, <1>3, <1>4, <1>5, <1>6

LEMMA StepConnections ==
  ASSUME RelayInv, TerminalInv, [RelayNext \/ TerminalNext \/ \E s \in Logins : SessionEnds(s)]_connVars
  PROVE  RelayInv' /\ TerminalInv'
<1>t. /\ connUsed \in [events : Nat, faults : Nat, overlap : BOOLEAN] /\ pending \subseteq Events /\ cache \subseteq Resources
      /\ term \in [Terminals -> TermRecords]
  BY DEF RelayInv, RelayTyped, TerminalInv
<1>1. CASE UNCHANGED connVars \/ \E s \in Logins : SessionEnds(s)
  <2>1. live' \subseteq live /\ UNCHANGED <<sock, pass, cache, pending, got, term, connUsed>>
    BY <1>1 DEF connVars, SessionEnds, KeepRelay
  <2> QED
    BY <1>t, <2>1, ElsewhereKeepsRelay DEF TerminalInv, Holds, WithinLimit, Opening, Listed
<1>2. CASE RelayNext
  <2>1. RelayInv'
    BY <1>2, RelayKeepsRelay
  <2>2. UNCHANGED term /\ connUsed'.overlap = connUsed.overlap
    <3>1. \/ KeepTerminals /\ UNCHANGED connUsed
          \/ KeepTerminals /\ connUsed' = [connUsed EXCEPT !.events = @ + 1]
          \/ KeepTerminals /\ connUsed' = [connUsed EXCEPT !.faults = @ + 1]
      <4>1. ASSUME NEW w \in Sockets, NEW s \in Logins, Connect(w, s) PROVE KeepTerminals /\ UNCHANGED connUsed
        BY <4>1 DEF Connect
      <4>2. ASSUME NEW w \in Sockets, Upgrade(w) \/ Disconnect(w) \/ Refresh(w) PROVE KeepTerminals /\ UNCHANGED connUsed
        BY <4>2 DEF Upgrade, Disconnect, Refresh
      <4>3. ASSUME NEW w \in Sockets, RefreshFails(w) PROVE KeepTerminals /\ connUsed' = [connUsed EXCEPT !.faults = @ + 1]
        BY <4>3 DEF RefreshFails, Faulty
      <4>4. ASSUME NEW x \in Resources, Publish(x) PROVE KeepTerminals /\ connUsed' = [connUsed EXCEPT !.events = @ + 1]
        BY <4>4 DEF Publish
      <4>5. ASSUME NEW x \in Resources, ResourceDeleted(x) \/ CacheExpires(x) PROVE KeepTerminals /\ UNCHANGED connUsed
        BY <4>5 DEF ResourceDeleted, CacheExpires
      <4>6. ASSUME NEW event \in pending, OwnerFound(event) PROVE KeepTerminals /\ UNCHANGED connUsed
        BY <4>6 DEF OwnerFound
      <4>7. ASSUME BeginRefresh \/ EndRefresh PROVE KeepTerminals /\ UNCHANGED connUsed
        BY <4>7 DEF BeginRefresh, EndRefresh
      <4> QED
        BY <1>2, <4>1, <4>2, <4>3, <4>4, <4>5, <4>6, <4>7 DEF RelayNext
    <3> QED
      BY <1>t, <3>1 DEF KeepTerminals
  <2>3. TerminalInv'
    BY <2>1, <2>2 DEF RelayInv, RelayTyped, TerminalInv, Holds, WithinLimit, Opening, Listed
  <2> QED
    BY <2>1, <2>3
<1>3. CASE TerminalNext
  <2>1. TerminalInv'
    BY <1>3, StepTerminals DEF TerminalNext
  <2>2. UNCHANGED <<sock, pass, cache, pending, got, live>>
    BY <1>3 DEF TerminalNext, OpenTerminal, CheckLimit, RegisterTerminal, SshConnects, ShellOpens, CloseTerminal, SshFails, KeepRelay
  <2> QED
    BY <1>t, <2>1, <2>2, ElsewhereKeepsRelay DEF TerminalInv
<1> QED
  BY <1>1, <1>2, <1>3

----------------------------------------------------------------------------
(* Accounts and sessions                                                    *)

AccountRows == [exists : BOOLEAN, pw : Nat, totp : {"off", "setup", "on"}, codes : SUBSET Codes]
AttemptRows == [pc : {"rest", "verify", "factor", "register", "session"}, user : Accounts \cup {"none"}, row : AccountRows,
                code : Codes \cup {"totp", "wrong", "none"}]
OpenSessions == [user : Accounts, pw : Nat, late : BOOLEAN]

AuthTyped ==
    /\ account \in [Accounts -> AccountRows] /\ attempt \in [Attempts -> AttemptRows]
    /\ session \in [Sessions -> {NoSession} \cup OpenSessions]
    /\ reset \in [pc : {"rest", "password", "sessions"}, user : Accounts \cup {"none"}]
    /\ challenge \subseteq Keys /\ passkey \subseteq Accounts /\ overlapped \in BOOLEAN
    /\ spent \in [Codes \cup Keys -> Nat]
    /\ \A l \in Attempts : attempt[l].pc # "rest" => attempt[l].user \in Accounts
    /\ reset.pc # "rest" => reset.user \in Accounts

\* A challenge that is in memory has not been answered.
KeysOnce == \A k \in Keys : spent[k] <= 1 /\ (k \in challenge => spent[k] = 0)

\* Whoever is signed in, signs in or is reset has an account, and who has none has no recovery code.
Exist ==
    /\ \A s \in Sessions : session[s].user \in Accounts => account[session[s].user].exists
    /\ \A l \in Attempts : attempt[l].pc \in {"verify", "factor", "session"} => account[attempt[l].user].exists
    /\ reset.pc # "rest" => account[reset.user].exists
    /\ \A u \in Accounts : ~ account[u].exists => account[u].codes = {}

\* A session opened with another password than the account's is one the reset in progress still has to end.
SessionFollows(s) ==
    session[s].user \in Accounts /\ session[s].pw # account[session[s].user].pw
      => session[s].late \/ (reset.pc = "sessions" /\ reset.user = session[s].user)

\* While nothing has overlapped: one request at a time and none during a reset, which has read what is still so; one
\* account; and the recovery codes that are left are the ones nobody has used.
OneAtATime ==
    /\ \A k, l \in Attempts : attempt[k].pc # "rest" /\ attempt[l].pc # "rest" => k = l
    /\ reset.pc # "rest" => \A l \in Attempts : attempt[l].pc = "rest"
RowIsFresh(l) ==
    /\ attempt[l].pc \in {"verify", "factor"} => attempt[l].row.codes = account[attempt[l].user].codes
    /\ attempt[l].pc = "register" => \A u \in Accounts : ~ account[u].exists
CodesUnused ==
    /\ \A u, v \in Accounts : account[u].exists /\ account[v].exists => u = v
    /\ \A u \in Accounts : \A c \in account[u].codes : spent[c] = 0
    /\ \A c \in Codes : spent[c] <= 1
Alone == ~ overlapped => OneAtATime /\ (\A l \in Attempts : RowIsFresh(l)) /\ CodesUnused

AuthInv == AuthTyped /\ KeysOnce /\ Exist /\ (\A s \in Sessions : SessionFollows(s)) /\ Alone

LEMMA InitAccess == AuthInit => AuthInv
<1> SUFFICES ASSUME AuthInit PROVE AuthInv
  OBVIOUS
<1>1. NoAccount \in AccountRows /\ [exists |-> TRUE, pw |-> 0, totp |-> "on", codes |-> Codes] \in AccountRows
  BY DEF NoAccount, AccountRows
<1>2. /\ account \in [Accounts -> AccountRows]
      /\ \A u \in Accounts : ~ account[u].exists => account[u].codes = {}
      /\ \A u, v \in Accounts : account[u].exists /\ account[v].exists => u = v
  <2>1. CASE account = [u \in Accounts |-> NoAccount]
    BY <1>1, <2>1 DEF NoAccount
  <2>2. ASSUME NEW w \in Accounts,
               account = [[v \in Accounts |-> NoAccount] EXCEPT ![w] = [exists |-> TRUE, pw |-> 0, totp |-> "on", codes |-> Codes]]
        PROVE  /\ account \in [Accounts -> AccountRows]
               /\ \A u \in Accounts : ~ account[u].exists => account[u].codes = {}
               /\ \A u, v \in Accounts : account[u].exists /\ account[v].exists => u = v
    <3>1. /\ account \in [Accounts -> AccountRows]
          /\ account[w].exists /\ \A u \in Accounts : u # w => account[u] = NoAccount
      BY <1>1, <2>2
    <3>2. ~ NoAccount.exists /\ NoAccount.codes = {}
      BY DEF NoAccount
    <3> QED
      BY <3>1, <3>2
  <2> QED
    BY <2>1, <2>2 DEF AuthInit
<1>3. NoAttempt \in AttemptRows /\ NoAttempt.pc = "rest"
  BY <1>1 DEF NoAttempt, AttemptRows
<1>4. attempt \in [Attempts -> AttemptRows] /\ \A l \in Attempts : attempt[l].pc = "rest"
  BY <1>3 DEF AuthInit
<1>5. session \in [Sessions -> {NoSession} \cup OpenSessions] /\ \A s \in Sessions : session[s].user \notin Accounts
  BY SignInAssumption DEF AuthInit, NoSession
<1>6. reset \in [pc : {"rest", "password", "sessions"}, user : Accounts \cup {"none"}] /\ reset.pc = "rest"
  BY DEF AuthInit, NoReset
<1>7. spent \in [Codes \cup Keys -> Nat] /\ (\A c \in Codes \cup Keys : spent[c] = 0) /\ challenge = {} /\ passkey = {} /\ ~ overlapped
      /\ overlapped \in BOOLEAN
  BY DEF AuthInit
<1>8. AuthTyped
  BY <1>2, <1>4, <1>5, <1>6, <1>7 DEF AuthTyped
<1>9. KeysOnce
  BY <1>7 DEF KeysOnce
<1>10. Exist /\ \A s \in Sessions : SessionFollows(s)
  BY <1>2, <1>4, <1>5, <1>6 DEF Exist, SessionFollows
<1>11. CodesUnused
  <2>1. \A u \in Accounts : account[u].codes \subseteq Codes
    BY <1>2 DEF AccountRows
  <2> QED
    BY <1>2, <1>7, <2>1 DEF CodesUnused
<1>12. Alone
  BY <1>4, <1>6, <1>11 DEF Alone, OneAtATime, RowIsFresh
<1> QED
  BY <1>8, <1>9, <1>10, <1>12 DEF AuthInv

LEMMA AccessIsSound == AuthInv => AccessSound
<1> SUFFICES ASSUME AuthInv PROVE AccessSound
  OBVIOUS
<1>1. CredentialsSpendOnce
  BY DEF AuthInv, KeysOnce, Alone, CodesUnused, CredentialsSpendOnce
<1>2. ResetSignsOut
  <2> SUFFICES ASSUME NEW s \in Sessions, session[s] # NoSession, session[s].pw # account[session[s].user].pw
               PROVE  session[s].late \/ reset.pc = "sessions"
    BY DEF ResetSignsOut
  <2>1. session[s].user \in Accounts
    BY DEF AuthInv, AuthTyped, OpenSessions
  <2> QED
    BY <2>1 DEF AuthInv, SessionFollows
<1>3. SingleAdmin
  <2> DEFINE Them == {u \in Accounts : account[u].exists}
  <2> SUFFICES ASSUME ~ overlapped PROVE Cardinality(Them) <= 1
    BY DEF SingleAdmin
  <2>1. \A u, v \in Them : u = v
    BY DEF AuthInv, Alone, CodesUnused
  <2> HIDE DEF Them
  <2>2. CASE Them = {}
    BY <2>2, FS_EmptySet
  <2>3. CASE Them # {}
    <3>1. PICK u \in Them : TRUE
      BY <2>3
    <3>2. Them = {u}
      BY <2>1, <3>1
    <3>3. Cardinality({u}) = 1
      BY FS_Singleton
    <3> QED
      BY <3>2, <3>3
  <2> QED
    BY <2>2, <2>3
<1> QED
  BY <1>1, <1>2, <1>3 DEF AccessSound

\* Sessions end and challenges come and go while accounts, sign-ins and the reset stay as they are.
LEMMA ElsewhereKeepsAccess ==
  ASSUME AuthInv, UNCHANGED <<account, attempt, reset>>,
         \A s \in Sessions : session'[s] = session[s] \/ session'[s] = NoSession, session' \in [Sessions -> {NoSession} \cup OpenSessions],
         challenge' \subseteq Keys, passkey' \subseteq Accounts, overlapped' \in BOOLEAN, overlapped => overlapped',
         spent' \in [Codes \cup Keys -> Nat], \A c \in Codes : spent'[c] = spent[c], KeysOnce'
  PROVE  AuthInv'
<1>1. AuthTyped'
  BY DEF AuthInv, AuthTyped
<1>2. \A s \in Sessions : session'[s].user \in Accounts => session'[s] = session[s]
  BY SignInAssumption DEF NoSession
<1>3. Exist' /\ \A s \in Sessions : SessionFollows(s)'
  BY <1>2 DEF AuthInv, Exist, SessionFollows
<1>4. Alone'
  <2> SUFFICES ASSUME ~ overlapped' PROVE OneAtATime' /\ (\A l \in Attempts : RowIsFresh(l)') /\ CodesUnused'
    BY DEF Alone
  <2>1. OneAtATime' /\ \A l \in Attempts : RowIsFresh(l)'
    BY DEF AuthInv, Alone, OneAtATime, RowIsFresh
  <2>2. \A u \in Accounts : account[u].codes \subseteq Codes
    BY DEF AuthInv, AuthTyped, AccountRows
  <2>3. CodesUnused'
    BY <2>2 DEF AuthInv, Alone, CodesUnused
  <2> QED
    BY <2>1, <2>3
<1> QED
  BY <1>1, <1>3, <1>4 DEF AuthInv

LEMMA SpendingKeys ==
  ASSUME AuthInv, NEW k \in Keys,
         \/ spent' = [spent EXCEPT ![k] = 0] /\ challenge' = challenge \cup {k}
         \/ spent' = [spent EXCEPT ![k] = @ + 1] /\ k \in challenge /\ challenge' = challenge \ {k}
  PROVE  /\ spent' \in [Codes \cup Keys -> Nat] /\ challenge' \subseteq Keys
         /\ \A c \in Codes : spent'[c] = spent[c]
         /\ KeysOnce'
<1>1. spent \in [Codes \cup Keys -> Nat] /\ challenge \subseteq Keys /\ k \notin Codes
  BY SignInAssumption DEF AuthInv, AuthTyped, Keys
<1>2. \A j \in Keys : spent[j] <= 1 /\ (j \in challenge => spent[j] = 0)
  BY DEF AuthInv, KeysOnce
<1>3. CASE spent' = [spent EXCEPT ![k] = 0] /\ challenge' = challenge \cup {k}
  BY <1>1, <1>2, <1>3 DEF KeysOnce
<1>4. CASE spent' = [spent EXCEPT ![k] = @ + 1] /\ k \in challenge /\ challenge' = challenge \ {k}
  BY <1>1, <1>2, <1>4 DEF KeysOnce
<1> QED
  BY <1>3, <1>4

\* A request that begins, on a row it has read, and is the only one unless that is remembered.
LEMMA AttemptBegins ==
  ASSUME AuthInv, NEW l \in Attempts, NEW a \in AttemptRows, attempt' = [attempt EXCEPT ![l] = a], attempt[l].pc = "rest",
         a.pc # "rest", a.user \in Accounts,
         \/ a.pc = "register" /\ ~ Someone
         \/ a.pc \in {"verify", "session"} /\ account[a.user].exists /\ a.row = account[a.user],
         overlapped' = (overlapped \/ Busy(l) \/ reset.pc # "rest"),
         UNCHANGED <<account, session, reset, passkey>>, challenge' \subseteq Keys,
         spent' \in [Codes \cup Keys -> Nat], \A c \in Codes : spent'[c] = spent[c], KeysOnce'
  PROVE  AuthInv'
<1>1. /\ attempt \in [Attempts -> AttemptRows] /\ attempt' \in [Attempts -> AttemptRows]
      /\ attempt'[l] = a /\ \A k \in Attempts : k # l => attempt'[k] = attempt[k]
  BY DEF AuthInv, AuthTyped
<1>2. AuthTyped'
  <2>1. \A k \in Attempts : attempt'[k].pc # "rest" => attempt'[k].user \in Accounts
    BY <1>1 DEF AuthInv, AuthTyped
  <2> QED
    BY <1>1, <2>1 DEF AuthInv, AuthTyped
<1>3. Exist' /\ \A s \in Sessions : SessionFollows(s)'
  <2>1. \A k \in Attempts : attempt'[k].pc \in {"verify", "factor", "session"} => account[attempt'[k].user].exists
    BY <1>1 DEF AuthInv, Exist
  <2> QED
    BY <2>1 DEF AuthInv, Exist, SessionFollows
<1>4. Alone'
  <2> SUFFICES ASSUME ~ overlapped' PROVE OneAtATime' /\ (\A k \in Attempts : RowIsFresh(k)') /\ CodesUnused'
    BY DEF Alone
  <2>1. ~ overlapped /\ reset.pc = "rest" /\ \A k \in Attempts : k # l => attempt[k].pc = "rest"
    BY DEF Busy
  <2>2. OneAtATime'
    BY <1>1, <2>1 DEF OneAtATime
  <2>3. \A k \in Attempts : RowIsFresh(k)'
    <3> SUFFICES ASSUME NEW k \in Attempts PROVE RowIsFresh(k)'
      OBVIOUS
    <3>1. CASE k # l
      BY <1>1, <2>1, <3>1 DEF RowIsFresh
    <3>2. CASE k = l
      BY <1>1, <3>2 DEF RowIsFresh, Someone
    <3> QED
      BY <3>1, <3>2
  <2>4. \A u \in Accounts : account[u].codes \subseteq Codes
    BY DEF AuthInv, AuthTyped, AccountRows
  <2>5. CodesUnused'
    BY <2>1, <2>4 DEF AuthInv, Alone, CodesUnused
  <2> QED
    BY <2>2, <2>3, <2>5
<1> QED
  BY <1>2, <1>3, <1>4 DEF AuthInv

\* A request goes on with its row, or ends, while its account stays as it is.
LEMMA AttemptMoves ==
  ASSUME AuthInv, NEW l \in Attempts, NEW a \in AttemptRows, attempt' = [attempt EXCEPT ![l] = a], attempt[l].pc # "rest",
         a.pc # "rest" => /\ attempt[l].pc \in {"verify", "factor"} /\ a.pc \in {"factor", "session"}
                          /\ a.user = attempt[l].user /\ a.row = attempt[l].row,
         UNCHANGED <<account, reset, challenge, passkey, spent, overlapped>>,
         session' \in [Sessions -> {NoSession} \cup OpenSessions],
         \A s \in Sessions : session'[s].user \in Accounts => account[session'[s].user].exists, \A s \in Sessions : SessionFollows(s)'
  PROVE  AuthInv'
<1>1. /\ attempt \in [Attempts -> AttemptRows] /\ attempt' \in [Attempts -> AttemptRows]
      /\ attempt'[l] = a /\ \A k \in Attempts : k # l => attempt'[k] = attempt[k]
  BY DEF AuthInv, AuthTyped
<1>2. AuthTyped'
  <2>1. \A k \in Attempts : attempt'[k].pc # "rest" => attempt'[k].user \in Accounts
    BY <1>1 DEF AuthInv, AuthTyped
  <2> QED
    BY <1>1, <2>1 DEF AuthInv, AuthTyped
<1>3. Exist'
  <2>1. \A k \in Attempts : attempt'[k].pc \in {"verify", "factor", "session"} => account[attempt'[k].user].exists
    BY <1>1 DEF AuthInv, Exist
  <2> QED
    BY <2>1 DEF AuthInv, Exist
<1>4. Alone'
  <2> SUFFICES ASSUME ~ overlapped PROVE OneAtATime' /\ (\A k \in Attempts : RowIsFresh(k)') /\ CodesUnused'
    BY DEF Alone
  <2>1. OneAtATime /\ (\A k \in Attempts : RowIsFresh(k)) /\ CodesUnused
    BY DEF AuthInv, Alone
  <2>2. OneAtATime'
    BY <1>1, <2>1 DEF OneAtATime
  <2>3. \A k \in Attempts : RowIsFresh(k)'
    BY <1>1, <2>1 DEF RowIsFresh
  <2>4. CodesUnused'
    BY <2>1 DEF CodesUnused
  <2> QED
    BY <2>2, <2>3, <2>4
<1>5. KeysOnce'
  BY DEF AuthInv, KeysOnce
<1> QED
  BY <1>2, <1>3, <1>4, <1>5 DEF AuthInv

\* The row of an account that exists is written again, which a request that has read it would miss.
LEMMA RowChanges ==
  ASSUME AuthInv, NEW u \in Accounts, account[u].exists, account' \in [Accounts -> AccountRows], account'[u].exists,
         \A v \in Accounts : v # u => account'[v] = account[v],
         UNCHANGED <<session, attempt, challenge, passkey>>,
         reset' \in [pc : {"rest", "password", "sessions"}, user : Accounts \cup {"none"}],
         reset'.user = reset.user, reset'.pc # "rest" <=> reset.pc # "rest",
         spent' \in [Codes \cup Keys -> Nat], \A k \in Keys : spent'[k] = spent[k],
         overlapped' \in BOOLEAN, overlapped => overlapped', \A s \in Sessions : SessionFollows(s)',
         ~ overlapped' => /\ \A l \in Attempts : attempt[l].pc \in {"verify", "factor"} /\ attempt[l].user = u
                                                   => account'[u].codes = account[u].codes
                          /\ (\A c \in account'[u].codes : spent'[c] = 0) /\ (\A c \in Codes : spent'[c] <= 1)
  PROVE  AuthInv'
<1>1. AuthTyped'
  BY DEF AuthInv, AuthTyped
<1>2. Exist'
  BY DEF AuthInv, AuthTyped, Exist
<1>3. KeysOnce'
  BY DEF AuthInv, KeysOnce
<1>4. Alone'
  <2> SUFFICES ASSUME ~ overlapped' PROVE OneAtATime' /\ (\A l \in Attempts : RowIsFresh(l)') /\ CodesUnused'
    BY DEF Alone
  <2>1. OneAtATime /\ (\A l \in Attempts : RowIsFresh(l)) /\ CodesUnused
    BY DEF AuthInv, Alone
  <2>2. OneAtATime'
    BY <2>1 DEF OneAtATime
  <2>3. \A l \in Attempts : RowIsFresh(l)'
    <3> SUFFICES ASSUME NEW l \in Attempts PROVE RowIsFresh(l)'
      OBVIOUS
    <3>1. attempt[l].pc \in {"verify", "factor"} => attempt[l].user \in Accounts
      BY DEF AuthInv, AuthTyped
    <3>2. attempt[l].pc # "register"
      BY <2>1 DEF RowIsFresh
    <3> QED
      BY <2>1, <3>1, <3>2 DEF RowIsFresh
  <2>4. \A v \in Accounts : v # u => ~ account[v].exists /\ account[v].codes = {}
    BY <2>1 DEF CodesUnused, AuthInv, Exist
  <2>5. CodesUnused'
    BY <2>4 DEF CodesUnused
  <2> QED
    BY <2>2, <2>3, <2>5
<1> QED
  BY <1>1, <1>2, <1>3, <1>4 DEF AuthInv

LEMMA SignedInExists == \A u \in Accounts : AuthInv /\ SignedIn(u) => account[u].exists
BY DEF AuthInv, Exist, SignedIn

LEMMA TwoFactorKeepsAccess ==
  ASSUME AuthInv, NEW u \in Accounts, SetupTwoFactor(u) \/ EnableTwoFactor(u) \/ DisableTwoFactor(u)
  PROVE  AuthInv'
<1>1. SignedIn(u) /\ UNCHANGED <<session, attempt, challenge, passkey, reset>>
  BY DEF SetupTwoFactor, EnableTwoFactor, DisableTwoFactor
<1>2. account[u].exists
  BY <1>1, SignedInExists
<1>t. /\ account \in [Accounts -> AccountRows] /\ overlapped \in BOOLEAN /\ spent \in [Codes \cup Keys -> Nat]
      /\ reset \in [pc : {"rest", "password", "sessions"}, user : Accounts \cup {"none"}]
      /\ \A k \in Keys : k \notin Codes
  BY SignInAssumption DEF AuthInv, AuthTyped, Keys
<1>3. CASE SetupTwoFactor(u)
  <2>1. account' = [account EXCEPT ![u].totp = "setup"] /\ UNCHANGED <<spent, overlapped>>
    BY <1>3 DEF SetupTwoFactor
  <2>2. /\ account' \in [Accounts -> AccountRows] /\ \A v \in Accounts : v # u => account'[v] = account[v]
        /\ account'[u].exists = account[u].exists /\ account'[u].codes = account[u].codes /\ account'[u].pw = account[u].pw
    BY <1>t, <2>1 DEF AccountRows
  <2>3. \A s \in Sessions : SessionFollows(s)'
    <3>1. \A v \in Accounts : account'[v].pw = account[v].pw
      BY <2>2
    <3> QED
      BY <1>1, <3>1 DEF AuthInv, SessionFollows
  <2>4. ~ overlapped => (\A c \in account[u].codes : spent[c] = 0) /\ (\A c \in Codes : spent[c] <= 1)
    BY DEF AuthInv, Alone, CodesUnused
  <2> QED
    BY <1>t, <1>1, <1>2, <2>1, <2>2, <2>3, <2>4, RowChanges
<1>4. CASE EnableTwoFactor(u)
  <2>1. /\ account' = [account EXCEPT ![u].totp = "on", ![u].codes = Codes]
        /\ spent' = [c \in DOMAIN spent |-> IF c \in Codes THEN 0 ELSE spent[c]]
        /\ overlapped' = (overlapped \/ \E l \in Attempts : attempt[l].user = u)
    BY <1>4 DEF EnableTwoFactor
  <2>2. /\ account' \in [Accounts -> AccountRows] /\ \A v \in Accounts : v # u => account'[v] = account[v]
        /\ account'[u].exists = account[u].exists /\ account'[u].codes = Codes /\ account'[u].pw = account[u].pw
    BY <1>t, <2>1 DEF AccountRows
  <2>3. \A s \in Sessions : SessionFollows(s)'
    <3>1. \A v \in Accounts : account'[v].pw = account[v].pw
      BY <2>2
    <3> QED
      BY <1>1, <3>1 DEF AuthInv, SessionFollows
  <2>4. /\ spent' \in [Codes \cup Keys -> Nat] /\ \A k \in Keys : spent'[k] = spent[k]
        /\ \A c \in Codes : spent'[c] = 0
    BY <1>t, <2>1
  <2>5. /\ overlapped' \in BOOLEAN /\ (overlapped => overlapped')
        /\ ~ overlapped' => \A l \in Attempts : attempt[l].user # u
    BY <1>t, <2>1
  <2>6. \A c \in Codes : spent'[c] <= 1
    BY <2>4
  <2> QED
    BY <1>t, <1>1, <1>2, <2>2, <2>3, <2>4, <2>5, <2>6, RowChanges
<1>5. CASE DisableTwoFactor(u)
  <2>1. /\ account' = [account EXCEPT ![u].totp = "off", ![u].codes = {}] /\ UNCHANGED spent
        /\ overlapped' = (overlapped \/ \E l \in Attempts : attempt[l].user = u)
    BY <1>5 DEF DisableTwoFactor
  <2>2. /\ account' \in [Accounts -> AccountRows] /\ \A v \in Accounts : v # u => account'[v] = account[v]
        /\ account'[u].exists = account[u].exists /\ account'[u].codes = {} /\ account'[u].pw = account[u].pw
    BY <1>t, <2>1 DEF AccountRows
  <2>3. \A s \in Sessions : SessionFollows(s)'
    <3>1. \A v \in Accounts : account'[v].pw = account[v].pw
      BY <2>2
    <3> QED
      BY <1>1, <3>1 DEF AuthInv, SessionFollows
  <2>4. ~ overlapped => \A c \in Codes : spent[c] <= 1
    BY DEF AuthInv, Alone, CodesUnused
  <2>5. /\ overlapped' \in BOOLEAN /\ (overlapped => overlapped')
        /\ ~ overlapped' => \A l \in Attempts : attempt[l].user # u
    BY <1>t, <2>1
  <2> QED
    BY <1>t, <1>1, <1>2, <2>1, <2>2, <2>3, <2>4, <2>5, RowChanges
<1> QED
  BY <1>3, <1>4, <1>5

LEMMA ResetKeepsAccess ==
  ASSUME AuthInv, \/ \E u \in Accounts : BeginReset(u)
                  \/ \E disable2fa \in BOOLEAN : WritePassword(disable2fa)
                  \/ EndSessions
  PROVE  AuthInv'
<1>t. /\ account \in [Accounts -> AccountRows] /\ overlapped \in BOOLEAN /\ spent \in [Codes \cup Keys -> Nat]
      /\ reset \in [pc : {"rest", "password", "sessions"}, user : Accounts \cup {"none"}]
      /\ session \in [Sessions -> {NoSession} \cup OpenSessions]
      /\ \A s \in Sessions : SessionFollows(s)
  BY DEF AuthInv, AuthTyped
<1>1. ASSUME NEW u \in Accounts, BeginReset(u) PROVE AuthInv'
  <2>1. /\ reset = NoReset /\ account[u].exists /\ reset' = [pc |-> "password", user |-> u]
        /\ overlapped' = (overlapped \/ \E l \in Attempts : attempt[l].pc # "rest")
        /\ UNCHANGED <<account, session, attempt, challenge, passkey, spent>>
    BY <1>1 DEF BeginReset
  <2>2. /\ reset' \in [pc : {"rest", "password", "sessions"}, user : Accounts \cup {"none"}]
        /\ reset'.pc = "password" /\ reset'.user = u /\ reset.pc = "rest"
    BY <2>1 DEF NoReset
  <2>3. AuthTyped'
    BY <2>1, <2>2 DEF AuthInv, AuthTyped
  <2>4. Exist' /\ KeysOnce' /\ \A s \in Sessions : SessionFollows(s)'
    BY <2>1, <2>2 DEF AuthInv, Exist, KeysOnce, SessionFollows
  <2>5. Alone'
    <3> SUFFICES ASSUME ~ overlapped' PROVE OneAtATime' /\ (\A l \in Attempts : RowIsFresh(l)') /\ CodesUnused'
      BY DEF Alone
    <3>1. ~ overlapped /\ \A l \in Attempts : attempt[l].pc = "rest"
      BY <2>1
    <3>2. OneAtATime' /\ \A l \in Attempts : RowIsFresh(l)'
      BY <2>1, <3>1 DEF OneAtATime, RowIsFresh
    <3>3. CodesUnused'
      BY <2>1, <3>1 DEF AuthInv, Alone, CodesUnused
    <3> QED
      BY <3>2, <3>3
  <2> QED
    BY <2>3, <2>4, <2>5 DEF AuthInv
<1>2. ASSUME NEW disable2fa \in BOOLEAN, WritePassword(disable2fa) PROVE AuthInv'
  <2> DEFINE u == reset.user
             pw == account[u].pw + 1
             totp == IF disable2fa THEN "off" ELSE account[u].totp
             codes == IF disable2fa THEN {} ELSE account[u].codes
             x == account[u]
             r == [x EXCEPT !.pw = pw, !.totp = totp, !.codes = codes]
  <2>1. /\ reset.pc = "password" /\ reset' = [reset EXCEPT !.pc = "sessions"] /\ account' = [account EXCEPT ![u] = r]
        /\ UNCHANGED <<session, attempt, challenge, passkey, spent, overlapped>>
    <3>1. u \in Accounts
      BY <1>2 DEF WritePassword, AuthInv, AuthTyped
    <3> QED
      BY <1>t, <1>2, <3>1 DEF WritePassword
  <2>2. u \in Accounts /\ account[u].exists
    BY <2>1 DEF AuthInv, AuthTyped, Exist
  <2>3. r \in AccountRows /\ r.exists = account[u].exists /\ r.codes \in {{}, account[u].codes}
    <3>1. x \in AccountRows /\ pw \in Nat /\ totp \in {"off", "setup", "on"} /\ codes \in SUBSET Codes
      BY <1>t, <2>2 DEF AccountRows
    <3>2. codes \in {{}, account[u].codes}
      OBVIOUS
    <3>3. x = account[u]
      OBVIOUS
    <3> HIDE DEF x, pw, totp, codes
    <3>4. r \in AccountRows /\ r.exists = x.exists /\ r.codes = codes
      BY <3>1 DEF AccountRows
    <3> HIDE DEF r
    <3> QED
      BY <3>2, <3>3, <3>4
  <2> HIDE DEF r
  <2>4. /\ account' \in [Accounts -> AccountRows] /\ \A v \in Accounts : v # u => account'[v] = account[v]
        /\ account'[u] = r
    BY <1>t, <2>1, <2>2, <2>3
  <2>5. /\ reset' \in [pc : {"rest", "password", "sessions"}, user : Accounts \cup {"none"}]
        /\ reset'.pc = "sessions" /\ reset'.user = u
    BY <1>t, <2>1
  <2>6. \A s \in Sessions : SessionFollows(s)'
    <3> SUFFICES ASSUME NEW s \in Sessions PROVE SessionFollows(s)'
      OBVIOUS
    <3>1. CASE session[s].user = u
      BY <2>1, <2>5, <3>1 DEF SessionFollows
    <3>2. CASE session[s].user # u
      BY <1>t, <2>1, <2>4, <2>5, <3>2 DEF SessionFollows
    <3> QED
      BY <3>1, <3>2
  <2>7. ~ overlapped => /\ \A l \in Attempts : attempt[l].pc = "rest"
                        /\ (\A c \in account[u].codes : spent[c] = 0) /\ (\A c \in Codes : spent[c] <= 1)
    BY <2>1, <2>2 DEF AuthInv, Alone, OneAtATime, CodesUnused
  <2>8. \A c \in account'[u].codes : c \in account[u].codes
    BY <2>3, <2>4
  <2> HIDE DEF u
  <2>9. reset.user = u
    BY DEF u
  <2> QED
    BY <1>t, <2>1, <2>2, <2>3, <2>4, <2>5, <2>6, <2>7, <2>8, <2>9, RowChanges
<1>3. CASE EndSessions
  <2>1. /\ reset.pc = "sessions" /\ reset' = NoReset
        /\ session' = [s \in Sessions |-> IF session[s].user = reset.user THEN NoSession ELSE session[s]]
        /\ UNCHANGED <<account, attempt, challenge, passkey, spent, overlapped>>
    BY <1>3 DEF EndSessions
  <2>2. /\ reset' \in [pc : {"rest", "password", "sessions"}, user : Accounts \cup {"none"}] /\ reset'.pc = "rest"
    BY <2>1 DEF NoReset
  <2>3. /\ session' \in [Sessions -> {NoSession} \cup OpenSessions]
        /\ \A s \in Sessions : session'[s].user \in Accounts => session'[s] = session[s] /\ session[s].user # reset.user
    BY <1>t, <2>1, SignInAssumption DEF NoSession
  <2>4. AuthTyped'
    BY <2>1, <2>2, <2>3 DEF AuthInv, AuthTyped
  <2>5. Exist' /\ KeysOnce'
    BY <2>1, <2>2, <2>3 DEF AuthInv, Exist, KeysOnce
  <2>6. \A s \in Sessions : SessionFollows(s)'
    BY <1>t, <2>1, <2>3 DEF SessionFollows
  <2>7. Alone'
    BY <2>1, <2>2 DEF AuthInv, Alone, OneAtATime, RowIsFresh, CodesUnused
  <2> QED
    BY <2>4, <2>5, <2>6, <2>7 DEF AuthInv
<1> QED
  BY <1>1, <1>2, <1>3

\* The steps of a request that change an account: the first account is made, and a recovery code is spent.
LEMMA RegisterKeepsAccess ==
  ASSUME AuthInv, NEW l \in Attempts, Register(l)
  PROVE  AuthInv'
<1> DEFINE u == attempt[l].user
           row == [NoAccount EXCEPT !.exists = TRUE]
<1>t. /\ account \in [Accounts -> AccountRows] /\ attempt \in [Attempts -> AttemptRows] /\ u \in Accounts /\ attempt[l] \in AttemptRows
  BY DEF AuthInv, AuthTyped, Register
<1>k. NoAttempt \in AttemptRows /\ NoAttempt.pc = "rest"
  BY DEF NoAttempt, AttemptRows, NoAccount, AccountRows
<1>1. attempt[l].pc = "register" /\ UNCHANGED <<session, reset, challenge, passkey, spent, overlapped>>
  BY DEF Register
<1>2. CASE account[u].exists
  <2>1. attempt' = [attempt EXCEPT ![l] = NoAttempt] /\ UNCHANGED account
    BY <1>2 DEF Register, Ends
  <2>2. session' \in [Sessions -> {NoSession} \cup OpenSessions]
    BY <1>1 DEF AuthInv, AuthTyped
  <2>3. /\ \A s \in Sessions : session'[s].user \in Accounts => account[session'[s].user].exists
        /\ \A s \in Sessions : SessionFollows(s)'
    BY <1>1, <2>1 DEF AuthInv, Exist, SessionFollows
  <2> HIDE DEF u
  <2> QED
    BY <1>k, <1>1, <2>1, <2>2, <2>3, AttemptMoves
<1>3. CASE ~ account[u].exists
  <2>1. /\ account' = [account EXCEPT ![u] = row]
        /\ attempt' = [attempt EXCEPT ![l].pc = "session", ![l].row = account'[u]]
    BY <1>3 DEF Register
  <2>2. row \in AccountRows /\ row.exists /\ row.codes = {} /\ row.pw = 0
    BY DEF NoAccount, AccountRows
  <2> HIDE DEF row, u
  <2>3. /\ account' \in [Accounts -> AccountRows] /\ account'[u] = row
        /\ \A v \in Accounts : v # u => account'[v] = account[v]
    BY <1>t, <2>1, <2>2
  <2>4. attempt' = [attempt EXCEPT ![l].pc = "session", ![l].row = row]
    BY <2>1, <2>3
  <2>5. /\ attempt' \in [Attempts -> AttemptRows] /\ attempt'[l].pc = "session" /\ attempt'[l].user = u
        /\ \A k \in Attempts : k # l => attempt'[k] = attempt[k]
    BY <1>t, <2>2, <2>4 DEF AttemptRows, u
  <2>6. AuthTyped'
    BY <1>t, <1>1, <2>3, <2>5 DEF AuthInv, AuthTyped
  <2>7. KeysOnce'
    BY <1>1 DEF AuthInv, KeysOnce
  <2>8. Exist'
    <3>1. \A v \in Accounts : account[v].exists => account'[v] = account[v]
      BY <1>3, <2>3
    <3>2. \A k \in Attempts : attempt'[k].pc \in {"verify", "factor", "session"} => account'[attempt'[k].user].exists
      BY <1>t, <2>2, <2>3, <2>5, <3>1 DEF AuthInv, AuthTyped, Exist
    <3>3. \A v \in Accounts : ~ account'[v].exists => account'[v].codes = {}
      BY <2>2, <2>3 DEF AuthInv, Exist
    <3>4. reset'.pc # "rest" => account'[reset'.user].exists
      BY <1>1, <3>1 DEF AuthInv, AuthTyped, Exist
    <3>5. \A s \in Sessions : session'[s].user \in Accounts => account'[session'[s].user].exists
      BY <1>1, <3>1 DEF AuthInv, Exist
    <3> QED
      BY <3>2, <3>3, <3>4, <3>5 DEF Exist
  <2>9. \A s \in Sessions : SessionFollows(s)'
    <3> SUFFICES ASSUME NEW s \in Sessions PROVE SessionFollows(s)'
      OBVIOUS
    <3>1. session[s].user \in Accounts => session[s].user # u
      BY <1>3 DEF AuthInv, Exist
    <3> QED
      BY <1>1, <2>3, <3>1 DEF AuthInv, SessionFollows
  <2>10. Alone'
    <3> SUFFICES ASSUME ~ overlapped PROVE OneAtATime' /\ (\A k \in Attempts : RowIsFresh(k)') /\ CodesUnused'
      BY <1>1 DEF Alone
    <3>1. OneAtATime /\ RowIsFresh(l) /\ CodesUnused
      BY DEF AuthInv, Alone
    <3>2. OneAtATime'
      BY <1>1, <2>5, <3>1 DEF OneAtATime
    <3>3. \A k \in Attempts : RowIsFresh(k)'
      BY <1>1, <2>5, <3>1 DEF OneAtATime, RowIsFresh
    <3>4. CodesUnused'
      BY <1>1, <2>2, <2>3, <3>1 DEF RowIsFresh, CodesUnused
    <3> QED
      BY <3>2, <3>3, <3>4
  <2> QED
    BY <2>6, <2>7, <2>8, <2>9, <2>10 DEF AuthInv
<1> QED
  BY <1>2, <1>3

LEMMA SecondFactorKeepsAccess ==
  ASSUME AuthInv, NEW l \in Attempts, checkSecondFactor(l)
  PROVE  AuthInv'
<1> DEFINE u == attempt[l].user
           row == attempt[l].row
           code == attempt[l].code
           a == [attempt[l] EXCEPT !.pc = "session"]
<1>1. attempt[l].pc = "factor" /\ UNCHANGED <<session, reset, challenge, passkey, overlapped>>
  BY DEF checkSecondFactor
<1>t. /\ account \in [Accounts -> AccountRows] /\ attempt \in [Attempts -> AttemptRows] /\ u \in Accounts /\ attempt[l] \in AttemptRows
      /\ account[u].exists /\ spent \in [Codes \cup Keys -> Nat] /\ row \in AccountRows
      /\ \A k \in Keys : k \notin Codes
  BY <1>1, SignInAssumption DEF AuthInv, AuthTyped, Exist, AttemptRows, Keys
<1>a. a \in AttemptRows /\ a.pc = "session" /\ a.user = attempt[l].user /\ a.row = attempt[l].row
  BY <1>t DEF AttemptRows
<1>k. NoAttempt \in AttemptRows /\ NoAttempt.pc = "rest"
  BY DEF NoAttempt, AttemptRows, NoAccount, AccountRows
<1>2. ASSUME UNCHANGED <<account, spent>>, NEW b \in AttemptRows, attempt' = [attempt EXCEPT ![l] = b],
             b.pc # "rest" => b.pc = "session" /\ b.user = attempt[l].user /\ b.row = attempt[l].row
      PROVE  AuthInv'
  <2>1. session' \in [Sessions -> {NoSession} \cup OpenSessions]
    BY <1>1 DEF AuthInv, AuthTyped
  <2>2. /\ \A s \in Sessions : session'[s].user \in Accounts => account[session'[s].user].exists
        /\ \A s \in Sessions : SessionFollows(s)'
    BY <1>1, <1>2 DEF AuthInv, Exist, SessionFollows
  <2> HIDE DEF u, row, code, a
  <2> QED
    BY <1>1, <1>2, <2>1, <2>2, AttemptMoves
<1>3. ASSUME code \in row.codes, account' = [account EXCEPT ![u].codes = row.codes \ {code}], spent' = [spent EXCEPT ![code] = @ + 1],
             attempt' = [attempt EXCEPT ![l] = a]
      PROVE  AuthInv'
  <2>1. code \in Codes /\ row.codes \subseteq Codes
    BY <1>t, <1>3 DEF AccountRows
  <2> HIDE DEF row, code, a
  <2>2. /\ account' \in [Accounts -> AccountRows] /\ account'[u].exists /\ account'[u].pw = account[u].pw
        /\ account'[u].codes = row.codes \ {code} /\ \A v \in Accounts : v # u => account'[v] = account[v]
    BY <1>t, <1>3, <2>1 DEF AccountRows
  <2>3. /\ attempt' \in [Attempts -> AttemptRows] /\ attempt'[l] = a
        /\ \A k \in Attempts : k # l => attempt'[k] = attempt[k]
    BY <1>t, <1>a, <1>3
  <2>4. /\ spent' \in [Codes \cup Keys -> Nat] /\ \A k \in Keys : spent'[k] = spent[k]
        /\ spent'[code] = spent[code] + 1 /\ \A c \in Codes : c # code => spent'[c] = spent[c]
    BY <1>t, <1>3, <2>1
  <2> HIDE DEF u
  <2>5. AuthTyped'
    <3>1. \A k \in Attempts : attempt'[k].pc # "rest" => attempt'[k].user \in Accounts
      BY <1>t, <1>a, <2>3 DEF AuthInv, AuthTyped, u
    <3> QED
      BY <1>1, <2>2, <2>3, <2>4, <3>1 DEF AuthInv, AuthTyped
  <2>6. KeysOnce'
    BY <1>1, <2>4 DEF AuthInv, KeysOnce
  <2>7. \A v \in Accounts : account'[v].exists = account[v].exists /\ account'[v].pw = account[v].pw
    BY <1>t, <2>2 DEF AccountRows
  <2>8. Exist'
    <3>1. \A k \in Attempts : attempt'[k].pc \in {"verify", "factor", "session"} => account'[attempt'[k].user].exists
      BY <1>t, <1>a, <2>3, <2>7 DEF AuthInv, AuthTyped, Exist, u
    <3>2. \A v \in Accounts : ~ account'[v].exists => account'[v].codes = {}
      BY <2>2 DEF AuthInv, Exist
    <3> QED
      BY <1>1, <2>7, <3>1, <3>2 DEF AuthInv, AuthTyped, Exist
  <2>9. \A s \in Sessions : SessionFollows(s)'
    BY <1>1, <2>7 DEF AuthInv, SessionFollows
  <2>10. Alone'
    <3> SUFFICES ASSUME ~ overlapped PROVE OneAtATime' /\ (\A k \in Attempts : RowIsFresh(k)') /\ CodesUnused'
      BY <1>1 DEF Alone
    <3>1. OneAtATime /\ RowIsFresh(l) /\ CodesUnused
      BY DEF AuthInv, Alone
    <3>2. row.codes = account[u].codes
      BY <1>1, <3>1 DEF RowIsFresh, row, u
    <3>3. OneAtATime'
      BY <1>1, <1>a, <2>3, <3>1 DEF OneAtATime
    <3>4. \A k \in Attempts : RowIsFresh(k)'
      BY <1>1, <1>a, <2>3, <3>1 DEF OneAtATime, RowIsFresh
    <3>5. spent[code] = 0
      BY <1>t, <1>3, <3>1, <3>2 DEF CodesUnused
    <3>6. \A v \in Accounts : v # u => account[v].codes = {}
      BY <1>t, <3>1 DEF CodesUnused, AuthInv, Exist
    <3>7. CodesUnused'
      <4>1. \A v, w \in Accounts : account'[v].exists /\ account'[w].exists => v = w
        BY <2>7, <3>1 DEF CodesUnused
      <4>2. \A v \in Accounts : \A c \in account'[v].codes : spent'[c] = 0
        <5>1. \A c \in row.codes \ {code} : spent'[c] = 0
          BY <1>t, <2>1, <2>4, <3>1, <3>2 DEF CodesUnused
        <5> QED
          BY <2>2, <3>6, <5>1
      <4>3. \A c \in Codes : spent'[c] <= 1
        BY <2>4, <3>1, <3>5 DEF CodesUnused
      <4> QED
        BY <4>1, <4>2, <4>3 DEF CodesUnused
    <3> QED
      BY <3>3, <3>4, <3>7
  <2> QED
    BY <2>5, <2>6, <2>8, <2>9, <2>10 DEF AuthInv
<1>4. [attempt EXCEPT ![l].pc = "session"] = [attempt EXCEPT ![l] = a]
  OBVIOUS
<1> HIDE DEF a
<1>5. \/ UNCHANGED <<account, spent>> /\ attempt' = [attempt EXCEPT ![l] = a]
      \/ UNCHANGED <<account, spent>> /\ attempt' = [attempt EXCEPT ![l] = NoAttempt]
      \/ /\ code \in row.codes /\ account' = [account EXCEPT ![u].codes = row.codes \ {code}]
         /\ spent' = [spent EXCEPT ![code] = @ + 1] /\ attempt' = [attempt EXCEPT ![l] = a]
  BY <1>4 DEF checkSecondFactor, Sets, Ends
<1> HIDE DEF u, row, code
<1> QED
  BY <1>a, <1>k, <1>2, <1>3, <1>5

LEMMA RequestsKeepAccess ==
  ASSUME AuthInv, NEW l \in Attempts,
         \/ \E u \in Accounts : BeginRegister(l, u) \/ PasskeyLogin(l, u)
         \/ \E u \in Accounts, code \in Codes \cup {"totp", "wrong"} : BeginLogin(l, u, code)
         \/ Register(l) \/ VerifyPassword(l) \/ checkSecondFactor(l)
         \/ \E s \in Sessions : createSession(l, s)
  PROVE  AuthInv'
<1>t. /\ account \in [Accounts -> AccountRows] /\ attempt \in [Attempts -> AttemptRows] /\ attempt[l] \in AttemptRows
      /\ session \in [Sessions -> {NoSession} \cup OpenSessions] /\ challenge \subseteq Keys /\ spent \in [Codes \cup Keys -> Nat]
      /\ l \in Keys
  BY DEF AuthInv, AuthTyped, Keys
<1>n. NoAccount \in AccountRows /\ NoAttempt \in AttemptRows /\ NoAttempt.pc = "rest"
  BY DEF NoAttempt, AttemptRows, NoAccount, AccountRows
<1>f. \A s \in Sessions : SessionFollows(s)
  BY DEF AuthInv
<1>1. ASSUME NEW u \in Accounts, BeginRegister(l, u) PROVE AuthInv'
  <2> DEFINE a == [NoAttempt EXCEPT !.pc = "register", !.user = u]
  <2>1. /\ attempt[l] = NoAttempt /\ ~ Someone /\ attempt' = [attempt EXCEPT ![l] = a] /\ overlapped' = (overlapped \/ Busy(l))
        /\ UNCHANGED <<account, session, reset, challenge, passkey, spent>>
    BY <1>1 DEF BeginRegister
  <2>2. a \in AttemptRows /\ a.pc = "register" /\ a.user = u
    BY <1>n DEF NoAttempt, AttemptRows
  <2>3. ~ (reset.pc # "rest")
    BY <2>1 DEF AuthInv, AuthTyped, Exist, Someone
  <2>4. KeysOnce'
    BY <2>1 DEF AuthInv, KeysOnce
  <2>5. overlapped' = (overlapped \/ Busy(l) \/ reset.pc # "rest")
    BY <2>1, <2>3
  <2> HIDE DEF a
  <2> QED
    BY <1>t, <1>n, <2>1, <2>2, <2>4, <2>5, AttemptBegins
<1>2. ASSUME NEW u \in Accounts, NEW code \in Codes \cup {"totp", "wrong"}, BeginLogin(l, u, code) PROVE AuthInv'
  <2> DEFINE a == [pc |-> "verify", user |-> u, row |-> account[u], code |-> code]
  <2>1. /\ attempt[l] = NoAttempt /\ account[u].exists /\ attempt' = [attempt EXCEPT ![l] = a]
        /\ overlapped' = (overlapped \/ Busy(l) \/ reset.pc # "rest")
        /\ UNCHANGED <<account, session, reset, challenge, passkey, spent>>
    BY <1>2 DEF BeginLogin
  <2>2. a \in AttemptRows /\ a.pc = "verify" /\ a.user = u /\ a.row = account[u]
    BY <1>t DEF AttemptRows
  <2>3. KeysOnce'
    BY <2>1 DEF AuthInv, KeysOnce
  <2> HIDE DEF a
  <2> QED
    BY <1>t, <1>n, <2>1, <2>2, <2>3, AttemptBegins
<1>3. ASSUME NEW u \in Accounts, PasskeyLogin(l, u) PROVE AuthInv'
  <2> DEFINE a == [pc |-> "session", user |-> u, row |-> account[u], code |-> "none"]
  <2>1. /\ attempt[l] = NoAttempt /\ l \in challenge /\ challenge' = challenge \ {l} /\ spent' = [spent EXCEPT ![l] = @ + 1]
        /\ overlapped' = (overlapped \/ Busy(l) \/ reset.pc # "rest")
        /\ UNCHANGED <<account, session, reset, passkey>>
    BY <1>3 DEF PasskeyLogin, take
  <2>2. /\ spent' \in [Codes \cup Keys -> Nat] /\ challenge' \subseteq Keys
        /\ \A c \in Codes : spent'[c] = spent[c]
        /\ KeysOnce'
    BY <1>t, <2>1, SpendingKeys
  <2>3. CASE account[u].exists /\ attempt' = [attempt EXCEPT ![l] = a]
    <3>1. a \in AttemptRows /\ a.pc = "session" /\ a.user = u /\ a.row = account[u]
      BY <1>t DEF AttemptRows
    <3> HIDE DEF a
    <3> QED
      BY <1>t, <1>n, <2>1, <2>2, <2>3, <3>1, AttemptBegins
  <2>4. CASE UNCHANGED attempt
    <3>1. /\ overlapped' \in BOOLEAN /\ (overlapped => overlapped') /\ passkey' \subseteq Accounts
          /\ session' \in [Sessions -> {NoSession} \cup OpenSessions] /\ \A s \in Sessions : session'[s] = session[s]
      BY <1>t, <2>1 DEF AuthInv, AuthTyped
    <3> QED
      BY <2>1, <2>2, <2>4, <3>1, ElsewhereKeepsAccess
  <2> QED
    BY <1>3, <2>3, <2>4 DEF PasskeyLogin
<1>4. CASE VerifyPassword(l)
  <2> DEFINE pc == IF attempt[l].row.totp = "on" THEN "factor" ELSE "session"
             a == [attempt[l] EXCEPT !.pc = pc]
  <2>1. /\ attempt[l].pc = "verify" /\ attempt' = [attempt EXCEPT ![l] = a]
        /\ UNCHANGED <<account, session, reset, challenge, passkey, spent, overlapped>>
    BY <1>4 DEF VerifyPassword, Sets
  <2>2. pc \in {"factor", "session"}
    OBVIOUS
  <2> HIDE DEF pc
  <2>3. a \in AttemptRows /\ a.pc = pc /\ a.user = attempt[l].user /\ a.row = attempt[l].row
    BY <1>t, <2>2 DEF AttemptRows
  <2>4. /\ \A s \in Sessions : session'[s].user \in Accounts => account[session'[s].user].exists
        /\ \A s \in Sessions : SessionFollows(s)'
    BY <1>f, <2>1 DEF AuthInv, Exist, SessionFollows
  <2> HIDE DEF a
  <2> QED
    BY <1>t, <2>1, <2>2, <2>3, <2>4, AttemptMoves
<1>5. ASSUME NEW s \in Sessions, createSession(l, s) PROVE AuthInv'
  <2> DEFINE u == attempt[l].user
             pw == attempt[l].row.pw
             new == [user |-> u, pw |-> pw, late |-> pw # account[u].pw]
  <2>1. /\ attempt[l].pc = "session" /\ session' = [session EXCEPT ![s] = new] /\ attempt' = [attempt EXCEPT ![l] = NoAttempt]
        /\ UNCHANGED <<account, reset, challenge, passkey, spent, overlapped>>
    BY <1>5 DEF createSession, Ends
  <2>2. u \in Accounts /\ account[u].exists /\ pw \in Nat
    BY <1>t, <2>1 DEF AuthInv, AuthTyped, Exist, AttemptRows, AccountRows
  <2>3. new \in OpenSessions /\ new.user = u /\ (new.pw # account[u].pw => new.late)
    BY <2>2 DEF OpenSessions
  <2> HIDE DEF new
  <2>4. /\ session' \in [Sessions -> {NoSession} \cup OpenSessions] /\ session'[s] = new
        /\ \A o \in Sessions : o # s => session'[o] = session[o]
    BY <1>t, <2>1, <2>3
  <2>5. \A o \in Sessions : session'[o].user \in Accounts => account[session'[o].user].exists
    BY <2>2, <2>3, <2>4 DEF AuthInv, Exist
  <2>6. \A o \in Sessions : SessionFollows(o)'
    <3> SUFFICES ASSUME NEW o \in Sessions PROVE SessionFollows(o)'
      OBVIOUS
    <3>1. CASE o = s
      BY <2>1, <2>3, <2>4, <3>1 DEF SessionFollows
    <3>2. CASE o # s
      BY <1>f, <2>1, <2>4, <3>2 DEF SessionFollows
    <3> QED
      BY <3>1, <3>2
  <2> HIDE DEF u, pw
  <2> QED
    BY <1>n, <2>1, <2>4, <2>5, <2>6, AttemptMoves
<1> QED
  BY <1>1, <1>2, <1>3, <1>4, <1>5, RegisterKeepsAccess, SecondFactorKeepsAccess

LEMMA StepAccess ==
  ASSUME AuthInv, [AuthNext]_authVars
  PROVE  AuthInv'
<1>t. /\ session \in [Sessions -> {NoSession} \cup OpenSessions] /\ challenge \subseteq Keys /\ passkey \subseteq Accounts
      /\ spent \in [Codes \cup Keys -> Nat] /\ overlapped \in BOOLEAN /\ KeysOnce /\ Accounts \subseteq Keys /\ Attempts \subseteq Keys
  BY DEF AuthInv, AuthTyped, Keys
<1>1. CASE UNCHANGED authVars
  <2>1. \A s \in Sessions : session'[s] = session[s]
    BY <1>1 DEF authVars
  <2>2. KeysOnce'
    BY <1>t, <1>1 DEF authVars, KeysOnce
  <2> QED
    BY <1>t, <1>1, <2>1, <2>2, ElsewhereKeepsAccess DEF authVars
<1>2. ASSUME NEW s \in Sessions, destroySession(s) PROVE AuthInv'
  <2>1. session' = [session EXCEPT ![s] = NoSession] /\ UNCHANGED <<account, attempt, reset, challenge, passkey, spent, overlapped>>
    BY <1>2 DEF destroySession
  <2>2. /\ session' \in [Sessions -> {NoSession} \cup OpenSessions]
        /\ \A o \in Sessions : session'[o] = session[o] \/ session'[o] = NoSession
    BY <1>t, <2>1
  <2>3. KeysOnce'
    BY <1>t, <2>1 DEF KeysOnce
  <2> QED
    BY <1>t, <2>1, <2>2, <2>3, ElsewhereKeepsAccess
<1>3. ASSUME UNCHANGED <<account, attempt, reset, session, overlapped>>, passkey' \subseteq Accounts, NEW k \in Keys,
             \/ spent' = [spent EXCEPT ![k] = 0] /\ challenge' = challenge \cup {k}
             \/ spent' = [spent EXCEPT ![k] = @ + 1] /\ k \in challenge /\ challenge' = challenge \ {k}
      PROVE  AuthInv'
  <2>1. /\ spent' \in [Codes \cup Keys -> Nat] /\ challenge' \subseteq Keys
        /\ \A c \in Codes : spent'[c] = spent[c]
        /\ KeysOnce'
    BY <1>3, SpendingKeys
  <2>2. \A s \in Sessions : session'[s] = session[s]
    BY <1>3
  <2> QED
    BY <1>t, <1>3, <2>1, <2>2, ElsewhereKeepsAccess
<1>4. ASSUME NEW u \in Accounts, PasskeyOptions(u) \/ AddPasskey(u) PROVE AuthInv'
  <2>1. /\ UNCHANGED <<account, attempt, reset, session, overlapped>> /\ passkey' \subseteq Accounts
        /\ \/ spent' = [spent EXCEPT ![u] = 0] /\ challenge' = challenge \cup {u}
           \/ spent' = [spent EXCEPT ![u] = @ + 1] /\ u \in challenge /\ challenge' = challenge \ {u}
    BY <1>t, <1>4 DEF PasskeyOptions, AddPasskey, put, take
  <2> QED
    BY <1>t, <1>3, <2>1
<1>5. ASSUME NEW l \in Attempts, PasskeyLoginOptions(l) PROVE AuthInv'
  <2>1. /\ UNCHANGED <<account, attempt, reset, session, overlapped>> /\ passkey' \subseteq Accounts
        /\ spent' = [spent EXCEPT ![l] = 0] /\ challenge' = challenge \cup {l}
    BY <1>t, <1>5 DEF PasskeyLoginOptions, put
  <2> QED
    BY <1>t, <1>3, <2>1
<1>6. ASSUME (\E u \in Accounts : RemovePasskey(u)) \/ (\E k \in Keys : ChallengeExpires(k)) PROVE AuthInv'
  <2>1. /\ UNCHANGED <<account, attempt, reset, session, spent, overlapped>> /\ passkey' \subseteq Accounts /\ challenge' \subseteq challenge
    BY <1>t, <1>6 DEF RemovePasskey, ChallengeExpires, take
  <2>2. KeysOnce'
    BY <1>t, <2>1 DEF KeysOnce
  <2>3. \A s \in Sessions : session'[s] = session[s]
    BY <2>1
  <2> QED
    BY <1>t, <2>1, <2>2, <2>3, ElsewhereKeepsAccess
<1> QED
  BY <1>1, <1>2, <1>4, <1>5, <1>6, RequestsKeepAccess, TwoFactorKeepsAccess, ResetKeepsAccess DEF AuthNext

\* Who is let in is who may be: second factors, challenges and resets spend themselves, and a socket or a terminal is its
\* session's and its team's, and within the limit.
THEOREM AccessAlwaysHolds == AllSpec => []AccessHolds
<1> DEFINE Inv == AuthInv /\ RelayInv /\ TerminalInv
<1>1. AllInit => Inv
  BY InitAccess, InitRelay, InitTerminals DEF AllInit
<1>2. Inv /\ [AllSteps]_AllVars => Inv'
  BY PanelSteps, StepAccess, StepConnections
<1>3. Inv => AccessHolds
  BY AccessIsSound, RelayIsSound, TerminalsAreSound DEF AccessHolds, ConnectionsSound
<1> QED
  BY <1>1, <1>2, <1>3, PTL DEF AllSpec

=============================================================================
