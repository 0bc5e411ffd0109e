------------------------------ MODULE Delivery ------------------------------
(***************************************************************************)
(* What comes in from the git providers and what goes out to the team: the *)
(* webhooks, the previews of pull requests, the deploy hook, the comment   *)
(* on a pull request, notifications and log drains.                        *)
(*                                                                         *)
(* One application is deployed from its base branch and may have previews; *)
(* row 0 is that application, the others are previews.  A webhook handler  *)
(* reads, and writes after awaits; several may run at once.  A delivery    *)
(* out of order, beside another or for a second time uses up the bound     *)
(* MaxDeliveryOps and is remembered.                                       *)
(***************************************************************************)
EXTENDS Integers, Sequences, FiniteSets

CONSTANTS
    Prs,            \* pull requests into the application's branch, from the same repository
    Previews,       \* ids of preview rows
    Handlers,       \* webhook requests at a time
    Sinks,          \* notification channels and log drains of the team
    Drains,         \* those that are log drains
    MaxPrEvents,    \* pushes, opened and closed pull requests
    MaxDeliveryOps  \* settings, deploy hooks, repeated or reordered deliveries and failures

ASSUME DeliveryAssumption ==
    /\ 0 \notin Previews \cup Prs /\ Drains \subseteq Sinks
    /\ MaxPrEvents \in Nat /\ MaxDeliveryOps \in Nat

VARIABLES
    github,      \* each pull request: whether it is open, its newest commit, the panel's comments on it
    hooks,       \* deliveries on their way
    handler,     \* the webhook requests
    preview,     \* the application's preview settings
    prOf,        \* the preview rows: their pull request, or 0
    serves,      \* the commit each row's container runs, 0 without one
    deploys,     \* application-deploy: the rows to deploy, in order
    deployment,  \* the deploy job
    leaving,     \* previews whose teardown is under way
    sink,        \* the sinks that are switched on, and those that answer
    owed,        \* history: what each sink that answers should have got, and got
    asked,       \* history: deliveries about a pull request's branch, and deployments of its previews
    done         \* what was used up of the bounds, and whether a delivery was repeated or reordered

deliveryVars == <<github, hooks, handler, preview, prOf, serves, deploys, deployment, leaving, sink, owed, asked, done>>

Parent == 0
NoHook == [pr |-> 0, action |-> "none"]
IdleHandler == [pc |-> "idle", hook |-> NoHook, existing |-> 0]
NoDeployment == [pc |-> "idle", row |-> 0, left |-> {}]

DeliveryTypeOK ==
    /\ \A p \in Prs : github[p].open \in BOOLEAN /\ github[p].head \in 0 .. MaxPrEvents /\ github[p].comments \in Nat
    /\ handler \in [Handlers -> [pc : {"idle", "close", "write", "queue"}, existing : Previews \cup {0},
                                 hook : [pr : Prs \cup {0}, action : {"none", "opened", "closed", "push", "base"}]]]
    /\ preview.enabled \in BOOLEAN /\ preview.ready \in BOOLEAN
    /\ prOf \in [Previews -> Prs \cup {0}]
    /\ deployment.pc \in {"idle", "build", "comment", "notify", "logs"} /\ deployment.left \subseteq Sinks
    /\ leaving \subseteq Previews
    /\ \A s \in Sinks : owed[s].due \in Nat /\ owed[s].got \in 0 .. owed[s].due

UpDone(what, bound) == done[what] < bound /\ done' = [done EXCEPT ![what] = @ + 1]

----------------------------------------------------------------------------
(* At the provider                                                         *)

\* a pull request is opened, reopened or gets a commit: a pull_request delivery, and one for the push
PrMoves(p) ==
    /\ UpDone("event", MaxPrEvents)
    /\ github' = [github EXCEPT ![p].open = TRUE, ![p].head = @ + 1]
    /\ hooks' = hooks \o <<[pr |-> p, action |-> "opened"], [pr |-> p, action |-> "push"]>>
    /\ asked' = [asked EXCEPT ![p].hooks = @ + 1]
    /\ UNCHANGED <<handler, preview, prOf, serves, deploys, deployment, leaving, sink, owed>>

PrCloses(p) ==
    /\ github[p].open
    /\ UpDone("event", MaxPrEvents)
    /\ github' = [github EXCEPT ![p].open = FALSE]
    /\ hooks' = Append(hooks, [pr |-> p, action |-> "closed"])
    /\ UNCHANGED <<handler, preview, prOf, serves, deploys, deployment, leaving, sink, owed, asked>>

BasePush ==
    /\ UpDone("event", MaxPrEvents)
    /\ hooks' = Append(hooks, [pr |-> 0, action |-> "base"])
    /\ UNCHANGED <<github, handler, preview, prOf, serves, deploys, deployment, leaving, sink, owed, asked>>

----------------------------------------------------------------------------
(* The webhook handlers                                                    *)

FreeHandler(h) == handler[h] = IdleHandler
Takes(i) ==
    \/ i = 1 /\ (\A h \in Handlers : FreeHandler(h)) /\ UNCHANGED done
    \/ /\ i > 1 \/ \E h \in Handlers : ~FreeHandler(h)
       /\ done["op"] < MaxDeliveryOps /\ done' = [done EXCEPT !["op"] = @ + 1, !["odd"] = 1]
WithoutHook(seq, i) == SubSeq(seq, 1, i - 1) \o SubSeq(seq, i + 1, Len(seq))
PreviewRows(p) == {r \in Previews : prOf[r] = p}

\* what the two endpoints act on, of the deliveries with a good signature
parsePullRequestEvent(hook) == hook.action \in {"opened", "closed"}
parseGitPush(hook) == hook.action \in {"push", "base"}

\* a change of a pull request, up to the reads of handlePullRequestEvent
TakePullRequest(h, i) ==
    /\ FreeHandler(h) /\ Takes(i) /\ parsePullRequestEvent(hooks[i])
    /\ hooks' = WithoutHook(hooks, i)
    /\ IF ~preview.enabled THEN UNCHANGED handler
       ELSE \E e \in IF PreviewRows(hooks[i].pr) = {} THEN {0} ELSE PreviewRows(hooks[i].pr) :
               handler' = [handler EXCEPT ![h] = [hook |-> hooks[i], existing |-> e,
                              pc |-> IF hooks[i].action = "opened" THEN IF preview.ready THEN "write" ELSE "idle"
                                     ELSE IF e # 0 THEN "close" ELSE "idle"]]
    /\ UNCHANGED <<github, preview, prOf, serves, deploys, deployment, leaving, sink, owed, asked>>

\* a handler that is through
Through(h) == handler[h].pc = "idle" /\ ~FreeHandler(h)
EndHandler(h) ==
    /\ Through(h)
    /\ handler' = [handler EXCEPT ![h] = IdleHandler]
    /\ UNCHANGED <<github, hooks, preview, prOf, serves, deploys, deployment, leaving, sink, owed, asked, done>>

\* closed: the teardown goes on by itself, the row goes
ClosePreview(h) ==
    LET r == handler[h].existing
    IN  /\ handler[h].pc = "close"
        /\ leaving' = leaving \cup {r}
        /\ prOf' = [prOf EXCEPT ![r] = 0]
        /\ handler' = [handler EXCEPT ![h] = IdleHandler]
        /\ UNCHANGED <<github, hooks, preview, serves, deploys, deployment, sink, owed, asked, done>>

\* the ids a copy may have: a real one is new, so nothing that is still going on names it
FreeRows == {x \in Previews : /\ prOf[x] = 0 /\ serves[x] = 0 /\ x \notin leaving /\ x # deployment.row
                              /\ \A h \in Handlers : handler[h].existing # x
                              /\ \A k \in DOMAIN deploys : deploys[k] # x}

\* opened: the row that was found gets the branch, if it is still there; without one a copy of the application is made
WritePreview(h) ==
    LET r == handler[h].existing
    IN  /\ handler[h].pc = "write"
        /\ IF r # 0 THEN /\ handler' = [handler EXCEPT ![h] = IF prOf[r] # 0 THEN [@ EXCEPT !.pc = "queue"] ELSE IdleHandler]
                         /\ UNCHANGED prOf
           ELSE \E new \in FreeRows :
                   /\ \A x \in FreeRows : new <= x
                   /\ prOf' = [prOf EXCEPT ![new] = handler[h].hook.pr]
                   /\ handler' = [handler EXCEPT ![h].pc = "queue", ![h].existing = new]
        /\ UNCHANGED <<github, hooks, preview, serves, deploys, deployment, leaving, sink, owed, asked, done>>

\* the deployment row and its job; without the preview's row the insert fails and so does the request
QueuePreview(h) ==
    LET r == handler[h].existing
    IN  /\ handler[h].pc = "queue"
        /\ handler' = [handler EXCEPT ![h] = IdleHandler]
        /\ deploys' = IF prOf[r] # 0 THEN Append(deploys, r) ELSE deploys
        /\ asked' = IF prOf[r] # 0 THEN [asked EXCEPT ![prOf[r]].deploys = @ + 1] ELSE asked
        /\ UNCHANGED <<github, hooks, preview, prOf, serves, deployment, leaving, sink, owed, done>>

\* mutant: previews are matched by their branch too
PushTargetsPreviews(hook) == IF hook.action = "base" THEN {Parent} ELSE PreviewRows(hook.pr)

\* the applications a push deploys: those of its branch, previews left out
PushTargets(hook) == IF hook.action = "base" THEN {Parent} ELSE {}

\* a push (githubWebhook, gitSourceWebhook): nothing with a skip marker in its message
TakePush(h, i, skip) ==
    /\ FreeHandler(h) /\ Takes(i) /\ parseGitPush(hooks[i])
    /\ hooks' = WithoutHook(hooks, i)
    /\ LET rows == IF skip THEN {} ELSE PushTargets(hooks[i])
       IN  /\ \E order \in {s \in [1 .. Cardinality(rows) -> rows] : {s[k] : k \in DOMAIN s} = rows} : deploys' = deploys \o order
           /\ asked' = [p \in Prs |-> [asked[p] EXCEPT !.deploys = @ + Cardinality(rows \cap PreviewRows(p))]]
    /\ UNCHANGED <<github, handler, preview, prOf, serves, deployment, leaving, sink, owed>>

\* the deploy hook: a token for one application, refused while it is deploying
DeployHook ==
    /\ UpDone("op", MaxDeliveryOps)
    /\ ~(deployment.pc = "build" /\ deployment.row = Parent)
    /\ deploys' = Append(deploys, Parent)
    /\ UNCHANGED <<github, hooks, handler, preview, prOf, serves, deployment, leaving, sink, owed, asked>>

\* the provider sends a delivery again: by hand, or because the answer took too long
Redeliver(p) ==
    /\ github[p].head > 0
    /\ done["op"] < MaxDeliveryOps /\ done' = [done EXCEPT !["op"] = @ + 1, !["odd"] = 1]
    /\ hooks' = Append(hooks, [pr |-> p, action |-> "opened"])
    /\ asked' = [asked EXCEPT ![p].hooks = @ + 1]
    /\ UNCHANGED <<github, handler, preview, prOf, serves, deploys, deployment, leaving, sink, owed>>

----------------------------------------------------------------------------
(* Settings                                                                *)

\* PUT preview: switching it off leaves the previews as they are
SetPreview ==
    /\ UpDone("op", MaxDeliveryOps)
    /\ preview.ready \/ preview.enabled
    /\ preview' = [preview EXCEPT !.enabled = ~@, !.changed = TRUE]
    /\ UNCHANGED <<github, hooks, handler, prOf, serves, deploys, deployment, leaving, sink, owed, asked>>

\* the server's proxy or wildcard domain goes or comes back
ProxyChanges ==
    /\ UpDone("op", MaxDeliveryOps)
    /\ preview' = [preview EXCEPT !.ready = ~@, !.changed = TRUE]
    /\ UNCHANGED <<github, hooks, handler, prOf, serves, deploys, deployment, leaving, sink, owed, asked>>

SinkChanges(s) ==
    /\ UpDone("op", MaxDeliveryOps)
    /\ deployment.pc \notin {"notify", "logs"}
    /\ sink' \in {[sink EXCEPT ![s].enabled = ~@], [sink EXCEPT ![s].answers = ~@]}
    /\ UNCHANGED <<github, hooks, handler, preview, prOf, serves, deploys, deployment, leaving, owed, asked>>

----------------------------------------------------------------------------
(* Deploys and teardowns                                                   *)

\* the next job; one whose deployment went with its preview's row is skipped
StartDeployment ==
    /\ deployment = NoDeployment /\ deploys # <<>>
    /\ deployment' = IF Head(deploys) # Parent /\ prOf[Head(deploys)] = 0 THEN NoDeployment
                     ELSE [NoDeployment EXCEPT !.pc = "build", !.row = Head(deploys)]
    /\ deploys' = Tail(deploys)
    /\ UNCHANGED <<github, hooks, handler, preview, prOf, serves, leaving, sink, owed, asked, done>>

Newest(r) == IF prOf[r] = 0 THEN MaxPrEvents + 1 ELSE github[prOf[r]].head

\* the branch is cloned and run
BuildPreview ==
    /\ deployment.pc = "build"
    /\ serves' = IF deployment.row = Parent THEN serves ELSE [serves EXCEPT ![deployment.row] = Newest(deployment.row)]
    /\ deployment' = [deployment EXCEPT !.pc = "comment"]
    /\ UNCHANGED <<github, hooks, handler, preview, prOf, deploys, leaving, sink, owed, asked, done>>

\* upsertPullRequestComment: the comment with the parent's marker is changed; without one it is made
Comments(p) == IF github[p].comments > 0 THEN github[p].comments ELSE 1

\* channels that want the event; every log drain
notifyTeam == {s \in Sinks \ Drains : sink[s].enabled}
forwardJobLog == {s \in Drains : sink[s].enabled}

Owes(due) == [s \in Sinks |-> IF s \in due /\ sink[s].answers THEN [owed[s] EXCEPT !.due = @ + 1] ELSE owed[s]]

\* commentOnPreview never fails the deploy; then the team is told
CommentOnPreview(fails) ==
    /\ deployment.pc = "comment"
    /\ fails => done["op"] < MaxDeliveryOps
    /\ done' = IF fails THEN [done EXCEPT !["op"] = @ + 1] ELSE done
    /\ github' = IF fails \/ deployment.row = Parent \/ prOf[deployment.row] = 0 THEN github
                 ELSE [github EXCEPT ![prOf[deployment.row]].comments = Comments(prOf[deployment.row])]
    /\ deployment' = [deployment EXCEPT !.pc = "notify", !.left = notifyTeam]
    /\ owed' = Owes(notifyTeam)
    /\ UNCHANGED <<hooks, handler, preview, prOf, serves, deploys, leaving, sink, asked>>

\* mutant: a send that fails rejects for all of them
SendStopsAll(s) == IF sink[s].answers THEN deployment.left \ {s} ELSE {}

\* mutant: a destination is done only with the last send
SendLeavesAgain(s) == IF deployment.left = {s} THEN {} ELSE deployment.left

\* the sends that are left when one is over: sendNotification and sendLogs catch their own failures
SendLeaves(s) == deployment.left \ {s}

Send(s) ==
    /\ deployment.pc = "notify" /\ s \in deployment.left
    /\ deployment' = [deployment EXCEPT !.left = SendLeaves(s)]
    /\ owed' = IF sink[s].answers THEN [owed EXCEPT ![s].got = @ + 1] ELSE owed
    /\ UNCHANGED <<github, hooks, handler, preview, prOf, serves, deploys, leaving, sink, asked, done>>

ForwardLog ==
    /\ deployment.pc = "notify" /\ deployment.left = {}
    /\ deployment' = [deployment EXCEPT !.pc = "logs", !.left = forwardJobLog]
    /\ owed' = Owes(forwardJobLog)
    /\ UNCHANGED <<github, hooks, handler, preview, prOf, serves, deploys, leaving, sink, asked, done>>

\* sendLogs to one drain
SendLogs(s) ==
    /\ deployment.pc = "logs" /\ s \in deployment.left
    /\ deployment' = [deployment EXCEPT !.left = SendLeaves(s)]
    /\ owed' = IF sink[s].answers THEN [owed EXCEPT ![s].got = @ + 1] ELSE owed
    /\ UNCHANGED <<github, hooks, handler, preview, prOf, serves, deploys, leaving, sink, asked, done>>

EndDeployment ==
    /\ deployment.pc = "logs" /\ deployment.left = {}
    /\ deployment' = NoDeployment
    /\ UNCHANGED <<github, hooks, handler, preview, prOf, serves, deploys, leaving, sink, owed, asked, done>>

\* tearDownApplication, in the background
PreviewGone(r) ==
    /\ r \in leaving
    /\ leaving' = leaving \ {r}
    /\ serves' = [serves EXCEPT ![r] = 0]
    /\ UNCHANGED <<github, hooks, handler, preview, prOf, deploys, deployment, sink, owed, asked, done>>

----------------------------------------------------------------------------
DeliveryInit ==
    /\ github = [p \in Prs |-> [open |-> FALSE, head |-> 0, comments |-> 0]]
    /\ hooks = <<>> /\ handler = [h \in Handlers |-> IdleHandler]
    /\ preview = [enabled |-> TRUE, ready |-> TRUE, changed |-> FALSE]
    /\ prOf = [r \in Previews |-> 0] /\ serves = [r \in Previews |-> 0]
    /\ deploys = <<>> /\ deployment = NoDeployment /\ leaving = {}
    /\ sink = [s \in Sinks |-> [enabled |-> TRUE, answers |-> TRUE]]
    /\ owed = [s \in Sinks |-> [due |-> 0, got |-> 0]]
    /\ asked = [p \in Prs |-> [hooks |-> 0, deploys |-> 0]]
    /\ done = [what \in {"event", "op", "odd"} |-> 0]

DeliveryNext ==
    \/ BasePush \/ DeployHook \/ SetPreview \/ ProxyChanges
    \/ \E p \in Prs : PrMoves(p) \/ PrCloses(p) \/ Redeliver(p)
    \/ \E h \in Handlers, i \in DOMAIN hooks : TakePullRequest(h, i) \/ \E skip \in BOOLEAN : TakePush(h, i, skip)
    \/ \E h \in Handlers : EndHandler(h) \/ ClosePreview(h) \/ WritePreview(h) \/ QueuePreview(h)
    \/ \E s \in Sinks : SinkChanges(s) \/ Send(s) \/ SendLogs(s)
    \/ StartDeployment \/ BuildPreview \/ ForwardLog \/ EndDeployment
    \/ \E fails \in BOOLEAN : CommentOnPreview(fails)
    \/ \E r \in Previews : PreviewGone(r)

DeliverySpec == DeliveryInit /\ [][DeliveryNext]_deliveryVars

----------------------------------------------------------------------------
(* Properties                                                              *)

Delivered == hooks = <<>> /\ (\A h \in Handlers : FreeHandler(h)) /\ deploys = <<>> /\ deployment = NoDeployment /\ leaving = {}

\* With deliveries in order, once everything is through, an open pull request has one preview that serves its newest
\* commit, a closed one none (previews.ts).
PreviewsFollowPrs ==
    Delivered /\ ~preview.changed /\ done["odd"] = 0
        => \A p \in Prs : IF github[p].open THEN \E r \in Previews : PreviewRows(p) = {r} /\ serves[r] = github[p].head
                          ELSE PreviewRows(p) = {}

\* A push to a pull request's branch deploys its preview once, although it comes as a push and as a change of the pull
\* request (githubWebhook.ts: "matching it here would deploy twice per push").
OneDeployPerPush == \A p \in Prs : asked[p].deploys <= asked[p].hooks

\* A pull request gets one comment, through any number of deploys, closings and reopenings (preview.ts, previewCommentMarker).
OneComment == \A p \in Prs : github[p].comments <= 1

\* A channel or drain that fails keeps nothing from the others: between two deploys every sink that answers got
\* everything it was owed (packages/notifications, packages/logdrains).
SinksAreIndependent == deployment = NoDeployment => \A s \in Sinks : owed[s].got = owed[s].due

\* What the webhooks and the team can rely on.
DeliverySound == PreviewsFollowPrs /\ OneDeployPerPush /\ OneComment /\ SinksAreIndependent

=============================================================================
