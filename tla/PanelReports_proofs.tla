------------------------- MODULE PanelReports_proofs -------------------------
(***************************************************************************)
(* Theorems about the panel around the resources, continued: what it tells *)
(* of containers, pushes and pull requests, and the backups it keeps of    *)
(* itself and of volumes, for any number of containers, pull requests,     *)
(* channels, rows and runs; and, last, that every variable of the panel    *)
(* stays within its type, beside the invariants proved before.             *)
(***************************************************************************)
EXTENDS Panel_proofs

----------------------------------------------------------------------------
(* The container watch                                                      *)

Entries == [reported : ContainerState \cup {"none"}, candidate : ContainerState \cup {"none"}, polls : Nat, since : 0..HoldTicks]
Runs == [state : ContainerState, n : Nat]

\* What the watch remembers of a container, next to what it has seen of it: a state it has not reported yet has been
\* seen in as many polls in a row as it has counted, and the hold has not been over for all of them.
Remembers(t, m) ==
    /\ t.candidate = "none" => t.polls = 0 /\ (m.n > 0 => t.reported = m.state)
    /\ t.candidate # "none" => /\ t.reported # "none" /\ t.reported # t.candidate
                               /\ m.state = t.candidate /\ m.n = t.polls /\ t.polls >= 1 /\ m.n < Limit
                               /\ t.since >= HoldTicks \/ t.since >= t.polls

WatchInv ==
    /\ seenState \in [Containers -> [state : ContainerState, restarts : Nat, oom : BOOLEAN]]
    /\ tracked \in [Containers -> Entries]
    /\ settled \in [Containers -> Runs]
    /\ \A c \in Containers : Remembers(tracked[c], settled[c])
    /\ ReportsAreSettled

LEMMA ForgottenIsRemembered ==
  /\ Nothing \in Entries
  /\ [state |-> "absent", n |-> 0] \in Runs
  /\ Remembers(Nothing, [state |-> "absent", n |-> 0])
BY WatchAssumption DEF Nothing, Entries, Runs, ContainerState, Remembers

LEMMA InitWatch == WatchInit => WatchInv
<1> SUFFICES ASSUME WatchInit PROVE WatchInv
  OBVIOUS
<1>1. seenState \in [Containers -> [state : ContainerState, restarts : Nat, oom : BOOLEAN]]
  BY DEF WatchInit, ContainerState
<1>2. ReportsAreSettled
  BY WatchAssumption DEF WatchInit, NotTold, ReportsAreSettled
<1> QED
  BY <1>1, <1>2, ForgottenIsRemembered DEF WatchInit, WatchInv

LEMMA LimitIsBoth == Limit \in Nat /\ Limit >= 1 /\ Limit >= ConfirmPolls /\ Limit >= HoldTicks /\ ConfirmPolls \in Nat /\ HoldTicks \in Nat
BY WatchAssumption DEF Limit

LEMMA WatchIsSound == WatchInv => WatchSound
<1> SUFFICES ASSUME WatchInv, NEW c \in Containers, settled[c].n >= Limit
             PROVE  tracked[c].reported = settled[c].state
  BY DEF WatchInv, WatchSound, SettledStateIsTold
<1>1. settled[c] \in Runs /\ Remembers(tracked[c], settled[c])
  BY DEF WatchInv
<1>2. settled[c].n \in Nat
  BY <1>1 DEF Runs
<1> QED
  BY <1>1, <1>2, LimitIsBoth DEF Remembers

\* A minute goes by and nothing is seen.
LEMMA LaterRemembers ==
  ASSUME NEW t \in Entries, NEW m \in Runs, Remembers(t, m)
  PROVE  /\ Later(t) \in Entries /\ Remembers(Later(t), m)
         /\ Later(t).reported = t.reported /\ Later(t).candidate = t.candidate /\ Later(t).polls = t.polls
         /\ Later(t).since >= HoldTicks \/ Later(t).since = t.since + 1
<1>1. t.since \in 0..HoldTicks /\ t.polls \in Nat
  BY DEF Entries
<1>2. UpTo(t.since + 1, HoldTicks) \in 0..HoldTicks /\ UpTo(t.since + 1, HoldTicks) >= t.since
      /\ (UpTo(t.since + 1, HoldTicks) >= HoldTicks \/ UpTo(t.since + 1, HoldTicks) = t.since + 1)
  BY <1>1, LimitIsBoth DEF UpTo
<1> DEFINE l == Later(t)
<1>3. /\ l \in Entries /\ l.reported = t.reported /\ l.candidate = t.candidate /\ l.polls = t.polls
      /\ l.since = UpTo(t.since + 1, HoldTicks)
  BY <1>2 DEF Later, Entries
<1> HIDE DEF l
<1>4. l.since >= HoldTicks \/ l.since = t.since + 1
  BY <1>2, <1>3
<1>5. Remembers(l, m)
  BY <1>1, <1>2, <1>3, LimitIsBoth DEF Remembers
<1> QED
  BY <1>3, <1>4, <1>5 DEF l

\* A poll sees the container: the entry counts what has been seen, and a report is of a state that stayed.
LEMMA PollRemembers ==
  ASSUME NEW t \in Entries, NEW m \in Runs, NEW s \in ContainerState, Remembers(t, m),
         NEW k \in Nat, k = IF m.state = s THEN UpTo(m.n + 1, Limit) ELSE 1
  PROVE  /\ After(Later(t), s) \in Entries /\ Remembers(After(Later(t), s), [state |-> s, n |-> k])
         /\ Reports(Step(Later(t), s)) => k >= ConfirmPolls /\ Later(t).since >= HoldTicks /\ t.reported # s
<1> DEFINE l == Later(t)
<1>l. /\ l \in Entries /\ Remembers(l, m) /\ l.reported = t.reported /\ l.candidate = t.candidate /\ l.polls = t.polls
      /\ l.since >= HoldTicks \/ l.since = t.since + 1
  BY LaterRemembers
<1> HIDE DEF l
<1>t. /\ l.since \in Nat /\ l.polls \in Nat /\ t.since \in Nat /\ m.n \in Nat /\ m.state \in ContainerState /\ "none" \notin ContainerState
      /\ l.reported \in ContainerState \cup {"none"} /\ l.candidate \in ContainerState \cup {"none"}
  BY <1>l DEF Entries, Runs, ContainerState
<1>m. l.since >= HoldTicks \/ (l.since >= 1 /\ (t.candidate # "none" => l.since >= t.polls + 1))
  BY <1>l, <1>t, LimitIsBoth DEF Remembers
<1> DEFINE x == Step(l, s)
           run == [state |-> s, n |-> k]
<1>r. run.state = s /\ run.n = k
  OBVIOUS
<1>1. ASSUME x \in Entries, x.since = l.since, x.polls < ConfirmPolls \/ x.since < HoldTicks, Remembers(x, run)
      PROVE  After(l, s) \in Entries /\ Remembers(After(l, s), run) /\ ~ Reports(x)
  <2>1. ~ Reports(x)
    BY <1>1, <1>t, LimitIsBoth DEF Reports, Entries
  <2> QED
    BY <1>1, <2>1 DEF After
<1>2. ASSUME x.polls \in Nat, x.polls >= ConfirmPolls, x.since = l.since, l.since >= HoldTicks
      PROVE  After(l, s) \in Entries /\ Remembers(After(l, s), run)
  <2> DEFINE z == [reported |-> s, candidate |-> "none", polls |-> 0, since |-> 0]
  <2>1. After(l, s) = z
    BY <1>2 DEF After, Reports
  <2>2. z \in Entries /\ z.candidate = "none" /\ z.polls = 0 /\ z.reported = s
    BY LimitIsBoth DEF Entries
  <2> HIDE DEF z, run
  <2> QED
    BY <1>r, <2>1, <2>2 DEF Remembers
<1>3. CASE l.reported = "none"
  <2>1. x = [l EXCEPT !.reported = s]
    BY <1>3 DEF Step
  <2>2. x \in Entries /\ x.since = l.since /\ x.candidate = l.candidate /\ x.polls = l.polls /\ x.reported = s
    BY <1>l, <2>1 DEF Entries
  <2>3. l.candidate = "none" /\ l.polls = 0
    BY <1>l, <1>3 DEF Remembers
  <2> HIDE DEF x, run
  <2>4. Remembers(x, run)
    BY <1>r, <2>2, <2>3 DEF Remembers
  <2>5. x.polls < ConfirmPolls
    BY <2>2, <2>3, WatchAssumption
  <2> QED
    BY <1>1, <2>2, <2>4, <2>5 DEF x, run, l
<1>4. CASE l.reported # "none" /\ s = l.reported
  <2>1. x = [l EXCEPT !.candidate = "none", !.polls = 0]
    BY <1>4 DEF Step
  <2> HIDE DEF x, run
  <2>2. x \in Entries /\ x.since = l.since /\ x.candidate = "none" /\ x.polls = 0 /\ x.reported = s
    BY <1>l, <1>4, <2>1 DEF Entries
  <2>3. Remembers(x, run)
    BY <1>r, <2>2 DEF Remembers
  <2>4. x.polls < ConfirmPolls
    BY <2>2, WatchAssumption
  <2> QED
    BY <1>1, <2>2, <2>3, <2>4 DEF x, run, l
<1>5. CASE l.reported # "none" /\ s # l.reported /\ s = l.candidate
  <2>1. x = [l EXCEPT !.polls = UpTo(l.polls + 1, Limit)]
    BY <1>5 DEF Step
  <2>2. m.state = s /\ m.n = l.polls /\ l.polls < Limit /\ l.candidate # "none"
    BY <1>l, <1>5, <1>t DEF Remembers
  <2>3. UpTo(l.polls + 1, Limit) = l.polls + 1 /\ k = l.polls + 1
    BY <1>t, <2>2, LimitIsBoth DEF UpTo
  <2>4. x \in Entries /\ x.since = l.since /\ x.candidate = s /\ x.polls = l.polls + 1 /\ x.reported = l.reported
    BY <1>l, <1>t, <1>5, <2>1, <2>3 DEF Entries
  <2> HIDE DEF x, run
  <2>5. CASE x.polls >= ConfirmPolls /\ l.since >= HoldTicks
    <3>1. k >= ConfirmPolls /\ x.polls \in Nat
      BY <1>t, <2>3, <2>4, <2>5
    <3> QED
      BY <1>l, <1>2, <1>5, <2>4, <2>5, <3>1 DEF x, run, l
  <2>6. CASE ~ (x.polls >= ConfirmPolls /\ l.since >= HoldTicks)
    <3>1. l.since >= HoldTicks \/ l.since >= l.polls + 1
      BY <1>l, <1>m, <2>2
    <3>2. l.polls + 1 < Limit
      BY <1>t, <2>4, <2>6, <3>1, WatchAssumption DEF Limit
    <3>3. Remembers(x, run)
      BY <1>r, <1>t, <1>5, <2>3, <2>4, <3>1, <3>2 DEF Remembers
    <3>4. x.polls < ConfirmPolls \/ x.since < HoldTicks
      BY <1>t, <2>4, <2>6, LimitIsBoth
    <3> QED
      BY <1>1, <2>4, <3>3, <3>4 DEF x, run, l
  <2> QED
    BY <2>5, <2>6
<1>6. CASE l.reported # "none" /\ s # l.reported /\ s # l.candidate
  <2>1. x = [l EXCEPT !.candidate = s, !.polls = 1]
    BY <1>6 DEF Step
  <2>2. k = 1
    BY <1>l, <1>6, <1>t, LimitIsBoth DEF Remembers, UpTo
  <2> HIDE DEF x, run
  <2>3. x \in Entries /\ x.since = l.since /\ x.candidate = s /\ x.polls = 1 /\ x.reported = l.reported
    BY <1>l, <1>t, <1>6, <2>1 DEF Entries
  <2>4. CASE ConfirmPolls = 1 /\ l.since >= HoldTicks
    <3>1. k >= ConfirmPolls /\ x.polls \in Nat /\ x.polls >= ConfirmPolls
      BY <2>2, <2>3, <2>4
    <3> QED
      BY <1>l, <1>2, <1>6, <2>3, <2>4, <3>1 DEF x, run, l
  <2>5. CASE ~ (ConfirmPolls = 1 /\ l.since >= HoldTicks)
    <3>1. 1 < Limit
      BY <1>t, <1>m, <2>5, WatchAssumption DEF Limit
    <3>2. Remembers(x, run)
      BY <1>r, <1>t, <1>m, <1>6, <2>2, <2>3, <3>1 DEF Remembers
    <3>3. x.polls < ConfirmPolls \/ x.since < HoldTicks
      BY <1>t, <2>3, <2>5, WatchAssumption
    <3> QED
      BY <1>1, <2>3, <3>2, <3>3 DEF x, run, l
  <2> QED
    BY <2>4, <2>5
<1> QED
  BY <1>3, <1>4, <1>5, <1>6

LEMMA StepWatch ==
  ASSUME WatchInv, [WatchNext]_watchVars
  PROVE  WatchInv'
<1>t. /\ seenState \in [Containers -> [state : ContainerState, restarts : Nat, oom : BOOLEAN]]
      /\ tracked \in [Containers -> Entries] /\ settled \in [Containers -> Runs]
      /\ \A c \in Containers : Remembers(tracked[c], settled[c])
      /\ ReportsAreSettled
  BY DEF WatchInv
<1>1. CASE UNCHANGED <<tracked, settled, told>>
  <2>1. \/ UNCHANGED seenState
        \/ \E c \in Containers, s \in ContainerState, n \in Nat, oom \in BOOLEAN :
               seenState' = [seenState EXCEPT ![c] = [state |-> s, restarts |-> n, oom |-> oom]]
    <3>1. CASE WatchRestarts \/ Poll \/ LostPoll \/ UNCHANGED watchVars
      BY <3>1 DEF WatchRestarts, Poll, LostPoll, watchVars
    <3>2. ASSUME NEW c \in Containers, SleepChanges(c) PROVE UNCHANGED seenState
      BY <3>2 DEF SleepChanges
    <3>3. ASSUME NEW c \in Containers, NEW oom \in BOOLEAN, ContainerCrashes(c, oom)
          PROVE  \E s \in ContainerState, n \in Nat :
                    seenState' = [seenState EXCEPT ![c] = [state |-> s, restarts |-> n, oom |-> oom]]
      <4>1. PICK s \in {"running", "restarting"} : Becomes(c, s, seenState[c].restarts + 1, oom)
        BY <3>3 DEF ContainerCrashes
      <4>2. s \in ContainerState /\ seenState[c].restarts + 1 \in Nat
        BY <1>t DEF ContainerState
      <4> QED
        BY <4>1, <4>2 DEF Becomes
    <3>4. ASSUME NEW c \in Containers, ContainerChanges(c)
          PROVE  \E s \in ContainerState, n \in Nat, oom \in BOOLEAN :
                    seenState' = [seenState EXCEPT ![c] = [state |-> s, restarts |-> n, oom |-> oom]]
      <4> DEFINE n(s) == IF "absent" \in {s, seenState[c].state} THEN 0 ELSE seenState[c].restarts
      <4>1. PICK s \in ContainerState : Becomes(c, s, n(s), FALSE)
        BY <3>4 DEF ContainerChanges
      <4>2. n(s) \in Nat
        BY <1>t
      <4> HIDE DEF n
      <4> QED
        BY <4>1, <4>2 DEF Becomes
    <3> QED
      BY <3>1, <3>2, <3>3, <3>4 DEF WatchNext
  <2>2. seenState' \in [Containers -> [state : ContainerState, restarts : Nat, oom : BOOLEAN]]
    BY <1>t, <2>1
  <2> QED
    BY <1>t, <1>1, <2>2 DEF WatchInv, ReportsAreSettled
<1>2. CASE tracked' = [c \in Containers |-> Later(tracked[c])] /\ UNCHANGED <<seenState, settled, told>>
  <2>1. \A c \in Containers : Later(tracked[c]) \in Entries /\ Remembers(Later(tracked[c]), settled[c])
    BY <1>t, LaterRemembers
  <2>2. tracked' \in [Containers -> Entries] /\ \A c \in Containers : Remembers(tracked'[c], settled[c])
    BY <1>2, <2>1
  <2> QED
    BY <1>t, <1>2, <2>2 DEF WatchInv, ReportsAreSettled
<1>3. CASE WatchRestarts
  <2>1. /\ tracked' = [c \in Containers |-> Nothing] /\ settled' = [c \in Containers |-> [state |-> "absent", n |-> 0]]
        /\ UNCHANGED <<seenState, told>>
    BY <1>3 DEF WatchRestarts
  <2> QED
    BY <1>t, <2>1, ForgottenIsRemembered DEF WatchInv, ReportsAreSettled
<1>4. CASE Poll /\ Present # {}
  <2> DEFINE now(c) == seenState[c].state
             l(c) == Later(tracked[c])
             row(c) == IF c \in Watched THEN After(l(c), now(c)) ELSE Nothing
             run(c) == IF c \in Watched THEN [state |-> now(c), n |-> InARow(c)] ELSE [state |-> "absent", n |-> 0]
             tell(c) == IF c \in Watched /\ Reports(Step(l(c), now(c)))
                        THEN [polls |-> InARow(c), gap |-> l(c).since, from |-> tracked[c].reported, to |-> now(c)]
                        ELSE told[c]
  <2>1. /\ tracked' = [c \in Containers |-> row(c)] /\ settled' = [c \in Containers |-> run(c)]
        /\ told' = [c \in Containers |-> tell(c)] /\ UNCHANGED seenState
    BY <1>4 DEF Poll
  <2>2. ASSUME NEW c \in Containers
        PROVE  /\ row(c) \in Entries /\ run(c) \in Runs /\ Remembers(row(c), run(c))
               /\ tell(c).polls >= ConfirmPolls /\ tell(c).gap >= HoldTicks /\ tell(c).from # tell(c).to
    <3>1. told[c].polls >= ConfirmPolls /\ told[c].gap >= HoldTicks /\ told[c].from # told[c].to
      BY <1>t DEF ReportsAreSettled
    <3>2. CASE c \notin Watched
      BY <3>1, <3>2, ForgottenIsRemembered
    <3>3. CASE c \in Watched
      <4>1. now(c) \in ContainerState /\ tracked[c] \in Entries /\ settled[c] \in Runs /\ Remembers(tracked[c], settled[c])
        BY <1>t
      <4>2. InARow(c) \in Nat /\ InARow(c) = IF settled[c].state = now(c) THEN UpTo(settled[c].n + 1, Limit) ELSE 1
        BY <4>1, LimitIsBoth DEF InARow, UpTo, Runs
      <4>3. /\ After(l(c), now(c)) \in Entries /\ Remembers(After(l(c), now(c)), [state |-> now(c), n |-> InARow(c)])
            /\ Reports(Step(l(c), now(c))) => /\ InARow(c) >= ConfirmPolls /\ l(c).since >= HoldTicks
                                              /\ tracked[c].reported # now(c)
        BY <4>1, <4>2, PollRemembers
      <4>4. run(c) \in Runs
        BY <3>3, <4>1, <4>2 DEF Runs
      <4> QED
        BY <3>1, <3>3, <4>3, <4>4
    <3> QED
      BY <3>2, <3>3
  <2> HIDE DEF row, run, tell
  <2>3. /\ tracked' \in [Containers -> Entries] /\ settled' \in [Containers -> Runs]
        /\ \A c \in Containers : Remembers(tracked'[c], settled'[c])
        /\ \A c \in Containers : told'[c].polls >= ConfirmPolls /\ told'[c].gap >= HoldTicks /\ told'[c].from # told'[c].to
    BY <2>1, <2>2
  <2> QED
    BY <1>t, <2>1, <2>3 DEF WatchInv, ReportsAreSettled
<1>5. \/ UNCHANGED <<tracked, settled, told>>
      \/ tracked' = [c \in Containers |-> Later(tracked[c])] /\ UNCHANGED <<seenState, settled, told>>
      \/ WatchRestarts
      \/ Poll /\ Present # {}
  <2>1. Poll /\ Present = {} => tracked' = [c \in Containers |-> Later(tracked[c])] /\ UNCHANGED <<seenState, settled, told>>
    BY DEF Poll
  <2>2. LostPoll => tracked' = [c \in Containers |-> Later(tracked[c])] /\ UNCHANGED <<seenState, settled, told>>
    BY DEF LostPoll
  <2>3. ASSUME NEW c \in Containers, ContainerChanges(c) \/ SleepChanges(c) \/ \E oom \in BOOLEAN : ContainerCrashes(c, oom)
        PROVE  UNCHANGED <<tracked, settled, told>>
    BY <2>3 DEF ContainerChanges, SleepChanges, ContainerCrashes, Becomes
  <2>4. UNCHANGED watchVars => UNCHANGED <<tracked, settled, told>>
    BY DEF watchVars
  <2> QED
    BY <2>1, <2>2, <2>3, <2>4 DEF WatchNext
<1> QED
  BY <1>1, <1>2, <1>3, <1>4, <1>5

----------------------------------------------------------------------------
(* Webhooks, previews and notifications                                     *)

HookEvents == [pr : Prs, action : {"opened", "closed", "push"}] \cup [pr : {0}, action : {"base"}]
Requests == [pc : {"idle", "close", "write", "queue"}, existing : Previews \cup {0}, hook : HookEvents \cup {NoHook}]
Deployments == [pc : {"idle", "build", "comment", "notify", "logs"}, row : Previews \cup {0}, left : SUBSET Sinks]

DeliveryTyped ==
    /\ github \in [Prs -> [open : BOOLEAN, head : Nat, comments : {0, 1}]]
    /\ hooks \in Seq(HookEvents)
    /\ handler \in [Handlers -> Requests]
    /\ \A h \in Handlers : handler[h].pc # "idle" => /\ handler[h].hook.pr \in Prs
                                                     /\ handler[h].hook.action = IF handler[h].pc = "close" THEN "closed" ELSE "opened"
                                                     /\ handler[h].pc # "write" => handler[h].existing # 0
    /\ preview \in [enabled : BOOLEAN, ready : BOOLEAN, changed : BOOLEAN]
    /\ prOf \in [Previews -> Prs \cup {0}] /\ serves \in [Previews -> Nat]
    /\ deploys \in Seq(Previews \cup {0}) /\ deployment \in Deployments
    /\ sink \in [Sinks -> [enabled : BOOLEAN, answers : BOOLEAN]]
    /\ owed \in [Sinks -> [due : Nat, got : Nat]]
    /\ asked \in [Prs -> [hooks : Nat, deploys : Nat]]
    /\ done \in [{"event", "op", "odd"} -> Nat]

\* A sink that answers misses exactly the send that is still to come.
SendsArePending ==
    /\ deployment.pc \notin {"notify", "logs"} => deployment.left = {}
    /\ \A s \in Sinks : owed[s].due = owed[s].got + (IF s \in deployment.left /\ sink[s].answers THEN 1 ELSE 0)

\* A deployment of a preview is paid for by a delivery: one that was acted on, one that is being acted on or one to come.
Acting(h, p) == handler[h].pc \in {"write", "queue"} /\ handler[h].hook.pr = p
Coming(p) == {i \in DOMAIN hooks : hooks[i].pr = p /\ hooks[i].action = "opened"}
Openers(p) == {h \in Handlers : Acting(h, p)}
AtWork == {h \in Handlers : handler[h].pc # "idle"}
DeploysArePaid ==
    /\ IsFiniteSet(AtWork)
    /\ \A p \in Prs : asked[p].deploys + Cardinality(Coming(p)) + Cardinality(Openers(p)) <= asked[p].hooks

\* A row that is still there is not being torn down, and no handler holds another pull request's row.
RowsAreKnown ==
    /\ \A r \in Previews : prOf[r] # 0 => r \notin leaving
    /\ \A h \in AtWork : handler[h].existing # 0 => prOf[handler[h].existing] \in {0, handler[h].hook.pr}

\* What holds of deliveries in order.
Concerns(d, p) == d.pr = p /\ parsePullRequestEvent(d)
Expected(p) == \E i \in DOMAIN hooks : Concerns(hooks[i], p)
Handled(p) == \E h \in AtWork : handler[h].hook.pr = p
Brought(r) == serves[r] = github[prOf[r]].head \/ (\E i \in DOMAIN deploys : deploys[i] = r)
              \/ (deployment.pc = "build" /\ deployment.row = r)
Settled(p) == IF github[p].open THEN \E r \in Previews : PreviewRows(p) = {r} /\ Brought(r) ELSE PreviewRows(p) = {}
OneAtATimeIn == \A h, g \in Handlers : ~ FreeHandler(h) /\ ~ FreeHandler(g) => h = g
LastDecides ==
    \A p \in Prs, i \in DOMAIN hooks :
        Concerns(hooks[i], p) /\ (\A j \in DOMAIN hooks : Concerns(hooks[j], p) => j <= i)
            => (hooks[i].action = "opened" <=> github[p].open)
FoundIsThere ==
    \A h \in AtWork : LET p == handler[h].hook.pr
                    IN  /\ PreviewRows(p) = IF handler[h].existing = 0 THEN {} ELSE {handler[h].existing}
                        /\ ~ Expected(p) => (handler[h].pc # "close" <=> github[p].open)
InOrder == done["odd"] = 0 /\ ~ preview.changed
PreviewsAreComing ==
    InOrder => /\ preview.enabled /\ preview.ready
               /\ OneAtATimeIn /\ LastDecides /\ FoundIsThere
               /\ \A p \in Prs : \A r, q \in PreviewRows(p) : r = q
               /\ \A p \in Prs : ~ Expected(p) /\ ~ Handled(p) => Settled(p)

DeliveryInv == DeliveryTyped /\ SendsArePending /\ DeploysArePaid /\ RowsAreKnown /\ PreviewsAreComing

LEMMA Taken ==
  ASSUME NEW S, NEW seq \in Seq(S), NEW i \in DOMAIN seq
  PROVE  /\ WithoutHook(seq, i) \in Seq(S) /\ Len(WithoutHook(seq, i)) = Len(seq) - 1
         /\ \A j \in 1 .. Len(seq) - 1 : WithoutHook(seq, i)[j] = IF j < i THEN seq[j] ELSE seq[j + 1]
<1> DEFINE a == SubSeq(seq, 1, i - 1)
           b == SubSeq(seq, i + 1, Len(seq))
<1>1. i \in 1 .. Len(seq) /\ Len(seq) \in Nat /\ i \in Nat
  OBVIOUS
<1>2. a \in Seq(S) /\ Len(a) = i - 1 /\ (\A j \in 1 .. i - 1 : a[j] = seq[j])
  BY <1>1, SubSeqProperties
<1>3. b \in Seq(S) /\ Len(b) = Len(seq) - i /\ (\A j \in 1 .. Len(seq) - i : b[j] = seq[i + j])
  BY <1>1, SubSeqProperties
<1> HIDE DEF a, b
<1>4. /\ a \o b \in Seq(S) /\ Len(a \o b) = Len(a) + Len(b)
      /\ \A j \in 1 .. Len(a) + Len(b) : (a \o b)[j] = IF j <= Len(a) THEN a[j] ELSE b[j - Len(a)]
  BY <1>2, <1>3, ConcatProperties
<1>5. ASSUME NEW j \in 1 .. Len(seq) - 1 PROVE (a \o b)[j] = IF j < i THEN seq[j] ELSE seq[j + 1]
  <2>1. j \in 1 .. Len(a) + Len(b) /\ j \in Nat
    BY <1>1, <1>2, <1>3
  <2>2. CASE j < i
    BY <1>1, <1>2, <1>4, <2>1, <2>2
  <2>3. CASE ~ (j < i)
    <3>1. ~ (j <= Len(a)) /\ j - Len(a) \in 1 .. Len(seq) - i /\ i + (j - Len(a)) = j + 1
      BY <1>1, <1>2, <2>1, <2>3
    <3> QED
      BY <1>3, <1>4, <2>1, <2>3, <3>1
  <2> QED
    BY <2>2, <2>3
<1>6. Len(a) + Len(b) = Len(seq) - 1
  BY <1>1, <1>2, <1>3
<1> QED
  BY <1>4, <1>5, <1>6 DEF WithoutHook, a, b

LEMMA DeliveryActions ==
  /\ \A e \in HookEvents : /\ e.pr \in Prs \cup {0} /\ e.action \in {"opened", "closed", "push", "base"}
                       /\ (e.action # "base" <=> e.pr \in Prs) /\ (e.action = "base" <=> e.pr = 0) /\ e # NoHook
  /\ 0 \notin Prs /\ 0 \notin Previews
BY DeliveryAssumption DEF HookEvents, NoHook

\* A delivery arrives, perhaps with the push it goes with.
LEMMA Arrives ==
  ASSUME hooks \in Seq(HookEvents), hooks' \in Seq(HookEvents), NEW d \in HookEvents,
         Len(hooks') = Len(hooks) + 1 \/ (Len(hooks') = Len(hooks) + 2 /\ hooks'[Len(hooks) + 2].action = "push"),
         \A i \in DOMAIN hooks : hooks'[i] = hooks[i], hooks'[Len(hooks) + 1] = d
  PROVE  /\ \A q \in Prs : /\ Expected(q)' <=> Expected(q) \/ Concerns(d, q)
                           /\ Coming(q)' = IF d.pr = q /\ d.action = "opened" THEN Coming(q) \cup {Len(hooks) + 1} ELSE Coming(q)
         /\ \A q \in Prs, i \in DOMAIN hooks' :
               Concerns(hooks'[i], q) /\ (\A j \in DOMAIN hooks' : Concerns(hooks'[j], q) => j <= i)
                 => IF Concerns(d, q) THEN hooks'[i] = d
                    ELSE i \in DOMAIN hooks /\ hooks'[i] = hooks[i] /\ \A j \in DOMAIN hooks : Concerns(hooks[j], q) => j <= i
<1> DEFINE n == Len(hooks)
<1>1. n \in Nat /\ DOMAIN hooks = 1 .. n /\ (DOMAIN hooks' = 1 .. n + 1 \/ (DOMAIN hooks' = 1 .. n + 2 /\ hooks'[n + 2].action = "push"))
  OBVIOUS
<1>2. \A i \in DOMAIN hooks' : i \in DOMAIN hooks \/ i = n + 1 \/ (i = n + 2 /\ hooks'[i].action = "push")
  BY <1>1
<1>3. DOMAIN hooks \subseteq DOMAIN hooks' /\ n + 1 \in DOMAIN hooks' /\ n + 1 \notin DOMAIN hooks /\ \A i \in DOMAIN hooks : i <= n
  BY <1>1
<1>4. \A q \in Prs, i \in DOMAIN hooks' : hooks'[i].action = "push" => ~ Concerns(hooks'[i], q)
  BY DEF Concerns, parsePullRequestEvent
<1> HIDE DEF n
<1>5. \A i \in DOMAIN hooks : hooks'[i] = hooks[i]
  OBVIOUS
<1>6. hooks'[n + 1] = d
  BY DEF n
<1>7. ASSUME NEW q \in Prs PROVE Coming(q)' = IF d.pr = q /\ d.action = "opened" THEN Coming(q) \cup {n + 1} ELSE Coming(q)
  <2>1. Coming(q)' = {i \in DOMAIN hooks' : hooks'[i].pr = q /\ hooks'[i].action = "opened"}
    BY DEF Coming
  <2> QED
    BY <1>2, <1>3, <1>5, <1>6, <2>1 DEF Coming
<1>8. ASSUME NEW q \in Prs PROVE Expected(q)' <=> Expected(q) \/ Concerns(d, q)
  <2>1. Expected(q)' <=> \E i \in DOMAIN hooks' : Concerns(hooks'[i], q)
    BY DEF Expected, Concerns, parsePullRequestEvent
  <2> QED
    BY <1>2, <1>3, <1>4, <1>5, <1>6, <2>1 DEF Expected
<1>9. ASSUME NEW q \in Prs, NEW i \in DOMAIN hooks', Concerns(hooks'[i], q), \A j \in DOMAIN hooks' : Concerns(hooks'[j], q) => j <= i
      PROVE  IF Concerns(d, q) THEN hooks'[i] = d
             ELSE i \in DOMAIN hooks /\ hooks'[i] = hooks[i] /\ \A j \in DOMAIN hooks : Concerns(hooks[j], q) => j <= i
  <2>1. i \in DOMAIN hooks \/ i = n + 1
    BY <1>2, <1>4, <1>9
  <2>2. CASE Concerns(d, q)
    <3>1. n + 1 <= i
      BY <1>3, <1>6, <1>9, <2>2
    <3>2. i = n + 1
      BY <1>1, <1>3, <2>1, <3>1
    <3> QED
      BY <1>6, <2>2, <3>2
  <2>3. CASE ~ Concerns(d, q)
    BY <1>3, <1>5, <1>6, <1>9, <2>1, <2>3
  <2> QED
    BY <2>2, <2>3
<1> QED
  BY <1>7, <1>8, <1>9 DEF n

LEMMA ComingIsFinite ==
  ASSUME hooks \in Seq(HookEvents)
  PROVE  \A p : IsFiniteSet(Coming(p)) /\ Cardinality(Coming(p)) \in Nat
<1>1. IsFiniteSet(1 .. Len(hooks))
  BY FS_Interval
<1>2. \A p : Coming(p) \in SUBSET (1 .. Len(hooks))
  BY DEF Coming
<1> QED
  BY <1>1, <1>2, FS_Subset, FS_CardinalityType

\* A delivery is taken off.
LEMMA Leaves ==
  ASSUME hooks \in Seq(HookEvents), NEW i \in DOMAIN hooks, hooks' = WithoutHook(hooks, i)
  PROVE  /\ hooks' \in Seq(HookEvents)
         /\ \A q \in Prs : LET one == IF hooks[i].pr = q /\ hooks[i].action = "opened" THEN 1 ELSE 0
                           IN  Cardinality(Coming(q)') + one <= Cardinality(Coming(q))
         /\ i = 1 =>
             \A q \in Prs :
               /\ Expected(q) <=> Expected(q)' \/ Concerns(hooks[1], q)
               /\ ~ Expected(q)' => \A j \in DOMAIN hooks : Concerns(hooks[j], q) => j <= 1
               /\ \A j \in DOMAIN hooks' :
                    Concerns(hooks'[j], q) /\ (\A k \in DOMAIN hooks' : Concerns(hooks'[k], q) => k <= j)
                      => /\ j + 1 \in DOMAIN hooks /\ hooks'[j] = hooks[j + 1]
                         /\ \A k \in DOMAIN hooks : Concerns(hooks[k], q) => k <= j + 1
<1> DEFINE n == Len(hooks)
<1>1. n \in Nat /\ DOMAIN hooks = 1 .. n /\ i \in 1 .. n /\ n - 1 \in Nat
  OBVIOUS
<1>2. hooks' \in Seq(HookEvents) /\ Len(hooks') = n - 1 /\ \A j \in 1 .. n - 1 : hooks'[j] = IF j < i THEN hooks[j] ELSE hooks[j + 1]
  BY Taken
<1>3. DOMAIN hooks' = 1 .. n - 1
  BY <1>1, <1>2
<1> HIDE DEF n
<1>4. ASSUME NEW q \in Prs
      PROVE  LET one == IF hooks[i].pr = q /\ hooks[i].action = "opened" THEN 1 ELSE 0
             IN  Cardinality(Coming(q)') + one <= Cardinality(Coming(q))
  <2> DEFINE S == {j \in 1 .. n - 1 : hooks'[j].pr = q /\ hooks'[j].action = "opened"}
             T == Coming(q) \ {i}
             f == [j \in S |-> IF j < i THEN j ELSE j + 1]
  <2>1. Coming(q)' = S
    BY <1>3 DEF Coming
  <2>2. ASSUME NEW j \in S PROVE (IF j < i THEN j ELSE j + 1) \in T
    <3>1. j \in 1 .. n - 1 /\ hooks'[j].pr = q /\ hooks'[j].action = "opened"
      OBVIOUS
    <3>2. CASE j < i
      BY <1>1, <1>2, <3>1, <3>2 DEF Coming
    <3>3. CASE ~ (j < i)
      BY <1>1, <1>2, <3>1, <3>3 DEF Coming
    <3> QED
      BY <3>2, <3>3
  <2>3. f \in [S -> T]
    BY <2>2
  <2>4. \A j, k \in S : f[j] = f[k] => j = k
    <3>1. S \subseteq Nat /\ i \in Nat
      BY <1>1
    <3> QED
      BY <3>1
  <2> HIDE DEF f
  <2>5. f \in Injection(S, T)
    BY <2>3, <2>4 DEF Injection, IsInjective
  <2>6. IsFiniteSet(Coming(q)) /\ Cardinality(Coming(q)) \in Nat
    BY ComingIsFinite
  <2>7. IsFiniteSet(T) /\ Cardinality(T) = IF i \in Coming(q) THEN Cardinality(Coming(q)) - 1 ELSE Cardinality(Coming(q))
    BY <2>6, FS_RemoveElement
  <2>8. IsFiniteSet(S) /\ Cardinality(S) <= Cardinality(T)
    BY <2>5, <2>7, FS_Injection
  <2>9. Cardinality(S) \in Nat
    BY <2>8, FS_CardinalityType
  <2>10. i \in Coming(q) <=> hooks[i].pr = q /\ hooks[i].action = "opened"
    BY DEF Coming
  <2> HIDE DEF S, T
  <2> QED
    BY <2>1, <2>6, <2>7, <2>8, <2>9, <2>10
<1>5. ASSUME i = 1, NEW q \in Prs
      PROVE  /\ Expected(q) <=> Expected(q)' \/ Concerns(hooks[1], q)
             /\ ~ Expected(q)' => \A j \in DOMAIN hooks : Concerns(hooks[j], q) => j <= 1
             /\ \A j \in DOMAIN hooks' :
                    Concerns(hooks'[j], q) /\ (\A k \in DOMAIN hooks' : Concerns(hooks'[k], q) => k <= j)
                      => /\ j + 1 \in DOMAIN hooks /\ hooks'[j] = hooks[j + 1]
                         /\ \A k \in DOMAIN hooks : Concerns(hooks[k], q) => k <= j + 1
  <2>1. \A j \in 1 .. n - 1 : hooks'[j] = hooks[j + 1] /\ j + 1 \in 1 .. n
    BY <1>1, <1>2, <1>5
  <2>2. \A k \in 1 .. n : k = 1 \/ (k - 1 \in 1 .. n - 1 /\ hooks'[k - 1] = hooks[k])
    BY <1>1, <2>1
  <2>3. Expected(q)' <=> \E j \in 1 .. n - 1 : Concerns(hooks'[j], q)
    BY <1>3 DEF Expected, Concerns, parsePullRequestEvent
  <2>4. Expected(q) <=> \E k \in 1 .. n : Concerns(hooks[k], q)
    BY <1>1 DEF Expected
  <2>5. Expected(q) <=> Expected(q)' \/ Concerns(hooks[1], q)
    BY <1>1, <1>5, <2>1, <2>2, <2>3, <2>4
  <2>6. ~ Expected(q)' => \A k \in 1 .. n : Concerns(hooks[k], q) => k <= 1
    BY <1>1, <2>2, <2>3
  <2>7. ASSUME NEW j \in 1 .. n - 1, \A k \in 1 .. n - 1 : Concerns(hooks'[k], q) => k <= j,
               NEW k \in 1 .. n, Concerns(hooks[k], q)
        PROVE  k <= j + 1
    <3>1. k = 1 \/ k - 1 <= j
      BY <2>2, <2>7
    <3> QED
      BY <1>1, <3>1
  <2> QED
    BY <1>1, <1>3, <2>1, <2>5, <2>6, <2>7
<1> QED
  BY <1>2, <1>4, <1>5

LEMMA InitDelivery == DeliveryInit => DeliveryInv
<1> SUFFICES ASSUME DeliveryInit PROVE DeliveryInv
  OBVIOUS
<1>1. DeliveryTyped
  <2>1. hooks \in Seq(HookEvents) /\ deploys \in Seq(Previews \cup {0})
    BY DEF DeliveryInit
  <2>2. handler \in [Handlers -> Requests] /\ \A h \in Handlers : handler[h].pc = "idle"
    BY DEF DeliveryInit, IdleHandler, Requests
  <2>3. deployment \in Deployments
    BY DEF DeliveryInit, NoDeployment, Deployments
  <2>4. preview \in [enabled : BOOLEAN, ready : BOOLEAN, changed : BOOLEAN] /\ sink \in [Sinks -> [enabled : BOOLEAN, answers : BOOLEAN]]
    BY DEF DeliveryInit
  <2>5. /\ prOf \in [Previews -> Prs \cup {0}] /\ serves \in [Previews -> Nat] /\ owed \in [Sinks -> [due : Nat, got : Nat]]
        /\ asked \in [Prs -> [hooks : Nat, deploys : Nat]] /\ done \in [{"event", "op", "odd"} -> Nat]
        /\ github \in [Prs -> [open : BOOLEAN, head : Nat, comments : {0, 1}]]
    BY DEF DeliveryInit
  <2> QED
    BY <2>1, <2>2, <2>3, <2>4, <2>5 DEF DeliveryTyped
<1>2. SendsArePending
  BY DEF DeliveryInit, NoDeployment, SendsArePending
<1>3. AtWork = {} /\ DOMAIN hooks = {}
  BY DEF DeliveryInit, IdleHandler, AtWork
<1>4. DeploysArePaid
  <2>1. \A p \in Prs : Coming(p) = {} /\ Openers(p) = {} /\ asked[p].deploys = 0 /\ asked[p].hooks = 0
    BY <1>3 DEF DeliveryInit, IdleHandler, Coming, Openers, Acting
  <2>2. IsFiniteSet(AtWork) /\ Cardinality({}) = 0
    BY <1>3, FS_EmptySet
  <2>3. \A p \in Prs : asked[p].deploys + Cardinality(Coming(p)) + Cardinality(Openers(p)) <= asked[p].hooks
    BY <2>1, <2>2
  <2> QED
    BY <2>2, <2>3 DEF DeploysArePaid
<1>5. RowsAreKnown
  BY <1>3 DEF DeliveryInit, RowsAreKnown
<1>6. PreviewsAreComing
  <2>1. \A p \in Prs : PreviewRows(p) = {} /\ github[p].open = FALSE
    BY DeliveryActions DEF DeliveryInit, PreviewRows
  <2>2. OneAtATimeIn
    BY DEF DeliveryInit, OneAtATimeIn, FreeHandler
  <2>3. LastDecides /\ FoundIsThere
    BY <1>3 DEF LastDecides, FoundIsThere
  <2>4. preview.enabled /\ preview.ready
    BY DEF DeliveryInit
  <2> QED
    BY <2>1, <2>2, <2>3, <2>4 DEF PreviewsAreComing, Settled
<1> QED
  BY <1>1, <1>2, <1>4, <1>5, <1>6 DEF DeliveryInv

LEMMA DeliveryIsSound == DeliveryInv => DeliverySound
<1> SUFFICES ASSUME DeliveryInv PROVE DeliverySound
  OBVIOUS
<1>t. DeliveryTyped /\ SendsArePending /\ DeploysArePaid /\ PreviewsAreComing
  BY DEF DeliveryInv
<1>1. PreviewsFollowPrs
  <2> SUFFICES ASSUME Delivered, ~ preview.changed, done["odd"] = 0, NEW p \in Prs
               PROVE  IF github[p].open THEN \E r \in Previews : PreviewRows(p) = {r} /\ serves[r] = github[p].head
                      ELSE PreviewRows(p) = {}
    BY DEF PreviewsFollowPrs
  <2>1. DOMAIN hooks = {} /\ DOMAIN deploys = {} /\ deployment.pc = "idle" /\ AtWork = {}
    BY DEF Delivered, FreeHandler, IdleHandler, NoDeployment, AtWork
  <2>2. Settled(p)
    BY <1>t, <2>1 DEF PreviewsAreComing, InOrder, Expected, Handled
  <2>3. \A r : PreviewRows(p) = {r} => prOf[r] = p
    BY DEF PreviewRows
  <2> QED
    BY <2>1, <2>2, <2>3 DEF Settled, Brought
<1>2. OneDeployPerPush
  <2> SUFFICES ASSUME NEW p \in Prs PROVE asked[p].deploys <= asked[p].hooks
    BY DEF OneDeployPerPush
  <2>1. asked[p].deploys \in Nat /\ asked[p].hooks \in Nat /\ Cardinality(Coming(p)) \in Nat
    BY <1>t, ComingIsFinite DEF DeliveryTyped
  <2>2. Openers(p) \in SUBSET AtWork /\ IsFiniteSet(AtWork)
    BY <1>t DEF Openers, Acting, AtWork, DeploysArePaid
  <2>3. Cardinality(Openers(p)) \in Nat
    BY <2>2, FS_Subset, FS_CardinalityType
  <2> QED
    BY <1>t, <2>1, <2>3 DEF DeploysArePaid
<1>3. OneComment
  <2>1. \A p \in Prs : github[p].comments \in {0, 1}
    BY <1>t DEF DeliveryTyped
  <2> QED
    BY <2>1 DEF OneComment
<1>4. SinksAreIndependent
  <2> SUFFICES ASSUME deployment = NoDeployment, NEW s \in Sinks PROVE owed[s].got = owed[s].due
    BY DEF SinksAreIndependent
  <2>1. deployment.left = {} /\ owed[s].got \in Nat
    BY <1>t DEF NoDeployment, DeliveryTyped
  <2> QED
    BY <1>t, <2>1 DEF SendsArePending
<1> QED
  BY <1>1, <1>2, <1>3, <1>4 DEF DeliverySound

LEMMA MoreIsAsked ==
  ASSUME NEW a \in [Prs -> [hooks : Nat, deploys : Nat]], NEW p \in Prs
  PROVE  [a EXCEPT ![p].deploys = @ + 1] \in [Prs -> [hooks : Nat, deploys : Nat]]
<1> DEFINE more == [a[p] EXCEPT !.deploys = @ + 1]
<1>1. more \in [hooks : Nat, deploys : Nat]
  OBVIOUS
<1>2. [a EXCEPT ![p].deploys = @ + 1] = [a EXCEPT ![p] = more]
  OBVIOUS
<1> HIDE DEF more
<1> QED
  BY <1>1, <1>2

LEMMA MoreIsOwed ==
  ASSUME NEW o \in [Sinks -> [due : Nat, got : Nat]], NEW s \in Sinks
  PROVE  /\ [o[s] EXCEPT !.due = @ + 1] \in [due : Nat, got : Nat]
         /\ [o EXCEPT ![s].got = @ + 1] \in [Sinks -> [due : Nat, got : Nat]]
<1> DEFINE more == [o[s] EXCEPT !.got = @ + 1]
<1>1. more \in [due : Nat, got : Nat] /\ [o[s] EXCEPT !.due = @ + 1] \in [due : Nat, got : Nat]
  OBVIOUS
<1>2. [o EXCEPT ![s].got = @ + 1] = [o EXCEPT ![s] = more]
  OBVIOUS
<1> HIDE DEF more
<1> QED
  BY <1>1, <1>2

\* Every step keeps the types, and what a webhook handler is at.
LEMMA DeliveryStaysTyped ==
  ASSUME DeliveryTyped, [DeliveryNext]_deliveryVars
  PROVE  DeliveryTyped'
<1>t. /\ github \in [Prs -> [open : BOOLEAN, head : Nat, comments : {0, 1}]]
      /\ hooks \in Seq(HookEvents)
      /\ handler \in [Handlers -> Requests]
      /\ preview \in [enabled : BOOLEAN, ready : BOOLEAN, changed : BOOLEAN]
      /\ prOf \in [Previews -> Prs \cup {0}] /\ serves \in [Previews -> Nat]
      /\ deploys \in Seq(Previews \cup {0}) /\ deployment \in Deployments
      /\ sink \in [Sinks -> [enabled : BOOLEAN, answers : BOOLEAN]]
      /\ owed \in [Sinks -> [due : Nat, got : Nat]]
      /\ asked \in [Prs -> [hooks : Nat, deploys : Nat]]
      /\ done \in [{"event", "op", "odd"} -> Nat]
  BY DEF DeliveryTyped
<1> DEFINE AtIt(w) == w.pc # "idle" => /\ w.hook.pr \in Prs
                                       /\ w.hook.action = IF w.pc = "close" THEN "closed" ELSE "opened"
                                       /\ w.pc # "write" => w.existing # 0
<1>h. \A h \in Handlers : handler[h] \in Requests /\ AtIt(handler[h])
  BY DEF DeliveryTyped
<1>d. /\ \A what \in {"event", "op", "odd"} : [done EXCEPT ![what] = @ + 1] \in [{"event", "op", "odd"} -> Nat]
      /\ [done EXCEPT !["op"] = @ + 1, !["odd"] = 1] \in [{"event", "op", "odd"} -> Nat]
  BY <1>t
<1>1. done' \in [{"event", "op", "odd"} -> Nat]
  <2>1. \A i : Takes(i) => done' \in [{"event", "op", "odd"} -> Nat]
    BY <1>t, <1>d DEF Takes
  <2>2. \A h \in Handlers, i \in DOMAIN hooks, skip \in BOOLEAN :
           TakePullRequest(h, i) \/ TakePush(h, i, skip) => done' \in [{"event", "op", "odd"} -> Nat]
    BY <2>1 DEF TakePullRequest, TakePush
  <2>3. ASSUME NEW p \in Prs, PrMoves(p) \/ PrCloses(p) \/ Redeliver(p) PROVE done' \in [{"event", "op", "odd"} -> Nat]
    BY <1>t, <1>d, <2>3 DEF PrMoves, PrCloses, Redeliver, UpDone
  <2>4. ASSUME NEW h \in Handlers, EndHandler(h) \/ ClosePreview(h) \/ WritePreview(h) \/ QueuePreview(h) PROVE done' = done
    BY <2>4 DEF EndHandler, ClosePreview, WritePreview, QueuePreview
  <2>5. ASSUME NEW s \in Sinks, SinkChanges(s) \/ Send(s) \/ SendLogs(s) PROVE done' \in [{"event", "op", "odd"} -> Nat]
    BY <1>t, <1>d, <2>5 DEF SinkChanges, Send, SendLogs, UpDone
  <2>6. BasePush \/ DeployHook \/ SetPreview \/ ProxyChanges => done' \in [{"event", "op", "odd"} -> Nat]
    BY <1>d DEF BasePush, DeployHook, SetPreview, ProxyChanges, UpDone
  <2>7. StartDeployment \/ BuildPreview \/ ForwardLog \/ EndDeployment \/ (\E r \in Previews : PreviewGone(r)) \/ UNCHANGED deliveryVars
        => done' = done
    BY DEF StartDeployment, BuildPreview, ForwardLog, EndDeployment, PreviewGone, deliveryVars
  <2>8. \A fails \in BOOLEAN : CommentOnPreview(fails) => done' \in [{"event", "op", "odd"} -> Nat]
    BY <1>t, <1>d DEF CommentOnPreview
  <2> QED
    BY <1>t, <2>2, <2>3, <2>4, <2>5, <2>6, <2>7, <2>8 DEF DeliveryNext
<1>2. ASSUME NEW p \in Prs, PrMoves(p) \/ PrCloses(p) \/ Redeliver(p) PROVE DeliveryTyped'
  <2>1. [pr |-> p, action |-> "opened"] \in HookEvents /\ [pr |-> p, action |-> "push"] \in HookEvents /\ [pr |-> p, action |-> "closed"] \in HookEvents
    BY DEF HookEvents
  <2>2. <<[pr |-> p, action |-> "opened"], [pr |-> p, action |-> "push"]>> \in Seq(HookEvents)
    BY <2>1
  <2>3. hooks' \in Seq(HookEvents)
    <3>1. PrMoves(p) => hooks' \in Seq(HookEvents)
      BY <1>t, <2>2, ConcatProperties DEF PrMoves
    <3>2. \A e \in HookEvents : Append(hooks, e) \in Seq(HookEvents)
      BY <1>t, AppendProperties
    <3>3. PrCloses(p) \/ Redeliver(p) => \E e \in HookEvents : hooks' = Append(hooks, e)
      BY <2>1 DEF PrCloses, Redeliver
    <3> QED
      BY <1>2, <3>1, <3>2, <3>3
  <2>4. github' \in [Prs -> [open : BOOLEAN, head : Nat, comments : {0, 1}]]
    <3> DEFINE moved == [github[p] EXCEPT !.open = TRUE, !.head = @ + 1]
               closed == [github[p] EXCEPT !.open = FALSE]
    <3>1. moved \in [open : BOOLEAN, head : Nat, comments : {0, 1}] /\ closed \in [open : BOOLEAN, head : Nat, comments : {0, 1}]
      <4> DEFINE opened == [github[p] EXCEPT !.open = TRUE]
      <4>1. github[p] \in [open : BOOLEAN, head : Nat, comments : {0, 1}]
        BY <1>t
      <4>2. opened \in [open : BOOLEAN, head : Nat, comments : {0, 1}] /\ closed \in [open : BOOLEAN, head : Nat, comments : {0, 1}]
        BY <4>1
      <4>3. moved = [opened EXCEPT !.head = github[p].head + 1] /\ github[p].head + 1 \in Nat
        BY <4>1
      <4> HIDE DEF opened, closed, moved
      <4> QED
        BY <4>2, <4>3
    <3>2. PrMoves(p) => github' = [github EXCEPT ![p] = moved]
      BY <1>t DEF PrMoves
    <3>3. PrCloses(p) => github' = [github EXCEPT ![p] = closed]
      BY DEF PrCloses
    <3>4. Redeliver(p) => github' = github
      BY DEF Redeliver
    <3> HIDE DEF moved, closed
    <3> QED
      BY <1>t, <1>2, <3>1, <3>2, <3>3, <3>4
  <2>5. asked' \in [Prs -> [hooks : Nat, deploys : Nat]]
    <3> DEFINE more == [asked[p] EXCEPT !.hooks = @ + 1]
    <3>1. more \in [hooks : Nat, deploys : Nat]
      <4>1. asked[p] \in [hooks : Nat, deploys : Nat]
        BY <1>t
      <4> QED
        BY <4>1
    <3>2. PrMoves(p) \/ Redeliver(p) => asked' = [asked EXCEPT ![p] = more]
      BY DEF PrMoves, Redeliver
    <3>3. PrCloses(p) => asked' = asked
      BY DEF PrCloses
    <3> HIDE DEF more
    <3> QED
      BY <1>t, <1>2, <3>1, <3>2, <3>3
  <2>6. UNCHANGED <<handler, preview, prOf, serves, deploys, deployment, sink, owed>>
    BY <1>2 DEF PrMoves, PrCloses, Redeliver
  <2> QED
    BY <1>t, <1>h, <1>1, <2>3, <2>4, <2>5, <2>6 DEF DeliveryTyped
<1>3. CASE BasePush \/ DeployHook \/ SetPreview \/ ProxyChanges
  <2>1. [pr |-> 0, action |-> "base"] \in HookEvents /\ Parent \in Previews \cup {0}
    BY DEF HookEvents, Parent
  <2>2. hooks' \in Seq(HookEvents) /\ deploys' \in Seq(Previews \cup {0})
    <3>1. BasePush => hooks' \in Seq(HookEvents) /\ deploys' = deploys
      BY <1>t, <2>1, AppendProperties DEF BasePush
    <3>2. DeployHook => deploys' \in Seq(Previews \cup {0}) /\ hooks' = hooks
      BY <1>t, <2>1, AppendProperties DEF DeployHook
    <3>3. SetPreview \/ ProxyChanges => UNCHANGED <<hooks, deploys>>
      BY DEF SetPreview, ProxyChanges
    <3> QED
      BY <1>t, <1>3, <3>1, <3>2, <3>3
  <2>3. preview' \in [enabled : BOOLEAN, ready : BOOLEAN, changed : BOOLEAN]
    BY <1>t, <1>3 DEF BasePush, DeployHook, SetPreview, ProxyChanges
  <2>4. UNCHANGED <<github, handler, prOf, serves, deployment, sink, owed, asked>>
    BY <1>3 DEF BasePush, DeployHook, SetPreview, ProxyChanges
  <2> QED
    BY <1>t, <1>h, <1>1, <2>2, <2>3, <2>4 DEF DeliveryTyped
<1>4. ASSUME NEW h \in Handlers, NEW i \in DOMAIN hooks, TakePullRequest(h, i) PROVE DeliveryTyped'
  <2>1. hooks' \in Seq(HookEvents) /\ UNCHANGED <<github, preview, prOf, serves, deploys, deployment, sink, owed, asked>>
    BY <1>t, <1>4, Taken DEF TakePullRequest
  <2>2. hooks[i] \in HookEvents /\ hooks[i].action \in {"opened", "closed"}
    BY <1>t, <1>4 DEF TakePullRequest, parsePullRequestEvent
  <2>3. UNCHANGED handler \/ \E w \in Requests : AtIt(w) /\ handler' = [handler EXCEPT ![h] = w]
    <3> DEFINE found == IF PreviewRows(hooks[i].pr) = {} THEN {0} ELSE PreviewRows(hooks[i].pr)
               w(e) == [hook |-> hooks[i], existing |-> e,
                        pc |-> IF hooks[i].action = "opened" THEN IF preview.ready THEN "write" ELSE "idle"
                               ELSE IF e # 0 THEN "close" ELSE "idle"]
    <3> SUFFICES ASSUME ~ UNCHANGED handler PROVE \E x \in Requests : AtIt(x) /\ handler' = [handler EXCEPT ![h] = x]
      OBVIOUS
    <3>1. PICK e \in found : handler' = [handler EXCEPT ![h] = w(e)]
      BY <1>4 DEF TakePullRequest
    <3>2. e \in Previews \cup {0}
      BY DEF PreviewRows
    <3>3. w(e) \in Requests
      BY <2>2, <3>2 DEF Requests
    <3>4. AtIt(w(e))
      BY <2>2, <3>2, DeliveryActions
    <3> HIDE DEF w, AtIt
    <3> QED
      BY <3>1, <3>3, <3>4
  <2>4. handler' \in [Handlers -> Requests] /\ \A g \in Handlers : AtIt(handler'[g])
    BY <1>t, <1>h, <2>3, ZenonT(60)
  <2> QED
    BY <1>t, <1>1, <2>1, <2>4 DEF DeliveryTyped
<1>5. ASSUME NEW h \in Handlers, EndHandler(h) \/ ClosePreview(h) \/ WritePreview(h) \/ QueuePreview(h) PROVE DeliveryTyped'
  <2>1. IdleHandler \in Requests /\ AtIt(IdleHandler) /\ IdleHandler.pc = "idle"
    BY DEF IdleHandler, Requests
  <2>2. handler[h].hook.pr \in Prs \/ handler[h].pc = "idle"
    BY <1>h
  <2> DEFINE w(e) == [handler[h] EXCEPT !.pc = "queue", !.existing = e]
  <2>3. \A e \in Previews : handler[h].pc = "write" => w(e) \in Requests /\ AtIt(w(e))
    <3> SUFFICES ASSUME NEW e \in Previews, handler[h].pc = "write" PROVE w(e) \in Requests /\ AtIt(w(e))
      OBVIOUS
    <3>1. handler[h] \in Requests /\ AtIt(handler[h])
      BY <1>h
    <3>2. w(e) \in Requests /\ w(e).pc = "queue" /\ w(e).existing = e /\ w(e).hook = handler[h].hook
      BY <3>1 DEF Requests
    <3> HIDE DEF w
    <3> QED
      BY <3>1, <3>2, DeliveryActions
  <2>4. ASSUME WritePreview(h) PROVE \E x \in Requests : AtIt(x) /\ handler' = [handler EXCEPT ![h] = x]
    <3>1. CASE handler[h].existing = 0
      <4>1. PICK new \in FreeRows : handler' = [handler EXCEPT ![h].pc = "queue", ![h].existing = new]
        BY <2>4, <3>1 DEF WritePreview
      <4>2. new \in Previews /\ handler[h].pc = "write"
        BY <2>4 DEF FreeRows, WritePreview
      <4>3. handler' = [handler EXCEPT ![h] = w(new)]
        BY <1>t, <4>1, <4>2
      <4> HIDE DEF AtIt, w
      <4> QED
        BY <2>3, <4>2, <4>3
    <3>2. CASE handler[h].existing # 0
      <4>1. handler' = [handler EXCEPT ![h] = IF prOf[handler[h].existing] # 0 THEN [handler[h] EXCEPT !.pc = "queue"] ELSE IdleHandler]
            /\ handler[h].pc = "write"
        BY <1>t, <2>4, <3>2 DEF WritePreview
      <4>2. handler[h].existing \in Previews /\ handler[h] \in Requests
        BY <1>t, <3>2 DEF Requests
      <4>3. [handler[h] EXCEPT !.pc = "queue"] = w(handler[h].existing)
        BY <4>2 DEF Requests
      <4> HIDE DEF AtIt, w
      <4> QED
        BY <2>1, <2>3, <4>1, <4>2, <4>3
    <3> QED
      BY <3>1, <3>2
  <2>5. EndHandler(h) \/ ClosePreview(h) \/ QueuePreview(h) => handler' = [handler EXCEPT ![h] = IdleHandler]
    BY DEF EndHandler, ClosePreview, QueuePreview
  <2>6. \E x \in Requests : AtIt(x) /\ handler' = [handler EXCEPT ![h] = x]
    <3> HIDE DEF AtIt
    <3> QED
      BY <1>5, <2>1, <2>4, <2>5
  <2>7. handler' \in [Handlers -> Requests] /\ \A g \in Handlers : AtIt(handler'[g])
    BY <1>t, <1>h, <2>6
  <2>8. prOf' \in [Previews -> Prs \cup {0}]
    <3>1. WritePreview(h) => prOf' = prOf \/ \E new \in Previews : prOf' = [prOf EXCEPT ![new] = handler[h].hook.pr] /\ handler[h].pc = "write"
      BY DEF WritePreview, FreeRows
    <3>2. ~ WritePreview(h) => prOf' = prOf \/ \E r : prOf' = [prOf EXCEPT ![r] = 0]
      BY <1>5 DEF EndHandler, ClosePreview, QueuePreview
    <3> QED
      BY <1>t, <2>2, <3>1, <3>2
  <2>9. deploys' \in Seq(Previews \cup {0}) /\ asked' \in [Prs -> [hooks : Nat, deploys : Nat]]
    <3>1. CASE QueuePreview(h) /\ prOf[handler[h].existing] # 0
      <4>1. handler[h].existing \in Previews
        BY <1>h, <3>1 DEF QueuePreview, Requests
      <4>2. prOf[handler[h].existing] \in Prs /\ deploys' = Append(deploys, handler[h].existing)
            /\ asked' = [asked EXCEPT ![prOf[handler[h].existing]].deploys = @ + 1]
        BY <1>t, <3>1, <4>1 DEF QueuePreview
      <4>3. deploys' \in Seq(Previews \cup {0})
        BY <1>t, <4>1, <4>2, AppendProperties
      <4>4. \A p \in Prs : [asked EXCEPT ![p].deploys = @ + 1] \in [Prs -> [hooks : Nat, deploys : Nat]]
        BY <1>t, MoreIsAsked
      <4> QED
        BY <4>2, <4>3, <4>4
    <3>2. CASE ~ (QueuePreview(h) /\ prOf[handler[h].existing] # 0)
      BY <1>t, <1>5, <3>2 DEF EndHandler, ClosePreview, QueuePreview, WritePreview
    <3> QED
      BY <3>1, <3>2
  <2>10. UNCHANGED <<github, hooks, preview, serves, deployment, sink, owed>>
    BY <1>5 DEF EndHandler, ClosePreview, QueuePreview, WritePreview
  <2> QED
    BY <1>t, <1>1, <2>7, <2>8, <2>9, <2>10 DEF DeliveryTyped
<1>6. ASSUME NEW h \in Handlers, NEW i \in DOMAIN hooks, NEW skip \in BOOLEAN, TakePush(h, i, skip) PROVE DeliveryTyped'
  <2>1. hooks' \in Seq(HookEvents) /\ UNCHANGED <<github, handler, preview, prOf, serves, deployment, sink, owed>>
    BY <1>t, <1>6, Taken DEF TakePush
  <2> DEFINE rows == IF skip THEN {} ELSE PushTargets(hooks[i])
  <2>2. rows \subseteq {0} /\ \A p \in Prs : Cardinality(rows \cap PreviewRows(p)) = 0
    BY DeliveryActions, FS_EmptySet DEF PushTargets, Parent, PreviewRows
  <2>3. PICK order \in [1 .. Cardinality(rows) -> rows] : deploys' = deploys \o order
    BY <1>6 DEF TakePush
  <2>4. Cardinality(rows) \in Nat
    <3>1. IsFiniteSet(rows)
      BY <2>2, FS_EmptySet, FS_Singleton DEF PushTargets, Parent
    <3> QED
      BY <3>1, FS_CardinalityType
  <2>5. order \in Seq(Previews \cup {0})
    BY <2>2, <2>4
  <2>6. deploys' \in Seq(Previews \cup {0})
    BY <1>t, <2>3, <2>5, ConcatProperties
  <2>7. asked' = [p \in Prs |-> [asked[p] EXCEPT !.deploys = @ + Cardinality(rows \cap PreviewRows(p))]]
    BY <1>6 DEF TakePush
  <2>8. asked' \in [Prs -> [hooks : Nat, deploys : Nat]]
    <3> DEFINE more(p) == [asked[p] EXCEPT !.deploys = @ + Cardinality(rows \cap PreviewRows(p))]
    <3> HIDE DEF rows
    <3>0. \A p \in Prs : asked[p].deploys \in Nat
      BY <1>t
    <3>1. \A p \in Prs : asked[p].deploys + Cardinality(rows \cap PreviewRows(p)) \in Nat
      <4> SUFFICES ASSUME NEW p \in Prs PROVE asked[p].deploys + Cardinality(rows \cap PreviewRows(p)) \in Nat
        OBVIOUS
      <4>1. Cardinality(rows \cap PreviewRows(p)) = 0
        BY <2>2
      <4>2. asked[p].deploys + 0 \in Nat
        BY <3>0
      <4> QED
        BY <4>1, <4>2
    <3>2. \A p \in Prs : more(p) \in [hooks : Nat, deploys : Nat]
      <4>1. \A a \in [hooks : Nat, deploys : Nat], n \in Nat : [a EXCEPT !.deploys = n] \in [hooks : Nat, deploys : Nat]
        OBVIOUS
      <4>2. \A p \in Prs : asked[p] \in [hooks : Nat, deploys : Nat]
        BY <1>t
      <4> HIDE DEF rows
      <4> QED
        BY <3>1, <4>1, <4>2
    <3>3. asked' = [p \in Prs |-> more(p)]
      BY <2>7
    <3> HIDE DEF more
    <3> QED
      BY <3>2, <3>3
  <2> QED
    BY <1>t, <1>h, <1>1, <2>1, <2>6, <2>8 DEF DeliveryTyped
<1>7. ASSUME NEW s \in Sinks, SinkChanges(s) \/ Send(s) \/ SendLogs(s) PROVE DeliveryTyped'
  <2>1. sink' \in [Sinks -> [enabled : BOOLEAN, answers : BOOLEAN]]
    <3>1. sink[s] \in [enabled : BOOLEAN, answers : BOOLEAN]
      BY <1>t
    <3>2. [sink[s] EXCEPT !.enabled = ~ @] \in [enabled : BOOLEAN, answers : BOOLEAN]
          /\ [sink[s] EXCEPT !.answers = ~ @] \in [enabled : BOOLEAN, answers : BOOLEAN]
      BY <3>1
    <3>3. sink' = sink \/ sink' = [sink EXCEPT ![s] = [sink[s] EXCEPT !.enabled = ~ @]]
          \/ sink' = [sink EXCEPT ![s] = [sink[s] EXCEPT !.answers = ~ @]]
      BY <1>7 DEF SinkChanges, Send, SendLogs
    <3> QED
      BY <1>t, <3>2, <3>3
  <2>2. deployment' \in Deployments
    BY <1>t, <1>7, ZenonT(60) DEF SinkChanges, Send, SendLogs, SendLeaves, Deployments
  <2>3. owed' \in [Sinks -> [due : Nat, got : Nat]]
    <3>1. owed' = owed \/ owed' = [owed EXCEPT ![s].got = @ + 1]
      BY <1>7 DEF SinkChanges, Send, SendLogs
    <3>2. owed \in [Sinks -> [due : Nat, got : Nat]]
      BY <1>t
    <3>3. [owed EXCEPT ![s].got = @ + 1] \in [Sinks -> [due : Nat, got : Nat]]
      BY <3>2, MoreIsOwed
    <3> QED
      BY <3>1, <3>2, <3>3
  <2>4. UNCHANGED <<github, hooks, handler, preview, prOf, serves, deploys, asked>>
    BY <1>7 DEF SinkChanges, Send, SendLogs
  <2> QED
    BY <1>t, <1>h, <1>1, <2>1, <2>2, <2>3, <2>4 DEF DeliveryTyped
<1>8. CASE StartDeployment \/ BuildPreview \/ ForwardLog \/ EndDeployment \/ \E fails \in BOOLEAN : CommentOnPreview(fails)
  <2>1. StartDeployment => Head(deploys) \in Previews \cup {0} /\ deploys' \in Seq(Previews \cup {0})
    BY <1>t, HeadTailProperties DEF StartDeployment
  <2>2. NoDeployment \in Deployments /\ notifyTeam \subseteq Sinks /\ forwardJobLog \subseteq Sinks
    BY DeliveryAssumption DEF NoDeployment, Deployments, notifyTeam, forwardJobLog
  <2>3. deployment' \in Deployments
    <3>1. StartDeployment => deployment' \in Deployments
      BY <2>1, <2>2 DEF StartDeployment, NoDeployment, Deployments
    <3>2. BuildPreview => deployment' \in Deployments
      BY <1>t DEF BuildPreview, Deployments
    <3>3. ForwardLog => deployment' \in Deployments
      BY <1>t, <2>2 DEF ForwardLog, Deployments
    <3>4. EndDeployment => deployment' \in Deployments
      BY <2>2 DEF EndDeployment
    <3>5. \A fails \in BOOLEAN : CommentOnPreview(fails) => deployment' \in Deployments
      BY <1>t, <2>2 DEF CommentOnPreview, Deployments
    <3> QED
      BY <1>8, <3>1, <3>2, <3>3, <3>4, <3>5
  <2>4. deploys' \in Seq(Previews \cup {0})
    BY <1>t, <1>8, <2>1 DEF BuildPreview, ForwardLog, EndDeployment, CommentOnPreview
  <2>5. serves' \in [Previews -> Nat]
    <3>1. \A r \in Previews : Newest(r) \in Nat
      BY <1>t, DeliveryAssumption DEF Newest
    <3>2. BuildPreview => serves' \in [Previews -> Nat]
      BY <1>t, <3>1 DEF BuildPreview, Deployments, Parent
    <3> QED
      BY <1>t, <1>8, <3>2 DEF StartDeployment, ForwardLog, EndDeployment, CommentOnPreview
  <2>6. owed' \in [Sinks -> [due : Nat, got : Nat]]
    <3>1. \A due : Owes(due) \in [Sinks -> [due : Nat, got : Nat]]
      <4>1. \A s \in Sinks : owed[s] \in [due : Nat, got : Nat] /\ [owed[s] EXCEPT !.due = @ + 1] \in [due : Nat, got : Nat]
        BY <1>t, MoreIsOwed
      <4> DEFINE more(s) == [owed[s] EXCEPT !.due = @ + 1]
      <4>2. \A due : Owes(due) = [s \in Sinks |-> IF s \in due /\ sink[s].answers THEN more(s) ELSE owed[s]]
        BY DEF Owes
      <4>3. \A s \in Sinks : more(s) \in [due : Nat, got : Nat]
        BY <4>1
      <4> HIDE DEF more
      <4> QED
        BY <4>1, <4>2, <4>3
    <3> QED
      BY <1>t, <1>8, <3>1 DEF StartDeployment, BuildPreview, ForwardLog, EndDeployment, CommentOnPreview
  <2>7. github' \in [Prs -> [open : BOOLEAN, head : Nat, comments : {0, 1}]]
    <3>1. \A p \in Prs : Comments(p) \in {0, 1}
      BY <1>t DEF Comments
    <3>2. ASSUME NEW fails \in BOOLEAN, CommentOnPreview(fails)
          PROVE  github' = github \/ \E p \in Prs : github' = [github EXCEPT ![p].comments = Comments(p)]
      BY <1>t, <3>2 DEF CommentOnPreview, Deployments, Parent
    <3>3. github' = github \/ \E p \in Prs : github' = [github EXCEPT ![p].comments = Comments(p)]
      BY <1>8, <3>2 DEF StartDeployment, BuildPreview, ForwardLog, EndDeployment
    <3>4. CASE github' = github
      BY <1>t, <3>4
    <3>5. ASSUME NEW p \in Prs, github' = [github EXCEPT ![p].comments = Comments(p)]
          PROVE  github' \in [Prs -> [open : BOOLEAN, head : Nat, comments : {0, 1}]]
      <4>1. github[p] \in [open : BOOLEAN, head : Nat, comments : {0, 1}]
        BY <1>t
      <4> DEFINE commented == [github[p] EXCEPT !.comments = Comments(p)]
      <4>2. commented \in [open : BOOLEAN, head : Nat, comments : {0, 1}]
        BY <3>1, <4>1
      <4>3. github' = [github EXCEPT ![p] = commented]
        BY <3>5
      <4> HIDE DEF commented
      <4> QED
        BY <1>t, <4>2, <4>3
    <3> QED
      BY <3>3, <3>4, <3>5
  <2>8. UNCHANGED <<hooks, handler, preview, prOf, sink, asked>>
    BY <1>8 DEF StartDeployment, BuildPreview, ForwardLog, EndDeployment, CommentOnPreview
  <2> QED
    BY <1>t, <1>h, <1>1, <2>3, <2>4, <2>5, <2>6, <2>7, <2>8 DEF DeliveryTyped
<1>9. CASE (\E r \in Previews : PreviewGone(r)) \/ UNCHANGED deliveryVars
  <2>1. serves' \in [Previews -> Nat] /\ UNCHANGED <<github, hooks, handler, preview, prOf, deploys, deployment, sink, owed, asked>>
    BY <1>t, <1>9 DEF PreviewGone, deliveryVars
  <2> QED
    BY <1>t, <1>h, <1>1, <2>1 DEF DeliveryTyped
<1> QED
  BY <1>2, <1>3, <1>4, <1>5, <1>6, <1>7, <1>8, <1>9 DEF DeliveryNext

\* A send that is over, answered or not, is over for its sink alone.
LEMMA SendsStayPending ==
  ASSUME DeliveryTyped, SendsArePending, [DeliveryNext]_deliveryVars
  PROVE  SendsArePending'
<1>t. /\ deployment \in Deployments /\ sink \in [Sinks -> [enabled : BOOLEAN, answers : BOOLEAN]]
      /\ owed \in [Sinks -> [due : Nat, got : Nat]]
  BY DEF DeliveryTyped
<1>l. deployment.pc \notin {"notify", "logs"} => deployment.left = {}
  BY DEF SendsArePending
<1>s. \A s \in Sinks : /\ owed[s].due \in Nat /\ owed[s].got \in Nat
                       /\ owed[s].due = owed[s].got + (IF s \in deployment.left /\ sink[s].answers THEN 1 ELSE 0)
  BY <1>t DEF SendsArePending
<1>1. CASE UNCHANGED <<deployment, sink, owed>>
  BY <1>1, <1>l, <1>s DEF SendsArePending
<1>2. CASE UNCHANGED owed /\ deployment.left = {} /\ deployment'.left = {}
  BY <1>2, <1>s DEF SendsArePending
<1>3. ASSUME NEW due, deployment.left = {}, owed' = Owes(due), UNCHANGED sink, deployment'.left = due, deployment'.pc \in {"notify", "logs"}
      PROVE  SendsArePending'
  <2>1. ASSUME NEW s \in Sinks
        PROVE  owed'[s].due = owed'[s].got + (IF s \in deployment'.left /\ sink'[s].answers THEN 1 ELSE 0)
    <3>1. owed'[s] = IF s \in due /\ sink[s].answers THEN [owed[s] EXCEPT !.due = @ + 1] ELSE owed[s]
      BY <1>3 DEF Owes
    <3>2. owed[s] \in [due : Nat, got : Nat] /\ owed[s].due = owed[s].got
      BY <1>t, <1>s, <1>3
    <3> QED
      BY <1>3, <3>1, <3>2
  <2> QED
    BY <1>3, <2>1 DEF SendsArePending
<1>4. ASSUME NEW s \in Sinks, s \in deployment.left, deployment' = [deployment EXCEPT !.left = SendLeaves(s)], UNCHANGED sink,
             owed' = IF sink[s].answers THEN [owed EXCEPT ![s].got = @ + 1] ELSE owed
      PROVE  SendsArePending'
  <2>1. deployment'.left = deployment.left \ {s} /\ deployment'.pc = deployment.pc
    BY <1>t, <1>4 DEF SendLeaves, Deployments
  <2>2. ASSUME NEW o \in Sinks
        PROVE  owed'[o].due = owed'[o].got + (IF o \in deployment'.left /\ sink'[o].answers THEN 1 ELSE 0)
    <3>1. CASE o = s
      <4>1. CASE sink[s].answers
        <5>1. owed'[s] = [owed[s] EXCEPT !.got = @ + 1] /\ owed[s] \in [due : Nat, got : Nat]
          BY <1>t, <1>4, <4>1
        <5>2. owed'[s].due = owed[s].due /\ owed'[s].got = owed[s].got + 1
          BY <5>1
        <5>3. s \notin deployment'.left
          BY <2>1
        <5> QED
          BY <1>s, <1>4, <3>1, <4>1, <5>2, <5>3
      <4>2. CASE ~ sink[s].answers
        BY <1>s, <1>4, <3>1, <4>2
      <4> QED
        BY <4>1, <4>2
    <3>2. CASE o # s
      <4>1. owed'[o] = owed[o]
        BY <1>t, <1>4, <3>2
      <4> QED
        BY <1>s, <1>4, <2>1, <3>2, <4>1
    <3> QED
      BY <3>1, <3>2
  <2>3. deployment'.pc \notin {"notify", "logs"} => deployment'.left = {}
    BY <1>l, <2>1
  <2> QED
    BY <2>2, <2>3 DEF SendsArePending
<1>5. ASSUME NEW s \in Sinks, SinkChanges(s) PROVE SendsArePending'
  BY <1>2, <1>l, <1>5 DEF SinkChanges
<1>6. ASSUME NEW s \in Sinks, Send(s) \/ SendLogs(s) PROVE SendsArePending'
  BY <1>4, <1>6 DEF Send, SendLogs
<1>7. ASSUME NEW fails \in BOOLEAN, CommentOnPreview(fails) PROVE SendsArePending'
  <2>1. deployment' = [deployment EXCEPT !.pc = "notify", !.left = notifyTeam] /\ deployment.pc = "comment"
    BY <1>7 DEF CommentOnPreview
  <2>2. deployment'.left = notifyTeam /\ deployment'.pc = "notify"
    BY <1>t, <2>1 DEF Deployments
  <2> QED
    BY <1>3, <1>l, <1>7, <2>1, <2>2 DEF CommentOnPreview
<1>8. CASE ForwardLog
  <2>1. deployment'.left = forwardJobLog /\ deployment'.pc = "logs"
    BY <1>t, <1>8 DEF ForwardLog, Deployments
  <2> QED
    BY <1>3, <1>8, <2>1 DEF ForwardLog
<1>9. CASE StartDeployment \/ BuildPreview \/ EndDeployment
  <2>1. deployment.left = {} /\ UNCHANGED owed
    BY <1>l, <1>9 DEF StartDeployment, BuildPreview, EndDeployment, NoDeployment
  <2>2. deployment'.left = {}
    <3>1. StartDeployment \/ EndDeployment => deployment'.left = {}
      <4>1. NoDeployment.left = {} /\ \A x : [NoDeployment EXCEPT !.pc = "build", !.row = x].left = {}
        BY DEF NoDeployment
      <4>2. EndDeployment => deployment' = NoDeployment
        BY DEF EndDeployment
      <4>3. StartDeployment => deployment' = NoDeployment \/ \E x : deployment' = [NoDeployment EXCEPT !.pc = "build", !.row = x]
        BY DEF StartDeployment
      <4> QED
        BY <4>1, <4>2, <4>3
    <3>2. BuildPreview => deployment'.left = {}
      BY <1>t, <2>1 DEF BuildPreview, Deployments
    <3> QED
      BY <1>9, <3>1, <3>2
  <2> QED
    BY <1>2, <2>1, <2>2
<1>10. ASSUME \/ BasePush \/ DeployHook \/ SetPreview \/ ProxyChanges \/ UNCHANGED deliveryVars
              \/ \E p \in Prs : PrMoves(p) \/ PrCloses(p) \/ Redeliver(p)
              \/ \E h \in Handlers, i \in DOMAIN hooks : TakePullRequest(h, i) \/ \E skip \in BOOLEAN : TakePush(h, i, skip)
              \/ \E h \in Handlers : EndHandler(h) \/ ClosePreview(h) \/ WritePreview(h) \/ QueuePreview(h)
              \/ \E r \in Previews : PreviewGone(r)
       PROVE  UNCHANGED <<deployment, sink, owed>>
  <2>1. BasePush \/ DeployHook \/ SetPreview \/ ProxyChanges \/ UNCHANGED deliveryVars => UNCHANGED <<deployment, sink, owed>>
    BY DEF BasePush, DeployHook, SetPreview, ProxyChanges, deliveryVars
  <2>2. \A p \in Prs : PrMoves(p) \/ PrCloses(p) \/ Redeliver(p) => UNCHANGED <<deployment, sink, owed>>
    BY DEF PrMoves, PrCloses, Redeliver
  <2>3. \A h \in Handlers, i \in DOMAIN hooks : TakePullRequest(h, i) => UNCHANGED <<deployment, sink, owed>>
    BY DEF TakePullRequest
  <2>4. \A h \in Handlers, i \in DOMAIN hooks, skip \in BOOLEAN : TakePush(h, i, skip) => UNCHANGED <<deployment, sink, owed>>
    BY DEF TakePush
  <2>5. \A h \in Handlers : EndHandler(h) \/ ClosePreview(h) \/ WritePreview(h) \/ QueuePreview(h) => UNCHANGED <<deployment, sink, owed>>
    BY DEF EndHandler, ClosePreview, WritePreview, QueuePreview
  <2>6. \A r \in Previews : PreviewGone(r) => UNCHANGED <<deployment, sink, owed>>
    BY DEF PreviewGone
  <2> QED
    BY <1>10, <2>1, <2>2, <2>3, <2>4, <2>5, <2>6
<1> QED
  BY <1>1, <1>5, <1>6, <1>7, <1>8, <1>9, <1>10 DEF DeliveryNext

LEMMA OpenersAreFinite ==
  ASSUME IsFiniteSet(AtWork)
  PROVE  \A p : IsFiniteSet(Openers(p)) /\ Cardinality(Openers(p)) \in Nat
<1>1. \A p : Openers(p) \in SUBSET AtWork
  BY DEF Openers, Acting, AtWork
<1> QED
  BY <1>1, FS_Subset, FS_CardinalityType

\* One webhook request moves on; the sets that count requests follow.
LEMMA OneHandler ==
  ASSUME handler \in [Handlers -> Requests], NEW h \in Handlers, NEW w \in Requests, handler' = [handler EXCEPT ![h] = w]
  PROVE  /\ AtWork' = IF w.pc # "idle" THEN AtWork \cup {h} ELSE AtWork \ {h}
         /\ \A p : Openers(p)' = IF w.pc \in {"write", "queue"} /\ w.hook.pr = p THEN Openers(p) \cup {h} ELSE Openers(p) \ {h}
<1>1. /\ AtWork' = {g \in Handlers : handler'[g].pc # "idle"}
      /\ \A p : Openers(p)' = {g \in Handlers : handler'[g].pc \in {"write", "queue"} /\ handler'[g].hook.pr = p}
  BY DEF AtWork, Openers, Acting
<1>2. handler'[h] = w /\ \A g \in Handlers : g # h => handler'[g] = handler[g]
  OBVIOUS
<1>3. AtWork' = IF w.pc # "idle" THEN AtWork \cup {h} ELSE AtWork \ {h}
  BY <1>1, <1>2 DEF AtWork
<1>4. ASSUME NEW p
      PROVE  Openers(p)' = IF w.pc \in {"write", "queue"} /\ w.hook.pr = p THEN Openers(p) \cup {h} ELSE Openers(p) \ {h}
  BY <1>1, <1>2 DEF Openers, Acting
<1> QED
  BY <1>3, <1>4

\* What a handler writes next to its own state.
LEMMA WhatHandlersDo ==
  ASSUME DeliveryTyped, NEW h \in Handlers
  PROVE  /\ EndHandler(h) \/ ClosePreview(h) \/ QueuePreview(h) => handler' = [handler EXCEPT ![h] = IdleHandler]
         /\ WritePreview(h) =>
              /\ handler[h].pc = "write"
              /\ \/ handler' = [handler EXCEPT ![h] = IdleHandler] /\ UNCHANGED prOf
                    /\ handler[h].existing # 0 /\ prOf[handler[h].existing] = 0
                 \/ \E w \in Requests : /\ handler' = [handler EXCEPT ![h] = w]
                                        /\ w.pc = "queue" /\ w.hook = handler[h].hook /\ w.existing = handler[h].existing
                                        /\ w.existing # 0 /\ prOf[w.existing] # 0 /\ UNCHANGED prOf
                 \/ \E w \in Requests : /\ handler' = [handler EXCEPT ![h] = w]
                                        /\ w.pc = "queue" /\ w.hook = handler[h].hook /\ w.existing \in FreeRows
                                        /\ handler[h].existing = 0
                                        /\ prOf' = [prOf EXCEPT ![w.existing] = handler[h].hook.pr]
<1>t. handler \in [Handlers -> Requests] /\ handler[h] \in Requests
  BY DEF DeliveryTyped
<1>1. EndHandler(h) \/ ClosePreview(h) \/ QueuePreview(h) => handler' = [handler EXCEPT ![h] = IdleHandler]
  BY DEF EndHandler, ClosePreview, QueuePreview
<1> DEFINE w(e) == [handler[h] EXCEPT !.pc = "queue", !.existing = e]
<1>2. \A e \in Previews : w(e) \in Requests /\ w(e).pc = "queue" /\ w(e).hook = handler[h].hook /\ w(e).existing = e
  BY <1>t DEF Requests
<1>3. ASSUME WritePreview(h), handler[h].existing # 0, prOf[handler[h].existing] # 0
      PROVE  handler' = [handler EXCEPT ![h] = w(handler[h].existing)] /\ UNCHANGED prOf /\ handler[h].existing \in Previews
  <2>1. handler[h].existing \in Previews
    BY <1>t, <1>3 DEF Requests
  <2>2. handler' = [handler EXCEPT ![h] = [handler[h] EXCEPT !.pc = "queue"]] /\ UNCHANGED prOf
    BY <1>t, <1>3 DEF WritePreview
  <2>3. [handler[h] EXCEPT !.pc = "queue"] = w(handler[h].existing)
    BY <1>t DEF Requests
  <2> HIDE DEF w
  <2> QED
    BY <2>1, <2>2, <2>3
<1>4. ASSUME WritePreview(h), handler[h].existing = 0
      PROVE  \E e \in FreeRows : handler' = [handler EXCEPT ![h] = w(e)] /\ prOf' = [prOf EXCEPT ![e] = handler[h].hook.pr]
  <2>1. PICK e \in FreeRows : prOf' = [prOf EXCEPT ![e] = handler[h].hook.pr] /\ handler' = [handler EXCEPT ![h].pc = "queue", ![h].existing = e]
    BY <1>4 DEF WritePreview
  <2>2. handler' = [handler EXCEPT ![h] = w(e)]
    BY <1>t, <2>1
  <2> QED
    BY <2>1, <2>2
<1>5. FreeRows \subseteq Previews /\ (WritePreview(h) => handler[h].pc = "write")
  BY DEF FreeRows, WritePreview
<1>6. ASSUME WritePreview(h), handler[h].existing # 0, prOf[handler[h].existing] = 0
      PROVE  handler' = [handler EXCEPT ![h] = IdleHandler] /\ UNCHANGED prOf
  BY <1>t, <1>6 DEF WritePreview
<1> HIDE DEF w
<1> QED
  BY <1>1, <1>2, <1>3, <1>4, <1>5, <1>6

LEMMA WhatIsTaken ==
  ASSUME DeliveryTyped, NEW h \in Handlers, NEW i \in DOMAIN hooks, TakePullRequest(h, i)
  PROVE  /\ handler[h] = IdleHandler /\ h \notin AtWork /\ hooks' = WithoutHook(hooks, i)
         /\ hooks[i] \in HookEvents /\ hooks[i].action \in {"opened", "closed"} /\ hooks[i].pr \in Prs
         /\ UNCHANGED <<github, preview, prOf, serves, deploys, deployment, leaving, sink, owed, asked>>
         /\ \/ UNCHANGED handler /\ ~ preview.enabled
            \/ \E w \in Requests :
                  /\ handler' = [handler EXCEPT ![h] = w] /\ w.hook = hooks[i]
                  /\ (w.existing = 0 /\ PreviewRows(hooks[i].pr) = {}) \/ (w.existing # 0 /\ w.existing \in PreviewRows(hooks[i].pr))
                  /\ w.pc = IF hooks[i].action = "opened" THEN IF preview.ready THEN "write" ELSE "idle"
                            ELSE IF w.existing # 0 THEN "close" ELSE "idle"
<1>1. handler[h] = IdleHandler /\ hooks' = WithoutHook(hooks, i) /\ UNCHANGED <<github, preview, prOf, serves, deploys, deployment, leaving, sink, owed, asked>>
  BY DEF TakePullRequest, FreeHandler
<1>2. h \notin AtWork
  BY <1>1 DEF AtWork, IdleHandler
<1>3. hooks \in Seq(HookEvents)
  BY DEF DeliveryTyped
<1>4. hooks[i] \in HookEvents /\ hooks[i].action \in {"opened", "closed"}
  BY <1>3 DEF TakePullRequest, parsePullRequestEvent
<1>5. hooks[i].pr \in Prs
  BY <1>4, DeliveryActions
<1> DEFINE p == hooks[i].pr
           found == IF PreviewRows(p) = {} THEN {0} ELSE PreviewRows(p)
           w(e) == [hook |-> hooks[i], existing |-> e,
                    pc |-> IF hooks[i].action = "opened" THEN IF preview.ready THEN "write" ELSE "idle"
                           ELSE IF e # 0 THEN "close" ELSE "idle"]
<1>6. ASSUME preview.enabled
      PROVE  \E x \in Requests :
                  /\ handler' = [handler EXCEPT ![h] = x] /\ x.hook = hooks[i]
                  /\ (x.existing = 0 /\ PreviewRows(hooks[i].pr) = {}) \/ (x.existing # 0 /\ x.existing \in PreviewRows(hooks[i].pr))
                  /\ x.pc = IF hooks[i].action = "opened" THEN IF preview.ready THEN "write" ELSE "idle"
                            ELSE IF x.existing # 0 THEN "close" ELSE "idle"
  <2>1. PICK e \in found : handler' = [handler EXCEPT ![h] = w(e)]
    BY <1>6 DEF TakePullRequest
  <2>2. (e = 0 /\ PreviewRows(p) = {}) \/ (e # 0 /\ e \in PreviewRows(p) /\ e \in Previews)
    BY DeliveryActions DEF PreviewRows
  <2>3. w(e) \in Requests
    BY <1>4, <2>2 DEF Requests
  <2>4. /\ w(e).hook = hooks[i] /\ w(e).existing = e
        /\ w(e).pc = IF hooks[i].action = "opened" THEN IF preview.ready THEN "write" ELSE "idle"
                     ELSE IF e # 0 THEN "close" ELSE "idle"
    OBVIOUS
  <2> HIDE DEF w, found
  <2> QED
    BY <2>1, <2>2, <2>3, <2>4
<1>7. ~ preview.enabled => UNCHANGED handler
  BY DEF TakePullRequest
<1> QED
  BY <1>1, <1>2, <1>4, <1>5, <1>6, <1>7

\* No handler comes to hold another pull request's row: a new row is one that nothing names.
LEMMA RowsStayKnown ==
  ASSUME DeliveryTyped, RowsAreKnown, [DeliveryNext]_deliveryVars
  PROVE  RowsAreKnown'
<1>t. /\ handler \in [Handlers -> Requests] /\ prOf \in [Previews -> Prs \cup {0}]
      /\ \A h \in Handlers : handler[h].existing # 0 => handler[h].existing \in Previews
  BY DEF DeliveryTyped, Requests
<1>a. \A r \in Previews : prOf[r] # 0 => r \notin leaving
  BY DEF RowsAreKnown
<1>b. \A h \in AtWork : handler[h].existing # 0 => prOf[handler[h].existing] \in {0, handler[h].hook.pr}
  BY DEF RowsAreKnown
<1>1. CASE UNCHANGED <<handler, prOf>> /\ leaving' \subseteq leaving
  BY <1>1, <1>a, <1>b DEF RowsAreKnown, AtWork
<1>2. ASSUME NEW h \in Handlers, UNCHANGED <<prOf, leaving>>, NEW w \in Requests, handler' = [handler EXCEPT ![h] = w],
             w.pc = "idle" \/ (w.existing # 0 => prOf[w.existing] \in {0, w.hook.pr})
      PROVE  RowsAreKnown'
  <2>1. AtWork' = IF w.pc # "idle" THEN AtWork \cup {h} ELSE AtWork \ {h}
    BY <1>t, <1>2, OneHandler
  <2>2. handler'[h] = w /\ \A g \in Handlers : g # h => handler'[g] = handler[g]
    BY <1>t, <1>2
  <2>3. AtWork' \subseteq Handlers
    BY DEF AtWork
  <2>4. \A g \in AtWork' : handler'[g].existing # 0 => prOf[handler'[g].existing] \in {0, handler'[g].hook.pr}
    BY <1>2, <1>b, <2>1, <2>2, <2>3
  <2> QED
    BY <1>2, <1>a, <2>4 DEF RowsAreKnown
<1>3. ASSUME NEW h \in Handlers, NEW i \in DOMAIN hooks, TakePullRequest(h, i) PROVE RowsAreKnown'
  <2>1. \A r \in PreviewRows(hooks[i].pr) : prOf[r] = hooks[i].pr
    BY DEF PreviewRows
  <2> QED
    BY <1>1, <1>2, <1>3, <2>1, WhatIsTaken
<1>4. ASSUME NEW h \in Handlers, EndHandler(h) \/ QueuePreview(h) PROVE RowsAreKnown'
  <2>1. IdleHandler \in Requests /\ IdleHandler.pc = "idle"
    BY DEF IdleHandler, Requests
  <2>2. handler' = [handler EXCEPT ![h] = IdleHandler] /\ UNCHANGED <<prOf, leaving>>
    BY <1>4 DEF EndHandler, QueuePreview
  <2> QED
    BY <1>2, <2>1, <2>2
<1>5. ASSUME NEW h \in Handlers, ClosePreview(h) PROVE RowsAreKnown'
  <2> DEFINE r == handler[h].existing
  <2>1. leaving' = leaving \cup {r} /\ prOf' = [prOf EXCEPT ![r] = 0] /\ handler' = [handler EXCEPT ![h] = IdleHandler]
    BY <1>5 DEF ClosePreview
  <2>2. IdleHandler \in Requests /\ IdleHandler.pc = "idle"
    BY DEF IdleHandler, Requests
  <2>3. AtWork' = AtWork \ {h}
    BY <1>t, <2>1, <2>2, OneHandler
  <2>4. \A x \in Previews : prOf'[x] = IF x = r THEN 0 ELSE prOf[x]
    BY <1>t, <2>1
  <2>5. \A g \in AtWork' : g \in AtWork /\ g \in Handlers /\ handler'[g] = handler[g]
    BY <1>t, <2>1, <2>3 DEF AtWork
  <2>6. \A x \in Previews : prOf'[x] # 0 => x \notin leaving'
    BY <1>a, <2>1, <2>4
  <2> HIDE DEF r
  <2>7. \A g \in AtWork' : handler'[g].existing # 0 => prOf'[handler'[g].existing] \in {0, handler'[g].hook.pr}
    BY <1>t, <1>b, <2>4, <2>5
  <2> QED
    BY <2>6, <2>7 DEF RowsAreKnown
<1>6. ASSUME NEW h \in Handlers, WritePreview(h) PROVE RowsAreKnown'
  <2>1. UNCHANGED leaving /\ handler[h].pc = "write" /\ h \in AtWork
    BY <1>6 DEF WritePreview, AtWork
  <2>2. IdleHandler \in Requests /\ IdleHandler.pc = "idle"
    BY DEF IdleHandler, Requests
  <2>3. CASE handler' = [handler EXCEPT ![h] = IdleHandler] /\ UNCHANGED prOf
    BY <1>2, <2>1, <2>2, <2>3
  <2>4. ASSUME NEW w \in Requests, handler' = [handler EXCEPT ![h] = w], w.hook = handler[h].hook, w.existing = handler[h].existing, UNCHANGED prOf
        PROVE  RowsAreKnown'
    BY <1>2, <1>b, <2>1, <2>4
  <2>5. ASSUME NEW w \in Requests, handler' = [handler EXCEPT ![h] = w], w.pc = "queue", w.hook = handler[h].hook, w.existing \in FreeRows,
               prOf' = [prOf EXCEPT ![w.existing] = handler[h].hook.pr]
        PROVE  RowsAreKnown'
    <3>1. w.existing \in Previews /\ w.existing \notin leaving /\ \A g \in Handlers : handler[g].existing # w.existing
      BY <2>5 DEF FreeRows
    <3>2. \A x \in Previews : prOf'[x] = IF x = w.existing THEN handler[h].hook.pr ELSE prOf[x]
      BY <1>t, <2>5
    <3>3. AtWork' = AtWork \cup {h}
      BY <1>t, <2>5, OneHandler
    <3>4. handler'[h] = w /\ \A g \in Handlers : g # h => handler'[g] = handler[g]
      BY <1>t, <2>5
    <3>5. ASSUME NEW g \in AtWork', handler'[g].existing # 0 PROVE prOf'[handler'[g].existing] \in {0, handler'[g].hook.pr}
      <4>1. g \in Handlers
        BY DEF AtWork
      <4>2. CASE g = h
        BY <2>5, <3>1, <3>2, <3>4, <4>2
      <4>3. CASE g # h
        <5>1. g \in AtWork /\ handler'[g] = handler[g] /\ handler[g].existing \in Previews /\ handler[g].existing # w.existing
          BY <1>t, <3>1, <3>3, <3>4, <3>5, <4>1, <4>3
        <5> QED
          BY <1>b, <3>2, <3>5, <5>1
      <4> QED
        BY <4>2, <4>3
    <3>6. \A x \in Previews : prOf'[x] # 0 => x \notin leaving'
      BY <1>a, <2>1, <3>1, <3>2
    <3> QED
      BY <3>5, <3>6 DEF RowsAreKnown
  <2> QED
    BY <1>6, <2>3, <2>4, <2>5, WhatHandlersDo
<1>7. ASSUME \/ BasePush \/ DeployHook \/ SetPreview \/ ProxyChanges \/ UNCHANGED deliveryVars
             \/ StartDeployment \/ BuildPreview \/ ForwardLog \/ EndDeployment
             \/ \E p \in Prs : PrMoves(p) \/ PrCloses(p) \/ Redeliver(p)
             \/ \E h \in Handlers, i \in DOMAIN hooks, skip \in BOOLEAN : TakePush(h, i, skip)
             \/ \E s \in Sinks : SinkChanges(s) \/ Send(s) \/ SendLogs(s)
             \/ \E fails \in BOOLEAN : CommentOnPreview(fails)
             \/ \E r \in Previews : PreviewGone(r)
       PROVE  UNCHANGED <<handler, prOf>> /\ leaving' \subseteq leaving
  <2>1. BasePush \/ DeployHook \/ SetPreview \/ ProxyChanges \/ UNCHANGED deliveryVars => UNCHANGED <<handler, prOf, leaving>>
    BY DEF BasePush, DeployHook, SetPreview, ProxyChanges, deliveryVars
  <2>2. StartDeployment \/ BuildPreview \/ ForwardLog \/ EndDeployment => UNCHANGED <<handler, prOf, leaving>>
    BY DEF StartDeployment, BuildPreview, ForwardLog, EndDeployment
  <2>3. \A p \in Prs : PrMoves(p) \/ PrCloses(p) \/ Redeliver(p) => UNCHANGED <<handler, prOf, leaving>>
    BY DEF PrMoves, PrCloses, Redeliver
  <2>4. \A h \in Handlers, i \in DOMAIN hooks, skip \in BOOLEAN : TakePush(h, i, skip) => UNCHANGED <<handler, prOf, leaving>>
    BY DEF TakePush
  <2>5. \A s \in Sinks : SinkChanges(s) \/ Send(s) \/ SendLogs(s) => UNCHANGED <<handler, prOf, leaving>>
    BY DEF SinkChanges, Send, SendLogs
  <2>6. \A fails \in BOOLEAN : CommentOnPreview(fails) => UNCHANGED <<handler, prOf, leaving>>
    BY DEF CommentOnPreview
  <2>7. \A r \in Previews : PreviewGone(r) => UNCHANGED <<handler, prOf>> /\ leaving' \subseteq leaving
    BY DEF PreviewGone
  <2> QED
    BY <1>7, <2>1, <2>2, <2>3, <2>4, <2>5, <2>6, <2>7
<1> QED
  BY <1>1, <1>3, <1>4, <1>5, <1>6, <1>7 DEF DeliveryNext

\* Every deployment of a preview uses up a delivery about its pull request.
LEMMA DeploysStayPaid ==
  ASSUME DeliveryTyped, RowsAreKnown, DeploysArePaid, [DeliveryNext]_deliveryVars
  PROVE  DeploysArePaid'
<1>t. /\ handler \in [Handlers -> Requests] /\ prOf \in [Previews -> Prs \cup {0}] /\ hooks \in Seq(HookEvents)
      /\ asked \in [Prs -> [hooks : Nat, deploys : Nat]]
  BY DEF DeliveryTyped
<1>f. /\ IsFiniteSet(AtWork)
      /\ \A p \in Prs : /\ asked[p].deploys \in Nat /\ asked[p].hooks \in Nat
                        /\ Cardinality(Coming(p)) \in Nat /\ IsFiniteSet(Coming(p))
                        /\ Cardinality(Openers(p)) \in Nat /\ IsFiniteSet(Openers(p))
                        /\ asked[p].deploys + Cardinality(Coming(p)) + Cardinality(Openers(p)) <= asked[p].hooks
  BY <1>t, ComingIsFinite, OpenersAreFinite DEF DeploysArePaid
<1>1. CASE UNCHANGED <<handler, hooks, asked>>
  BY <1>1, <1>f DEF DeploysArePaid, AtWork, Openers, Acting, Coming
<1>2. ASSUME UNCHANGED handler PROVE AtWork' = AtWork /\ \A p : Openers(p)' = Openers(p)
  BY <1>2 DEF AtWork, Openers, Acting
<1>3. ASSUME UNCHANGED hooks PROVE \A p : Coming(p)' = Coming(p)
  BY <1>3 DEF Coming
<1>4. ASSUME NEW p \in Prs, PrMoves(p) \/ Redeliver(p) PROVE DeploysArePaid'
  <2> DEFINE d == [pr |-> p, action |-> "opened"]
             e == [pr |-> p, action |-> "push"]
  <2>1. d \in HookEvents /\ e \in HookEvents /\ d.action = "opened" /\ d.pr = p /\ e.action = "push"
    BY DEF HookEvents
  <2>2. /\ hooks' \in Seq(HookEvents) /\ \A i \in DOMAIN hooks : hooks'[i] = hooks[i]
        /\ Len(hooks') = Len(hooks) + 1 \/ (Len(hooks') = Len(hooks) + 2 /\ hooks'[Len(hooks) + 2].action = "push")
        /\ hooks'[Len(hooks) + 1] = d
    <3> HIDE DEF d, e
    <3>1. CASE hooks' = hooks \o <<d, e>>
      BY <1>t, <2>1, <3>1
    <3>2. CASE hooks' = Append(hooks, d)
      BY <1>t, <2>1, <3>2
    <3> QED
      BY <1>4, <3>1, <3>2 DEF PrMoves, Redeliver, d, e
  <2>3. \A q \in Prs : Coming(q)' = IF q = p THEN Coming(q) \cup {Len(hooks) + 1} ELSE Coming(q)
    <3> HIDE DEF d
    <3>1. \A q \in Prs : Coming(q)' = IF d.pr = q /\ d.action = "opened" THEN Coming(q) \cup {Len(hooks) + 1} ELSE Coming(q)
      BY <1>t, <2>1, <2>2, Arrives
    <3> QED
      BY <2>1, <3>1
  <2>4. asked' = [asked EXCEPT ![p].hooks = @ + 1] /\ UNCHANGED handler
    BY <1>4 DEF PrMoves, Redeliver
  <2>5. \A q \in Prs : asked'[q].deploys = asked[q].deploys /\ asked'[q].hooks = IF q = p THEN asked[q].hooks + 1 ELSE asked[q].hooks
    BY <1>t, <2>4
  <2>6. ASSUME NEW q \in Prs PROVE asked'[q].deploys + Cardinality(Coming(q)') + Cardinality(Openers(q)') <= asked'[q].hooks
    <3>1. Cardinality(Coming(p) \cup {Len(hooks) + 1}) \in {Cardinality(Coming(p)), Cardinality(Coming(p)) + 1}
      BY <1>f, FS_AddElement
    <3>2. Openers(q)' = Openers(q)
      BY <1>2, <2>4
    <3>3. CASE q = p
      <4>1. Cardinality(Coming(q)') \in {Cardinality(Coming(q)), Cardinality(Coming(q)) + 1}
        BY <2>3, <3>1, <3>3
      <4>2. asked'[q].deploys = asked[q].deploys /\ asked'[q].hooks = asked[q].hooks + 1
        BY <2>5, <3>3
      <4> QED
        BY <1>f, <3>2, <4>1, <4>2
    <3>4. CASE q # p
      BY <1>f, <2>3, <2>5, <3>2, <3>4
    <3> QED
      BY <3>3, <3>4
  <2> QED
    BY <1>f, <1>2, <2>4, <2>6 DEF DeploysArePaid
<1>5. ASSUME NEW d \in HookEvents, d.action \notin {"opened"}, hooks' = Append(hooks, d), UNCHANGED <<handler, asked>> PROVE DeploysArePaid'
  <2>1. /\ hooks' \in Seq(HookEvents) /\ \A i \in DOMAIN hooks : hooks'[i] = hooks[i]
        /\ Len(hooks') = Len(hooks) + 1 /\ hooks'[Len(hooks) + 1] = d
    BY <1>t, <1>5
  <2>2. \A q \in Prs : Coming(q)' = IF d.pr = q /\ d.action = "opened" THEN Coming(q) \cup {Len(hooks) + 1} ELSE Coming(q)
    BY <1>t, <2>1, Arrives
  <2>3. \A q \in Prs : Coming(q)' = Coming(q)
    BY <1>5, <2>2
  <2> QED
    BY <1>2, <1>5, <1>f, <2>3 DEF DeploysArePaid
<1>6. ASSUME NEW p \in Prs, PrCloses(p) PROVE DeploysArePaid'
  <2>1. [pr |-> p, action |-> "closed"] \in HookEvents /\ [pr |-> p, action |-> "closed"].action \notin {"opened"}
    BY DEF HookEvents
  <2> QED
    BY <1>5, <1>6, <2>1 DEF PrCloses
<1>7. CASE BasePush
  <2>1. [pr |-> 0, action |-> "base"] \in HookEvents /\ [pr |-> 0, action |-> "base"].action \notin {"opened"}
    BY DEF HookEvents
  <2> QED
    BY <1>5, <1>7, <2>1 DEF BasePush
<1>8. ASSUME NEW h \in Handlers, NEW i \in DOMAIN hooks, TakePullRequest(h, i) PROVE DeploysArePaid'
  <2>1. /\ hooks' = WithoutHook(hooks, i) /\ h \notin AtWork /\ UNCHANGED asked
        /\ hooks[i] \in HookEvents /\ hooks[i].action \in {"opened", "closed"}
    BY <1>8, WhatIsTaken
  <2>2. ASSUME NEW q \in Prs
        PROVE  LET one == IF hooks[i].pr = q /\ hooks[i].action = "opened" THEN 1 ELSE 0
               IN  Cardinality(Coming(q)') + one <= Cardinality(Coming(q)) /\ Cardinality(Coming(q)') \in Nat
    <3>1. hooks' \in Seq(HookEvents)
      BY <1>t, <2>1, Leaves
    <3>2. Coming(q)' = {j \in 1 .. Len(hooks') : hooks'[j].pr = q /\ hooks'[j].action = "opened"}
      BY <3>1 DEF Coming
    <3>3. IsFiniteSet(1 .. Len(hooks')) /\ Coming(q)' \in SUBSET (1 .. Len(hooks'))
      <4>1. Len(hooks') \in Nat
        BY <3>1
      <4>2. IsFiniteSet(1 .. Len(hooks'))
        BY <4>1, FS_Interval
      <4>3. Coming(q)' \in SUBSET (1 .. Len(hooks'))
        BY <3>2
      <4> QED
        BY <4>2, <4>3
    <3>4. Cardinality(Coming(q)') \in Nat
      BY <3>3, FS_Subset, FS_CardinalityType
    <3> QED
      BY <1>t, <2>1, <3>4, Leaves
  <2>3. \A q : h \notin Openers(q)
    BY <2>1 DEF Openers, Acting, AtWork
  <2>4. CASE UNCHANGED handler
    <3>1. ASSUME NEW q \in Prs PROVE asked'[q].deploys + Cardinality(Coming(q)') + Cardinality(Openers(q)') <= asked'[q].hooks
      BY <1>2, <1>f, <2>1, <2>2, <2>4
    <3> QED
      BY <1>2, <1>f, <2>4, <3>1 DEF DeploysArePaid
  <2>5. ASSUME NEW w \in Requests, handler' = [handler EXCEPT ![h] = w], w.hook = hooks[i],
               w.pc = IF hooks[i].action = "opened" THEN IF preview.ready THEN "write" ELSE "idle" ELSE IF w.existing # 0 THEN "close" ELSE "idle"
        PROVE  DeploysArePaid'
    <3>1. /\ AtWork' = IF w.pc # "idle" THEN AtWork \cup {h} ELSE AtWork \ {h}
          /\ \A q : Openers(q)' = IF w.pc \in {"write", "queue"} /\ w.hook.pr = q THEN Openers(q) \cup {h} ELSE Openers(q) \ {h}
      BY <1>t, <2>5, OneHandler
    <3>2. IsFiniteSet(AtWork')
      BY <1>f, <3>1, FS_AddElement, FS_RemoveElement
    <3>3. ASSUME NEW q \in Prs PROVE asked'[q].deploys + Cardinality(Coming(q)') + Cardinality(Openers(q)') <= asked'[q].hooks
      <4>1. CASE hooks[i].pr = q /\ hooks[i].action = "opened"
        <5>1. Cardinality(Coming(q)') + 1 <= Cardinality(Coming(q)) /\ Cardinality(Coming(q)') \in Nat
          BY <2>2, <4>1
        <5>2. Cardinality(Openers(q)') \in {Cardinality(Openers(q)), Cardinality(Openers(q)) + 1}
          BY <1>f, <2>3, <3>1, FS_AddElement, FS_RemoveElement
        <5> QED
          BY <1>f, <2>1, <5>1, <5>2
      <4>2. CASE ~ (hooks[i].pr = q /\ hooks[i].action = "opened")
        <5>1. Cardinality(Coming(q)') + 0 <= Cardinality(Coming(q)) /\ Cardinality(Coming(q)') \in Nat
          BY <2>2, <4>2
        <5>2. Openers(q)' = Openers(q) \ {h}
          BY <2>5, <3>1, <4>2
        <5>3. Openers(q)' = Openers(q)
          BY <2>3, <5>2
        <5> QED
          BY <1>f, <2>1, <5>1, <5>3
      <4> QED
        BY <4>1, <4>2
    <3> QED
      BY <3>2, <3>3 DEF DeploysArePaid
  <2> QED
    BY <1>8, <2>4, <2>5, WhatIsTaken
<1>9. ASSUME NEW h \in Handlers, NEW i \in DOMAIN hooks, NEW skip \in BOOLEAN, TakePush(h, i, skip) PROVE DeploysArePaid'
  <2> DEFINE rows == IF skip THEN {} ELSE PushTargets(hooks[i])
             more(p) == [asked[p] EXCEPT !.deploys = @ + Cardinality(rows \cap PreviewRows(p))]
  <2>1. hooks' = WithoutHook(hooks, i) /\ UNCHANGED handler /\ asked' = [p \in Prs |-> more(p)]
    BY <1>9 DEF TakePush
  <2>2. \A p \in Prs : Cardinality(rows \cap PreviewRows(p)) = 0
    BY DeliveryActions, FS_EmptySet DEF PushTargets, Parent, PreviewRows
  <2>3. ASSUME NEW p \in Prs PROVE asked'[p].deploys = asked[p].deploys /\ asked'[p].hooks = asked[p].hooks
    <3>1. asked'[p] = more(p)
      BY <2>1
    <3> DEFINE n == Cardinality(rows \cap PreviewRows(p))
    <3>2. more(p) = [asked[p] EXCEPT !.deploys = asked[p].deploys + n] /\ n = 0
      BY <2>2
    <3>3. asked[p] \in [hooks : Nat, deploys : Nat]
      BY <1>t
    <3> HIDE DEF more, n
    <3> QED
      BY <3>1, <3>2, <3>3
  <2>4. ASSUME NEW q \in Prs PROVE Cardinality(Coming(q)') <= Cardinality(Coming(q)) /\ Cardinality(Coming(q)') \in Nat
    <3>1. hooks' \in Seq(HookEvents)
      BY <1>t, <2>1, Leaves
    <3>2. Coming(q)' = {j \in 1 .. Len(hooks') : hooks'[j].pr = q /\ hooks'[j].action = "opened"}
      BY <3>1 DEF Coming
    <3>3. IsFiniteSet(1 .. Len(hooks')) /\ Coming(q)' \in SUBSET (1 .. Len(hooks'))
      <4>1. Len(hooks') \in Nat
        BY <3>1
      <4>2. IsFiniteSet(1 .. Len(hooks'))
        BY <4>1, FS_Interval
      <4>3. Coming(q)' \in SUBSET (1 .. Len(hooks'))
        BY <3>2
      <4> QED
        BY <4>2, <4>3
    <3>4. Cardinality(Coming(q)') \in Nat
      BY <3>3, FS_Subset, FS_CardinalityType
    <3>5. Cardinality(Coming(q)') + (IF hooks[i].pr = q /\ hooks[i].action = "opened" THEN 1 ELSE 0) <= Cardinality(Coming(q))
      BY <1>t, <2>1, Leaves
    <3> QED
      BY <1>f, <3>4, <3>5
  <2>5. ASSUME NEW q \in Prs PROVE asked'[q].deploys + Cardinality(Coming(q)') + Cardinality(Openers(q)') <= asked'[q].hooks
    <3>1. Openers(q)' = Openers(q)
      BY <1>2, <2>1
    <3> QED
      BY <1>f, <2>3, <2>4, <3>1
  <2> QED
    BY <1>2, <1>f, <2>1, <2>5 DEF DeploysArePaid
<1>10. ASSUME NEW h \in Handlers, UNCHANGED <<hooks, asked>>, NEW w \in Requests, handler' = [handler EXCEPT ![h] = w],
              w.pc = "idle" \/ (w.pc = "queue" /\ handler[h].pc = "write" /\ w.hook = handler[h].hook)
       PROVE  DeploysArePaid'
  <2>1. /\ AtWork' = IF w.pc # "idle" THEN AtWork \cup {h} ELSE AtWork \ {h}
        /\ \A q : Openers(q)' = IF w.pc \in {"write", "queue"} /\ w.hook.pr = q THEN Openers(q) \cup {h} ELSE Openers(q) \ {h}
    BY <1>t, <1>10, OneHandler
  <2>2. IsFiniteSet(AtWork')
    BY <1>f, <2>1, FS_AddElement, FS_RemoveElement
  <2>3. ASSUME NEW q \in Prs PROVE asked'[q].deploys + Cardinality(Coming(q)') + Cardinality(Openers(q)') <= asked'[q].hooks
    <3>1. w.pc = "queue" /\ w.hook.pr = q => h \in Openers(q)
      BY <1>10 DEF Openers, Acting
    <3>2. Openers(q)' \in SUBSET Openers(q)
      BY <1>10, <2>1, <3>1
    <3>3. Cardinality(Openers(q)') <= Cardinality(Openers(q)) /\ Cardinality(Openers(q)') \in Nat
      BY <1>f, <3>2, FS_Subset, FS_CardinalityType
    <3>4. Coming(q)' = Coming(q) /\ asked' = asked
      BY <1>3, <1>10
    <3> QED
      BY <1>f, <3>3, <3>4
  <2> QED
    BY <2>2, <2>3 DEF DeploysArePaid
<1>11. ASSUME NEW h \in Handlers, EndHandler(h) \/ ClosePreview(h) \/ WritePreview(h) PROVE DeploysArePaid'
  <2>1. UNCHANGED <<hooks, asked>>
    BY <1>11 DEF EndHandler, ClosePreview, WritePreview
  <2>2. IdleHandler \in Requests /\ IdleHandler.pc = "idle"
    BY DEF IdleHandler, Requests
  <2> QED
    BY <1>10, <1>11, <2>1, <2>2, WhatHandlersDo
<1>12. ASSUME NEW h \in Handlers, QueuePreview(h) PROVE DeploysArePaid'
  <2>1. /\ handler[h].pc = "queue" /\ handler' = [handler EXCEPT ![h] = IdleHandler] /\ UNCHANGED hooks /\ h \in AtWork
        /\ handler[h].existing \in Previews /\ handler[h].existing # 0 /\ handler[h].hook.pr \in Prs
    BY <1>t, <1>12, DeliveryActions DEF QueuePreview, AtWork, DeliveryTyped, Requests
  <2>2. IdleHandler \in Requests /\ IdleHandler.pc = "idle"
    BY DEF IdleHandler, Requests
  <2> DEFINE p == handler[h].hook.pr
  <2>3. CASE prOf[handler[h].existing] = 0
    <3>1. UNCHANGED asked
      BY <1>12, <2>3 DEF QueuePreview
    <3> QED
      BY <1>10, <2>1, <2>2, <3>1
  <2>4. CASE prOf[handler[h].existing] # 0
    <3>1. prOf[handler[h].existing] = p
      BY <2>1, <2>4 DEF RowsAreKnown
    <3>2. asked' = [asked EXCEPT ![p].deploys = @ + 1]
      BY <1>12, <2>4, <3>1 DEF QueuePreview
    <3>3. \A q \in Prs : asked'[q].hooks = asked[q].hooks /\ asked'[q].deploys = IF q = p THEN asked[q].deploys + 1 ELSE asked[q].deploys
      BY <1>t, <2>1, <3>2
    <3>4. AtWork' = AtWork \ {h} /\ \A q : Openers(q)' = Openers(q) \ {h}
      BY <1>t, <2>1, <2>2, OneHandler
    <3>5. IsFiniteSet(AtWork')
      BY <1>f, <3>4, FS_RemoveElement
    <3>6. \A q : h \in Openers(q) <=> q = p
      BY <2>1 DEF Openers, Acting
    <3>7. ASSUME NEW q \in Prs PROVE asked'[q].deploys + Cardinality(Coming(q)') + Cardinality(Openers(q)') <= asked'[q].hooks
      <4>1. Cardinality(Openers(q)') = IF q = p THEN Cardinality(Openers(q)) - 1 ELSE Cardinality(Openers(q))
        BY <1>f, <3>4, <3>6, FS_RemoveElement
      <4>2. Coming(q)' = Coming(q)
        BY <1>3, <2>1
      <4> HIDE DEF p
      <4> QED
        BY <1>f, <3>3, <4>1, <4>2
    <3> QED
      BY <3>5, <3>7 DEF DeploysArePaid
  <2> QED
    BY <2>3, <2>4
<1>13. ASSUME \/ DeployHook \/ SetPreview \/ ProxyChanges \/ UNCHANGED deliveryVars
              \/ StartDeployment \/ BuildPreview \/ ForwardLog \/ EndDeployment
              \/ \E s \in Sinks : SinkChanges(s) \/ Send(s) \/ SendLogs(s)
              \/ \E fails \in BOOLEAN : CommentOnPreview(fails)
              \/ \E r \in Previews : PreviewGone(r)
       PROVE  UNCHANGED <<handler, hooks, asked>>
  <2>1. DeployHook \/ SetPreview \/ ProxyChanges \/ UNCHANGED deliveryVars => UNCHANGED <<handler, hooks, asked>>
    BY DEF DeployHook, SetPreview, ProxyChanges, deliveryVars
  <2>2. StartDeployment \/ BuildPreview \/ ForwardLog \/ EndDeployment => UNCHANGED <<handler, hooks, asked>>
    BY DEF StartDeployment, BuildPreview, ForwardLog, EndDeployment
  <2>3. \A s \in Sinks : SinkChanges(s) \/ Send(s) \/ SendLogs(s) => UNCHANGED <<handler, hooks, asked>>
    BY DEF SinkChanges, Send, SendLogs
  <2>4. \A fails \in BOOLEAN : CommentOnPreview(fails) => UNCHANGED <<handler, hooks, asked>>
    BY DEF CommentOnPreview
  <2>5. \A r \in Previews : PreviewGone(r) => UNCHANGED <<handler, hooks, asked>>
    BY DEF PreviewGone
  <2> QED
    BY <1>13, <2>1, <2>2, <2>3, <2>4, <2>5
<1> QED
  BY <1>1, <1>4, <1>6, <1>7, <1>8, <1>9, <1>11, <1>12, <1>13 DEF DeliveryNext

LEMMA FoundLater ==
  ASSUME \A h \in AtWork' : handler'[h].hook.pr \in Prs,
         \A h \in AtWork', p \in Prs :
            p = handler'[h].hook.pr =>
              /\ PreviewRows(p)' = IF handler'[h].existing = 0 THEN {} ELSE {handler'[h].existing}
              /\ ~ Expected(p)' => (handler'[h].pc # "close" <=> github'[p].open)
  PROVE  FoundIsThere'
BY DEF FoundIsThere, PreviewRows, Expected, Concerns, parsePullRequestEvent

\* A step that moves no pull request, no row and no request at work, and loses no deployment of a row.
LEMMA StaysComing ==
  ASSUME DeliveryTyped, PreviewsAreComing, UNCHANGED prOf, InOrder' => InOrder /\ UNCHANGED preview,
         \A p \in Prs : github'[p].open = github[p].open /\ github'[p].head = github[p].head,
         \A h \in Handlers : handler'[h] = handler[h] \/ (handler[h].pc = "idle" /\ handler'[h] = IdleHandler),
         \A p \in Prs : Expected(p)' <=> Expected(p), LastDecides => LastDecides',
         \A r \in Previews : prOf[r] \in Prs /\ Brought(r) => Brought(r)'
  PROVE  PreviewsAreComing'
<1> SUFFICES ASSUME InOrder'
             PROVE  /\ preview'.enabled /\ preview'.ready
                    /\ OneAtATimeIn' /\ LastDecides' /\ FoundIsThere'
                    /\ \A p \in Prs : \A r, q \in PreviewRows(p)' : r = q
                    /\ \A p \in Prs : ~ Expected(p)' /\ ~ Handled(p)' => Settled(p)'
  BY DEF PreviewsAreComing
<1>i. /\ preview.enabled /\ preview.ready /\ OneAtATimeIn /\ LastDecides /\ FoundIsThere
      /\ \A p \in Prs : \A r, q \in PreviewRows(p) : r = q
      /\ \A p \in Prs : ~ Expected(p) /\ ~ Handled(p) => Settled(p)
      /\ UNCHANGED preview
  BY DEF PreviewsAreComing
<1>1. IdleHandler.pc = "idle"
  BY DEF IdleHandler
<1>2. AtWork' = AtWork /\ AtWork \subseteq Handlers /\ \A h \in AtWork : handler'[h] = handler[h]
  BY <1>1 DEF AtWork
<1>3. \A p : PreviewRows(p)' = PreviewRows(p)
  BY DEF PreviewRows
<1>4. \A p \in Prs : Handled(p)' <=> Handled(p)
  BY <1>2 DEF Handled
<1>5. OneAtATimeIn'
  BY <1>i DEF OneAtATimeIn, FreeHandler
<1>6. FoundIsThere'
  <2>1. \A h \in AtWork : handler[h].hook.pr \in Prs
    BY <1>2 DEF DeliveryTyped, AtWork
  <2>2. ASSUME NEW h \in AtWork, NEW p \in Prs, p = handler[h].hook.pr
        PROVE  /\ PreviewRows(p)' = IF handler[h].existing = 0 THEN {} ELSE {handler[h].existing}
               /\ ~ Expected(p)' => (handler[h].pc # "close" <=> github'[p].open)
    <3>1. /\ PreviewRows(p) = IF handler[h].existing = 0 THEN {} ELSE {handler[h].existing}
          /\ ~ Expected(p) => (handler[h].pc # "close" <=> github[p].open)
      BY <1>i, <2>2 DEF FoundIsThere
    <3> QED
      BY <1>3, <3>1
  <2> QED
    BY <1>2, <2>1, <2>2, FoundLater
<1>7. ASSUME NEW p \in Prs, ~ Expected(p)', ~ Handled(p)' PROVE Settled(p)'
  <2>1. Settled(p)
    BY <1>i, <1>4, <1>7
  <2>2. CASE github[p].open
    <3>1. PICK r \in Previews : PreviewRows(p) = {r} /\ Brought(r)
      BY <2>1, <2>2 DEF Settled
    <3>2. prOf[r] \in Prs
      BY <3>1 DEF PreviewRows
    <3>3. PreviewRows(p)' = {r} /\ Brought(r)'
      BY <1>3, <3>1, <3>2
    <3>4. github'[p].open
      BY <2>2
    <3> QED
      BY <3>3, <3>4 DEF Settled
  <2>3. CASE ~ github[p].open
    <3>1. PreviewRows(p)' = {} /\ ~ github'[p].open
      BY <1>3, <2>1, <2>3 DEF Settled
    <3> QED
      BY <3>1 DEF Settled
  <2> QED
    BY <2>2, <2>3
<1>8. \A p \in Prs : \A r, q \in PreviewRows(p)' : r = q
  BY <1>3, <1>i
<1> QED
  BY <1>i, <1>5, <1>6, <1>7, <1>8

LEMMA SameHooks ==
  ASSUME UNCHANGED hooks, \A p \in Prs : github'[p].open = github[p].open
  PROVE  (\A p \in Prs : Expected(p)' <=> Expected(p)) /\ (LastDecides => LastDecides')
BY DEF Expected, LastDecides, Concerns, parsePullRequestEvent

LEMMA SameRows ==
  ASSUME UNCHANGED <<prOf, serves, deployment>>, \A p \in Prs : github'[p].head = github[p].head,
         \A i \in DOMAIN deploys : i \in DOMAIN deploys' /\ deploys'[i] = deploys[i]
  PROVE  \A r \in Previews : prOf[r] \in Prs /\ Brought(r) => Brought(r)'
BY DEF Brought

LEMMA SameHandlers ==
  ASSUME UNCHANGED handler
  PROVE  \A h \in Handlers : handler'[h] = handler[h] \/ (handler[h].pc = "idle" /\ handler'[h] = IdleHandler)
OBVIOUS

\* Deliveries of pushes.
LEMMA PushesKeepComing ==
  ASSUME DeliveryTyped, PreviewsAreComing,
         BasePush \/ \E h \in Handlers, i \in DOMAIN hooks, skip \in BOOLEAN : TakePush(h, i, skip)
  PROVE  PreviewsAreComing'
<1>t. hooks \in Seq(HookEvents) /\ deploys \in Seq(Previews \cup {0}) /\ done \in [{"event", "op", "odd"} -> Nat]
  BY DEF DeliveryTyped
<1>1. CASE BasePush
  <2> DEFINE d == [pr |-> 0, action |-> "base"]
  <2>1. /\ hooks' = Append(hooks, d) /\ UNCHANGED <<github, handler, preview, prOf, serves, deploys, deployment>>
        /\ done' = [done EXCEPT !["event"] = @ + 1]
    BY <1>1 DEF BasePush, UpDone
  <2>2. d \in HookEvents /\ ~ parsePullRequestEvent(d)
    BY DEF HookEvents, parsePullRequestEvent
  <2> HIDE DEF d
  <2>3. /\ hooks' \in Seq(HookEvents) /\ Len(hooks') = Len(hooks) + 1 /\ (\A i \in DOMAIN hooks : hooks'[i] = hooks[i])
        /\ hooks'[Len(hooks) + 1] = d
    BY <1>t, <2>1, <2>2
  <2>4. \A q \in Prs : ~ Concerns(d, q)
    BY <2>2 DEF Concerns
  <2>5. /\ \A q \in Prs : Expected(q)' <=> Expected(q) \/ Concerns(d, q)
        /\ \A q \in Prs, i \in DOMAIN hooks' :
               Concerns(hooks'[i], q) /\ (\A j \in DOMAIN hooks' : Concerns(hooks'[j], q) => j <= i)
                 => IF Concerns(d, q) THEN hooks'[i] = d
                    ELSE i \in DOMAIN hooks /\ hooks'[i] = hooks[i] /\ \A j \in DOMAIN hooks : Concerns(hooks[j], q) => j <= i
    BY <1>t, <2>2, <2>3, Arrives
  <2>6. \A p \in Prs : Expected(p)' <=> Expected(p)
    BY <2>4, <2>5
  <2>7. LastDecides => LastDecides'
    <3> SUFFICES ASSUME LastDecides, NEW q \in Prs, NEW i \in DOMAIN hooks', Concerns(hooks'[i], q),
                        \A j \in DOMAIN hooks' : Concerns(hooks'[j], q) => j <= i
                 PROVE  hooks'[i].action = "opened" <=> github[q].open
      BY <2>1 DEF LastDecides, Concerns, parsePullRequestEvent
    <3>1. i \in DOMAIN hooks /\ hooks'[i] = hooks[i] /\ \A j \in DOMAIN hooks : Concerns(hooks[j], q) => j <= i
      BY <2>4, <2>5
    <3>2. Concerns(hooks[i], q)
      BY <3>1
    <3> QED
      BY <3>1, <3>2 DEF LastDecides
  <2>8. \A r \in Previews : prOf[r] \in Prs /\ Brought(r) => Brought(r)'
    BY <2>1, SameRows
  <2>9. InOrder' => InOrder /\ UNCHANGED preview
    BY <1>t, <2>1 DEF InOrder
  <2> QED
    BY <2>1, <2>6, <2>7, <2>8, <2>9, SameHandlers, StaysComing
<1>2. ASSUME NEW h \in Handlers, NEW i \in DOMAIN hooks, NEW skip \in BOOLEAN, TakePush(h, i, skip) PROVE PreviewsAreComing'
  <2> DEFINE rows == IF skip THEN {} ELSE PushTargets(hooks[i])
  <2>1. /\ hooks' = WithoutHook(hooks, i) /\ UNCHANGED <<github, handler, preview, prOf, serves, deployment>>
        /\ Takes(i) /\ parseGitPush(hooks[i])
    BY <1>2 DEF TakePush
  <2>2. PICK order \in [1 .. Cardinality(rows) -> rows] : deploys' = deploys \o order
    BY <1>2 DEF TakePush
  <2>3. rows \subseteq {0} /\ IsFiniteSet(rows)
    BY FS_EmptySet, FS_Singleton DEF PushTargets, Parent
  <2>4. order \in Seq({0})
    BY <2>3, FS_CardinalityType
  <2>5. \A k \in DOMAIN deploys : k \in DOMAIN deploys' /\ deploys'[k] = deploys[k]
    <3> HIDE DEF rows
    <3> QED
      BY <1>t, <2>2, <2>4
  <2>6. \A r \in Previews : prOf[r] \in Prs /\ Brought(r) => Brought(r)'
    BY <2>1, <2>5, SameRows
  <2> SUFFICES ASSUME InOrder' PROVE PreviewsAreComing'
    BY DEF PreviewsAreComing
  <2>7. i = 1 /\ UNCHANGED done
    BY <1>t, <2>1 DEF InOrder, Takes
  <2>8. InOrder' => InOrder /\ UNCHANGED preview
    BY <2>1, <2>7 DEF InOrder
  <2>9. \A q \in Prs : ~ Concerns(hooks[1], q)
    BY <2>1, <2>7 DEF Concerns, parsePullRequestEvent, parseGitPush
  <2>10. \A q \in Prs :
               /\ Expected(q) <=> Expected(q)' \/ Concerns(hooks[1], q)
               /\ \A j \in DOMAIN hooks' :
                    Concerns(hooks'[j], q) /\ (\A k \in DOMAIN hooks' : Concerns(hooks'[k], q) => k <= j)
                      => /\ j + 1 \in DOMAIN hooks /\ hooks'[j] = hooks[j + 1]
                         /\ \A k \in DOMAIN hooks : Concerns(hooks[k], q) => k <= j + 1
    BY <1>t, <2>1, <2>7, Leaves
  <2>11. \A p \in Prs : Expected(p)' <=> Expected(p)
    BY <2>9, <2>10
  <2>12. LastDecides => LastDecides'
    <3> SUFFICES ASSUME LastDecides, NEW q \in Prs, NEW j \in DOMAIN hooks', Concerns(hooks'[j], q),
                        \A k \in DOMAIN hooks' : Concerns(hooks'[k], q) => k <= j
                 PROVE  hooks'[j].action = "opened" <=> github[q].open
      BY <2>1 DEF LastDecides, Concerns, parsePullRequestEvent
    <3>1. j + 1 \in DOMAIN hooks /\ hooks'[j] = hooks[j + 1] /\ \A k \in DOMAIN hooks : Concerns(hooks[k], q) => k <= j + 1
      BY <2>10
    <3>2. Concerns(hooks[j + 1], q)
      BY <3>1
    <3> QED
      BY <3>1, <3>2 DEF LastDecides
  <2> QED
    BY <2>1, <2>6, <2>8, <2>11, <2>12, SameHandlers, StaysComing
<1> QED
  BY <1>1, <1>2

\* Settings, deploys, sends and teardowns.
LEMMA DeploysKeepComing ==
  ASSUME DeliveryTyped, RowsAreKnown, PreviewsAreComing,
         \/ DeployHook \/ SetPreview \/ ProxyChanges \/ UNCHANGED deliveryVars
         \/ StartDeployment \/ BuildPreview \/ ForwardLog \/ EndDeployment
         \/ \E p \in Prs : Redeliver(p)
         \/ \E h \in Handlers : EndHandler(h)
         \/ \E s \in Sinks : SinkChanges(s) \/ Send(s) \/ SendLogs(s)
         \/ \E fails \in BOOLEAN : CommentOnPreview(fails)
         \/ \E r \in Previews : PreviewGone(r)
  PROVE  PreviewsAreComing'
<1>t. /\ github \in [Prs -> [open : BOOLEAN, head : Nat, comments : {0, 1}]]
      /\ handler \in [Handlers -> Requests]
      /\ preview \in [enabled : BOOLEAN, ready : BOOLEAN, changed : BOOLEAN]
      /\ prOf \in [Previews -> Prs \cup {0}] /\ serves \in [Previews -> Nat]
      /\ deploys \in Seq(Previews \cup {0}) /\ deployment \in Deployments /\ done \in [{"event", "op", "odd"} -> Nat]
  BY DEF DeliveryTyped
<1>1. CASE SetPreview \/ ProxyChanges \/ \E p \in Prs : Redeliver(p)
  <2>1. SetPreview \/ ProxyChanges => preview'.changed
    BY <1>t DEF SetPreview, ProxyChanges
  <2>2. \A p \in Prs : Redeliver(p) => done'["odd"] = 1
    BY <1>t DEF Redeliver
  <2>3. ~ InOrder'
    BY <1>1, <2>1, <2>2 DEF InOrder
  <2> QED
    BY <2>3 DEF PreviewsAreComing
<1>q. ASSUME UNCHANGED <<hooks, prOf, preview>>, done'["odd"] = done["odd"],
             \A p \in Prs : github'[p].open = github[p].open /\ github'[p].head = github[p].head,
             \A h \in Handlers : handler'[h] = handler[h] \/ (handler[h].pc = "idle" /\ handler'[h] = IdleHandler),
             \A r \in Previews : prOf[r] \in Prs /\ Brought(r) => Brought(r)'
      PROVE  PreviewsAreComing'
  <2>1. InOrder' => InOrder /\ UNCHANGED preview
    BY <1>q DEF InOrder
  <2> QED
    BY <1>q, <2>1, SameHooks, StaysComing
<1>2. ASSUME UNCHANGED <<hooks, handler, prOf, preview, serves, deploys, github>>, done'["odd"] = done["odd"],
             deployment.pc # "build" \/ UNCHANGED deployment
      PROVE  PreviewsAreComing'
  <2>1. \A r \in Previews : prOf[r] \in Prs /\ Brought(r) => Brought(r)'
    BY <1>2 DEF Brought
  <2> QED
    BY <1>2, <1>q, <2>1
<1>3. ASSUME NEW s \in Sinks, SinkChanges(s) \/ Send(s) \/ SendLogs(s) PROVE PreviewsAreComing'
  <2>1. done'["odd"] = done["odd"]
    BY <1>t, <1>3 DEF SinkChanges, Send, SendLogs, UpDone
  <2> QED
    BY <1>2, <1>3, <2>1 DEF SinkChanges, Send, SendLogs
<1>4. CASE ForwardLog \/ EndDeployment \/ UNCHANGED deliveryVars
  BY <1>2, <1>4 DEF ForwardLog, EndDeployment, deliveryVars
<1>5. CASE DeployHook
  <2>1. /\ UNCHANGED <<hooks, handler, prOf, preview, serves, github, deployment>> /\ done' = [done EXCEPT !["op"] = @ + 1]
        /\ deploys' = Append(deploys, Parent)
    BY <1>5 DEF DeployHook, UpDone
  <2>2. \A i \in DOMAIN deploys : i \in DOMAIN deploys' /\ deploys'[i] = deploys[i]
    BY <1>t, <2>1 DEF Parent
  <2>3. done'["odd"] = done["odd"]
    BY <1>t, <2>1
  <2> QED
    BY <1>q, <2>1, <2>2, <2>3, SameRows
<1>6. ASSUME NEW h \in Handlers, EndHandler(h) PROVE PreviewsAreComing'
  <2>1. /\ UNCHANGED <<hooks, prOf, preview, serves, github, deploys, deployment, done>> /\ handler' = [handler EXCEPT ![h] = IdleHandler]
        /\ handler[h].pc = "idle"
    BY <1>6 DEF EndHandler, Through
  <2>2. \A g \in Handlers : handler'[g] = handler[g] \/ (handler[g].pc = "idle" /\ handler'[g] = IdleHandler)
    BY <1>t, <2>1
  <2> QED
    BY <1>q, <2>1, <2>2, SameRows
<1>7. ASSUME NEW fails \in BOOLEAN, CommentOnPreview(fails) PROVE PreviewsAreComing'
  <2>1. UNCHANGED <<hooks, handler, prOf, preview, serves, deploys>> /\ deployment.pc = "comment"
    BY <1>7 DEF CommentOnPreview
  <2>2. done'["odd"] = done["odd"]
    BY <1>t, <1>7 DEF CommentOnPreview
  <2>3. github' = github \/ \E p \in Prs : github' = [github EXCEPT ![p].comments = Comments(p)]
    BY <1>t, <1>7 DEF CommentOnPreview, Deployments, Parent
  <2>4. \A q \in Prs : github'[q].open = github[q].open /\ github'[q].head = github[q].head
    <3>1. ASSUME NEW p \in Prs, github' = [github EXCEPT ![p].comments = Comments(p)], NEW q \in Prs
          PROVE  github'[q].open = github[q].open /\ github'[q].head = github[q].head
      <4>1. github[p] \in [open : BOOLEAN, head : Nat, comments : {0, 1}]
        BY <1>t
      <4> DEFINE x == [github[p] EXCEPT !.comments = Comments(p)]
      <4>2. x.open = github[p].open /\ x.head = github[p].head
        BY <4>1
      <4>3. github' = [github EXCEPT ![p] = x]
        BY <3>1
      <4> HIDE DEF x
      <4> QED
        BY <1>t, <4>2, <4>3
    <3> QED
      BY <2>3, <3>1
  <2>5. \A r \in Previews : prOf[r] \in Prs /\ Brought(r) => Brought(r)'
    BY <2>1, <2>4 DEF Brought
  <2> QED
    BY <1>q, <2>1, <2>2, <2>4, <2>5
<1>8. CASE StartDeployment
  <2>1. /\ UNCHANGED <<hooks, handler, prOf, preview, serves, github, done>> /\ deployment = NoDeployment /\ deploys # <<>>
        /\ deployment' = IF Head(deploys) # Parent /\ prOf[Head(deploys)] = 0 THEN NoDeployment
                         ELSE [NoDeployment EXCEPT !.pc = "build", !.row = Head(deploys)]
        /\ deploys' = Tail(deploys)
    BY <1>8 DEF StartDeployment
  <2>2. Head(deploys) = deploys[1]
    BY <1>t, <2>1
  <2>3. \A i \in DOMAIN deploys : i = 1 \/ (i - 1 \in DOMAIN deploys' /\ deploys'[i - 1] = deploys[i])
    BY <1>t, <2>1
  <2>4. [NoDeployment EXCEPT !.pc = "build", !.row = Head(deploys)].pc = "build"
        /\ [NoDeployment EXCEPT !.pc = "build", !.row = Head(deploys)].row = Head(deploys) /\ NoDeployment.pc # "build"
    BY DEF NoDeployment
  <2>5. ASSUME NEW r \in Previews, prOf[r] \in Prs, Brought(r) PROVE Brought(r)'
    <3>1. CASE serves[r] = github[prOf[r]].head
      BY <2>1, <3>1 DEF Brought
    <3>2. ASSUME NEW i \in DOMAIN deploys, deploys[i] = r PROVE Brought(r)'
      <4>1. CASE i = 1
        <5>1. prOf[Head(deploys)] # 0
          BY <2>2, <2>5, <3>2, <4>1, DeliveryActions
        <5>2. deployment'.pc = "build" /\ deployment'.row = r
          BY <2>1, <2>2, <2>4, <3>2, <4>1, <5>1
        <5> QED
          BY <5>2 DEF Brought
      <4>2. CASE i # 1
        BY <2>3, <3>2, <4>2 DEF Brought
      <4> QED
        BY <4>1, <4>2
    <3> QED
      BY <2>1, <2>4, <2>5, <3>1, <3>2 DEF Brought
  <2> QED
    BY <1>q, <2>1, <2>5, SameHandlers
<1>9. CASE BuildPreview
  <2>1. /\ UNCHANGED <<hooks, handler, prOf, preview, deploys, github, done>> /\ deployment.pc = "build"
        /\ serves' = IF deployment.row = Parent THEN serves ELSE [serves EXCEPT ![deployment.row] = Newest(deployment.row)]
    BY <1>9 DEF BuildPreview
  <2>2. ASSUME NEW r \in Previews, prOf[r] \in Prs, Brought(r) PROVE Brought(r)'
    <3>1. prOf[r] # 0 /\ r # 0
      BY <2>2, DeliveryActions
    <3>2. CASE deployment.row = r
      <4>1. serves'[r] = github[prOf[r]].head
        BY <1>t, <2>1, <3>1, <3>2 DEF Newest, Parent
      <4> QED
        BY <2>1, <4>1 DEF Brought
    <3>3. CASE deployment.row # r
      <4>1. serves'[r] = serves[r]
        BY <1>t, <2>1, <3>3
      <4> QED
        BY <2>1, <2>2, <3>3, <4>1 DEF Brought
    <3> QED
      BY <3>2, <3>3
  <2> QED
    BY <1>q, <2>1, <2>2, SameHandlers
<1>10. ASSUME NEW x \in Previews, PreviewGone(x) PROVE PreviewsAreComing'
  <2>1. /\ UNCHANGED <<hooks, handler, prOf, preview, deploys, deployment, github, done>> /\ x \in leaving
        /\ serves' = [serves EXCEPT ![x] = 0]
    BY <1>10 DEF PreviewGone
  <2>2. ASSUME NEW r \in Previews, prOf[r] \in Prs, Brought(r) PROVE Brought(r)'
    <3>1. r # x
      BY <2>1, <2>2, DeliveryActions DEF RowsAreKnown
    <3>2. serves'[r] = serves[r]
      BY <1>t, <2>1, <3>1
    <3> QED
      BY <2>1, <2>2, <3>2 DEF Brought
  <2> QED
    BY <1>q, <2>1, <2>2, SameHandlers
<1> QED
  BY <1>1, <1>3, <1>4, <1>5, <1>6, <1>7, <1>8, <1>9, <1>10

\* In order, one request is at work at a time.
LEMMA OneAtWork ==
  ASSUME DeliveryTyped, PreviewsAreComing, InOrder, NEW h \in AtWork
  PROVE  /\ AtWork = {h} /\ h \in Handlers /\ handler[h].hook.pr \in Prs
         /\ \A q \in Prs : Handled(q) <=> q = handler[h].hook.pr
         /\ \A g \in Handlers : g # h => FreeHandler(g)
<1>1. OneAtATimeIn /\ AtWork \subseteq Handlers
  BY DEF PreviewsAreComing, AtWork
<1>2. \A g \in AtWork : ~ FreeHandler(g)
  BY DEF AtWork, FreeHandler, IdleHandler
<1>3. AtWork = {h}
  BY <1>1, <1>2 DEF OneAtATimeIn
<1>4. handler[h].hook.pr \in Prs
  BY <1>1 DEF DeliveryTyped, AtWork
<1>5. \A g \in Handlers : g # h => FreeHandler(g)
  BY <1>1, <1>2 DEF OneAtATimeIn
<1>6. \A q \in Prs : Handled(q) <=> q = handler[h].hook.pr
  BY <1>3 DEF Handled
<1> QED
  BY <1>1, <1>3, <1>4, <1>5, <1>6

LEMMA SettledStays ==
  ASSUME NEW q \in Prs, Settled(q), PreviewRows(q)' = PreviewRows(q), github'[q] = github[q],
         \A r \in Previews : prOf[r] = q /\ Brought(r) => Brought(r)'
  PROVE  Settled(q)'
<1>1. CASE github[q].open
  <2>1. PICK r \in Previews : PreviewRows(q) = {r} /\ Brought(r)
    BY <1>1 DEF Settled
  <2>2. prOf[r] = q
    BY <2>1 DEF PreviewRows
  <2>3. PreviewRows(q)' = {r} /\ Brought(r)' /\ github'[q].open
    BY <1>1, <2>1, <2>2
  <2> QED
    BY <2>3 DEF Settled
<1>2. CASE ~ github[q].open
  <2>1. PreviewRows(q)' = {} /\ ~ github'[q].open
    BY <1>2 DEF Settled
  <2> QED
    BY <2>1 DEF Settled
<1> QED
  BY <1>1, <1>2

\* A pull request moves or closes, and its delivery is on its way.
LEMMA PullRequestsKeepComing ==
  ASSUME DeliveryTyped, PreviewsAreComing, NEW p \in Prs, PrMoves(p) \/ PrCloses(p)
  PROVE  PreviewsAreComing'
<1>t. /\ github \in [Prs -> [open : BOOLEAN, head : Nat, comments : {0, 1}]]
      /\ hooks \in Seq(HookEvents) /\ done \in [{"event", "op", "odd"} -> Nat]
  BY DEF DeliveryTyped
<1>u. UNCHANGED <<handler, preview, prOf, serves, deploys, deployment>> /\ done' = [done EXCEPT !["event"] = @ + 1]
  BY DEF PrMoves, PrCloses, UpDone
<1> SUFFICES ASSUME InOrder'
             PROVE  /\ preview'.enabled /\ preview'.ready
                    /\ OneAtATimeIn' /\ LastDecides' /\ FoundIsThere'
                    /\ \A q \in Prs : \A r, x \in PreviewRows(q)' : r = x
                    /\ \A q \in Prs : ~ Expected(q)' /\ ~ Handled(q)' => Settled(q)'
  BY DEF PreviewsAreComing
<1>o. InOrder
  BY <1>t, <1>u DEF InOrder
<1>i. /\ preview.enabled /\ preview.ready /\ OneAtATimeIn /\ LastDecides /\ FoundIsThere
      /\ \A q \in Prs : \A r, x \in PreviewRows(q) : r = x
      /\ \A q \in Prs : ~ Expected(q) /\ ~ Handled(q) => Settled(q)
  BY <1>o DEF PreviewsAreComing
<1> DEFINE d == [pr |-> p, action |-> IF PrMoves(p) THEN "opened" ELSE "closed"]
           e == [pr |-> p, action |-> "push"]
<1>1. d \in HookEvents /\ e \in HookEvents /\ e.action = "push" /\ d.pr = p /\ (\A q \in Prs : Concerns(d, q) <=> q = p)
  BY DEF HookEvents, Concerns, parsePullRequestEvent
<1>2. /\ hooks' = hooks \o <<d, e>> \/ hooks' = Append(hooks, d)
      /\ d.action = "opened" <=> github'[p].open
      /\ \A q \in Prs : q # p => github'[q] = github[q]
  <2>1. CASE PrMoves(p)
    <3>1. github' = [github EXCEPT ![p].open = TRUE, ![p].head = @ + 1] /\ hooks' = hooks \o <<d, e>> /\ d.action = "opened"
      BY <2>1 DEF PrMoves
    <3>2. github'[p].open /\ \A q \in Prs : q # p => github'[q] = github[q]
      <4> DEFINE x == [github[p] EXCEPT !.open = TRUE, !.head = @ + 1]
      <4>1. github[p] \in [open : BOOLEAN, head : Nat, comments : {0, 1}]
        BY <1>t
      <4>2. github' = [github EXCEPT ![p] = x] /\ x.open
        BY <1>t, <3>1, <4>1
      <4> HIDE DEF x
      <4> QED
        BY <1>t, <4>2
    <3> HIDE DEF d, e
    <3> QED
      BY <3>1, <3>2
  <2>2. CASE PrCloses(p) /\ ~ PrMoves(p)
    <3>1. github' = [github EXCEPT ![p].open = FALSE] /\ hooks' = Append(hooks, d) /\ d.action = "closed"
      BY <2>2 DEF PrCloses
    <3>2. ~ github'[p].open /\ \A q \in Prs : q # p => github'[q] = github[q]
      <4>1. github[p] \in [open : BOOLEAN, head : Nat, comments : {0, 1}]
        BY <1>t
      <4> QED
        BY <1>t, <3>1, <4>1
    <3> HIDE DEF d, e
    <3> QED
      BY <3>1, <3>2
  <2> QED
    BY <2>1, <2>2
<1> HIDE DEF d, e
<1>3. /\ hooks' \in Seq(HookEvents) /\ (\A i \in DOMAIN hooks : hooks'[i] = hooks[i]) /\ hooks'[Len(hooks) + 1] = d
      /\ Len(hooks') = Len(hooks) + 1 \/ (Len(hooks') = Len(hooks) + 2 /\ hooks'[Len(hooks) + 2].action = "push")
  <2>1. CASE hooks' = hooks \o <<d, e>>
    BY <1>t, <1>1, <2>1
  <2>2. CASE hooks' = Append(hooks, d)
    BY <1>t, <1>1, <2>2
  <2> QED
    BY <1>2, <2>1, <2>2
<1>4. /\ \A q \in Prs : Expected(q)' <=> Expected(q) \/ Concerns(d, q)
      /\ \A q \in Prs, i \in DOMAIN hooks' :
               Concerns(hooks'[i], q) /\ (\A j \in DOMAIN hooks' : Concerns(hooks'[j], q) => j <= i)
                 => IF Concerns(d, q) THEN hooks'[i] = d
                    ELSE i \in DOMAIN hooks /\ hooks'[i] = hooks[i] /\ \A j \in DOMAIN hooks : Concerns(hooks[j], q) => j <= i
  BY <1>t, <1>1, <1>3, Arrives
<1>5. LastDecides'
  <2> SUFFICES ASSUME NEW q \in Prs, NEW i \in DOMAIN hooks', Concerns(hooks'[i], q),
                      \A j \in DOMAIN hooks' : Concerns(hooks'[j], q) => j <= i
               PROVE  hooks'[i].action = "opened" <=> github'[q].open
    BY DEF LastDecides, Concerns, parsePullRequestEvent
  <2>1. CASE q = p
    BY <1>1, <1>2, <1>4, <2>1
  <2>2. CASE q # p
    <3>1. i \in DOMAIN hooks /\ hooks'[i] = hooks[i] /\ \A j \in DOMAIN hooks : Concerns(hooks[j], q) => j <= i
      BY <1>1, <1>4, <2>2
    <3>2. Concerns(hooks[i], q)
      BY <3>1
    <3> QED
      BY <1>2, <1>i, <2>2, <3>1, <3>2 DEF LastDecides
  <2> QED
    BY <2>1, <2>2
<1>6. AtWork' = AtWork /\ AtWork \subseteq Handlers /\ (\A q : PreviewRows(q)' = PreviewRows(q)) /\ (\A q \in Prs : Handled(q)' <=> Handled(q))
  BY <1>u DEF AtWork, PreviewRows, Handled
<1>7. FoundIsThere'
  <2>1. \A h \in AtWork : handler[h].hook.pr \in Prs
    BY <1>6 DEF DeliveryTyped, AtWork
  <2>2. ASSUME NEW h \in AtWork, NEW q \in Prs, q = handler[h].hook.pr
        PROVE  /\ PreviewRows(q)' = IF handler[h].existing = 0 THEN {} ELSE {handler[h].existing}
               /\ ~ Expected(q)' => (handler[h].pc # "close" <=> github'[q].open)
    <3>1. /\ PreviewRows(q) = IF handler[h].existing = 0 THEN {} ELSE {handler[h].existing}
          /\ ~ Expected(q) => (handler[h].pc # "close" <=> github[q].open)
      BY <1>i, <2>2 DEF FoundIsThere
    <3>2. ~ Expected(q)' => ~ Expected(q) /\ github'[q] = github[q]
      BY <1>1, <1>2, <1>4
    <3> QED
      BY <1>6, <3>1, <3>2
  <2> QED
    BY <1>u, <1>6, <2>1, <2>2, FoundLater
<1>8. ASSUME NEW q \in Prs, ~ Expected(q)', ~ Handled(q)' PROVE Settled(q)'
  <2>1. q # p /\ Settled(q) /\ github'[q] = github[q]
    BY <1>1, <1>2, <1>4, <1>6, <1>8, <1>i
  <2>2. \A r \in Previews : prOf[r] = q /\ Brought(r) => Brought(r)'
    BY <1>u, <2>1 DEF Brought
  <2> QED
    BY <1>6, <2>1, <2>2, SettledStays
<1>9. OneAtATimeIn'
  BY <1>u, <1>i DEF OneAtATimeIn, FreeHandler
<1> QED
  BY <1>u, <1>i, <1>5, <1>6, <1>7, <1>8, <1>9

\* A request about a pull request is taken up: in order, the first delivery, with nothing else at work.
LEMMA TakingKeepsComing ==
  ASSUME DeliveryTyped, PreviewsAreComing, NEW h \in Handlers, NEW i \in DOMAIN hooks, TakePullRequest(h, i)
  PROVE  PreviewsAreComing'
<1>t. /\ handler \in [Handlers -> Requests] /\ hooks \in Seq(HookEvents) /\ done \in [{"event", "op", "odd"} -> Nat]
  BY DEF DeliveryTyped
<1> SUFFICES ASSUME InOrder'
             PROVE  /\ preview'.enabled /\ preview'.ready
                    /\ OneAtATimeIn' /\ LastDecides' /\ FoundIsThere'
                    /\ \A q \in Prs : \A r, x \in PreviewRows(q)' : r = x
                    /\ \A q \in Prs : ~ Expected(q)' /\ ~ Handled(q)' => Settled(q)'
  BY DEF PreviewsAreComing
<1>u. UNCHANGED <<github, preview, prOf, serves, deploys, deployment>> /\ hooks' = WithoutHook(hooks, i) /\ Takes(i)
  BY DEF TakePullRequest
<1>1. i = 1 /\ (\A g \in Handlers : FreeHandler(g)) /\ UNCHANGED done
  BY <1>t, <1>u DEF InOrder, Takes
<1>o. InOrder
  BY <1>u, <1>1 DEF InOrder
<1>i. /\ preview.enabled /\ preview.ready /\ LastDecides
      /\ \A q \in Prs : \A r, x \in PreviewRows(q) : r = x
      /\ \A q \in Prs : ~ Expected(q) /\ ~ Handled(q) => Settled(q)
  BY <1>o DEF PreviewsAreComing
<1>p. PICK p \in Prs : p = hooks[1].pr
  BY <1>1, WhatIsTaken
<1>2. hooks[1] \in HookEvents /\ hooks[1].action \in {"opened", "closed"} /\ p \in Prs
  BY <1>1, <1>p, WhatIsTaken
<1>3. PICK w \in Requests :
         /\ handler' = [handler EXCEPT ![h] = w] /\ w.hook = hooks[1]
         /\ (w.existing = 0 /\ PreviewRows(p) = {}) \/ (w.existing # 0 /\ w.existing \in PreviewRows(p))
         /\ w.pc = IF hooks[1].action = "opened" THEN "write" ELSE IF w.existing # 0 THEN "close" ELSE "idle"
  BY <1>1, <1>i, <1>p, WhatIsTaken
<1>4. AtWork = {}
  BY <1>1 DEF AtWork, FreeHandler, IdleHandler
<1>5. \A q \in Prs :
               /\ Expected(q) <=> Expected(q)' \/ Concerns(hooks[1], q)
               /\ ~ Expected(q)' => \A j \in DOMAIN hooks : Concerns(hooks[j], q) => j <= 1
               /\ \A j \in DOMAIN hooks' :
                    Concerns(hooks'[j], q) /\ (\A k \in DOMAIN hooks' : Concerns(hooks'[k], q) => k <= j)
                      => /\ j + 1 \in DOMAIN hooks /\ hooks'[j] = hooks[j + 1]
                         /\ \A k \in DOMAIN hooks : Concerns(hooks[k], q) => k <= j + 1
  BY <1>t, <1>u, <1>1, Leaves
<1>6. \A q \in Prs : Concerns(hooks[1], q) <=> q = p
  BY <1>2, <1>p DEF Concerns, parsePullRequestEvent
<1>7. ~ Expected(p)' => (hooks[1].action = "opened" <=> github[p].open)
  <2> SUFFICES ASSUME ~ Expected(p)' PROVE hooks[1].action = "opened" <=> github[p].open
    OBVIOUS
  <2>1. 1 \in DOMAIN hooks /\ Concerns(hooks[1], p) /\ \A j \in DOMAIN hooks : Concerns(hooks[j], p) => j <= 1
    BY <1>1, <1>2, <1>5, <1>6
  <2> QED
    BY <1>2, <1>i, <1>p, <2>1 DEF LastDecides
<1>8. /\ AtWork' = IF w.pc # "idle" THEN {h} ELSE {}
      /\ handler'[h] = w /\ \A g \in Handlers : g # h => handler'[g] = handler[g]
  <2>1. AtWork' = IF w.pc # "idle" THEN AtWork \cup {h} ELSE AtWork \ {h}
    BY <1>t, <1>3, OneHandler
  <2> QED
    BY <1>t, <1>3, <1>4, <2>1
<1>9. \A q : PreviewRows(q)' = PreviewRows(q)
  BY <1>u DEF PreviewRows
<1>10. OneAtATimeIn'
  <2>1. \A g \in Handlers : g # h => FreeHandler(g)'
    BY <1>1, <1>8 DEF FreeHandler
  <2> QED
    BY <2>1 DEF OneAtATimeIn
<1>11. LastDecides'
  <2> SUFFICES ASSUME NEW q \in Prs, NEW j \in DOMAIN hooks', Concerns(hooks'[j], q),
                      \A k \in DOMAIN hooks' : Concerns(hooks'[k], q) => k <= j
               PROVE  hooks'[j].action = "opened" <=> github[q].open
    BY <1>u DEF LastDecides, Concerns, parsePullRequestEvent
  <2>1. j + 1 \in DOMAIN hooks /\ hooks'[j] = hooks[j + 1] /\ \A k \in DOMAIN hooks : Concerns(hooks[k], q) => k <= j + 1
    BY <1>5
  <2>2. Concerns(hooks[j + 1], q)
    BY <2>1
  <2> QED
    BY <1>i, <2>1, <2>2 DEF LastDecides
<1>12. FoundIsThere'
  <2>1. ASSUME NEW g \in AtWork' PROVE g = h /\ w.pc # "idle" /\ handler'[g] = w /\ w.hook.pr = p
    BY <1>3, <1>8, <1>p
  <2>2. ASSUME w.pc # "idle"
        PROVE  /\ PreviewRows(p)' = IF w.existing = 0 THEN {} ELSE {w.existing}
               /\ ~ Expected(p)' => (w.pc # "close" <=> github'[p].open)
    <3>1. PreviewRows(p) = IF w.existing = 0 THEN {} ELSE {w.existing}
      BY <1>2, <1>3, <1>i
    <3>2. w.pc # "close" <=> hooks[1].action = "opened"
      BY <1>2, <1>3, <2>2
    <3> QED
      BY <1>u, <1>7, <1>9, <3>1, <3>2
  <2> QED
    BY <1>2, <2>1, <2>2, FoundLater
<1>13. ASSUME NEW q \in Prs, ~ Expected(q)', ~ Handled(q)' PROVE Settled(q)'
  <2>1. CASE q = p
    <3>1. w.pc = "idle"
      <4>1. w.pc # "idle" => Handled(p)'
        BY <1>3, <1>8, <1>p DEF Handled
      <4> QED
        BY <1>13, <2>1, <4>1
    <3>2. hooks[1].action = "closed" /\ PreviewRows(p) = {}
      BY <1>2, <1>3, <3>1
    <3>3. ~ github[p].open
      BY <1>7, <1>13, <2>1, <3>2
    <3>4. PreviewRows(q)' = {} /\ ~ github'[q].open
      BY <1>u, <1>9, <2>1, <3>2, <3>3
    <3> QED
      BY <3>4 DEF Settled
  <2>2. CASE q # p
    <3>1. Settled(q)
      BY <1>4, <1>5, <1>6, <1>13, <1>i, <2>2 DEF Handled
    <3>2. \A r \in Previews : prOf[r] = q /\ Brought(r) => Brought(r)'
      BY <1>u DEF Brought
    <3> QED
      BY <1>u, <1>9, <3>1, <3>2, SettledStays
  <2> QED
    BY <2>1, <2>2
<1> QED
  BY <1>u, <1>i, <1>9, <1>10, <1>11, <1>12, <1>13

\* The request at work closes its pull request's preview, writes its row or queues its deployment.
LEMMA HandlersKeepComing ==
  ASSUME DeliveryTyped, PreviewsAreComing, NEW h \in Handlers, ClosePreview(h) \/ WritePreview(h) \/ QueuePreview(h)
  PROVE  PreviewsAreComing'
<1>t. /\ handler \in [Handlers -> Requests] /\ prOf \in [Previews -> Prs \cup {0}] /\ deploys \in Seq(Previews \cup {0})
      /\ handler[h].existing # 0 => handler[h].existing \in Previews
  BY DEF DeliveryTyped, Requests
<1>u. /\ UNCHANGED <<github, hooks, preview, serves, deployment, done>> /\ h \in AtWork
      /\ handler[h].pc # "write" => handler[h].existing # 0
  BY DEF ClosePreview, WritePreview, QueuePreview, AtWork, DeliveryTyped
<1> SUFFICES ASSUME InOrder'
             PROVE  /\ preview'.enabled /\ preview'.ready
                    /\ OneAtATimeIn' /\ LastDecides' /\ FoundIsThere'
                    /\ \A q \in Prs : \A r, x \in PreviewRows(q)' : r = x
                    /\ \A q \in Prs : ~ Expected(q)' /\ ~ Handled(q)' => Settled(q)'
  BY DEF PreviewsAreComing
<1>o. InOrder
  BY <1>u DEF InOrder
<1>i. /\ preview.enabled /\ preview.ready /\ LastDecides /\ FoundIsThere
      /\ \A q \in Prs : \A r, x \in PreviewRows(q) : r = x
      /\ \A q \in Prs : ~ Expected(q) /\ ~ Handled(q) => Settled(q)
  BY <1>o DEF PreviewsAreComing
<1>p. PICK p \in Prs : p = handler[h].hook.pr
  BY <1>o, <1>u, OneAtWork
<1>r. PICK r \in Previews \cup {0} : r = handler[h].existing
  BY <1>t
<1>1. /\ AtWork = {h} /\ p \in Prs /\ (\A q \in Prs : Handled(q) <=> q = p)
      /\ \A g \in Handlers : g # h => FreeHandler(g)
  BY <1>o, <1>u, <1>p, OneAtWork
<1>2. /\ PreviewRows(p) = IF r = 0 THEN {} ELSE {r}
      /\ ~ Expected(p) => (handler[h].pc # "close" <=> github[p].open)
  BY <1>u, <1>i, <1>p, <1>r DEF FoundIsThere
<1>3. (\A q \in Prs : Expected(q)' <=> Expected(q)) /\ LastDecides'
  BY <1>u, <1>i, SameHooks
\* what is left to show of a step: whether the request is through, and the rows of its pull request
<1>4. ASSUME NEW w \in Requests, handler' = [handler EXCEPT ![h] = w],
             \A q \in Prs : q # p => PreviewRows(q)' = PreviewRows(q),
             \A x \in Previews : prOf[x] # 0 /\ prOf[x] # p /\ Brought(x) => Brought(x)',
             \/ w.pc = "idle" /\ (\A x, y \in PreviewRows(p)' : x = y) /\ (~ Expected(p) => Settled(p)')
             \/ w.pc = "queue" /\ w.hook.pr = p /\ w.existing # 0 /\ PreviewRows(p)' = {w.existing} /\ handler[h].pc # "close"
      PROVE  /\ preview'.enabled /\ preview'.ready
             /\ OneAtATimeIn' /\ LastDecides' /\ FoundIsThere'
             /\ \A q \in Prs : \A y, x \in PreviewRows(q)' : y = x
             /\ \A q \in Prs : ~ Expected(q)' /\ ~ Handled(q)' => Settled(q)'
  <2>1. AtWork' = (IF w.pc # "idle" THEN {h} ELSE {}) /\ handler'[h] = w /\ \A g \in Handlers : g # h => handler'[g] = handler[g]
    <3>1. AtWork' = IF w.pc # "idle" THEN AtWork \cup {h} ELSE AtWork \ {h}
      BY <1>t, <1>4, OneHandler
    <3> QED
      BY <1>t, <1>1, <1>4, <3>1
  <2>2. OneAtATimeIn'
    <3>1. \A g \in Handlers : g # h => FreeHandler(g)'
      BY <1>1, <2>1 DEF FreeHandler
    <3> QED
      BY <3>1 DEF OneAtATimeIn
  <2>3. FoundIsThere'
    <3>1. ASSUME NEW g \in AtWork'
          PROVE  g = h /\ handler'[g] = w /\ w.hook.pr = p /\ w.pc = "queue" /\ w.existing # 0 /\ PreviewRows(p)' = {w.existing}
                 /\ handler[h].pc # "close"
      BY <1>4, <2>1
    <3>2. ~ Expected(p)' => (handler[h].pc # "close" <=> github'[p].open)
      BY <1>u, <1>1, <1>2, <1>3
    <3> QED
      BY <1>1, <3>1, <3>2, FoundLater
  <2>4. \A q \in Prs : \A y, x \in PreviewRows(q)' : y = x
    <3>1. \A y, x \in PreviewRows(p)' : y = x
      BY <1>4
    <3> QED
      BY <1>4, <1>i, <3>1
  <2>5. ASSUME NEW q \in Prs, ~ Expected(q)', ~ Handled(q)' PROVE Settled(q)'
    <3>1. CASE q = p
      <4>1. w.pc = "queue" /\ w.hook.pr = p => Handled(p)'
        BY <2>1 DEF Handled
      <4> QED
        BY <1>1, <1>3, <1>4, <2>5, <3>1, <4>1
    <3>2. CASE q # p
      <4>1. Settled(q)
        BY <1>1, <1>3, <1>i, <2>5, <3>2
      <4>2. \A x \in Previews : prOf[x] = q /\ Brought(x) => Brought(x)'
        BY <1>4, <3>2, DeliveryActions
      <4> QED
        BY <1>u, <1>4, <3>2, <4>1, <4>2, SettledStays
    <3> QED
      BY <3>1, <3>2
  <2> QED
    BY <1>u, <1>i, <1>3, <2>2, <2>3, <2>4, <2>5
<1>5. IdleHandler \in Requests /\ IdleHandler.pc = "idle"
  BY DEF IdleHandler, Requests
<1>6. CASE ClosePreview(h)
  <2>1. prOf' = [prOf EXCEPT ![r] = 0] /\ handler' = [handler EXCEPT ![h] = IdleHandler] /\ UNCHANGED deploys /\ handler[h].pc = "close"
    BY <1>6, <1>r DEF ClosePreview
  <2>2. PreviewRows(p) = {r} /\ r \in Previews /\ p # 0
    BY <1>t, <1>u, <1>1, <1>2, <1>r, <2>1, DeliveryActions
  <2>3. PreviewRows(p)' = {} /\ \A q \in Prs : q # p => PreviewRows(q)' = PreviewRows(q)
    BY <1>t, <1>1, <2>1, <2>2, DeliveryActions DEF PreviewRows
  <2>4. \A x \in Previews : prOf[x] # 0 /\ prOf[x] # p /\ Brought(x) => Brought(x)'
    <3>1. \A x \in Previews : prOf[x] # p => prOf'[x] = prOf[x]
      BY <1>t, <2>1, <2>2 DEF PreviewRows
    <3> QED
      BY <1>u, <2>1, <3>1 DEF Brought
  <2>5. ~ Expected(p) => Settled(p)'
    <3>1. ~ Expected(p) => ~ github'[p].open
      BY <1>u, <1>2, <2>1
    <3> QED
      BY <2>3, <3>1 DEF Settled
  <2> QED
    BY <1>4, <1>5, <2>1, <2>3, <2>4, <2>5
<1>7. CASE QueuePreview(h)
  <2>1. UNCHANGED prOf /\ handler' = [handler EXCEPT ![h] = IdleHandler] /\ handler[h].pc = "queue"
        /\ deploys' = IF prOf[r] # 0 THEN Append(deploys, r) ELSE deploys
    BY <1>7, <1>r DEF QueuePreview
  <2>2. PreviewRows(p) = {r} /\ r \in Previews /\ p # 0
    BY <1>t, <1>u, <1>1, <1>2, <1>r, <2>1, DeliveryActions
  <2>3. prOf[r] = p
    BY <2>2 DEF PreviewRows
  <2>4. \A q : PreviewRows(q)' = PreviewRows(q)
    BY <2>1 DEF PreviewRows
  <2>5. /\ \A i \in DOMAIN deploys : i \in DOMAIN deploys' /\ deploys'[i] = deploys[i]
        /\ \E i \in DOMAIN deploys' : deploys'[i] = r
    <3>1. deploys' = Append(deploys, r) /\ Len(deploys) + 1 \in DOMAIN deploys' /\ deploys'[Len(deploys) + 1] = r
      BY <1>t, <2>1, <2>2, <2>3
    <3>2. \A i \in DOMAIN deploys : i \in DOMAIN deploys' /\ deploys'[i] = deploys[i]
      BY <1>t, <3>1
    <3> QED
      BY <3>1, <3>2
  <2>6. \A x \in Previews : prOf[x] # 0 /\ prOf[x] # p /\ Brought(x) => Brought(x)'
    BY <1>u, <2>1, <2>5 DEF Brought
  <2>7. ~ Expected(p) => Settled(p)'
    <3> SUFFICES ASSUME ~ Expected(p) PROVE Settled(p)'
      OBVIOUS
    <3>1. github'[p].open
      BY <1>u, <1>2, <2>1
    <3>2. Brought(r)'
      BY <2>5 DEF Brought
    <3>3. PreviewRows(p)' = {r}
      BY <2>2, <2>4
    <3> QED
      BY <2>2, <3>1, <3>2, <3>3 DEF Settled
  <2>8. \A x, y \in PreviewRows(p)' : x = y
    BY <2>2, <2>4
  <2> QED
    BY <1>4, <1>5, <2>1, <2>4, <2>6, <2>7, <2>8
<1>8. CASE WritePreview(h)
  <2>1. UNCHANGED deploys /\ handler[h].pc = "write" /\ p # 0
    BY <1>1, <1>8, DeliveryActions DEF WritePreview
  <2>2. r # 0 => prOf[r] = p
    BY <1>2 DEF PreviewRows
  <2>3. ASSUME NEW w \in Requests, handler' = [handler EXCEPT ![h] = w], w.pc = "queue", w.hook = handler[h].hook, w.existing = r, r # 0, UNCHANGED prOf
        PROVE  /\ preview'.enabled /\ preview'.ready
               /\ OneAtATimeIn' /\ LastDecides' /\ FoundIsThere'
               /\ \A q \in Prs : \A y, x \in PreviewRows(q)' : y = x
               /\ \A q \in Prs : ~ Expected(q)' /\ ~ Handled(q)' => Settled(q)'
    <3>1. \A q : PreviewRows(q)' = PreviewRows(q)
      BY <2>3 DEF PreviewRows
    <3>2. \A x \in Previews : prOf[x] # 0 /\ prOf[x] # p /\ Brought(x) => Brought(x)'
      BY <1>u, <2>1, <2>3 DEF Brought
    <3>3. w.hook.pr = p /\ PreviewRows(p)' = {w.existing}
      BY <1>2, <2>3, <1>p, <3>1
    <3> QED
      BY <1>4, <2>1, <2>3, <3>1, <3>2, <3>3
  <2>4. ASSUME NEW w \in Requests, handler' = [handler EXCEPT ![h] = w], w.pc = "queue", w.hook = handler[h].hook, w.existing \in FreeRows,
               r = 0, prOf' = [prOf EXCEPT ![w.existing] = p]
        PROVE  /\ preview'.enabled /\ preview'.ready
               /\ OneAtATimeIn' /\ LastDecides' /\ FoundIsThere'
               /\ \A q \in Prs : \A y, x \in PreviewRows(q)' : y = x
               /\ \A q \in Prs : ~ Expected(q)' /\ ~ Handled(q)' => Settled(q)'
    <3>1. w.existing \in Previews /\ prOf[w.existing] = 0 /\ w.existing # 0
      BY <2>4, DeliveryActions DEF FreeRows
    <3>2. \A x \in Previews : prOf'[x] = IF x = w.existing THEN p ELSE prOf[x]
      BY <1>t, <2>4
    <3>3. PreviewRows(p)' = {w.existing}
      BY <1>2, <2>4, <3>1, <3>2 DEF PreviewRows
    <3>4. \A q \in Prs : q # p => PreviewRows(q)' = PreviewRows(q)
      BY <3>1, <3>2, DeliveryActions DEF PreviewRows
    <3>5. \A x \in Previews : prOf[x] # 0 /\ prOf[x] # p /\ Brought(x) => Brought(x)'
      BY <1>u, <2>1, <3>1, <3>2 DEF Brought
    <3>6. w.hook.pr = p
      BY <1>p, <2>4
    <3> QED
      BY <1>4, <2>1, <2>4, <3>1, <3>3, <3>4, <3>5, <3>6
  <2> QED
    BY <1>1, <1>8, <2>1, <2>2, <2>3, <2>4, <1>p, <1>r, WhatHandlersDo
<1> QED
  BY <1>6, <1>7, <1>8

LEMMA StepDelivery ==
  ASSUME DeliveryInv, [DeliveryNext]_deliveryVars
  PROVE  DeliveryInv'
<1>1. DeliveryTyped /\ SendsArePending /\ DeploysArePaid /\ RowsAreKnown /\ PreviewsAreComing
  BY DEF DeliveryInv
<1>2. DeliveryTyped' /\ SendsArePending' /\ RowsAreKnown' /\ DeploysArePaid'
  BY <1>1, DeliveryStaysTyped, SendsStayPending, RowsStayKnown, DeploysStayPaid
<1>3. PreviewsAreComing'
  BY <1>1, PushesKeepComing, DeploysKeepComing, PullRequestsKeepComing, TakingKeepsComing, HandlersKeepComing DEF DeliveryNext
<1> QED
  BY <1>2, <1>3 DEF DeliveryInv

\* What is reported is what happened: a container's settled state is told once, and the webhooks and the team's channels
\* get what they are owed.
THEOREM ReportsAlwaysHold == AllSpec => []ReportsHold
<1> DEFINE Inv == WatchInv /\ DeliveryInv
<1>1. AllInit => Inv
  BY InitWatch, InitDelivery DEF AllInit
<1>2. Inv /\ [AllSteps]_AllVars => Inv'
  BY PanelSteps, StepWatch, StepDelivery
<1>3. Inv => ReportsHold
  BY WatchIsSound, DeliveryIsSound DEF ReportsHold
<1> QED
  BY <1>1, <1>2, <1>3, PTL DEF AllSpec

----------------------------------------------------------------------------
(* The panel's own backup                                                   *)

PanelJobs == [pc : {"rest", "dump", "upload", "retain", "done", "fail"}, force : BOOLEAN, at : 0..MaxHours,
              key : 0..MaxPanelRuns, kept : Nat, run : 0..1]
LastBackups == [at : -1..MaxHours, status : {"none", "running", "success", "failed"}, key : 0..MaxPanelRuns, kept : Nat]
WaitingBackups == [force : BOOLEAN, run : 0..1]

PanelTyped ==
    /\ hour \in 0..MaxHours /\ ticked \in BOOLEAN /\ config \in [enabled : BOOLEAN, storage : BOOLEAN]
    /\ last \in LastBackups
    /\ dumps \in 0..MaxPanelRuns /\ DOMAIN objects \subseteq 1..dumps
    /\ panelQueue \in Seq(WaitingBackups)
    /\ panelJob \in PanelJobs
    /\ panelUsed \in [request : Nat, fault : Nat] /\ steady \in BOOLEAN

\* The dump in progress is the newest there is: it has no object before it is uploaded, and a whole one afterwards.
DumpIsNewest ==
    /\ last.key <= dumps
    /\ panelJob.pc \in {"upload", "retain", "done"} => panelJob.key = dumps /\ dumps # 0
    /\ panelJob.pc = "upload" => panelJob.key \notin DOMAIN objects
    /\ panelJob.pc \in {"retain", "done"} => panelJob.key \in DOMAIN objects /\ objects[panelJob.key]
    /\ LastBackupIsThere

\* What is kept was counted when the retention ran, and nothing is uploaded before the status is "running" again.
KeptIsCounted ==
    /\ panelJob.pc # "rest" => last.status = "running"
    /\ panelJob.pc = "done" => Cardinality(DOMAIN objects) <= Retention + panelJob.kept
    /\ RetentionHolds

\* A backup hour at which the last backup was old enough for a new one.
MissedHour(h) == h % 24 = BackupHour /\ (last.at = -1 \/ h - last.at >= MinGap)

\* While nothing fails no such hour goes by: its tick finds the backup due, and the hour does not pass before it ended.
NoHourIsMissed ==
    /\ last.at <= hour
    /\ panelJob.pc # "rest" => panelJob.at = hour
    /\ steady => /\ config.enabled /\ config.storage /\ panelJob.pc # "fail"
                 /\ \A h \in Nat : h < hour \/ (h = hour /\ ticked /\ panelJob.pc = "rest") => ~ MissedHour(h)

PanelBackupInv == PanelTyped /\ DumpIsNewest /\ KeptIsCounted /\ NoHourIsMissed

LEMMA InitPanelBackup == PanelInit => PanelBackupInv
<1> SUFFICES ASSUME PanelInit PROVE PanelBackupInv
  OBVIOUS
<1>a. MaxHours \in Nat /\ MaxPanelRuns \in Nat /\ BackupHour \in 0..23
  BY PanelBackupAssumption
<1>1. PanelTyped
  <2>1. DOMAIN objects = {} /\ panelQueue \in Seq(WaitingBackups)
    BY DEF PanelInit
  <2>2. last \in LastBackups
    BY <1>a DEF PanelInit, LastBackups
  <2>3. panelJob \in PanelJobs
    BY <1>a DEF PanelInit, NoPanelJob, PanelJobs
  <2>4. hour \in 0..MaxHours /\ dumps \in 0..MaxPanelRuns /\ panelUsed \in [request : Nat, fault : Nat]
    BY <1>a DEF PanelInit
  <2>5. ticked \in BOOLEAN /\ steady \in BOOLEAN /\ config \in [enabled : BOOLEAN, storage : BOOLEAN]
    BY DEF PanelInit
  <2> QED
    BY <2>1, <2>2, <2>3, <2>4, <2>5 DEF PanelTyped
<1>2. DumpIsNewest
  BY DEF PanelInit, DumpIsNewest, NoPanelJob, LastBackupIsThere
<1>3. KeptIsCounted
  BY DEF PanelInit, KeptIsCounted, NoPanelJob, RetentionHolds
<1>4. NoHourIsMissed
  <2>1. \A h \in Nat : ~ (h < 0)
    OBVIOUS
  <2> QED
    BY <2>1 DEF PanelInit, NoHourIsMissed, NoPanelJob
<1> QED
  BY <1>1, <1>2, <1>3, <1>4 DEF PanelBackupInv

\* Some hour of any day is the backup hour.
LEMMA NextBackupHour ==
  ASSUME NEW b \in Nat, NEW n \in 0..23
  PROVE  \E h \in Nat : h >= b /\ h < b + 24 /\ h % 24 = n
<1>1. PICK q \in Nat, r \in 0..23 : b = 24 * q + r
  <2>1. b % 24 \in 0..23 /\ b \div 24 \in Nat /\ b = 24 * (b \div 24) + (b % 24)
    OBVIOUS
  <2> QED
    BY <2>1
<1>2. CASE n >= r
  <2>1. 24 * q + n \in Nat /\ (24 * q + n) % 24 = n
    OBVIOUS
  <2> QED
    BY <1>1, <1>2, <2>1
<1>3. CASE n < r
  <2>1. 24 * (q + 1) + n \in Nat /\ (24 * (q + 1) + n) % 24 = n
    OBVIOUS
  <2>2. 24 * (q + 1) + n >= b /\ 24 * (q + 1) + n < b + 24
    BY <1>1, <1>3
  <2> QED
    BY <2>1, <2>2
<1> QED
  BY <1>2, <1>3

LEMMA PanelBackupIsSound == PanelBackupInv => PanelBackupSound
<1> SUFFICES ASSUME PanelBackupInv, steady, panelJob.pc = "rest", ticked
             PROVE  hour - last.at < 24 + (IF last.at = -1 THEN BackupHour ELSE MinGap)
  BY DEF PanelBackupInv, DumpIsNewest, KeptIsCounted, PanelBackupSound, BackupIsRecent
<1>a. BackupHour \in 0..23 /\ MinGap \in 1..23 /\ MaxHours \in Nat
  BY PanelBackupAssumption
<1>1. hour \in Nat /\ last.at \in Int /\ last.at >= -1
  BY <1>a DEF PanelBackupInv, PanelTyped, LastBackups
<1>2. \A h \in Nat : h <= hour => ~ MissedHour(h)
  BY <1>1 DEF PanelBackupInv, NoHourIsMissed
<1>3. CASE last.at = -1
  <2>1. BackupHour \in Nat /\ BackupHour % 24 = BackupHour
    BY <1>a
  <2>2. ~ (BackupHour <= hour)
    BY <1>2, <1>3, <2>1 DEF MissedHour
  <2> QED
    BY <1>1, <1>3, <1>a, <2>1, <2>2
<1>4. CASE last.at # -1
  <2>1. last.at + MinGap \in Nat
    BY <1>1, <1>4, <1>a
  <2>2. PICK h \in Nat : h >= last.at + MinGap /\ h < last.at + MinGap + 24 /\ h % 24 = BackupHour
    BY <1>a, <2>1, NextBackupHour
  <2>3. h - last.at >= MinGap
    BY <1>1, <1>a, <2>2
  <2>4. ~ (h <= hour)
    BY <1>2, <2>2, <2>3 DEF MissedHour
  <2> QED
    BY <1>1, <1>4, <1>a, <2>2, <2>4
<1> QED
  BY <1>3, <1>4

\* A set of numbers has a least one.
LEMMA LeastOf ==
  ASSUME NEW S \in SUBSET Nat, S # {}
  PROVE  \E m \in S : \A k \in S : m <= k
<1>1. PICK m \in S : \A k \in S : ~ (<<k, m>> \in OpToRel(<, Nat))
  BY NatLessThanWellFounded, WFMin
<1>2. \A k \in S : ~ (k < m)
  BY <1>1 DEF OpToRel
<1> QED
  BY <1>2

\* Of the numbers of a finite set at most n have fewer than n greater ones.
LEMMA NewestAreFew ==
  ASSUME NEW S \in SUBSET Nat, IsFiniteSet(S), NEW n \in Nat \ {0},
         NEW T, T = {k \in S : Cardinality({l \in S : l > k}) < n}
  PROVE  IsFiniteSet(T) /\ Cardinality(T) <= n
<1>1. IsFiniteSet(T)
  BY FS_Subset
<1>2. CASE T = {}
  <2>1. Cardinality(T) = 0
    BY <1>2, FS_EmptySet
  <2> QED
    BY <1>1, <2>1
<1>3. CASE T # {}
  <2>1. PICK m \in T : \A k \in T : m <= k
    BY <1>3, LeastOf
  <2> DEFINE above == {l \in S : l > m}
  <2>2. IsFiniteSet(above) /\ Cardinality(above) \in Nat
    BY FS_Subset, FS_CardinalityType
  <2>3. Cardinality(above) < n
    BY <2>1
  <2>4. T \ {m} \in SUBSET above
    <3>1. T \subseteq S /\ m \in Nat
      OBVIOUS
    <3>2. \A k \in T \ {m} : k \in S /\ k > m
      BY <2>1, <3>1
    <3> QED
      BY <3>2
  <2> HIDE DEF above
  <2>5. Cardinality(T \ {m}) <= Cardinality(above)
    BY <2>2, <2>4, FS_Subset
  <2>6. Cardinality(T \ {m}) = Cardinality(T) - 1
    BY <1>1, <2>1, FS_RemoveElement
  <2>7. Cardinality(T) \in Nat
    BY <1>1, FS_CardinalityType
  <2>8. Cardinality(T) <= n
    BY <2>2, <2>3, <2>5, <2>6, <2>7
  <2> QED
    BY <1>1, <2>8
<1> QED
  BY <1>2, <1>3

\* The retention leaves as many objects as it is told to, the newest of all dumps among them.
LEMMA RetentionLeaves ==
  ASSUME PanelTyped
  PROVE  /\ IsFiniteSet(DOMAIN objects)
         /\ IsFiniteSet(DOMAIN objects \ instanceBackupsToDelete(DOMAIN objects))
         /\ Cardinality(DOMAIN objects \ instanceBackupsToDelete(DOMAIN objects)) <= Retention
         /\ dumps \notin instanceBackupsToDelete(DOMAIN objects)
<1>a. Retention \in Nat \ {0} /\ MaxPanelRuns \in Nat
  BY PanelBackupAssumption
<1> DEFINE S == DOMAIN objects
           T == {k \in S : Cardinality({l \in S : l > k}) < Retention}
<1>1. dumps \in Nat /\ S \in SUBSET (1..dumps)
  BY <1>a DEF PanelTyped
<1>2. IsFiniteSet(1..dumps)
  BY <1>1, FS_Interval
<1>3. IsFiniteSet(S)
  BY <1>1, <1>2, FS_Subset
<1>4. S \in SUBSET Nat
  BY <1>1
<1>5. \A k \in S : Cardinality({l \in S : l > k}) \in Nat
  <2> TAKE k \in S
  <2>1. IsFiniteSet({l \in S : l > k})
    BY <1>3, FS_Subset
  <2> QED
    BY <2>1, FS_CardinalityType
<1>6. S \ instanceBackupsToDelete(S) = T
  BY <1>5, <1>a DEF instanceBackupsToDelete
<1>7. dumps \notin instanceBackupsToDelete(S)
  <2> SUFFICES ASSUME dumps \in S PROVE ~ (Cardinality({l \in S : l > dumps}) >= Retention)
    BY DEF instanceBackupsToDelete
  <2>1. {l \in S : l > dumps} = {}
    BY <1>1
  <2> QED
    BY <1>a, <2>1, FS_EmptySet
<1> HIDE DEF S
<1>8. IsFiniteSet(T) /\ Cardinality(T) <= Retention
  BY <1>a, <1>3, <1>4, NewestAreFew
<1> HIDE DEF T
<1>9. /\ IsFiniteSet(S) /\ IsFiniteSet(S \ instanceBackupsToDelete(S))
      /\ Cardinality(S \ instanceBackupsToDelete(S)) <= Retention
      /\ dumps \notin instanceBackupsToDelete(S)
  BY <1>3, <1>6, <1>7, <1>8
<1> QED
  BY <1>9 DEF S

LEMMA PanelStaysTyped ==
  ASSUME PanelTyped, PanelNext, panelJob.pc = "upload" => panelJob.key \in 1..dumps
  PROVE  PanelTyped'
<1>a. MaxHours \in Nat /\ MaxPanelRuns \in Nat
  BY PanelBackupAssumption
<1>t. /\ panelQueue \in Seq(WaitingBackups) /\ panelUsed \in [request : Nat, fault : Nat]
      /\ panelJob \in PanelJobs /\ last \in LastBackups
      /\ hour \in 0..MaxHours /\ ticked \in BOOLEAN /\ config \in [enabled : BOOLEAN, storage : BOOLEAN]
      /\ dumps \in 0..MaxPanelRuns /\ DOMAIN objects \subseteq 1..dumps /\ steady \in BOOLEAN
  BY DEF PanelTyped
<1>r. NoPanelJob \in PanelJobs
  BY <1>a DEF NoPanelJob, PanelJobs
<1>g. \A pc \in {"dump", "upload", "retain", "done", "fail"} : [panelJob EXCEPT !.pc = pc] \in PanelJobs
  BY <1>t DEF PanelJobs
<1>f. panelUsed' \in [request : Nat, fault : Nat]
  <2>1. PanelAsk => panelUsed' \in [request : Nat, fault : Nat]
    BY <1>t DEF PanelAsk
  <2>2. PanelFault => panelUsed' \in [request : Nat, fault : Nat]
    BY <1>t DEF PanelFault
  <2>3. PanelAsk \/ PanelFault \/ UNCHANGED panelUsed
    BY DEF PanelNext, SetPanelBackup, BackUpNow, PanelTick, HourPasses, TakePanelBackup, DumpPanel, DumpFails, UploadPanel, UploadCut,
       RetainPanel, RetainFails, RetainSkips, EndPanelBackup, FailPanelBackup, PanelWorkerDies
  <2> QED
    BY <1>t, <2>1, <2>2, <2>3
<1>s. steady' \in BOOLEAN
  BY <1>t DEF PanelNext, SetPanelBackup, BackUpNow, PanelTick, HourPasses, TakePanelBackup, DumpPanel, DumpFails, UploadPanel, UploadCut,
     RetainPanel, RetainFails, RetainSkips, EndPanelBackup, FailPanelBackup, PanelWorkerDies, PanelFault
<1>1. ASSUME NEW enabled \in BOOLEAN, NEW storage \in BOOLEAN, SetPanelBackup(enabled, storage) PROVE PanelTyped'
  BY <1>t, <1>f, <1>s, <1>1 DEF SetPanelBackup, PanelTyped
<1>2. CASE BackUpNow \/ PanelTick
  <2>1. panelQueue' \in Seq(WaitingBackups)
    <3>1. [force |-> TRUE, run |-> 0] \in WaitingBackups /\ [force |-> FALSE, run |-> 0] \in WaitingBackups
      BY DEF WaitingBackups
    <3>3. \A w \in WaitingBackups : Append(panelQueue, w) \in Seq(WaitingBackups) /\ <<w>> \in Seq(WaitingBackups)
      BY <1>t
    <3>2. panelQueue' = Append(panelQueue, [force |-> TRUE, run |-> 0]) \/ panelQueue' = <<[force |-> FALSE, run |-> 0]>>
      BY <1>2 DEF BackUpNow, PanelTick
    <3> QED
      BY <3>1, <3>2, <3>3
  <2> QED
    BY <1>t, <1>f, <1>s, <1>2, <2>1 DEF BackUpNow, PanelTick, PanelTyped
<1>4. CASE HourPasses
  <2>1. hour' \in 0..MaxHours
    BY <1>a, <1>t, <1>4 DEF HourPasses
  <2> QED
    BY <1>t, <1>f, <1>s, <1>4, <2>1 DEF HourPasses, PanelTyped
<1>5. CASE TakePanelBackup
  <2>1. Head(panelQueue) \in WaitingBackups /\ panelQueue' \in Seq(WaitingBackups)
    BY <1>t, <1>5, HeadTailProperties DEF TakePanelBackup
  <2>2. PICK j \in WaitingBackups : j = Head(panelQueue)
    BY <2>1
  <2>3. panelJob' \in PanelJobs
    <3>1. panelJob' = [pc |-> "dump", force |-> j.force, at |-> hour, key |-> 0, kept |-> 0, run |-> j.run] \/ panelJob' = NoPanelJob
      BY <1>5, <2>2 DEF TakePanelBackup, NoPanelJob
    <3>2. j.force \in BOOLEAN /\ j.run \in 0..1
      BY DEF WaitingBackups
    <3> QED
      BY <1>a, <1>t, <1>r, <3>1, <3>2 DEF PanelJobs
  <2>4. last' \in LastBackups
    BY <1>t, <1>5 DEF TakePanelBackup, LastBackups
  <2>5. ticked' \in BOOLEAN
    BY <1>5 DEF TakePanelBackup
  <2> QED
    BY <1>t, <1>f, <1>s, <1>5, <2>1, <2>3, <2>4, <2>5 DEF TakePanelBackup, PanelTyped
<1>6. CASE DumpPanel
  <2>1. dumps' = dumps + 1 /\ dumps' \in 0..MaxPanelRuns /\ DOMAIN objects \subseteq 1..dumps'
    BY <1>a, <1>t, <1>6 DEF DumpPanel
  <2>2. panelJob' \in PanelJobs
    BY <1>t, <1>6, <2>1 DEF DumpPanel, PanelJobs
  <2> QED
    BY <1>t, <1>f, <1>s, <1>6, <2>1, <2>2 DEF DumpPanel, PanelTyped
<1>7. CASE DumpFails \/ RetainFails
  BY <1>t, <1>f, <1>s, <1>g, <1>7 DEF DumpFails, RetainFails, PanelTyped
<1>8. CASE UploadPanel \/ UploadCut
  <2>1. \A whole : DOMAIN Stored(panelJob.key, whole) = DOMAIN objects \cup {panelJob.key}
    BY DEF Stored
  <2>2. DOMAIN objects' \subseteq 1..dumps
    BY <1>t, <1>8, <2>1 DEF UploadPanel, UploadCut
  <2> QED
    BY <1>t, <1>f, <1>s, <1>g, <1>8, <2>2 DEF UploadPanel, UploadCut, PanelTyped
<1>9. CASE RetainPanel
  <2>1. DOMAIN objects' \subseteq 1..dumps
    BY <1>t, <1>9 DEF RetainPanel
  <2> QED
    BY <1>t, <1>f, <1>s, <1>g, <1>9, <2>1 DEF RetainPanel, PanelTyped
<1>10. ASSUME NEW k \in DOMAIN objects, RetainSkips(k) PROVE PanelTyped'
  <2>1. DOMAIN objects' \subseteq 1..dumps
    BY <1>t, <1>10 DEF RetainSkips
  <2>2. panelJob' \in PanelJobs
    BY <1>t, <1>10 DEF RetainSkips, PanelJobs
  <2> QED
    BY <1>t, <1>f, <1>s, <1>10, <2>1, <2>2 DEF RetainSkips, PanelTyped
<1>11. CASE EndPanelBackup
  <2>1. last' \in LastBackups
    BY <1>a, <1>t, <1>11 DEF EndPanelBackup, LastBackups, PanelJobs
  <2> QED
    BY <1>t, <1>f, <1>s, <1>r, <1>11, <2>1 DEF EndPanelBackup, PanelTyped
<1>12. CASE FailPanelBackup
  <2>1. last' \in LastBackups
    BY <1>t, <1>12 DEF FailPanelBackup, LastBackups
  <2> QED
    BY <1>t, <1>f, <1>s, <1>r, <1>12, <2>1 DEF FailPanelBackup, PanelTyped
<1>13. CASE PanelWorkerDies
  <2>1. <<[force |-> panelJob.force, run |-> 1]>> \in Seq(WaitingBackups)
    BY <1>t DEF PanelJobs, WaitingBackups
  <2>2. panelQueue' \in Seq(WaitingBackups)
    BY <1>t, <1>13, <2>1, ConcatProperties DEF PanelWorkerDies
  <2> QED
    BY <1>t, <1>f, <1>s, <1>r, <1>13, <2>2 DEF PanelWorkerDies, PanelTyped
<1> QED
  BY <1>1, <1>2, <1>4, <1>5, <1>6, <1>7, <1>8, <1>9, <1>10, <1>11, <1>12, <1>13 DEF PanelNext

LEMMA DumpStaysNewest ==
  ASSUME PanelTyped, DumpIsNewest, PanelNext
  PROVE  DumpIsNewest'
<1>a. MaxPanelRuns \in Nat
  BY PanelBackupAssumption
<1>t. /\ dumps \in Nat /\ DOMAIN objects \subseteq 1..dumps /\ last.key \in Nat /\ panelJob.key \in Nat
      /\ panelJob \in [pc : {"rest", "dump", "upload", "retain", "done", "fail"}, force : BOOLEAN, at : 0..MaxHours,
                       key : 0..MaxPanelRuns, kept : Nat, run : 0..1]
      /\ last \in [at : -1..MaxHours, status : {"none", "running", "success", "failed"}, key : 0..MaxPanelRuns, kept : Nat]
  BY <1>a DEF PanelTyped, PanelJobs, LastBackups
<1>1. ASSUME UNCHANGED <<dumps, objects>>, last'.key = last.key, panelJob'.pc \in {"rest", "dump", "fail"} \/ UNCHANGED panelJob
      PROVE  DumpIsNewest'
  BY <1>1 DEF DumpIsNewest, LastBackupIsThere
<1>2. ASSUME NEW enabled \in BOOLEAN, NEW storage \in BOOLEAN, SetPanelBackup(enabled, storage) PROVE DumpIsNewest'
  BY <1>1, <1>2 DEF SetPanelBackup
<1>3. CASE BackUpNow \/ PanelTick \/ HourPasses
  BY <1>1, <1>3 DEF BackUpNow, PanelTick, HourPasses
<1>4. CASE TakePanelBackup
  <2>1. last'.key = last.key
    BY <1>t, <1>4 DEF TakePanelBackup
  <2>2. panelJob'.pc \in {"rest", "dump"}
    BY <1>4 DEF TakePanelBackup, NoPanelJob
  <2> QED
    BY <1>1, <1>4, <2>1, <2>2 DEF TakePanelBackup
<1>5. CASE DumpPanel
  BY <1>t, <1>5 DEF DumpPanel, DumpIsNewest, LastBackupIsThere
<1>6. CASE DumpFails \/ RetainFails
  BY <1>t, <1>1, <1>6 DEF DumpFails, RetainFails
<1>7. ASSUME UploadPanel \/ UploadCut PROVE DumpIsNewest'
  <2>1. /\ panelJob.key = dumps /\ dumps # 0 /\ panelJob.key \notin DOMAIN objects /\ UNCHANGED <<last, dumps>>
        /\ panelJob'.key = panelJob.key
        /\ \/ panelJob'.pc = "retain" /\ objects' = Stored(dumps, TRUE)
           \/ panelJob'.pc = "fail" /\ objects' = Stored(dumps, FALSE)
    BY <1>t, <1>7 DEF UploadPanel, UploadCut, DumpIsNewest
  <2>2. /\ DOMAIN objects' = DOMAIN objects \cup {dumps}
        /\ \A k \in DOMAIN objects : objects'[k] = objects[k]
        /\ panelJob'.pc = "retain" => objects'[dumps]
    BY <2>1 DEF Stored
  <2>3. LastBackupIsThere'
    BY <2>1, <2>2 DEF DumpIsNewest, LastBackupIsThere
  <2> QED
    BY <2>1, <2>2, <2>3 DEF DumpIsNewest
<1>8. CASE RetainPanel \/ \E k \in DOMAIN objects : RetainSkips(k)
  <2>1. panelJob.key = dumps /\ dumps # 0 /\ dumps \in DOMAIN objects /\ objects[dumps] /\ last.key <= dumps
    BY <1>8 DEF RetainPanel, RetainSkips, DumpIsNewest
  <2>2. panelJob'.key = panelJob.key /\ panelJob'.pc = "done" /\ UNCHANGED <<last, dumps>>
    BY <1>t, <1>8 DEF RetainPanel, RetainSkips
  <2>3. dumps \in DOMAIN objects' /\ objects'[dumps] = objects[dumps]
    BY <1>8, <2>1, RetentionLeaves DEF RetainPanel, RetainSkips
  <2> QED
    BY <1>t, <2>1, <2>2, <2>3 DEF DumpIsNewest, LastBackupIsThere
<1>9. CASE EndPanelBackup
  <2>1. panelJob.key = dumps /\ dumps # 0 /\ dumps \in DOMAIN objects /\ objects[dumps]
    BY <1>9 DEF EndPanelBackup, DumpIsNewest
  <2>2. last'.key = dumps /\ panelJob'.pc = "rest" /\ UNCHANGED <<objects, dumps>>
    BY <1>9, <2>1 DEF EndPanelBackup, NoPanelJob
  <2> QED
    BY <1>t, <2>1, <2>2 DEF DumpIsNewest, LastBackupIsThere
<1>10. CASE FailPanelBackup \/ PanelWorkerDies
  BY <1>t, <1>1, <1>10 DEF FailPanelBackup, PanelWorkerDies, NoPanelJob
<1> QED
  BY <1>2, <1>3, <1>4, <1>5, <1>6, <1>7, <1>8, <1>9, <1>10 DEF PanelNext

LEMMA KeptStaysCounted ==
  ASSUME PanelTyped, KeptIsCounted, PanelNext
  PROVE  KeptIsCounted'
<1>t. /\ panelJob \in [pc : {"rest", "dump", "upload", "retain", "done", "fail"}, force : BOOLEAN, at : 0..MaxHours,
                       key : 0..MaxPanelRuns, kept : Nat, run : 0..1]
      /\ last \in [at : -1..MaxHours, status : {"none", "running", "success", "failed"}, key : 0..MaxPanelRuns, kept : Nat]
      /\ Retention \in Nat
  BY PanelBackupAssumption DEF PanelTyped, PanelJobs, LastBackups
<1>1. ASSUME UNCHANGED <<objects, last>>, UNCHANGED panelJob \/ (panelJob.pc # "rest" /\ panelJob'.pc # "done")
      PROVE  KeptIsCounted'
  BY <1>1 DEF KeptIsCounted, RetentionHolds
<1>2. ASSUME UNCHANGED last, panelJob.pc # "rest", panelJob'.pc \notin {"rest", "done"}
      PROVE  KeptIsCounted'
  BY <1>2 DEF KeptIsCounted, RetentionHolds
<1>3. ASSUME NEW enabled \in BOOLEAN, NEW storage \in BOOLEAN, SetPanelBackup(enabled, storage) PROVE KeptIsCounted'
  BY <1>1, <1>3 DEF SetPanelBackup
<1>4. CASE BackUpNow \/ PanelTick \/ HourPasses
  BY <1>1, <1>4 DEF BackUpNow, PanelTick, HourPasses
<1>5. CASE TakePanelBackup
  <2>1. CASE isInstanceBackupDue(Head(panelQueue).force)
    <3>1. panelJob'.pc = "dump" /\ last'.status = "running"
      BY <1>t, <1>5, <2>1 DEF TakePanelBackup, NoPanelJob
    <3> QED
      BY <3>1 DEF KeptIsCounted, RetentionHolds
  <2>2. CASE ~ isInstanceBackupDue(Head(panelQueue).force)
    <3>1. panelJob'.pc = "rest" /\ panelJob.pc = "rest" /\ UNCHANGED <<last, objects>>
      BY <1>5, <2>2 DEF TakePanelBackup, NoPanelJob
    <3> QED
      BY <3>1 DEF KeptIsCounted, RetentionHolds
  <2> QED
    BY <2>1, <2>2
<1>6. CASE DumpPanel \/ DumpFails \/ UploadPanel \/ UploadCut \/ RetainFails
  BY <1>t, <1>2, <1>6 DEF DumpPanel, DumpFails, UploadPanel, UploadCut, RetainFails
<1>7. CASE RetainPanel
  <2>1. DOMAIN objects' = DOMAIN objects \ instanceBackupsToDelete(DOMAIN objects)
    BY <1>7 DEF RetainPanel
  <2>2. panelJob'.pc = "done" /\ panelJob'.kept \in Nat /\ last'.status = "running"
    BY <1>t, <1>7 DEF RetainPanel, KeptIsCounted
  <2>3. Cardinality(DOMAIN objects') <= Retention /\ Cardinality(DOMAIN objects') \in Nat
    BY <2>1, RetentionLeaves, FS_CardinalityType
  <2> QED
    BY <1>t, <2>2, <2>3 DEF KeptIsCounted, RetentionHolds
<1>8. ASSUME NEW k \in DOMAIN objects, RetainSkips(k) PROVE KeptIsCounted'
  <2> DEFINE S == DOMAIN objects \ instanceBackupsToDelete(DOMAIN objects)
  <2>1. DOMAIN objects' = S \cup {k}
    BY <1>8 DEF RetainSkips
  <2>2. panelJob'.pc = "done" /\ panelJob'.kept = 1 /\ last'.status = "running"
    BY <1>t, <1>8 DEF RetainSkips, KeptIsCounted
  <2>3. IsFiniteSet(S) /\ Cardinality(S) <= Retention /\ Cardinality(S) \in Nat
    BY RetentionLeaves, FS_CardinalityType
  <2> HIDE DEF S
  <2>4. Cardinality(S \cup {k}) <= Cardinality(S) + 1
    BY <2>3, FS_AddElement
  <2>5. Cardinality(DOMAIN objects') <= Retention + 1
    <3>1. Cardinality(S \cup {k}) \in Nat
      BY <2>3, FS_AddElement, FS_CardinalityType
    <3> QED
      BY <1>t, <2>1, <2>3, <2>4, <3>1
  <2> QED
    BY <2>2, <2>5 DEF KeptIsCounted, RetentionHolds
<1>9. CASE EndPanelBackup
  <2>1. last'.kept = panelJob.kept /\ panelJob'.pc = "rest" /\ Cardinality(DOMAIN objects) <= Retention + panelJob.kept /\ UNCHANGED objects
    BY <1>9 DEF EndPanelBackup, KeptIsCounted, NoPanelJob
  <2> QED
    BY <2>1 DEF KeptIsCounted, RetentionHolds
<1>10. CASE FailPanelBackup
  <2>1. last'.status = "failed" /\ panelJob'.pc = "rest"
    BY <1>t, <1>10 DEF FailPanelBackup, NoPanelJob
  <2> QED
    BY <2>1 DEF KeptIsCounted, RetentionHolds
<1>11. CASE PanelWorkerDies
  BY <1>1, <1>11 DEF PanelWorkerDies, NoPanelJob
<1> QED
  BY <1>3, <1>4, <1>5, <1>6, <1>7, <1>8, <1>9, <1>10, <1>11 DEF PanelNext

LEMMA NoHourGoesBy ==
  ASSUME PanelTyped, NoHourIsMissed, PanelNext
  PROVE  NoHourIsMissed'
<1>a. MaxHours \in Nat /\ BackupHour \in 0..23 /\ MinGap \in 1..23
  BY PanelBackupAssumption
<1>t. /\ panelJob \in [pc : {"rest", "dump", "upload", "retain", "done", "fail"}, force : BOOLEAN, at : 0..MaxHours,
                       key : 0..MaxPanelRuns, kept : Nat, run : 0..1]
      /\ last \in [at : -1..MaxHours, status : {"none", "running", "success", "failed"}, key : 0..MaxPanelRuns, kept : Nat]
      /\ hour \in Nat /\ last.at \in Int /\ panelJob.at \in Nat
  BY <1>a DEF PanelTyped, PanelJobs, LastBackups
<1>1. ASSUME last'.at = last.at, UNCHANGED <<hour, ticked>>, panelJob'.pc # "rest" => panelJob.pc # "rest" /\ panelJob'.at = panelJob.at,
             steady' => /\ steady /\ UNCHANGED config /\ panelJob'.pc # "fail"
                        /\ ticked /\ panelJob'.pc = "rest" => panelJob.pc = "rest"
      PROVE  NoHourIsMissed'
  <2>1. \A h : MissedHour(h)' <=> MissedHour(h)
    BY <1>1 DEF MissedHour
  <2> QED
    BY <1>1, <2>1 DEF NoHourIsMissed
<1>2. ASSUME NEW enabled \in BOOLEAN, NEW storage \in BOOLEAN, SetPanelBackup(enabled, storage) PROVE NoHourIsMissed'
  <2>1. ~ steady' /\ UNCHANGED <<panelJob, last, hour>>
    BY <1>2 DEF SetPanelBackup
  <2> QED
    BY <2>1 DEF NoHourIsMissed
<1>3. CASE BackUpNow \/ PanelTick
  BY <1>1, <1>3 DEF BackUpNow, PanelTick, NoHourIsMissed
<1>4. CASE HourPasses
  <2>1. hour' = hour + 1 /\ ticked /\ ~ ticked' /\ panelJob.pc = "rest" /\ UNCHANGED <<last, panelJob, steady, config>>
    BY <1>4 DEF HourPasses
  <2>2. \A h : MissedHour(h)' <=> MissedHour(h)
    BY <2>1 DEF MissedHour
  <2>3. \A h \in Nat : h < hour' => h < hour \/ h = hour
    BY <1>t, <2>1
  <2> QED
    BY <1>t, <2>1, <2>2, <2>3 DEF NoHourIsMissed
<1>5. CASE TakePanelBackup
  <2> DEFINE j == Head(panelQueue)
  <2>1. /\ UNCHANGED <<hour, config, steady>> /\ panelJob.pc = "rest" /\ last'.at = last.at /\ ticked' = (ticked \/ ~ j.force)
        /\ panelJob'.pc # "fail" /\ (panelJob'.pc # "rest" => panelJob'.at = hour)
        /\ panelJob'.pc = "rest" => ~ isInstanceBackupDue(j.force)
    BY <1>t, <1>5 DEF TakePanelBackup, NoPanelJob
  <2>2. \A h : MissedHour(h)' <=> MissedHour(h)
    BY <2>1 DEF MissedHour
  <2>3. ASSUME steady, ticked', panelJob'.pc = "rest" PROVE ~ MissedHour(hour)
    <3>1. config.enabled /\ config.storage /\ (ticked => ~ MissedHour(hour))
      BY <1>t, <2>1, <2>3 DEF NoHourIsMissed
    <3> QED
      BY <2>1, <2>3, <3>1 DEF MissedHour, isInstanceBackupDue
  <2> HIDE DEF j
  <2> QED
    BY <1>t, <2>1, <2>2, <2>3 DEF NoHourIsMissed
<1>6. CASE DumpPanel \/ UploadPanel \/ RetainPanel
  <2>1. /\ panelJob.pc # "rest" /\ panelJob'.at = panelJob.at /\ panelJob'.pc \notin {"rest", "fail"}
        /\ UNCHANGED <<hour, ticked, last, config, steady>>
    BY <1>t, <1>6 DEF DumpPanel, UploadPanel, RetainPanel
  <2> QED
    BY <1>1, <2>1
<1>7. CASE DumpFails \/ UploadCut \/ RetainFails \/ PanelWorkerDies \/ \E k \in DOMAIN objects : RetainSkips(k)
  <2>1. ~ steady' /\ UNCHANGED <<hour, ticked, last>> /\ panelJob.pc # "rest"
    BY <1>7 DEF DumpFails, UploadCut, RetainFails, PanelWorkerDies, RetainSkips, PanelFault
  <2>2. panelJob'.pc # "rest" => panelJob'.at = panelJob.at
    <3>1. CASE DumpFails \/ UploadCut \/ RetainFails
      BY <1>t, <3>1 DEF DumpFails, UploadCut, RetainFails
    <3>2. CASE PanelWorkerDies
      BY <3>2 DEF PanelWorkerDies, NoPanelJob
    <3>3. ASSUME NEW k \in DOMAIN objects, RetainSkips(k) PROVE panelJob'.at = panelJob.at
      BY <1>t, <3>3 DEF RetainSkips
    <3> QED
      BY <1>7, <3>1, <3>2, <3>3
  <2> QED
    BY <1>1, <2>1, <2>2
<1>8. CASE EndPanelBackup
  <2>1. /\ panelJob.at = hour /\ last'.at = hour /\ panelJob'.pc = "rest" /\ UNCHANGED <<hour, config, steady>>
    BY <1>8 DEF EndPanelBackup, NoPanelJob, NoHourIsMissed
  <2>2. \A h \in Nat : h <= hour => ~ MissedHour(h)'
    BY <1>a, <1>t, <2>1 DEF MissedHour
  <2> QED
    BY <1>t, <2>1, <2>2 DEF NoHourIsMissed
<1>9. CASE FailPanelBackup
  <2>1. ~ steady /\ UNCHANGED <<hour, steady>> /\ last'.at = last.at /\ panelJob'.pc = "rest"
    BY <1>t, <1>9 DEF FailPanelBackup, NoPanelJob, NoHourIsMissed
  <2> QED
    BY <2>1 DEF NoHourIsMissed
<1> QED
  BY <1>2, <1>3, <1>4, <1>5, <1>6, <1>7, <1>8, <1>9 DEF PanelNext

LEMMA StepPanelBackup ==
  ASSUME PanelBackupInv, [PanelNext]_panelVars
  PROVE  PanelBackupInv'
<1>1. PanelTyped /\ DumpIsNewest /\ KeptIsCounted /\ NoHourIsMissed
  BY DEF PanelBackupInv
<1>2. CASE PanelNext
  <2>1. panelJob.pc = "upload" => panelJob.key \in 1..dumps
    <3>1. dumps \in Nat
      BY <1>1, PanelBackupAssumption DEF PanelTyped
    <3> QED
      BY <1>1, <3>1 DEF DumpIsNewest
  <2> QED
    BY <1>1, <1>2, <2>1, PanelStaysTyped, DumpStaysNewest, KeptStaysCounted, NoHourGoesBy DEF PanelBackupInv
<1>3. CASE UNCHANGED panelVars
  <2>1. PanelTyped'
    BY <1>1, <1>3 DEF panelVars, PanelTyped
  <2>2. DumpIsNewest' /\ KeptIsCounted'
    BY <1>1, <1>3 DEF panelVars, DumpIsNewest, KeptIsCounted, LastBackupIsThere, RetentionHolds
  <2>3. NoHourIsMissed'
    <3>1. \A h : MissedHour(h)' <=> MissedHour(h)
      BY <1>3 DEF panelVars, MissedHour
    <3> QED
      BY <1>1, <1>3, <3>1 DEF panelVars, NoHourIsMissed
  <2> QED
    BY <2>1, <2>2, <2>3 DEF PanelBackupInv
<1> QED
  BY <1>2, <1>3

----------------------------------------------------------------------------
(* The archives of a volume                                                 *)

VbRow == [status : {"absent", "queued", "running", "success", "failed", "deleted"}, op : {"backup", "restore"},
          src : 0..VbRows, s3 : BOOLEAN, file : Archive \cup {NoArchive}]
VbJobs == [id : 0..VbRows, run : 0..1, from : Archive \cup {NoArchive}, old : SUBSET VbIds, ok : BOOLEAN,
           pc : {"rest", "archive", "record", "retain", "download", "stop", "replace", "start", "restored", "fail"}]
VbWaiting == [id : VbIds, run : 0..1]

VolumeTyped ==
    /\ vb \in [VbIds -> VbRow]
    /\ DOMAIN archives \subseteq Archive /\ \A a \in DOMAIN archives : archives[a] \in BOOLEAN
    /\ inS3 = {} /\ vdata \in {"whole", "lost"} /\ box \in {"up", "down"}
    /\ vqueue \in Seq(VbWaiting)
    /\ vjob \in VbJobs /\ (vjob.pc # "rest" => vjob.id \in VbIds)
    /\ vask \in {"none", "local", "s3"}
    /\ vdrop \in [id : 0..VbRows, pc : {"rest", "file", "row"}, row : VbRow]
    /\ (vdrop.pc # "rest" => vdrop.id \in VbIds)
    /\ vused \in [drop : 0..MaxVbDrops, fault : 0..MaxVbFaults]
    /\ vluck \subseteq {"fault", "lost", "died", "dropped"}

BackedUp(i) == vb[i].op = "backup" /\ vb[i].status = "success"

\* The archive of a backup bears its row's id, and a restore names a backup.
RowsAreTrue ==
    \A i \in VbIds : /\ vb[i].status = "absent" => vb[i] = NoVbRow
                     /\ vb[i].op = "backup" /\ vb[i].file # NoArchive => vb[i].file[1] = i
                     /\ vb[i].op = "restore" => /\ vb[i].src \in VbIds
                                                /\ vb[vb[i].src].op = "backup" /\ vb[vb[i].src].status # "absent"

\* Whoever works on a row works on one that exists, or did: the deletion, the waiting jobs, and the job in progress,
\* which does what its row asks for.
WorkIsTrue ==
    /\ \A j \in DOMAIN vqueue : vb[vqueue[j].id].status # "absent"
    /\ vdrop.pc # "rest" => /\ vb[vdrop.id].status # "absent"
                            /\ vdrop.row.op = "backup" /\ vdrop.row.file # NoArchive => vdrop.row.file[1] = vdrop.id
    /\ vjob.pc # "rest" => vb[vjob.id].status # "absent"
    /\ vjob.pc = "retain" => \A i \in vjob.old : vb[i].status # "absent"
    /\ vjob.pc \in {"archive", "record", "retain"} /\ HasVb(vjob.id) => vb[vjob.id].op = "backup"
    /\ vjob.pc \in {"download", "stop", "replace", "start", "restored"} /\ HasVb(vjob.id) => vb[vjob.id].op = "restore"

\* Between deletions no row is being deleted.
DropIsOver == vdrop.pc = "rest" => vdrop.id = 0

\* The container is stopped only between the two commands of a restore.
BoxIsUp == vluck \cap {"lost", "died"} = {} /\ vjob.pc \notin {"replace", "start"} => box = "up"

\* The archive of a success, and the one that the job is to record, is on the server unless its row is being deleted.
ArchiveIsThere ==
    "lost" \notin vluck =>
      /\ vjob.pc = "record" /\ vdrop.id # vjob.id /\ HasVb(vjob.id) => <<vjob.id, vjob.run>> \in DOMAIN archives
      /\ \A i \in VbIds : BackedUp(i) /\ ~ vb[i].s3 /\ vdrop.id # i => vb[i].file \in DOMAIN archives

\* A row has one job, and the row says whether it is still to come.
JobsRunOnce ==
    /\ \A j, k \in DOMAIN vqueue : vqueue[j].id = vqueue[k].id => j = k
    /\ \A j \in DOMAIN vqueue : vb[vqueue[j].id].status = "queued" /\ (vjob.pc # "rest" => vqueue[j].id # vjob.id)
    /\ vjob.pc \notin {"rest", "retain"} => vb[vjob.id].status = "running"
    /\ vjob.pc = "fail" => vb[vjob.id].op = "restore"

\* The archives on the server: those of the successes, and the one that is to be recorded.
OnServer(a) == (BackedUp(a[1]) /\ vb[a[1]].file = a) \/ (vjob.pc = "record" /\ a = <<vjob.id, vjob.run>>)
ArchivesMatch ==
    /\ \A i \in VbIds : HasVb(i) /\ vb[i].op = "backup" => (vb[i].file # NoArchive <=> vb[i].status = "success")
    /\ vjob.pc = "retain" => \A i \in vjob.old : BackedUp(i)
    /\ \A a \in Archive : ~ vb[a[1]].s3 => (a \in DOMAIN archives <=> OnServer(a))

\* What is archived is whole, and what is to be restored is there.
DataIsWhole ==
    /\ vdata = "whole" /\ \A a \in DOMAIN archives : archives[a]
    /\ vjob.pc \in {"stop", "replace"} => vjob.from \in DOMAIN archives

AllGoesWell == vluck = {} => vdrop.pc # "row" /\ JobsRunOnce /\ ArchivesMatch /\ DataIsWhole

VolumeInv == VolumeTyped /\ RowsAreTrue /\ WorkIsTrue /\ DropIsOver /\ BoxIsUp /\ ArchiveIsThere /\ AllGoesWell

LEMMA InitVolumes == VolumeInit => VolumeInv
<1> SUFFICES ASSUME VolumeInit PROVE VolumeInv
  OBVIOUS
<1>a. VbRows \in Nat /\ MaxVbDrops \in Nat /\ MaxVbFaults \in Nat
  BY VbAssumption
<1>1. NoVbRow \in VbRow /\ NoVbRow.status = "absent" /\ NoVbRow.op = "backup" /\ NoVbRow.file = NoArchive
  BY <1>a DEF NoVbRow, VbRow
<1>2. NoVbJob \in VbJobs /\ NoVbJob.pc = "rest" /\ NoVbJob.id = 0
  BY <1>a DEF NoVbJob, VbJobs
<1>3. DOMAIN archives = {} /\ inS3 = {} /\ vqueue = <<>> /\ vjob = NoVbJob /\ vluck = {} /\ vdata = "whole" /\ box = "up" /\ vask = "none"
  BY DEF VolumeInit
<1>4. \A i \in VbIds : vb[i] = NoVbRow
  BY DEF VolumeInit
<1>5. vdrop.pc = "rest" /\ vdrop \in [id : 0..VbRows, pc : {"rest", "file", "row"}, row : VbRow]
  BY <1>a, <1>1 DEF VolumeInit
<1>6. VolumeTyped
  <2>1. vb \in [VbIds -> VbRow]
    BY <1>1 DEF VolumeInit
  <2>2. vused \in [drop : 0..MaxVbDrops, fault : 0..MaxVbFaults]
    BY <1>a DEF VolumeInit
  <2>3. vqueue \in Seq(VbWaiting)
    BY <1>3
  <2> QED
    BY <1>2, <1>3, <1>5, <2>1, <2>2, <2>3 DEF VolumeTyped
<1>7. RowsAreTrue
  BY <1>1, <1>4 DEF RowsAreTrue
<1>8. DOMAIN vqueue = {}
  BY <1>3
<1>9. WorkIsTrue
  <2>1. vjob.pc = "rest"
    BY <1>2, <1>3
  <2> QED
    BY <1>5, <1>8, <2>1 DEF WorkIsTrue
<1>10. BoxIsUp
  BY <1>3 DEF BoxIsUp
<1>11. ArchiveIsThere
  BY <1>1, <1>2, <1>3, <1>4 DEF ArchiveIsThere, BackedUp
<1>12. AllGoesWell
  <2>1. JobsRunOnce
    BY <1>2, <1>3, <1>8 DEF JobsRunOnce
  <2>2. \A a \in Archive : a[1] \in VbIds
    BY DEF Archive
  <2>3. ArchivesMatch
    BY <1>1, <1>2, <1>3, <1>4, <2>2 DEF ArchivesMatch, OnServer, BackedUp
  <2> QED
    BY <1>2, <1>3, <1>5, <2>1, <2>3 DEF AllGoesWell, DataIsWhole
<1>13. DropIsOver
  BY DEF VolumeInit, DropIsOver
<1> QED
  BY <1>6, <1>7, <1>9, <1>10, <1>11, <1>12, <1>13 DEF VolumeInv

LEMMA NoArchiveIsNone == NoArchive \notin Archive
<1>1. 0 \notin VbIds
  BY VbAssumption DEF VbIds
<1> QED
  BY <1>1 DEF NoArchive, Archive

LEMMA VolumesAreSound == VolumeInv => VolumesSound
<1> SUFFICES ASSUME VolumeInv PROVE VolumesSound
  OBVIOUS
<1>1. ContainerReturns
  BY DEF VolumeInv, BoxIsUp, ContainerReturns
<1>2. SuccessHasArchive
  BY DEF VolumeInv, ArchiveIsThere, AllGoesWell, DataIsWhole, BackedUp, SuccessHasArchive
<1>3. RestoreLosesNothing
  BY DEF VolumeInv, AllGoesWell, DataIsWhole, RestoreLosesNothing
<1>4. ArchivesAreListed
  <2> SUFFICES ASSUME vjob.pc = "rest", vluck = {}
               PROVE  {a \in DOMAIN archives : ~vb[a[1]].s3}
                       = {vb[i].file : i \in {j \in VbIds : vb[j].op = "backup" /\ vb[j].status = "success" /\ ~vb[j].s3}}
    BY DEF ArchivesAreListed
  <2>1. \A a \in Archive : ~ vb[a[1]].s3 => (a \in DOMAIN archives <=> BackedUp(a[1]) /\ vb[a[1]].file = a)
    BY DEF VolumeInv, AllGoesWell, ArchivesMatch, OnServer
  <2>2. DOMAIN archives \subseteq Archive /\ \A a \in Archive : a[1] \in VbIds
    BY DEF VolumeInv, VolumeTyped, Archive
  <2>3. ASSUME NEW i \in VbIds, BackedUp(i), ~ vb[i].s3 PROVE vb[i].file \in Archive /\ vb[i].file[1] = i
    <3>1. vb[i].file # NoArchive
      BY <2>3 DEF VolumeInv, AllGoesWell, ArchivesMatch, BackedUp, HasVb
    <3>2. vb[i].file \in Archive \cup {NoArchive}
      BY DEF VolumeInv, VolumeTyped, VbRow
    <3> QED
      BY <2>3, <3>1, <3>2 DEF VolumeInv, RowsAreTrue, BackedUp
  <2> QED
    BY <2>1, <2>2, <2>3 DEF BackedUp
<1> QED
  BY <1>1, <1>2, <1>3, <1>4 DEF VolumesSound

\* One row is written, and the others stay as they are.
LEMMA OneRow ==
  ASSUME VolumeTyped, NEW i \in VbIds, NEW row \in VbRow, vb' = [vb EXCEPT ![i] = row]
  PROVE  vb' \in [VbIds -> VbRow] /\ vb'[i] = row /\ \A k \in VbIds : k # i => vb'[k] = vb[k]
BY DEF VolumeTyped

LEMMA SetsStatus ==
  ASSUME VolumeTyped, NEW i \in VbIds, NEW s \in {"running", "success", "failed"}
  PROVE  \E row \in VbRow : /\ SetVb(i, s) = [vb EXCEPT ![i] = row]
                            /\ row.op = vb[i].op /\ row.src = vb[i].src /\ row.file = vb[i].file /\ (row.s3 <=> vb[i].s3)
                            /\ row.status = IF vb[i].status = "deleted" THEN "deleted" ELSE s
<1> DEFINE to == IF vb[i].status = "deleted" THEN "deleted" ELSE s
           row == [vb[i] EXCEPT !.status = to]
<1>t. vb \in [VbIds -> VbRow] /\ vb[i] \in VbRow
  BY DEF VolumeTyped
<1>1. to \in {"deleted", "running", "success", "failed"}
  OBVIOUS
<1>2. SetVb(i, s) = [vb EXCEPT ![i] = row]
  BY <1>t DEF SetVb
<1> HIDE DEF to
<1>3. /\ row \in VbRow /\ row.op = vb[i].op /\ row.src = vb[i].src /\ row.file = vb[i].file /\ (row.s3 <=> vb[i].s3)
      /\ row.status = to
  BY <1>t, <1>1 DEF VbRow
<1> QED
  BY <1>2, <1>3 DEF to

LEMMA NoRow == NoVbRow \in VbRow /\ NoVbRow.op = "backup" /\ NoVbRow.file = NoArchive
<1>1. 0 \in 0..VbRows
  BY VbAssumption
<1> QED
  BY <1>1 DEF NoVbRow, VbRow

\* The row of a deleted archive.
LEMMA Deletes ==
  ASSUME NEW s3 \in BOOLEAN
  PROVE  LET row == [NoVbRow EXCEPT !.status = "deleted", !.s3 = s3]
         IN  row \in VbRow /\ row.status = "deleted" /\ row.op = "backup" /\ row.file = NoArchive /\ (row.s3 <=> s3)
<1> DEFINE a == [NoVbRow EXCEPT !.status = "deleted"]
<1>1. a \in VbRow /\ a.status = "deleted" /\ a.op = "backup" /\ a.file = NoArchive
  BY NoRow DEF VbRow
<1> HIDE DEF a
<1>2. LET row == [a EXCEPT !.s3 = s3]
      IN  row \in VbRow /\ row.status = "deleted" /\ row.op = "backup" /\ row.file = NoArchive /\ (row.s3 <=> s3)
  BY <1>1 DEF VbRow
<1> QED
  BY <1>2 DEF a

\* A new row is one that nothing was written to.
LEMMA Inserts ==
  ASSUME VolumeTyped, NEW row \in VbRow, Inserted(row)
  PROVE  \E n \in VbIds : /\ vb[n].status = "absent" /\ vb' = [vb EXCEPT ![n] = row]
                          /\ vqueue' = Append(vqueue, [id |-> n, run |-> 0]) /\ vqueue' \in Seq(VbWaiting)
<1>1. Unused \in SUBSET Nat /\ Unused # {}
  BY VbAssumption DEF Inserted, Unused, VbIds
<1>2. \E n \in Unused : \A k \in Unused : n <= k
  BY <1>1, LeastOf
<1>3. PICK n \in Unused : n = NextRow
  BY <1>2 DEF NextRow
<1>4. n \in VbIds /\ vb[n].status = "absent" /\ vb' = [vb EXCEPT ![n] = row] /\ vqueue' = Append(vqueue, [id |-> n, run |-> 0])
  BY <1>3 DEF Inserted, Unused
<1>5. [id |-> n, run |-> 0] \in VbWaiting
  BY <1>4 DEF VbWaiting
<1>6. vqueue' \in Seq(VbWaiting)
  BY <1>4, <1>5 DEF VolumeTyped
<1> QED
  BY <1>4, <1>6

LEMMA InsertsBackup ==
  ASSUME VolumeTyped, InsertBackup
  PROVE  \/ UNCHANGED <<vb, vqueue>>
         \/ \E n \in VbIds, row \in VbRow :
              /\ vb[n].status = "absent" /\ vb' = [vb EXCEPT ![n] = row]
              /\ vqueue' = Append(vqueue, [id |-> n, run |-> 0]) /\ vqueue' \in Seq(VbWaiting)
              /\ row.status = "queued" /\ row.op = "backup" /\ row.file = NoArchive
<1> SUFFICES ASSUME Unused # {}
             PROVE  \E n \in VbIds, row \in VbRow :
                      /\ vb[n].status = "absent" /\ vb' = [vb EXCEPT ![n] = row]
                      /\ vqueue' = Append(vqueue, [id |-> n, run |-> 0]) /\ vqueue' \in Seq(VbWaiting)
                      /\ row.status = "queued" /\ row.op = "backup" /\ row.file = NoArchive
  BY DEF InsertBackup
<1> DEFINE row == [NoVbRow EXCEPT !.status = "queued", !.s3 = vask = "s3"]
<1>1. Inserted(row)
  BY DEF InsertBackup
<1>3. row \in VbRow /\ row.status = "queued" /\ row.op = "backup" /\ row.file = NoArchive
  <2> DEFINE a == [NoVbRow EXCEPT !.status = "queued"]
             s3 == vask = "s3"
  <2>1. a \in VbRow /\ a.status = "queued" /\ a.op = "backup" /\ a.file = NoArchive /\ s3 \in BOOLEAN
    BY NoRow DEF VbRow
  <2> HIDE DEF a, s3
  <2>2. LET b == [a EXCEPT !.s3 = s3] IN b \in VbRow /\ b.status = "queued" /\ b.op = "backup" /\ b.file = NoArchive
    BY <2>1 DEF VbRow
  <2> QED
    BY <2>2 DEF a, s3
<1> HIDE DEF row
<1> QED
  BY <1>1, <1>3, Inserts

LEMMA InsertsRestore ==
  ASSUME VolumeTyped
  PROVE  \A i \in VbIds : RequestVolumeRestore(i) =>
           \E n \in VbIds, row \in VbRow :
             /\ vb[n].status = "absent" /\ vb' = [vb EXCEPT ![n] = row]
             /\ vqueue' = Append(vqueue, [id |-> n, run |-> 0]) /\ vqueue' \in Seq(VbWaiting)
             /\ row.status = "queued" /\ row.op = "restore" /\ row.file = NoArchive /\ row.src = i
<1> SUFFICES ASSUME NEW i \in VbIds, RequestVolumeRestore(i)
             PROVE  \E n \in VbIds, row \in VbRow :
                      /\ vb[n].status = "absent" /\ vb' = [vb EXCEPT ![n] = row]
                      /\ vqueue' = Append(vqueue, [id |-> n, run |-> 0]) /\ vqueue' \in Seq(VbWaiting)
                      /\ row.status = "queued" /\ row.op = "restore" /\ row.file = NoArchive /\ row.src = i
  OBVIOUS
<1> DEFINE row == [NoVbRow EXCEPT !.status = "queued", !.op = "restore", !.src = i]
<1>1. Inserted(row)
  BY DEF RequestVolumeRestore
<1>3. row \in VbRow /\ row.status = "queued" /\ row.op = "restore" /\ row.file = NoArchive /\ row.src = i
  <2> DEFINE a == [NoVbRow EXCEPT !.status = "queued"]
             b == [a EXCEPT !.op = "restore"]
  <2>1. a \in VbRow /\ a.status = "queued" /\ a.file = NoArchive /\ i \in 0..VbRows
    BY NoRow, VbAssumption DEF VbRow, VbIds
  <2> HIDE DEF a
  <2>2. b \in VbRow /\ b.status = "queued" /\ b.op = "restore" /\ b.file = NoArchive
    BY <2>1 DEF VbRow
  <2> HIDE DEF b
  <2>3. LET c == [b EXCEPT !.src = i] IN c \in VbRow /\ c.status = "queued" /\ c.op = "restore" /\ c.file = NoArchive /\ c.src = i
    BY <2>1, <2>2 DEF VbRow
  <2> QED
    BY <2>3 DEF a, b
<1> HIDE DEF row
<1> QED
  BY <1>1, <1>3, Inserts

\* A waiting job is taken up: the first, marked running unless its row is gone.
LEMMA TakesJob ==
  ASSUME VolumeTyped, TakeVolumeJob
  PROVE  \E i \in VbIds, run \in 0..1 :
           /\ vjob.pc = "rest" /\ 1 \in DOMAIN vqueue /\ vqueue[1].id = i /\ vqueue[1].run = run
           /\ vqueue' = Tail(vqueue) /\ vqueue' \in Seq(VbWaiting)
           /\ DOMAIN vqueue' = 1..(Len(vqueue) - 1) /\ \A j \in DOMAIN vqueue' : j + 1 \in DOMAIN vqueue /\ vqueue'[j] = vqueue[j + 1]
           /\ \/ ~ HasVb(i) /\ UNCHANGED <<vb, vjob>>
              \/ /\ HasVb(i)
                 /\ \E row \in VbRow : /\ vb' = [vb EXCEPT ![i] = row] /\ row.status = "running" /\ row.op = vb[i].op
                                       /\ row.src = vb[i].src /\ row.file = vb[i].file /\ (row.s3 <=> vb[i].s3)
                 /\ vjob' \in VbJobs /\ vjob'.id = i /\ vjob'.run = run /\ vjob'.pc = FirstVbStep(vb[i]) /\ vjob'.old = {}
                 /\ vjob'.from = IF vb[i].op = "restore" /\ vb[i].src # 0 THEN vb[vb[i].src].file ELSE NoArchive
<1>t. vqueue \in Seq(VbWaiting) /\ vb \in [VbIds -> VbRow]
  BY DEF VolumeTyped
<1>1. vqueue # <<>> /\ vjob.pc = "rest" /\ vqueue' = Tail(vqueue)
  BY DEF TakeVolumeJob
<1>2. 1 \in DOMAIN vqueue /\ Head(vqueue) = vqueue[1] /\ vqueue[1] \in VbWaiting
  BY <1>t, <1>1
<1>3. PICK i \in VbIds, run \in 0..1 : vqueue[1].id = i /\ vqueue[1].run = run
  BY <1>2 DEF VbWaiting
<1>4. /\ vqueue' \in Seq(VbWaiting) /\ DOMAIN vqueue' = 1..(Len(vqueue) - 1)
      /\ \A j \in DOMAIN vqueue' : j + 1 \in DOMAIN vqueue /\ vqueue'[j] = vqueue[j + 1]
  BY <1>t, <1>1, HeadTailProperties
<1>5. CASE ~ HasVb(i)
  <2>1. UNCHANGED <<vb, vjob>>
    BY <1>2, <1>3, <1>5 DEF TakeVolumeJob
  <2> QED
    BY <1>1, <1>2, <1>3, <1>4, <1>5, <2>1
<1>6. CASE HasVb(i)
  <2> DEFINE f == IF vb[i].op = "restore" /\ vb[i].src # 0 THEN vb[vb[i].src].file ELSE NoArchive
  <2>1. /\ vb' = SetVb(i, "running")
        /\ vjob' = [NoVbJob EXCEPT !.id = i, !.run = run, !.pc = FirstVbStep(vb[i]), !.from = f]
    BY <1>2, <1>3, <1>6 DEF TakeVolumeJob
  <2>2. vjob' = [id |-> i, run |-> run, pc |-> FirstVbStep(vb[i]), from |-> f, old |-> {}, ok |-> TRUE]
    BY <2>1 DEF NoVbJob
  <2>3. f \in Archive \cup {NoArchive}
    <3>1. vb[i].src # 0 => vb[i].src \in VbIds
      BY <1>t DEF VbRow, VbIds
    <3> QED
      BY <1>t, <3>1 DEF VbRow
  <2>4. FirstVbStep(vb[i]) \in {"archive", "fail", "download", "stop"}
    BY DEF FirstVbStep
  <2> HIDE DEF f
  <2>5. vjob' \in VbJobs /\ vjob'.id = i /\ vjob'.run = run /\ vjob'.pc = FirstVbStep(vb[i]) /\ vjob'.old = {} /\ vjob'.from = f
    <3>1. i \in 0..VbRows
      BY VbAssumption DEF VbIds
    <3> QED
      BY <2>2, <2>3, <2>4, <3>1 DEF VbJobs
  <2>6. \E row \in VbRow : /\ vb' = [vb EXCEPT ![i] = row] /\ row.status = "running" /\ row.op = vb[i].op
                           /\ row.src = vb[i].src /\ row.file = vb[i].file /\ (row.s3 <=> vb[i].s3)
    BY <1>6, <2>1, SetsStatus DEF HasVb
  <2>7. f = IF vb[i].op = "restore" /\ vb[i].src # 0 THEN vb[vb[i].src].file ELSE NoArchive
    BY DEF f
  <2> QED
    BY <1>1, <1>2, <1>3, <1>4, <1>6, <2>5, <2>6, <2>7
<1> QED
  BY <1>5, <1>6

\* The job's row is recorded, or not if it is gone; the job goes on to the retention.
LEMMA Records ==
  ASSUME VolumeTyped, RecordArchive
  PROVE  /\ vjob.id \in VbIds /\ vjob.pc = "record"
         /\ vjob' \in VbJobs /\ vjob'.pc = "retain" /\ vjob'.id = vjob.id /\ vjob'.old = Excess(vb')
         /\ \/ ~ HasVb(vjob.id) /\ UNCHANGED vb
            \/ /\ HasVb(vjob.id)
               /\ \E row \in VbRow : /\ vb' = [vb EXCEPT ![vjob.id] = row] /\ row.status = "success" /\ row.op = vb[vjob.id].op
                                     /\ row.src = vb[vjob.id].src /\ row.file = <<vjob.id, vjob.run>> /\ (row.s3 <=> vb[vjob.id].s3)
<1>t. vb \in [VbIds -> VbRow] /\ vjob \in VbJobs /\ vjob.pc = "record"
  BY DEF VolumeTyped, RecordArchive
<1>1. vjob.id \in VbIds /\ vjob.run \in 0..1
  BY <1>t DEF VolumeTyped, VbJobs
<1>2. vjob' = [vjob EXCEPT !.pc = "retain", !.old = Excess(vb')]
  BY DEF RecordArchive
<1>3. Excess(vb') \in SUBSET VbIds
  BY DEF Excess
<1>4. vjob' \in VbJobs /\ vjob'.pc = "retain" /\ vjob'.id = vjob.id /\ vjob'.old = Excess(vb')
  <2> DEFINE x == Excess(vb')
  <2>1. x \in SUBSET VbIds /\ vjob' = [vjob EXCEPT !.pc = "retain", !.old = x]
    BY <1>2, <1>3
  <2> HIDE DEF x
  <2>2. vjob' \in VbJobs /\ vjob'.pc = "retain" /\ vjob'.id = vjob.id /\ vjob'.old = x
    BY <1>t, <2>1 DEF VbJobs
  <2> QED
    BY <2>2 DEF x
<1>5. CASE HasVb(vjob.id)
  <2> DEFINE row == [[vb[vjob.id] EXCEPT !.status = "success"] EXCEPT !.file = <<vjob.id, vjob.run>>]
  <2>1. vb' = [vb EXCEPT ![vjob.id].status = "success", ![vjob.id].file = <<vjob.id, vjob.run>>]
    BY <1>5 DEF RecordArchive
  <2>2. vb' = [vb EXCEPT ![vjob.id] = row]
    BY <1>t, <1>1, <2>1
  <2>3. vb[vjob.id] \in VbRow /\ <<vjob.id, vjob.run>> \in Archive
    BY <1>t, <1>1 DEF Archive
  <2>4. /\ row \in VbRow /\ row.status = "success" /\ row.op = vb[vjob.id].op
        /\ row.src = vb[vjob.id].src /\ row.file = <<vjob.id, vjob.run>> /\ (row.s3 <=> vb[vjob.id].s3)
    BY <2>3 DEF VbRow
  <2> QED
    BY <1>t, <1>1, <1>4, <1>5, <2>2, <2>4
<1>6. CASE ~ HasVb(vjob.id)
  <2>1. UNCHANGED vb
    BY <1>6 DEF RecordArchive
  <2> QED
    BY <1>t, <1>1, <1>4, <1>6, <2>1
<1> QED
  BY <1>5, <1>6

\* A restore is over: a success with the file it restored, a failure, or nothing if its row is gone.
LEMMA Finishes ==
  ASSUME VolumeTyped, EndVolumeRestore \/ VolumeJobFails
  PROVE  /\ vjob.id \in VbIds /\ vjob' = NoVbJob
         /\ \E row \in VbRow : /\ vb' = [vb EXCEPT ![vjob.id] = row] /\ row.op = vb[vjob.id].op /\ row.src = vb[vjob.id].src
                               /\ (row.s3 <=> vb[vjob.id].s3)
                               /\ vb[vjob.id].status = "deleted" => row.status = "deleted" /\ row.file = vb[vjob.id].file
                               /\ vb[vjob.id].status # "deleted" => row.status = IF vjob.pc = "fail" THEN "failed" ELSE "success"
                               /\ vjob.pc = "fail" => row.file = vb[vjob.id].file
<1>t. vb \in [VbIds -> VbRow] /\ vjob \in VbJobs
  BY DEF VolumeTyped
<1>1. vjob.id \in VbIds /\ vjob' = NoVbJob /\ vjob.from \in Archive \cup {NoArchive}
  <2>1. vjob.pc # "rest" /\ vjob' = NoVbJob
    BY DEF EndVolumeRestore, VolumeJobFails
  <2>2. vjob.id \in VbIds
    BY <2>1 DEF VolumeTyped
  <2> QED
    BY <1>t, <2>1, <2>2 DEF VbJobs
<1>2. CASE VolumeJobFails
  <2>1. vb' = SetVb(vjob.id, "failed") /\ vjob.pc = "fail"
    BY <1>2 DEF VolumeJobFails
  <2>2. PICK row \in VbRow : /\ SetVb(vjob.id, "failed") = [vb EXCEPT ![vjob.id] = row]
                             /\ row.op = vb[vjob.id].op /\ row.src = vb[vjob.id].src /\ row.file = vb[vjob.id].file /\ (row.s3 <=> vb[vjob.id].s3)
                             /\ row.status = IF vb[vjob.id].status = "deleted" THEN "deleted" ELSE "failed"
    BY <1>1, SetsStatus
  <2> QED
    BY <1>1, <2>1, <2>2
<1>3. CASE EndVolumeRestore
  <2>1. /\ vb' = [SetVb(vjob.id, "success") EXCEPT ![vjob.id].file = IF HasVb(vjob.id) THEN vjob.from ELSE @]
        /\ vjob.pc = "restored"
    BY <1>3 DEF EndVolumeRestore
  <2>2. PICK row \in VbRow : /\ SetVb(vjob.id, "success") = [vb EXCEPT ![vjob.id] = row]
                             /\ row.op = vb[vjob.id].op /\ row.src = vb[vjob.id].src /\ row.file = vb[vjob.id].file /\ (row.s3 <=> vb[vjob.id].s3)
                             /\ row.status = IF vb[vjob.id].status = "deleted" THEN "deleted" ELSE "success"
    BY <1>1, SetsStatus
  <2> DEFINE f == IF HasVb(vjob.id) THEN vjob.from ELSE row.file
             last_row == [row EXCEPT !.file = f]
  <2>3. vb' = [vb EXCEPT ![vjob.id] = last_row]
    BY <1>t, <1>1, <2>1, <2>2
  <2>4. f \in Archive \cup {NoArchive}
    BY <1>1, <2>2 DEF VbRow
  <2>5. vb[vjob.id].status = "deleted" => f = vb[vjob.id].file
    BY <2>2 DEF HasVb
  <2> HIDE DEF f
  <2>6. /\ last_row \in VbRow /\ last_row.op = row.op /\ last_row.src = row.src /\ (last_row.s3 <=> row.s3)
        /\ last_row.status = row.status /\ last_row.file = f
    BY <2>2, <2>4 DEF VbRow
  <2> QED
    BY <1>1, <2>1, <2>2, <2>3, <2>5, <2>6
<1> QED
  BY <1>2, <1>3

LEMMA RemovesFile ==
  ASSUME VolumeTyped, NEW row \in VbRow, removeVolumeBackupFile(row)
  PROVE  /\ inS3' = {} /\ DOMAIN archives' \subseteq DOMAIN archives /\ \A a \in DOMAIN archives' : archives'[a] = archives[a]
         /\ \A a \in DOMAIN archives : a \in DOMAIN archives' \/ (row.op = "backup" /\ row.file = a)
         /\ row.op = "backup" /\ row.file # NoArchive /\ ~ row.s3 => row.file \notin DOMAIN archives'
         /\ row.s3 => UNCHANGED archives
<1>1. inS3 = {}
  BY DEF VolumeTyped
<1>2. CASE UNCHANGED <<archives, inS3>> /\ (row.op # "backup" \/ row.file = NoArchive)
  BY <1>1, <1>2
<1>3. CASE row.op = "backup" /\ row.file # NoArchive /\ row.s3 /\ inS3' = inS3 \ {row.file} /\ UNCHANGED archives
  BY <1>1, <1>3
<1>4. CASE row.op = "backup" /\ row.file # NoArchive /\ ~ row.s3 /\ archives' = Without(row.file) /\ UNCHANGED inS3
  <2>1. DOMAIN archives' = DOMAIN archives \ {row.file} /\ \A a \in DOMAIN archives' : archives'[a] = archives[a]
    BY <1>4 DEF Without
  <2> QED
    BY <1>1, <1>4, <2>1
<1>5. row.s3 \in BOOLEAN
  BY DEF VbRow
<1>6. \/ UNCHANGED <<archives, inS3>> /\ (row.op # "backup" \/ row.file = NoArchive)
      \/ row.op = "backup" /\ row.file # NoArchive /\ row.s3 /\ inS3' = inS3 \ {row.file} /\ UNCHANGED archives
      \/ row.op = "backup" /\ row.file # NoArchive /\ ~ row.s3 /\ archives' = Without(row.file) /\ UNCHANGED inS3
  BY <1>5 DEF removeVolumeBackupFile
<1> QED
  BY <1>2, <1>3, <1>4, <1>6

LEMMA JobGoes ==
  ASSUME VolumeTyped, NEW pc \in {"record", "retain", "download", "stop", "replace", "start", "restored", "fail"}, VolumeGoes(pc)
  PROVE  vjob' \in VbJobs /\ vjob'.pc = pc /\ vjob'.id = vjob.id /\ vjob'.run = vjob.run /\ vjob'.from = vjob.from /\ vjob'.old = vjob.old
<1>1. vjob \in VbJobs /\ vjob' = [vjob EXCEPT !.pc = pc]
  BY DEF VolumeTyped, VolumeGoes
<1> QED
  BY <1>1 DEF VbJobs

\* An archive is written: all of it, or part of it when the command fails or its connection is lost.
LEMMA Archives ==
  ASSUME VolumeTyped, NEW lost \in BOOLEAN, WriteArchive \/ ArchiveStops(lost)
  PROVE  /\ vjob.pc = "archive" /\ vjob.id \in VbIds /\ <<vjob.id, vjob.run>> \in Archive
         /\ DOMAIN archives' = DOMAIN archives \cup {<<vjob.id, vjob.run>>}
         /\ \A a \in DOMAIN archives' : archives'[a] \in BOOLEAN
         /\ \A a \in DOMAIN archives : a # <<vjob.id, vjob.run>> => archives'[a] = archives[a]
         /\ vjob' \in VbJobs /\ vjob'.id = vjob.id /\ vjob'.run = vjob.run /\ vjob'.pc \in {"record", "fail"}
         /\ WriteArchive => vjob'.pc = "record" /\ UNCHANGED <<vluck, vused>> /\ (archives'[<<vjob.id, vjob.run>>] <=> vdata = "whole")
         /\ ~ WriteArchive => /\ VbFault(IF lost THEN "lost" ELSE "fault")
                              /\ vjob'.pc = IF lost THEN "record" ELSE "fail"
         /\ UNCHANGED <<vb, inS3, vdata, box, vqueue, vask, vdrop>>
<1>1. vjob.pc = "archive" /\ vjob.id \in VbIds /\ vjob.run \in 0..1
  BY DEF WriteArchive, ArchiveStops, VolumeTyped, VbJobs
<1>2. <<vjob.id, vjob.run>> \in Archive
  BY <1>1 DEF Archive
<1>3. \A a \in DOMAIN archives : archives[a] \in BOOLEAN
  BY DEF VolumeTyped
<1>4. CASE WriteArchive
  <2>1. VolumeGoes("record") /\ UNCHANGED <<vb, inS3, vdata, box, vqueue, vask, vdrop, vluck, vused>>
    BY <1>4 DEF WriteArchive
  <2>2. vjob' \in VbJobs /\ vjob'.id = vjob.id /\ vjob'.run = vjob.run /\ vjob'.pc = "record"
    BY <2>1, JobGoes
  <2>3. DOMAIN archives' = DOMAIN archives \cup {<<vjob.id, vjob.run>>}
    BY <1>4 DEF WriteArchive
  <2>4. \A a \in DOMAIN archives' : archives'[a] = IF a = <<vjob.id, vjob.run>> THEN vdata = "whole" ELSE archives[a]
    BY <1>4 DEF WriteArchive
  <2>5. archives'[<<vjob.id, vjob.run>>] <=> vdata = "whole"
    BY <2>3, <2>4
  <2>6. \A a \in DOMAIN archives' : archives'[a] \in BOOLEAN
    BY <1>3, <2>3, <2>4
  <2> QED
    BY <1>1, <1>2, <1>4, <2>1, <2>2, <2>3, <2>4, <2>5, <2>6
<1>5. CASE ~ WriteArchive
  <2>1. /\ VolumeGoes(IF lost THEN "record" ELSE "fail") /\ UNCHANGED <<vb, inS3, vdata, box, vqueue, vask, vdrop>>
        /\ VbFault(IF lost THEN "lost" ELSE "fault")
    BY <1>5 DEF ArchiveStops
  <2>2. vjob' \in VbJobs /\ vjob'.id = vjob.id /\ vjob'.run = vjob.run /\ vjob'.pc = IF lost THEN "record" ELSE "fail"
    <3>1. PICK pc \in {"record", "fail"} : pc = IF lost THEN "record" ELSE "fail"
      OBVIOUS
    <3> QED
      BY <2>1, <3>1, JobGoes
  <2>3. DOMAIN archives' = DOMAIN archives \cup {<<vjob.id, vjob.run>>}
    BY <1>5 DEF ArchiveStops
  <2>4. \A a \in DOMAIN archives' : archives'[a] = IF a = <<vjob.id, vjob.run>> THEN FALSE ELSE archives[a]
    BY <1>5 DEF ArchiveStops
  <2>5. \A a \in DOMAIN archives' : archives'[a] \in BOOLEAN
    BY <1>3, <2>3, <2>4
  <2> QED
    BY <1>1, <1>2, <1>5, <2>1, <2>2, <2>3, <2>4, <2>5
<1> QED
  BY <1>4, <1>5

\* The retention deletes one old archive and its row.
LEMMA Retains ==
  ASSUME VolumeTyped, NEW i \in VbIds, ApplyRetention(i)
  PROVE  /\ vjob.pc = "retain" /\ i \in vjob.old
         /\ HasVb(i) => removeVolumeBackupFile(vb[i])
         /\ ~ HasVb(i) => UNCHANGED <<archives, inS3>>
         /\ \E row \in VbRow : /\ vb' = [vb EXCEPT ![i] = row] /\ row.status = "deleted" /\ row.op = "backup" /\ row.file = NoArchive
                               /\ (row.s3 <=> vb[i].s3)
         /\ vjob' \in VbJobs /\ vjob'.pc = "retain" /\ vjob'.id = vjob.id /\ vjob'.old = vjob.old \ {i}
         /\ UNCHANGED <<vdata, box, vqueue, vask, vdrop, vused, vluck>>
<1>1. vjob \in VbJobs /\ vb[i].s3 \in BOOLEAN
  BY DEF VolumeTyped, VbRow
<1>2. vjob' \in VbJobs /\ vjob'.pc = "retain" /\ vjob'.id = vjob.id /\ vjob'.old = vjob.old \ {i}
  <2>1. vjob' = [vjob EXCEPT !.old = vjob.old \ {i}] /\ vjob.pc = "retain"
    BY DEF ApplyRetention
  <2>2. vjob.old \ {i} \in SUBSET VbIds
    BY <1>1 DEF VbJobs
  <2> DEFINE x == vjob.old \ {i}
  <2> HIDE DEF x
  <2>3. vjob' \in VbJobs /\ vjob'.pc = "retain" /\ vjob'.id = vjob.id /\ vjob'.old = x
    BY <1>1, <2>1, <2>2 DEF VbJobs, x
  <2> QED
    BY <2>3 DEF x
<1>3. \E row \in VbRow : /\ vb' = [vb EXCEPT ![i] = row] /\ row.status = "deleted" /\ row.op = "backup" /\ row.file = NoArchive
                         /\ (row.s3 <=> vb[i].s3)
  <2>1. vb' = [vb EXCEPT ![i] = [NoVbRow EXCEPT !.status = "deleted", !.s3 = vb[i].s3]]
    BY DEF ApplyRetention
  <2> QED
    BY <1>1, <2>1, Deletes
<1> QED
  BY <1>2, <1>3 DEF ApplyRetention

\* The deletion a user asked for removes the row.
LEMMA DropsRow ==
  ASSUME VolumeTyped, DropRow
  PROVE  /\ vdrop.id \in VbIds /\ vdrop.pc = "row" /\ vdrop' = [id |-> 0, pc |-> "rest", row |-> NoVbRow]
         /\ \E row \in VbRow : /\ vb' = [vb EXCEPT ![vdrop.id] = row] /\ row.status = "deleted" /\ row.op = "backup" /\ row.file = NoArchive
                               /\ (row.s3 <=> vdrop.row.s3)
         /\ UNCHANGED <<archives, inS3, vdata, box, vqueue, vjob, vask, vused, vluck>>
<1>1. vdrop.pc = "row" /\ vdrop.id \in VbIds /\ vdrop.row.s3 \in BOOLEAN
  BY DEF VolumeTyped, DropRow, VbRow
<1>2. vb' = [vb EXCEPT ![vdrop.id] = [NoVbRow EXCEPT !.status = "deleted", !.s3 = vdrop.row.s3]]
  BY DEF DropRow
<1>3. \E row \in VbRow : /\ vb' = [vb EXCEPT ![vdrop.id] = row] /\ row.status = "deleted" /\ row.op = "backup" /\ row.file = NoArchive
                         /\ (row.s3 <=> vdrop.row.s3)
  BY <1>1, <1>2, Deletes
<1> QED
  BY <1>1, <1>3 DEF DropRow

LEMMA ReplacesData ==
  ASSUME VolumeTyped, NEW lost \in BOOLEAN, ReplaceData \/ ReplaceStops(lost)
  PROVE  /\ vjob.pc = "replace" /\ vjob' \in VbJobs /\ vjob'.pc = "start" /\ vjob'.id = vjob.id /\ vjob'.run = vjob.run
         /\ UNCHANGED <<vb, archives, inS3, box, vqueue, vask, vdrop>>
<1>1. PICK ok \in BOOLEAN : vjob' = [vjob EXCEPT !.pc = "start", !.ok = ok]
  <2> DEFINE whole == vjob.from \in DOMAIN archives /\ archives[vjob.from]
  <2>1. whole \in BOOLEAN
    BY DEF VolumeTyped
  <2>2. ReplaceData => vjob' = [vjob EXCEPT !.pc = "start", !.ok = whole]
    BY DEF ReplaceData
  <2>3. ReplaceStops(lost) => vjob' = [vjob EXCEPT !.pc = "start", !.ok = lost]
    BY DEF ReplaceStops
  <2> HIDE DEF whole
  <2> QED
    BY <2>1, <2>2, <2>3
<1>2. vjob \in VbJobs
  BY DEF VolumeTyped
<1>3. vjob' \in VbJobs /\ vjob'.pc = "start" /\ vjob'.id = vjob.id /\ vjob'.run = vjob.run
  <2> DEFINE a == [vjob EXCEPT !.pc = "start"]
  <2>1. a \in VbJobs /\ a.pc = "start" /\ a.id = vjob.id /\ a.run = vjob.run
    BY <1>2 DEF VbJobs
  <2>2. vjob' = [a EXCEPT !.ok = ok]
    BY <1>1
  <2> HIDE DEF a
  <2> QED
    BY <2>1, <2>2 DEF VbJobs
<1> QED
  BY <1>3 DEF ReplaceData, ReplaceStops

LEMMA VolumeStaysTyped ==
  ASSUME VolumeTyped, VolumeNext
  PROVE  VolumeTyped'
<1>t. /\ vb \in [VbIds -> VbRow] /\ DOMAIN archives \subseteq Archive /\ (\A a \in DOMAIN archives : archives[a] \in BOOLEAN)
      /\ inS3 = {} /\ vqueue \in Seq(VbWaiting) /\ vjob \in VbJobs /\ (vjob.pc # "rest" => vjob.id \in VbIds)
      /\ vdrop \in [id : 0..VbRows, pc : {"rest", "file", "row"}, row : VbRow] /\ (vdrop.pc # "rest" => vdrop.id \in VbIds)
  BY DEF VolumeTyped
<1>a. VbRows \in Nat /\ MaxVbDrops \in Nat /\ MaxVbFaults \in Nat
  BY VbAssumption
<1>r. NoVbJob \in VbJobs /\ NoVbJob.pc = "rest"
  BY <1>a DEF NoVbJob, VbJobs
<1>1. vask' \in {"none", "local", "s3"} /\ vdata' \in {"whole", "lost"} /\ box' \in {"up", "down"}
  BY DEF VolumeTyped, VolumeNext, VolumeRequests, VolumeJobs, BeginBackup, InsertBackup, DropFile, DropRow, RequestVolumeRestore, BeginDrop,
     TakeVolumeJob, WriteArchive, RecordArchive, EndVolumeBackup, DownloadArchive, StopBox, ReplaceData, StartBox, EndVolumeRestore,
     VolumeJobFails, StartLost, VolumeWorkerDies, ApplyRetention, ArchiveStops, ReplaceStops
<1>2. vused' \in [drop : 0..MaxVbDrops, fault : 0..MaxVbFaults] /\ vluck' \subseteq {"fault", "lost", "died", "dropped"}
  <2>t. vused \in [drop : 0..MaxVbDrops, fault : 0..MaxVbFaults] /\ vluck \subseteq {"fault", "lost", "died", "dropped"}
    BY DEF VolumeTyped
  <2>1. ASSUME NEW kind \in {"fault", "lost", "died"}, VbFault(kind)
        PROVE  vused' \in [drop : 0..MaxVbDrops, fault : 0..MaxVbFaults] /\ vluck' \subseteq {"fault", "lost", "died", "dropped"}
    BY <1>a, <2>t, <2>1 DEF VbFault
  <2>2. ASSUME NEW i \in VbIds, BeginDrop(i) PROVE vused' \in [drop : 0..MaxVbDrops, fault : 0..MaxVbFaults] /\ UNCHANGED vluck
    BY <1>a, <2>t, <2>2 DEF BeginDrop
  <2>3. \/ \E i \in VbIds : BeginDrop(i)
        \/ \E kind \in {"fault", "lost", "died"} : VbFault(kind)
        \/ UNCHANGED vused /\ (UNCHANGED vluck \/ vluck' = vluck \cup {"dropped"})
    BY DEF VolumeNext, VolumeRequests, VolumeJobs, BeginBackup, InsertBackup, DropFile, DropRow, RequestVolumeRestore,
       TakeVolumeJob, WriteArchive, RecordArchive, EndVolumeBackup, DownloadArchive, StopBox, ReplaceData, StartBox, EndVolumeRestore,
       VolumeJobFails, StartLost, VolumeWorkerDies, ApplyRetention, ArchiveStops, ReplaceStops
  <2> QED
    BY <2>t, <2>1, <2>2, <2>3
<1>3. ASSUME vb' \in [VbIds -> VbRow], DOMAIN archives' \subseteq Archive, \A a \in DOMAIN archives' : archives'[a] \in BOOLEAN,
             inS3' = {}, vqueue' \in Seq(VbWaiting), vjob' \in VbJobs, vjob'.pc # "rest" => vjob'.id \in VbIds,
             vdrop' \in [id : 0..VbRows, pc : {"rest", "file", "row"}, row : VbRow], vdrop'.pc # "rest" => vdrop'.id \in VbIds
      PROVE  VolumeTyped'
  BY <1>1, <1>2, <1>3 DEF VolumeTyped
<1>4. ASSUME NEW where, BeginBackup(where) PROVE VolumeTyped'
  <2>1. UNCHANGED <<vb, archives, inS3, vqueue, vjob, vdrop>>
    BY <1>4 DEF BeginBackup
  <2> QED
    BY <1>t, <1>3, <2>1
<1>5. CASE InsertBackup
  <2>1. UNCHANGED <<archives, inS3, vjob, vdrop>>
    BY <1>5 DEF InsertBackup
  <2>2. vb' \in [VbIds -> VbRow] /\ vqueue' \in Seq(VbWaiting)
    BY <1>t, <1>5, InsertsBackup, OneRow
  <2> QED
    BY <1>t, <1>3, <2>1, <2>2
<1>6. ASSUME NEW i \in VbIds, RequestVolumeRestore(i) PROVE VolumeTyped'
  <2>1. UNCHANGED <<archives, inS3, vjob, vdrop>>
    BY <1>6 DEF RequestVolumeRestore
  <2>3. \E n \in VbIds, row \in VbRow :
          /\ vb[n].status = "absent" /\ vb' = [vb EXCEPT ![n] = row]
          /\ vqueue' = Append(vqueue, [id |-> n, run |-> 0]) /\ vqueue' \in Seq(VbWaiting)
          /\ row.status = "queued" /\ row.op = "restore" /\ row.file = NoArchive /\ row.src = i
    BY <1>6, InsertsRestore, Zenon
  <2>2. PICK n \in VbIds, row \in VbRow : vb' = [vb EXCEPT ![n] = row] /\ vqueue' \in Seq(VbWaiting)
    BY <2>3
  <2> QED
    BY <1>t, <1>3, <2>1, <2>2
<1>7. ASSUME NEW i \in VbIds, BeginDrop(i) PROVE VolumeTyped'
  <2>1. UNCHANGED <<vb, archives, inS3, vqueue, vjob>> /\ vdrop' = [id |-> i, pc |-> "file", row |-> vb[i]]
    BY <1>7 DEF BeginDrop
  <2>2. i \in 0..VbRows /\ vb[i] \in VbRow
    BY <1>a, <1>t DEF VbIds
  <2> QED
    BY <1>t, <1>3, <2>1, <2>2
<1>8. CASE DropFile
  <2>1. UNCHANGED <<vb, vqueue, vjob>> /\ vdrop' = [vdrop EXCEPT !.pc = "row"] /\ vdrop.pc = "file"
    BY <1>8 DEF DropFile
  <2>2. vdrop.row \in VbRow /\ removeVolumeBackupFile(vdrop.row)
    BY <1>t, <1>8 DEF DropFile
  <2>3. inS3' = {} /\ DOMAIN archives' \subseteq DOMAIN archives /\ \A a \in DOMAIN archives' : archives'[a] = archives[a]
    BY <2>2, RemovesFile
  <2>4. vdrop' \in [id : 0..VbRows, pc : {"rest", "file", "row"}, row : VbRow] /\ vdrop'.id \in VbIds
    BY <1>t, <2>1
  <2> QED
    BY <1>t, <1>3, <2>1, <2>3, <2>4
<1>9. CASE DropRow
  <2>1. UNCHANGED <<archives, inS3, vqueue, vjob>> /\ vdrop' = [id |-> 0, pc |-> "rest", row |-> NoVbRow]
    BY <1>9, DropsRow
  <2>2. vb' \in [VbIds -> VbRow]
    BY <1>9, DropsRow, OneRow
  <2>3. 0 \in 0..VbRows
    BY <1>a
  <2> QED
    BY <1>t, <1>3, <2>1, <2>2, <2>3, NoRow
<1>10. CASE TakeVolumeJob
  <2>1. UNCHANGED <<archives, inS3, vdrop>>
    BY <1>10 DEF TakeVolumeJob
  <2>2. vqueue' \in Seq(VbWaiting) /\ vjob' \in VbJobs /\ (vjob'.pc # "rest" => vjob'.id \in VbIds)
    BY <1>t, <1>10, TakesJob
  <2>3. vb' \in [VbIds -> VbRow]
    BY <1>t, <1>10, TakesJob, OneRow
  <2> QED
    BY <1>t, <1>3, <2>1, <2>2, <2>3
<1>11. ASSUME NEW lost \in BOOLEAN, WriteArchive \/ ArchiveStops(lost) PROVE VolumeTyped'
  <2>1. /\ UNCHANGED <<vb, inS3, vqueue, vdrop>> /\ vjob' \in VbJobs /\ vjob'.id \in VbIds
        /\ DOMAIN archives' \subseteq Archive /\ \A a \in DOMAIN archives' : archives'[a] \in BOOLEAN
    BY <1>t, <1>11, Archives
  <2> QED
    BY <1>t, <1>3, <2>1
<1>12. CASE RecordArchive
  <2>1. UNCHANGED <<archives, inS3, vqueue, vdrop>>
    BY <1>12 DEF RecordArchive
  <2>2. vjob' \in VbJobs /\ vjob'.id \in VbIds
    BY <1>12, Records
  <2>3. vb' \in [VbIds -> VbRow]
    BY <1>t, <1>12, Records, OneRow
  <2> QED
    BY <1>t, <1>3, <2>1, <2>2, <2>3
<1>13. ASSUME NEW i \in VbIds, ApplyRetention(i) PROVE VolumeTyped'
  <2>1. UNCHANGED <<vqueue, vdrop>> /\ vjob' \in VbJobs /\ vjob'.id \in VbIds
    BY <1>t, <1>13, Retains
  <2>2. vb' \in [VbIds -> VbRow]
    BY <1>13, Retains, OneRow
  <2>3. inS3' = {} /\ DOMAIN archives' \subseteq DOMAIN archives /\ \A a \in DOMAIN archives' : archives'[a] = archives[a]
    <3>1. vb[i] \in VbRow
      BY <1>t
    <3> QED
      BY <1>t, <1>13, <3>1, Retains, RemovesFile
  <2> QED
    BY <1>t, <1>3, <2>1, <2>2, <2>3
<1>14. CASE EndVolumeBackup
  <2>1. UNCHANGED <<vb, archives, inS3, vqueue, vdrop>> /\ vjob' = NoVbJob
    BY <1>14 DEF EndVolumeBackup
  <2> QED
    BY <1>t, <1>r, <1>3, <2>1
<1>15. CASE DownloadArchive \/ StopBox \/ StartBox \/ StartLost
  <2>1. UNCHANGED <<vb, archives, inS3, vqueue, vdrop>> /\ vjob.pc # "rest"
    BY <1>15 DEF DownloadArchive, StopBox, StartBox, StartLost
  <2>2. PICK pc \in {"stop", "fail", "replace", "restored"} : VolumeGoes(pc)
    BY <1>15 DEF DownloadArchive, StopBox, StartBox, StartLost
  <2>3. vjob' \in VbJobs /\ vjob'.id = vjob.id
    BY <2>2, JobGoes
  <2> QED
    BY <1>t, <1>3, <2>1, <2>3
<1>16. ASSUME NEW lost \in BOOLEAN, ReplaceData \/ ReplaceStops(lost) PROVE VolumeTyped'
  <2>1. UNCHANGED <<vb, archives, inS3, vqueue, vdrop>> /\ vjob' \in VbJobs /\ vjob'.id = vjob.id /\ vjob.pc # "rest"
    BY <1>16, ReplacesData
  <2> QED
    BY <1>t, <1>3, <2>1
<1>17. CASE EndVolumeRestore \/ VolumeJobFails
  <2>1. UNCHANGED <<archives, inS3, vqueue, vdrop>>
    BY <1>17 DEF EndVolumeRestore, VolumeJobFails
  <2>2. vjob' = NoVbJob
    BY <1>17, Finishes
  <2>3. vb' \in [VbIds -> VbRow]
    BY <1>17, Finishes, OneRow
  <2> QED
    BY <1>t, <1>r, <1>3, <2>1, <2>2, <2>3
<1>18. CASE VolumeWorkerDies
  <2>1. UNCHANGED <<vb, archives, inS3, vdrop>> /\ vjob' = NoVbJob /\ vjob.pc # "rest"
    BY <1>18 DEF VolumeWorkerDies
  <2>2. [id |-> vjob.id, run |-> 1] \in VbWaiting
    BY <1>t, <2>1 DEF VbWaiting
  <2>3. vqueue' \in Seq(VbWaiting)
    <3>1. <<[id |-> vjob.id, run |-> 1]>> \o vqueue \in Seq(VbWaiting)
      BY <1>t, <2>2
    <3> QED
      BY <1>t, <1>18, <3>1 DEF VolumeWorkerDies
  <2> QED
    BY <1>t, <1>r, <1>3, <2>1, <2>3
<1> QED
  BY <1>4, <1>5, <1>6, <1>7, <1>8, <1>9, <1>10, <1>11, <1>12, <1>13, <1>14, <1>15, <1>16, <1>17, <1>18
     DEF VolumeNext, VolumeRequests, VolumeJobs

\* How the rows change: one is created, or one that was created is written or deleted.
RowsMove ==
    \/ UNCHANGED vb
    \/ \E n \in VbIds, row \in VbRow :
         /\ vb[n].status = "absent" /\ vb' = [vb EXCEPT ![n] = row]
         /\ row.status = "queued" /\ row.file = NoArchive
         /\ row.op = "restore" => row.src \in VbIds /\ BackedUp(row.src)
    \/ \E i \in VbIds, row \in VbRow :
         /\ vb[i].status # "absent" /\ vb' = [vb EXCEPT ![i] = row] /\ row.status # "absent"
         /\ row.op = "backup" \/ (row.op = vb[i].op /\ row.src = vb[i].src)
         /\ row.op = "backup" => row.file = NoArchive \/ row.file[1] = i \/ (row.file = vb[i].file /\ vb[i].op = "backup")
         /\ row.status # "deleted" => HasVb(i) /\ row.op = vb[i].op

LEMMA RowsMoveOn ==
  ASSUME VolumeTyped, WorkIsTrue, VolumeNext
  PROVE  RowsMove
<1>1. CASE UNCHANGED vb
  BY <1>1 DEF RowsMove
<1>2. CASE InsertBackup
  BY <1>1, <1>2, InsertsBackup DEF RowsMove
<1>3. ASSUME NEW i \in VbIds, RequestVolumeRestore(i) PROVE RowsMove
  <2>3. \E n \in VbIds, row \in VbRow :
          /\ vb[n].status = "absent" /\ vb' = [vb EXCEPT ![n] = row]
          /\ vqueue' = Append(vqueue, [id |-> n, run |-> 0]) /\ vqueue' \in Seq(VbWaiting)
          /\ row.status = "queued" /\ row.op = "restore" /\ row.file = NoArchive /\ row.src = i
    BY <1>3, InsertsRestore, Zenon
  <2>1. PICK n \in VbIds, row \in VbRow :
          /\ vb[n].status = "absent" /\ vb' = [vb EXCEPT ![n] = row]
          /\ row.status = "queued" /\ row.op = "restore" /\ row.file = NoArchive /\ row.src = i
    BY <2>3
  <2>2. BackedUp(i)
    BY <1>3 DEF RequestVolumeRestore, BackedUp
  <2> QED
    BY <2>1, <2>2 DEF RowsMove
<1>4. CASE DropRow
  <2>1. PICK row \in VbRow : vb' = [vb EXCEPT ![vdrop.id] = row] /\ row.status = "deleted" /\ row.op = "backup" /\ row.file = NoArchive
    BY <1>4, DropsRow
  <2>2. vdrop.id \in VbIds /\ vdrop.pc = "row" /\ vb[vdrop.id].status # "absent"
    BY <1>4, DropsRow DEF WorkIsTrue
  <2>3. PICK i \in VbIds : i = vdrop.id
    BY <2>2
  <2> QED
    BY <2>1, <2>2, <2>3 DEF RowsMove
<1>5. CASE TakeVolumeJob
  <2>1. PICK i \in VbIds : \/ UNCHANGED vb
                           \/ /\ HasVb(i)
                              /\ \E row \in VbRow : /\ vb' = [vb EXCEPT ![i] = row] /\ row.status = "running" /\ row.op = vb[i].op
                                                    /\ row.src = vb[i].src /\ row.file = vb[i].file
    BY <1>5, TakesJob
  <2> QED
    BY <1>1, <2>1 DEF RowsMove, HasVb
<1>6. CASE RecordArchive
  <2>1. PICK i \in VbIds : i = vjob.id
    BY <1>6, Records
  <2>2. \/ UNCHANGED vb
        \/ /\ HasVb(i)
           /\ \E row \in VbRow : /\ vb' = [vb EXCEPT ![i] = row] /\ row.status = "success" /\ row.op = vb[i].op
                                 /\ row.src = vb[i].src /\ row.file = <<i, vjob.run>>
    BY <1>6, <2>1, Records
  <2> QED
    BY <1>1, <2>2 DEF RowsMove, HasVb
<1>7. ASSUME NEW i \in VbIds, ApplyRetention(i) PROVE RowsMove
  <2>1. PICK row \in VbRow : vb' = [vb EXCEPT ![i] = row] /\ row.status = "deleted" /\ row.op = "backup" /\ row.file = NoArchive
    BY <1>7, Retains
  <2>2. vb[i].status # "absent"
    BY <1>7, Retains DEF WorkIsTrue
  <2> QED
    BY <2>1, <2>2 DEF RowsMove
<1>8. CASE EndVolumeRestore \/ VolumeJobFails
  <2>1. PICK i \in VbIds : i = vjob.id
    BY <1>8, Finishes
  <2>2. PICK row \in VbRow : /\ vb' = [vb EXCEPT ![i] = row] /\ row.op = vb[i].op /\ row.src = vb[i].src
                             /\ vb[i].status = "deleted" => row.status = "deleted" /\ row.file = vb[i].file
                             /\ vb[i].status # "deleted" => row.status \in {"failed", "success"}
                             /\ vjob.pc = "fail" => row.file = vb[i].file
    BY <1>8, <2>1, Finishes
  <2>3. vb[i].status # "absent" /\ (HasVb(i) /\ vjob.pc # "fail" => vb[i].op = "restore")
    BY <1>8, <2>1 DEF WorkIsTrue, EndVolumeRestore, VolumeJobFails
  <2>4. row.op = "backup" => row.file = vb[i].file
    BY <2>2, <2>3 DEF HasVb
  <2> QED
    BY <2>2, <2>3, <2>4 DEF RowsMove, HasVb
<1> QED
  BY <1>1, <1>2, <1>3, <1>4, <1>5, <1>6, <1>7, <1>8
     DEF VolumeNext, VolumeRequests, VolumeJobs, BeginBackup, BeginDrop, DropFile, WriteArchive, EndVolumeBackup, DownloadArchive,
         StopBox, ReplaceData, StartBox, StartLost, VolumeWorkerDies, ArchiveStops, ReplaceStops

LEMMA RowsStayTrue ==
  ASSUME VolumeTyped, RowsAreTrue, RowsMove
  PROVE  /\ RowsAreTrue'
         /\ \A k \in VbIds : vb[k].status # "absent" => /\ vb'[k].status # "absent"
                                                        /\ HasVb(k)' => HasVb(k) /\ vb'[k].op = vb[k].op
<1>t. vb \in [VbIds -> VbRow]
  BY DEF VolumeTyped
<1>1. CASE UNCHANGED vb
  BY <1>1 DEF RowsAreTrue, HasVb
<1>2. ASSUME NEW n \in VbIds, NEW row \in VbRow, vb[n].status = "absent", vb' = [vb EXCEPT ![n] = row],
             row.status = "queued", row.file = NoArchive, row.op = "restore" => row.src \in VbIds /\ BackedUp(row.src)
      PROVE  /\ RowsAreTrue'
             /\ \A k \in VbIds : vb[k].status # "absent" => /\ vb'[k].status # "absent"
                                                            /\ HasVb(k)' => HasVb(k) /\ vb'[k].op = vb[k].op
  <2>1. vb'[n] = row /\ \A k \in VbIds : k # n => vb'[k] = vb[k]
    BY <1>2, OneRow
  <2>2. \A k \in VbIds : vb[k].status # "absent" => k # n
    BY <1>2
  <2>3. ASSUME NEW k \in VbIds
        PROVE  /\ vb'[k].status = "absent" => vb'[k] = NoVbRow
               /\ vb'[k].op = "backup" /\ vb'[k].file # NoArchive => vb'[k].file[1] = k
               /\ vb'[k].op = "restore" => /\ vb'[k].src \in VbIds
                                           /\ vb'[vb'[k].src].op = "backup" /\ vb'[vb'[k].src].status # "absent"
    <3>1. CASE k = n
      <4>1. row.op = "restore" => row.src \in VbIds /\ row.src # n /\ vb[row.src].op = "backup" /\ vb[row.src].status # "absent"
        BY <1>2 DEF BackedUp
      <4>2. row.op = "restore" => vb'[row.src] = vb[row.src]
        BY <2>1, <4>1
      <4> QED
        BY <1>2, <2>1, <3>1, <4>1, <4>2
    <3>2. CASE k # n
      <4>1. vb[k].op = "restore" => vb[k].src \in VbIds /\ vb[k].src # n
        BY <2>2 DEF RowsAreTrue
      <4> QED
        BY <2>1, <3>2, <4>1 DEF RowsAreTrue
    <3> QED
      BY <3>1, <3>2
  <2> QED
    BY <2>1, <2>2, <2>3 DEF RowsAreTrue, HasVb
<1>3. ASSUME NEW i \in VbIds, NEW row \in VbRow, vb[i].status # "absent", vb' = [vb EXCEPT ![i] = row], row.status # "absent",
             row.op = "backup" \/ (row.op = vb[i].op /\ row.src = vb[i].src),
             row.op = "backup" => row.file = NoArchive \/ row.file[1] = i \/ (row.file = vb[i].file /\ vb[i].op = "backup"),
             row.status # "deleted" => HasVb(i) /\ row.op = vb[i].op
      PROVE  /\ RowsAreTrue'
             /\ \A k \in VbIds : vb[k].status # "absent" => /\ vb'[k].status # "absent"
                                                            /\ HasVb(k)' => HasVb(k) /\ vb'[k].op = vb[k].op
  <2>1. vb'[i] = row /\ \A k \in VbIds : k # i => vb'[k] = vb[k]
    BY <1>3, OneRow
  <2>2. \A k \in VbIds : vb[k].op = "backup" /\ vb[k].status # "absent" => vb'[k].op = "backup" /\ vb'[k].status # "absent"
    BY <1>3, <2>1
  <2>3. ASSUME NEW k \in VbIds
        PROVE  /\ vb'[k].status = "absent" => vb'[k] = NoVbRow
               /\ vb'[k].op = "backup" /\ vb'[k].file # NoArchive => vb'[k].file[1] = k
               /\ vb'[k].op = "restore" => /\ vb'[k].src \in VbIds
                                           /\ vb'[vb'[k].src].op = "backup" /\ vb'[vb'[k].src].status # "absent"
    <3>1. CASE k = i
      <4>1. row.op = "restore" => vb[i].op = "restore" /\ row.src = vb[i].src
        BY <1>3
      <4>2. row.op = "restore" => row.src \in VbIds /\ vb[row.src].op = "backup" /\ vb[row.src].status # "absent"
        BY <4>1 DEF RowsAreTrue
      <4>3. row.op = "backup" /\ row.file # NoArchive => row.file[1] = i
        BY <1>3 DEF RowsAreTrue
      <4> QED
        BY <1>3, <2>1, <2>2, <3>1, <4>2, <4>3
    <3>2. CASE k # i
      BY <2>1, <2>2, <3>2 DEF RowsAreTrue
    <3> QED
      BY <3>1, <3>2
  <2>4. ASSUME NEW k \in VbIds, vb[k].status # "absent"
        PROVE  vb'[k].status # "absent" /\ (HasVb(k)' => HasVb(k) /\ vb'[k].op = vb[k].op)
    BY <1>3, <2>1, <2>4 DEF HasVb
  <2> QED
    BY <2>3, <2>4 DEF RowsAreTrue
<1> QED
  BY <1>1, <1>2, <1>3 DEF RowsMove

LEMMA WorkStaysTrue ==
  ASSUME VolumeTyped, RowsAreTrue, WorkIsTrue, VolumeNext
  PROVE  WorkIsTrue'
<1>t. /\ vb \in [VbIds -> VbRow] /\ vqueue \in Seq(VbWaiting) /\ vjob \in VbJobs /\ (vjob.pc # "rest" => vjob.id \in VbIds)
      /\ (vdrop.pc # "rest" => vdrop.id \in VbIds) /\ \A j \in DOMAIN vqueue : vqueue[j].id \in VbIds
  <2>1. /\ vb \in [VbIds -> VbRow] /\ vqueue \in Seq(VbWaiting) /\ vjob \in VbJobs /\ (vjob.pc # "rest" => vjob.id \in VbIds)
        /\ (vdrop.pc # "rest" => vdrop.id \in VbIds)
    BY DEF VolumeTyped
  <2>2. \A j \in DOMAIN vqueue : vqueue[j] \in VbWaiting
    BY <2>1
  <2>3. \A j \in DOMAIN vqueue : vqueue[j].id \in VbIds
    BY <2>2 DEF VbWaiting
  <2> QED
    BY <2>1, <2>3
<1>m. \A k \in VbIds : vb[k].status # "absent" => vb'[k].status # "absent" /\ (HasVb(k)' => HasVb(k) /\ vb'[k].op = vb[k].op)
  BY RowsMoveOn, RowsStayTrue
\* what is not touched stays true
<1>1. UNCHANGED vqueue => \A j \in DOMAIN vqueue' : vb'[vqueue'[j].id].status # "absent"
  BY <1>t, <1>m DEF WorkIsTrue
<1>2. UNCHANGED vdrop => (vdrop'.pc # "rest" => /\ vb'[vdrop'.id].status # "absent"
                                                /\ vdrop'.row.op = "backup" /\ vdrop'.row.file # NoArchive => vdrop'.row.file[1] = vdrop'.id)
  BY <1>t, <1>m DEF WorkIsTrue
<1>3. ASSUME vjob'.pc # "rest" => /\ vjob.pc # "rest" /\ vjob'.id = vjob.id
                                  /\ vjob'.pc \in {"archive", "record", "retain"} => vjob.pc \in {"archive", "record", "retain"}
                                  /\ vjob'.pc \in {"download", "stop", "replace", "start", "restored"}
                                       => vjob.pc \in {"download", "stop", "replace", "start", "restored"}
      PROVE  /\ vjob'.pc # "rest" => vb'[vjob'.id].status # "absent"
             /\ vjob'.pc \in {"archive", "record", "retain"} /\ HasVb(vjob.id)' => vb'[vjob'.id].op = "backup"
             /\ vjob'.pc \in {"download", "stop", "replace", "start", "restored"} /\ HasVb(vjob.id)' => vb'[vjob'.id].op = "restore"
  <2>1. CASE vjob'.pc = "rest"
    BY <2>1
  <2>2. CASE vjob'.pc # "rest"
    <3>1. PICK i \in VbIds : i = vjob.id /\ i = vjob'.id
      BY <1>t, <1>3, <2>2
    <3>2. HasVb(vjob.id)' <=> HasVb(i)'
      BY <3>1 DEF HasVb
    <3>3. vb[i].status # "absent"
      BY <1>3, <2>2, <3>1 DEF WorkIsTrue
    <3>4. HasVb(i)' => HasVb(vjob.id) /\ vb'[i].op = vb[i].op
      BY <1>m, <3>1, <3>3
    <3> QED
      BY <1>3, <1>m, <2>2, <3>1, <3>2, <3>3, <3>4 DEF WorkIsTrue
  <2> QED
    BY <2>1, <2>2
<1>4. ASSUME UNCHANGED vqueue \/ \A j \in DOMAIN vqueue' : vb'[vqueue'[j].id].status # "absent",
             UNCHANGED vdrop,
             vjob'.pc = "retain" => vjob.pc = "retain" /\ vjob'.old \subseteq vjob.old,
             vjob'.pc # "rest" => /\ vjob.pc # "rest" /\ vjob'.id = vjob.id
                                  /\ vjob'.pc \in {"archive", "record", "retain"} => vjob.pc \in {"archive", "record", "retain"}
                                  /\ vjob'.pc \in {"download", "stop", "replace", "start", "restored"}
                                       => vjob.pc \in {"download", "stop", "replace", "start", "restored"}
      PROVE  WorkIsTrue'
  <2>1. vjob'.pc = "retain" => \A i \in vjob'.old : vb'[i].status # "absent"
    BY <1>t, <1>m, <1>4 DEF WorkIsTrue, VbJobs
  <2> QED
    BY <1>1, <1>2, <1>3, <1>4, <2>1 DEF WorkIsTrue
<1>5. ASSUME NEW where, BeginBackup(where) PROVE WorkIsTrue'
  BY <1>4, <1>5 DEF BeginBackup
<1>6. CASE InsertBackup \/ \E i \in VbIds : RequestVolumeRestore(i)
  <2>1. UNCHANGED <<vjob, vdrop>>
    BY <1>6 DEF InsertBackup, RequestVolumeRestore
  <2>2. \/ UNCHANGED vqueue
        \/ \E n \in VbIds, row \in VbRow : vb' = [vb EXCEPT ![n] = row] /\ row.status = "queued"
                                           /\ vqueue' = Append(vqueue, [id |-> n, run |-> 0])
    <3>1. CASE InsertBackup
      BY <3>1, InsertsBackup
    <3>2. ASSUME NEW i \in VbIds, RequestVolumeRestore(i)
          PROVE  \E n \in VbIds, row \in VbRow : vb' = [vb EXCEPT ![n] = row] /\ row.status = "queued"
                                                 /\ vqueue' = Append(vqueue, [id |-> n, run |-> 0])
      BY <3>2, InsertsRestore
    <3> QED
      BY <1>6, <3>1, <3>2
  <2>3. ASSUME NEW n \in VbIds, NEW row \in VbRow, vb' = [vb EXCEPT ![n] = row], row.status = "queued",
               vqueue' = Append(vqueue, [id |-> n, run |-> 0])
        PROVE  \A j \in DOMAIN vqueue' : vb'[vqueue'[j].id].status # "absent"
    <3>1. vb'[n].status = "queued"
      BY <2>3, OneRow
    <3>2. \A j \in DOMAIN vqueue' : vqueue'[j].id = n \/ (j \in DOMAIN vqueue /\ vqueue'[j] = vqueue[j])
      BY <1>t, <2>3
    <3> QED
      BY <1>t, <1>m, <3>1, <3>2 DEF WorkIsTrue
  <2> QED
    BY <1>4, <2>1, <2>2, <2>3
<1>7. ASSUME NEW i \in VbIds, BeginDrop(i) PROVE WorkIsTrue'
  <2>1. UNCHANGED <<vb, vqueue, vjob>> /\ vdrop' = [id |-> i, pc |-> "file", row |-> vb[i]] /\ vb[i].status # "absent"
    BY <1>7 DEF BeginDrop, HasVb
  <2>2. /\ vb'[vdrop'.id].status # "absent"
        /\ vdrop'.row.op = "backup" /\ vdrop'.row.file # NoArchive => vdrop'.row.file[1] = vdrop'.id
    BY <2>1 DEF RowsAreTrue
  <2> QED
    BY <1>1, <1>3, <2>1, <2>2 DEF WorkIsTrue
<1>8. CASE DropFile
  <2>1. UNCHANGED <<vb, vqueue, vjob>> /\ vdrop.pc # "rest" /\ vdrop' = [vdrop EXCEPT !.pc = "row"]
    BY <1>8 DEF DropFile
  <2>2. vdrop'.id = vdrop.id /\ vdrop'.row = vdrop.row
    BY <2>1 DEF VolumeTyped
  <2>3. /\ vb'[vdrop'.id].status # "absent"
        /\ vdrop'.row.op = "backup" /\ vdrop'.row.file # NoArchive => vdrop'.row.file[1] = vdrop'.id
    BY <2>1, <2>2 DEF WorkIsTrue
  <2> QED
    BY <1>1, <1>3, <2>1, <2>3 DEF WorkIsTrue
<1>9. CASE DropRow
  <2>1. UNCHANGED <<vqueue, vjob>> /\ vdrop'.pc = "rest"
    BY <1>9, DropsRow
  <2>2. vjob'.pc = "retain" => \A i \in vjob'.old : vb'[i].status # "absent"
    BY <1>t, <1>m, <2>1 DEF WorkIsTrue, VbJobs
  <2> QED
    BY <1>1, <1>3, <2>1, <2>2 DEF WorkIsTrue
<1>10. CASE TakeVolumeJob
  <2>1. PICK i \in VbIds :
           /\ 1 \in DOMAIN vqueue /\ vqueue[1].id = i
           /\ \A j \in DOMAIN vqueue' : j + 1 \in DOMAIN vqueue /\ vqueue'[j] = vqueue[j + 1]
           /\ \/ UNCHANGED <<vb, vjob>>
              \/ HasVb(i) /\ vjob'.id = i /\ vjob'.pc = FirstVbStep(vb[i])
    BY <1>10, TakesJob
  <2>2. UNCHANGED vdrop
    BY <1>10 DEF TakeVolumeJob
  <2>3. \A j \in DOMAIN vqueue' : vb'[vqueue'[j].id].status # "absent"
    BY <1>t, <1>m, <2>1 DEF WorkIsTrue
  <2>4. CASE UNCHANGED vjob
    BY <1>4, <2>2, <2>3, <2>4
  <2>5. CASE HasVb(i) /\ vjob'.id = i /\ vjob'.pc = FirstVbStep(vb[i])
    <3>1. vb[i].status # "absent" /\ (HasVb(i)' => vb'[i].op = vb[i].op)
      BY <1>m, <2>5 DEF HasVb
    <3>2. /\ vjob'.pc \in {"archive", "record", "retain"} => vb[i].op = "backup"
          /\ vjob'.pc \in {"download", "stop", "replace", "start", "restored"} => vb[i].op = "restore"
          /\ vjob'.pc # "retain"
      <4>1. vb[i].op \in {"backup", "restore"}
        BY <1>t DEF VbRow
      <4> QED
        BY <2>5, <4>1 DEF FirstVbStep
    <3>3. HasVb(vjob.id)' <=> HasVb(i)'
      BY <2>5 DEF HasVb
    <3>4. vb'[vjob'.id].status # "absent"
      BY <1>m, <2>5, <3>1
    <3> QED
      BY <1>2, <2>2, <2>3, <2>5, <3>1, <3>2, <3>3, <3>4 DEF WorkIsTrue
  <2> QED
    BY <2>1, <2>4, <2>5
<1>11. ASSUME NEW lost \in BOOLEAN, WriteArchive \/ ArchiveStops(lost) PROVE WorkIsTrue'
  <2>1. UNCHANGED <<vqueue, vdrop>> /\ vjob.pc = "archive" /\ vjob'.id = vjob.id /\ vjob'.pc \in {"record", "fail"}
    BY <1>11, Archives
  <2> QED
    BY <1>4, <2>1
<1>12. CASE RecordArchive
  <2>1. UNCHANGED <<vqueue, vdrop>> /\ vjob.pc = "record" /\ vjob'.id = vjob.id /\ vjob'.pc = "retain" /\ vjob'.old = Excess(vb')
    BY <1>12, Records DEF RecordArchive
  <2>2. \A i \in vjob'.old : vb'[i].status # "absent"
    BY <2>1 DEF Excess
  <2> QED
    BY <1>1, <1>2, <1>3, <2>1, <2>2 DEF WorkIsTrue
<1>13. ASSUME NEW i \in VbIds, ApplyRetention(i) PROVE WorkIsTrue'
  <2>1. UNCHANGED <<vqueue, vdrop>> /\ vjob.pc = "retain" /\ vjob'.id = vjob.id /\ vjob'.pc = "retain" /\ vjob'.old = vjob.old \ {i}
    BY <1>13, Retains
  <2> QED
    BY <1>4, <2>1
<1>14. CASE EndVolumeBackup \/ EndVolumeRestore \/ VolumeJobFails
  <2>1. UNCHANGED <<vqueue, vdrop>> /\ vjob'.pc = "rest"
    BY <1>14 DEF EndVolumeBackup, EndVolumeRestore, VolumeJobFails, NoVbJob
  <2> QED
    BY <1>4, <2>1
<1>15. CASE DownloadArchive \/ StopBox \/ StartBox \/ StartLost
  <2>1. UNCHANGED <<vqueue, vdrop>> /\ vjob.pc \in {"download", "stop", "start"}
    BY <1>15 DEF DownloadArchive, StopBox, StartBox, StartLost
  <2>2. PICK pc \in {"stop", "fail", "replace", "restored"} : VolumeGoes(pc)
    BY <1>15 DEF DownloadArchive, StopBox, StartBox, StartLost
  <2>3. vjob'.id = vjob.id /\ vjob'.pc = pc
    BY <2>2, JobGoes
  <2> QED
    BY <1>4, <2>1, <2>3
<1>16. ASSUME NEW lost \in BOOLEAN, ReplaceData \/ ReplaceStops(lost) PROVE WorkIsTrue'
  <2>1. UNCHANGED <<vqueue, vdrop>> /\ vjob'.id = vjob.id /\ vjob.pc = "replace" /\ vjob'.pc = "start"
    BY <1>16, ReplacesData
  <2> QED
    BY <1>4, <2>1
<1>17. CASE VolumeWorkerDies
  <2>1. UNCHANGED vdrop /\ vjob'.pc = "rest" /\ vjob.pc # "rest" /\ vqueue' \in {vqueue, <<[id |-> vjob.id, run |-> 1]>> \o vqueue}
    BY <1>17 DEF VolumeWorkerDies, NoVbJob
  <2>2. CASE vqueue' = <<[id |-> vjob.id, run |-> 1]>> \o vqueue
    <3>1. PICK i \in VbIds : i = vjob.id
      BY <1>t, <2>1
    <3>2. \A j \in DOMAIN vqueue' : vqueue'[j].id = i \/ (j - 1 \in DOMAIN vqueue /\ vqueue'[j] = vqueue[j - 1])
      BY <1>t, <2>2, <3>1
    <3>3. vb[i].status # "absent"
      BY <2>1, <3>1 DEF WorkIsTrue
    <3>4. \A j \in DOMAIN vqueue' : vb'[vqueue'[j].id].status # "absent"
      BY <1>t, <1>m, <3>2, <3>3 DEF WorkIsTrue
    <3> QED
      BY <1>4, <2>1, <3>4
  <2> QED
    BY <1>4, <2>1, <2>2
<1> QED
  BY <1>5, <1>6, <1>7, <1>8, <1>9, <1>10, <1>11, <1>12, <1>13, <1>14, <1>15, <1>16, <1>17
     DEF VolumeNext, VolumeRequests, VolumeJobs

LEMMA LuckStays == VolumeNext => vluck \subseteq vluck'
BY DEF VolumeNext, VolumeRequests, VolumeJobs, VbFault, BeginBackup, InsertBackup, DropFile, DropRow, RequestVolumeRestore, BeginDrop,
   TakeVolumeJob, WriteArchive, RecordArchive, EndVolumeBackup, DownloadArchive, StopBox, ReplaceData, StartBox, EndVolumeRestore,
   VolumeJobFails, StartLost, VolumeWorkerDies, ApplyRetention, ArchiveStops, ReplaceStops

LEMMA BoxStaysUp ==
  ASSUME VolumeTyped, BoxIsUp, VolumeNext
  PROVE  BoxIsUp'
<1> SUFFICES ASSUME vluck' \cap {"lost", "died"} = {}, vjob'.pc \notin {"replace", "start"} PROVE box' = "up"
  BY DEF BoxIsUp
<1>1. vluck \cap {"lost", "died"} = {}
  BY LuckStays
<1>2. CASE StartBox
  BY <1>2 DEF StartBox
<1>3. CASE StopBox
  <2>1. vjob'.pc = "replace"
    BY <1>3, JobGoes DEF StopBox
  <2> QED
    BY <2>1
<1>4. ASSUME NEW lost \in BOOLEAN, ReplaceData \/ ReplaceStops(lost) PROVE box' = "up"
  BY <1>4, ReplacesData
<1>5. ASSUME StartLost \/ VolumeWorkerDies PROVE FALSE
  BY <1>5 DEF StartLost, VolumeWorkerDies, VbFault
<1>6. ASSUME UNCHANGED box, vjob.pc \notin {"replace", "start"} PROVE box' = "up"
  BY <1>1, <1>6 DEF BoxIsUp
<1>7. ASSUME UNCHANGED <<box, vjob>> PROVE box' = "up"
  BY <1>6, <1>7
<1>8. \/ StartBox \/ StopBox \/ StartLost \/ VolumeWorkerDies
      \/ \E lost \in BOOLEAN : ReplaceData \/ ReplaceStops(lost)
      \/ UNCHANGED <<box, vjob>>
      \/ UNCHANGED box /\ vjob.pc \notin {"replace", "start"}
  BY DEF VolumeNext, VolumeRequests, VolumeJobs, BeginBackup, InsertBackup, DropFile, DropRow, RequestVolumeRestore, BeginDrop,
     TakeVolumeJob, WriteArchive, RecordArchive, EndVolumeBackup, DownloadArchive, EndVolumeRestore, VolumeJobFails, ApplyRetention,
     ArchiveStops
<1> QED
  BY <1>2, <1>3, <1>4, <1>5, <1>6, <1>7, <1>8

LEMMA DropStaysOver ==
  ASSUME VolumeTyped, DropIsOver, VolumeNext
  PROVE  DropIsOver'
<1>t. vdrop \in [id : 0..VbRows, pc : {"rest", "file", "row"}, row : VbRow]
  BY DEF VolumeTyped
<1>1. ASSUME NEW i \in VbIds, BeginDrop(i) PROVE DropIsOver'
  BY <1>1 DEF BeginDrop, DropIsOver
<1>2. CASE DropFile
  <2>1. vdrop'.pc = "row"
    BY <1>t, <1>2 DEF DropFile
  <2> QED
    BY <2>1 DEF DropIsOver
<1>3. CASE DropRow
  BY <1>3 DEF DropRow, DropIsOver
<1>4. CASE UNCHANGED vdrop
  BY <1>4 DEF DropIsOver
<1>5. DropFile \/ DropRow \/ UNCHANGED vdrop \/ \E i \in VbIds : BeginDrop(i)
  BY DEF VolumeNext, VolumeRequests, VolumeJobs, BeginBackup, InsertBackup, RequestVolumeRestore,
     TakeVolumeJob, WriteArchive, RecordArchive, EndVolumeBackup, DownloadArchive, StopBox, ReplaceData, StartBox, EndVolumeRestore,
     VolumeJobFails, StartLost, VolumeWorkerDies, ApplyRetention, ArchiveStops, ReplaceStops
<1> QED
  BY <1>1, <1>2, <1>3, <1>4, <1>5

\* A success of a backup is an old one, or the one that was just recorded.
LEMMA SuccessesMove ==
  ASSUME VolumeTyped, WorkIsTrue, VolumeNext
  PROVE  \A k \in VbIds : BackedUp(k)' =>
           \/ BackedUp(k) /\ vb'[k] = vb[k]
           \/ RecordArchive /\ k = vjob.id /\ HasVb(k) /\ vb'[k].file = <<k, vjob.run>> /\ (vb'[k].s3 <=> vb[k].s3)
<1> SUFFICES ASSUME NEW k \in VbIds, vb'[k].op = "backup", vb'[k].status = "success"
             PROVE  \/ vb'[k] = vb[k]
                    \/ RecordArchive /\ k = vjob.id /\ HasVb(k) /\ vb'[k].file = <<k, vjob.run>> /\ (vb'[k].s3 <=> vb[k].s3)
  BY DEF BackedUp
<1>1. CASE UNCHANGED vb
  BY <1>1
<1>2. ASSUME NEW i \in VbIds, NEW row \in VbRow, vb' = [vb EXCEPT ![i] = row], row.status # "success" \/ row.op # "backup"
      PROVE  vb'[k] = vb[k]
  <2>1. vb'[i] = row /\ (k # i => vb'[k] = vb[k])
    BY <1>2, OneRow
  <2> QED
    BY <1>2, <2>1
<1>3. CASE InsertBackup
  <2>1. UNCHANGED vb \/ \E n \in VbIds, row \in VbRow : vb' = [vb EXCEPT ![n] = row] /\ row.status = "queued"
    BY <1>3, InsertsBackup
  <2> QED
    BY <1>2, <2>1
<1>4. ASSUME NEW i \in VbIds, RequestVolumeRestore(i) PROVE vb'[k] = vb[k]
  <2>1. \E n \in VbIds, row \in VbRow :
          /\ vb[n].status = "absent" /\ vb' = [vb EXCEPT ![n] = row]
          /\ vqueue' = Append(vqueue, [id |-> n, run |-> 0]) /\ vqueue' \in Seq(VbWaiting)
          /\ row.status = "queued" /\ row.op = "restore" /\ row.file = NoArchive /\ row.src = i
    BY <1>4, InsertsRestore, Zenon
  <2> QED
    BY <1>2, <2>1
<1>5. CASE DropRow
  <2>1. \E i \in VbIds, row \in VbRow : vb' = [vb EXCEPT ![i] = row] /\ row.status = "deleted"
    BY <1>5, DropsRow
  <2> QED
    BY <1>2, <2>1
<1>6. CASE TakeVolumeJob
  <2>1. \E i \in VbIds : UNCHANGED vb \/ \E row \in VbRow : vb' = [vb EXCEPT ![i] = row] /\ row.status = "running"
    BY <1>6, TakesJob
  <2> QED
    BY <1>2, <2>1
<1>7. CASE RecordArchive
  <2>1. PICK i \in VbIds : i = vjob.id
    BY <1>7, Records
  <2>2. \/ UNCHANGED vb
        \/ /\ HasVb(i)
           /\ \E row \in VbRow : /\ vb' = [vb EXCEPT ![i] = row] /\ row.file = <<i, vjob.run>> /\ (row.s3 <=> vb[i].s3)
    BY <1>7, <2>1, Records
  <2>3. ASSUME HasVb(i), NEW row \in VbRow, vb' = [vb EXCEPT ![i] = row], row.file = <<i, vjob.run>>, row.s3 <=> vb[i].s3
        PROVE  vb'[k] = vb[k] \/ (k = i /\ vb'[k].file = <<k, vjob.run>> /\ (vb'[k].s3 <=> vb[k].s3))
    <3>1. vb'[i] = row /\ (k # i => vb'[k] = vb[k])
      BY <2>3, OneRow
    <3> QED
      BY <2>3, <3>1
  <2> QED
    BY <1>7, <2>1, <2>2, <2>3
<1>8. ASSUME NEW i \in VbIds, ApplyRetention(i) PROVE vb'[k] = vb[k]
  <2>1. \E row \in VbRow : vb' = [vb EXCEPT ![i] = row] /\ row.status = "deleted"
    BY <1>8, Retains
  <2> QED
    BY <1>2, <2>1
<1>9. CASE EndVolumeRestore \/ VolumeJobFails
  <2>1. PICK i \in VbIds : i = vjob.id
    BY <1>9, Finishes
  <2>2. PICK row \in VbRow : /\ vb' = [vb EXCEPT ![i] = row] /\ row.op = vb[i].op
                             /\ vb[i].status = "deleted" => row.status = "deleted"
                             /\ vb[i].status # "deleted" => row.status = IF vjob.pc = "fail" THEN "failed" ELSE "success"
    BY <1>9, <2>1, Finishes
  <2>3. vb[i].status # "deleted" /\ vjob.pc # "fail" => vb[i].op = "restore"
    BY <1>9, <2>1 DEF WorkIsTrue, EndVolumeRestore, VolumeJobFails, HasVb
  <2> QED
    BY <1>2, <2>2, <2>3
<1> QED
  BY <1>1, <1>3, <1>4, <1>5, <1>6, <1>7, <1>8, <1>9
     DEF VolumeNext, VolumeRequests, VolumeJobs, BeginBackup, BeginDrop, DropFile, WriteArchive, EndVolumeBackup, DownloadArchive,
         StopBox, ReplaceData, StartBox, StartLost, VolumeWorkerDies, ArchiveStops, ReplaceStops

\* An archive goes only with its row: the retention deletes both, a user's deletion its file first.
LEMMA ArchivesStay ==
  ASSUME VolumeTyped, RowsAreTrue, WorkIsTrue, VolumeNext
  PROVE  \A a \in DOMAIN archives : \/ a \in DOMAIN archives'
                                    \/ DropFile /\ a[1] = vdrop.id /\ vdrop'.id = vdrop.id
                                    \/ vb'[a[1]].status = "deleted"
<1> SUFFICES ASSUME NEW a \in DOMAIN archives, a \notin DOMAIN archives'
             PROVE  \/ DropFile /\ a[1] = vdrop.id /\ vdrop'.id = vdrop.id
                    \/ vb'[a[1]].status = "deleted"
  OBVIOUS
<1>t. /\ vb \in [VbIds -> VbRow] /\ vdrop \in [id : 0..VbRows, pc : {"rest", "file", "row"}, row : VbRow] /\ a \in Archive
  BY DEF VolumeTyped
<1>1. a # NoArchive
  BY <1>t, NoArchiveIsNone
<1>2. CASE DropFile
  <2>1. vdrop.pc # "rest" /\ vdrop.row \in VbRow /\ removeVolumeBackupFile(vdrop.row) /\ vdrop'.id = vdrop.id
    BY <1>t, <1>2 DEF DropFile
  <2>2. vdrop.row.op = "backup" /\ vdrop.row.file = a
    BY <2>1, RemovesFile
  <2>3. vdrop.row.file[1] = vdrop.id
    BY <1>1, <2>1, <2>2 DEF WorkIsTrue
  <2> QED
    BY <1>2, <2>1, <2>2, <2>3
<1>3. ASSUME NEW i \in VbIds, ApplyRetention(i) PROVE vb'[a[1]].status = "deleted"
  <2>1. HasVb(i) /\ removeVolumeBackupFile(vb[i]) /\ vb[i] \in VbRow
    BY <1>t, <1>3 DEF ApplyRetention
  <2>2. vb[i].op = "backup" /\ vb[i].file = a
    BY <2>1, RemovesFile
  <2>3. a[1] = i
    BY <1>1, <2>2 DEF RowsAreTrue
  <2>4. PICK row \in VbRow : vb' = [vb EXCEPT ![i] = row] /\ row.status = "deleted"
    BY <1>3, Retains
  <2>5. vb'[i] = row
    BY <2>4, OneRow
  <2> QED
    BY <2>3, <2>4, <2>5
<1>4. ASSUME NEW lost \in BOOLEAN, WriteArchive \/ ArchiveStops(lost) PROVE FALSE
  BY <1>4, Archives
<1> QED
  BY <1>2, <1>3, <1>4
     DEF VolumeNext, VolumeRequests, VolumeJobs, BeginBackup, InsertBackup, DropRow, RequestVolumeRestore, BeginDrop,
         TakeVolumeJob, RecordArchive, EndVolumeBackup, DownloadArchive, StopBox, ReplaceData, StartBox, EndVolumeRestore,
         VolumeJobFails, StartLost, VolumeWorkerDies, ReplaceStops

LEMMA ArchiveStaysThere ==
  ASSUME VolumeTyped, RowsAreTrue, WorkIsTrue, DropIsOver, ArchiveIsThere, VolumeNext
  PROVE  ArchiveIsThere'
<1> SUFFICES ASSUME "lost" \notin vluck' PROVE ArchiveIsThere'
  BY DEF ArchiveIsThere
<1>l. "lost" \notin vluck
  BY LuckStays
<1>t. /\ vb \in [VbIds -> VbRow] /\ vjob \in VbJobs /\ (vjob.pc # "rest" => vjob.id \in VbIds)
      /\ (vdrop.pc # "rest" => vdrop.id \in VbIds) /\ DOMAIN archives \subseteq Archive
  BY DEF VolumeTyped
<1>a. 0 \notin VbIds
  BY VbAssumption DEF VbIds
<1>m. \A k \in VbIds : vb[k].status # "absent" => vb'[k].status # "absent" /\ (HasVb(k)' => HasVb(k) /\ vb'[k].op = vb[k].op)
  BY RowsMoveOn, RowsStayTrue
\* A row that has not been deleted and is not being deleted keeps its archive.
<1>1. \A k \in VbIds : HasVb(k)' /\ vdrop'.id # k =>
        /\ vdrop.id # k
        /\ \A a \in DOMAIN archives : a[1] = k => a \in DOMAIN archives'
  <2> SUFFICES ASSUME NEW k \in VbIds, vb'[k].status \notin {"absent", "deleted"}, vdrop'.id # k
               PROVE  vdrop.id # k /\ \A a \in DOMAIN archives : a[1] = k => a \in DOMAIN archives'
    BY DEF HasVb
  <2>1. vdrop.id # k
    <3>1. CASE UNCHANGED vdrop
      BY <3>1
    <3>2. CASE DropFile
      BY <3>2 DEF DropFile, VolumeTyped
    <3>3. CASE DropRow
      <4>1. PICK row \in VbRow : vb' = [vb EXCEPT ![vdrop.id] = row] /\ row.status = "deleted"
        BY <3>3, DropsRow
      <4>2. vdrop.id \in VbIds
        BY <3>3, DropsRow
      <4>3. vb'[vdrop.id].status = "deleted"
        BY <4>1, <4>2, OneRow
      <4> QED
        BY <4>3
    <3>4. ASSUME NEW i \in VbIds, BeginDrop(i) PROVE vdrop.id # k
      BY <1>a, <3>4 DEF BeginDrop, DropIsOver
    <3> QED
      BY <3>1, <3>2, <3>3, <3>4
         DEF VolumeNext, VolumeRequests, VolumeJobs, BeginBackup, InsertBackup, RequestVolumeRestore,
             TakeVolumeJob, WriteArchive, RecordArchive, EndVolumeBackup, DownloadArchive, StopBox, ReplaceData, StartBox, EndVolumeRestore,
             VolumeJobFails, StartLost, VolumeWorkerDies, ApplyRetention, ArchiveStops, ReplaceStops
  <2>2. \A a \in DOMAIN archives : a[1] = k => a \in DOMAIN archives'
    BY <2>1, ArchivesStay
  <2> QED
    BY <2>1, <2>2
<1>2. ASSUME NEW k \in VbIds, vb'[k].op = "backup", vb'[k].status = "success", ~ vb'[k].s3, vdrop'.id # k
      PROVE  vb'[k].file \in DOMAIN archives'
  <2>1. vdrop.id # k /\ \A a \in DOMAIN archives : a[1] = k => a \in DOMAIN archives'
    BY <1>1, <1>2 DEF HasVb
  <2>2. CASE BackedUp(k) /\ vb'[k] = vb[k]
    <3>1. vb[k].file \in DOMAIN archives
      BY <1>l, <1>2, <2>1, <2>2 DEF ArchiveIsThere
    <3>2. vb[k].file # NoArchive
      BY <1>t, <3>1, NoArchiveIsNone
    <3>3. vb[k].file[1] = k
      BY <2>2, <3>2 DEF RowsAreTrue, BackedUp
    <3> QED
      BY <2>1, <2>2, <3>1, <3>3
  <2>3. CASE RecordArchive /\ k = vjob.id /\ HasVb(k) /\ vb'[k].file = <<k, vjob.run>>
    <3>1. vjob.pc = "record" /\ HasVb(vjob.id)
      BY <2>3 DEF RecordArchive
    <3>2. <<vjob.id, vjob.run>> \in DOMAIN archives
      BY <1>l, <2>1, <2>3, <3>1 DEF ArchiveIsThere
    <3> QED
      BY <2>1, <2>3, <3>2
  <2> QED
    BY <1>2, <2>2, <2>3, SuccessesMove DEF BackedUp
<1>3. ASSUME vjob'.pc = "record", vdrop'.id # vjob'.id, vb'[vjob'.id].status \notin {"absent", "deleted"}
      PROVE  <<vjob'.id, vjob'.run>> \in DOMAIN archives'
  <2>1. CASE UNCHANGED vjob
    <3>1. vjob.id \in VbIds
      BY <1>t, <1>3, <2>1
    <3>2. PICK k \in VbIds : k = vjob.id
      BY <3>1
    <3>3. vdrop.id # k /\ \A a \in DOMAIN archives : a[1] = k => a \in DOMAIN archives'
      BY <1>1, <1>3, <2>1, <3>2 DEF HasVb
    <3>4. vb[k].status # "absent" /\ HasVb(k)
      <4>1. vb[k].status # "absent"
        BY <1>3, <2>1, <3>2 DEF WorkIsTrue
      <4>2. HasVb(k)'
        BY <1>3, <2>1, <3>2 DEF HasVb
      <4> QED
        BY <1>m, <4>1, <4>2
    <3>5. <<vjob.id, vjob.run>> \in DOMAIN archives
      BY <1>l, <1>3, <2>1, <3>2, <3>3, <3>4 DEF ArchiveIsThere
    <3> QED
      BY <2>1, <3>2, <3>3, <3>5
  <2>2. ASSUME NEW lost \in BOOLEAN, WriteArchive \/ ArchiveStops(lost) PROVE <<vjob'.id, vjob'.run>> \in DOMAIN archives'
    BY <2>2, Archives
  <2>3. CASE TakeVolumeJob
    <3>1. vjob'.pc # "record" \/ UNCHANGED vjob
      BY <2>3, TakesJob DEF FirstVbStep
    <3> QED
      BY <1>3, <2>1, <3>1
  <2>4. ASSUME NEW i \in VbIds, ApplyRetention(i) PROVE FALSE
    BY <1>3, <2>4, Retains
  <2>5. CASE RecordArchive
    <3>1. vjob'.pc = "retain"
      BY <2>5, Records
    <3> QED
      BY <1>3, <3>1
  <2>6. CASE DownloadArchive \/ StopBox \/ StartBox \/ StartLost
    <3>1. PICK pc \in {"stop", "fail", "replace", "restored"} : VolumeGoes(pc)
      BY <2>6 DEF DownloadArchive, StopBox, StartBox, StartLost
    <3>2. vjob'.pc = pc
      BY <3>1, JobGoes
    <3> QED
      BY <1>3, <3>2
  <2>7. ASSUME NEW lost \in BOOLEAN, ReplaceData \/ ReplaceStops(lost) PROVE FALSE
    BY <1>3, <2>7, ReplacesData
  <2>8. CASE vjob' = NoVbJob
    BY <1>3, <2>8 DEF NoVbJob
  <2> QED
    BY <2>1, <2>2, <2>3, <2>4, <2>5, <2>6, <2>7, <2>8
       DEF VolumeNext, VolumeRequests, VolumeJobs, BeginBackup, InsertBackup, DropFile, DropRow, RequestVolumeRestore, BeginDrop,
           EndVolumeBackup, EndVolumeRestore, VolumeJobFails, VolumeWorkerDies
<1> QED
  BY <1>2, <1>3 DEF ArchiveIsThere, BackedUp, HasVb

\* What may happen while nothing goes wrong from outside.
NothingWrong ==
    \/ UNCHANGED <<vb, archives, vdata, vqueue, vjob>> /\ vdrop'.pc # "row"
    \/ /\ vdrop' = vdrop
       /\ \/ InsertBackup \/ TakeVolumeJob \/ WriteArchive \/ RecordArchive \/ EndVolumeBackup
          \/ DownloadArchive \/ StopBox \/ ReplaceData \/ StartBox \/ EndVolumeRestore \/ VolumeJobFails
          \/ \E i \in VbIds : RequestVolumeRestore(i) \/ ApplyRetention(i)

LEMMA WithoutLuck == vluck' = {} /\ vdrop.pc # "row" /\ VolumeNext => vluck = {} /\ NothingWrong
<1> SUFFICES ASSUME vluck' = {}, vdrop.pc # "row", VolumeNext PROVE NothingWrong
  BY LuckStays
<1>1. ASSUME NEW kind, VbFault(kind) PROVE FALSE
  BY <1>1 DEF VbFault
<1>2. ~ StartLost /\ ~ VolumeWorkerDies
  BY <1>1 DEF StartLost, VolumeWorkerDies
<1>3. ASSUME NEW lost \in BOOLEAN PROVE ~ ArchiveStops(lost) /\ ~ ReplaceStops(lost)
  BY <1>1 DEF ArchiveStops, ReplaceStops
<1>4. ~ DropFile /\ ~ DropRow
  BY DEF DropFile, DropRow
<1>5. ASSUME NEW where, BeginBackup(where) PROVE NothingWrong
  BY <1>5 DEF BeginBackup, NothingWrong
<1>6. ASSUME NEW i \in VbIds, BeginDrop(i) PROVE NothingWrong
  BY <1>6 DEF BeginDrop, NothingWrong
<1>7. ASSUME InsertBackup \/ \E i \in VbIds : RequestVolumeRestore(i) PROVE NothingWrong
  BY <1>7 DEF InsertBackup, RequestVolumeRestore, NothingWrong
<1>8. ASSUME \/ TakeVolumeJob \/ WriteArchive \/ RecordArchive \/ EndVolumeBackup
             \/ DownloadArchive \/ StopBox \/ ReplaceData \/ StartBox \/ EndVolumeRestore \/ VolumeJobFails
             \/ \E i \in VbIds : ApplyRetention(i)
      PROVE  NothingWrong
  <2>1. UNCHANGED vdrop
    BY <1>8 DEF TakeVolumeJob, WriteArchive, RecordArchive, EndVolumeBackup, DownloadArchive, StopBox, ReplaceData, StartBox,
       EndVolumeRestore, VolumeJobFails, ApplyRetention
  <2> QED
    BY <1>8, <2>1 DEF NothingWrong
<1> QED
  BY <1>2, <1>3, <1>4, <1>5, <1>6, <1>7, <1>8 DEF VolumeNext, VolumeRequests, VolumeJobs

LEMMA JobsStayOnce ==
  ASSUME VolumeTyped, WorkIsTrue, JobsRunOnce, NothingWrong,
         vjob.pc = "retain" => \A i \in vjob.old : BackedUp(i)
  PROVE  JobsRunOnce'
<1>t. /\ vb \in [VbIds -> VbRow] /\ vqueue \in Seq(VbWaiting) /\ vjob \in VbJobs /\ (vjob.pc # "rest" => vjob.id \in VbIds)
      /\ \A j \in DOMAIN vqueue : vqueue[j].id \in VbIds
  <2>1. /\ vb \in [VbIds -> VbRow] /\ vqueue \in Seq(VbWaiting) /\ vjob \in VbJobs /\ (vjob.pc # "rest" => vjob.id \in VbIds)
    BY DEF VolumeTyped
  <2>2. \A j \in DOMAIN vqueue : vqueue[j] \in VbWaiting
    BY <2>1
  <2>3. \A j \in DOMAIN vqueue : vqueue[j].id \in VbIds
    BY <2>2 DEF VbWaiting
  <2> QED
    BY <2>1, <2>3
\* A row that does not wait is written, and the job ends or keeps to its row.
<1>1. ASSUME NEW i \in VbIds, NEW row \in VbRow, vb' = [vb EXCEPT ![i] = row], UNCHANGED vqueue, vb[i].status # "queued" \/ i = vjob.id,
             vjob.pc # "rest", vjob'.pc \in {"rest", "retain"}, vjob'.id = vjob.id \/ vjob'.pc = "rest"
      PROVE  JobsRunOnce'
  <2>1. \A k \in VbIds : k # i => vb'[k] = vb[k]
    BY <1>1, OneRow
  <2>2. \A j \in DOMAIN vqueue : vqueue[j].id # i
    BY <1>1 DEF JobsRunOnce
  <2>3. \A j \in DOMAIN vqueue : vb'[vqueue[j].id].status = "queued"
    BY <1>t, <2>1, <2>2 DEF JobsRunOnce
  <2>4. \A j \in DOMAIN vqueue : vjob'.pc # "rest" => vqueue[j].id # vjob'.id
    BY <1>1 DEF JobsRunOnce
  <2>5. \A j, k \in DOMAIN vqueue : vqueue[j].id = vqueue[k].id => j = k
    BY DEF JobsRunOnce
  <2> QED
    BY <1>1, <2>3, <2>4, <2>5 DEF JobsRunOnce
\* Only the job moves on.
<1>2. ASSUME UNCHANGED <<vb, vqueue>>, vjob'.pc # "rest" => vjob'.id = vjob.id /\ vjob.pc # "rest",
             vjob'.pc \notin {"rest", "retain"} => vjob.pc # "retain",
             vjob'.pc = "fail" => vb[vjob.id].op = "restore"
      PROVE  JobsRunOnce'
  BY <1>2 DEF JobsRunOnce
<1>3. ASSUME NEW n \in VbIds, NEW row \in VbRow, vb[n].status = "absent", vb' = [vb EXCEPT ![n] = row], row.status = "queued",
             vqueue' = Append(vqueue, [id |-> n, run |-> 0]), UNCHANGED vjob
      PROVE  JobsRunOnce'
  <2>1. vb'[n].status = "queued" /\ \A k \in VbIds : k # n => vb'[k] = vb[k]
    BY <1>3, OneRow
  <2>2. \A j \in DOMAIN vqueue : vqueue[j].id # n
    BY <1>3 DEF WorkIsTrue
  <2>3. vjob.pc # "rest" => vjob.id # n /\ vb'[vjob.id] = vb[vjob.id]
    BY <1>t, <1>3, <2>1 DEF WorkIsTrue
  <2>4. \A j \in DOMAIN vqueue' : (vqueue'[j].id = n /\ j = Len(vqueue) + 1) \/ (j \in DOMAIN vqueue /\ vqueue'[j] = vqueue[j])
    BY <1>t, <1>3
  <2>5. \A j \in DOMAIN vqueue' : vb'[vqueue'[j].id].status = "queued" /\ (vjob'.pc # "rest" => vqueue'[j].id # vjob'.id)
    BY <1>t, <1>3, <2>1, <2>2, <2>3, <2>4 DEF JobsRunOnce
  <2>6. \A j, k \in DOMAIN vqueue' : vqueue'[j].id = vqueue'[k].id => j = k
    BY <2>2, <2>4 DEF JobsRunOnce
  <2> QED
    BY <1>3, <2>3, <2>5, <2>6 DEF JobsRunOnce
<1>4. CASE UNCHANGED <<vb, vqueue, vjob>>
  BY <1>4 DEF JobsRunOnce
<1>5. CASE InsertBackup
  <2>1. UNCHANGED vjob
    BY <1>5 DEF InsertBackup
  <2> QED
    BY <1>3, <1>4, <1>5, <2>1, InsertsBackup
<1>6. ASSUME NEW i \in VbIds, RequestVolumeRestore(i) PROVE JobsRunOnce'
  <2>1. UNCHANGED vjob
    BY <1>6 DEF RequestVolumeRestore
  <2>2. \E n \in VbIds, row \in VbRow :
          /\ vb[n].status = "absent" /\ vb' = [vb EXCEPT ![n] = row]
          /\ vqueue' = Append(vqueue, [id |-> n, run |-> 0]) /\ vqueue' \in Seq(VbWaiting)
          /\ row.status = "queued" /\ row.op = "restore" /\ row.file = NoArchive /\ row.src = i
    BY <1>6, InsertsRestore, Zenon
  <2> QED
    BY <1>3, <2>1, <2>2
<1>7. CASE TakeVolumeJob
  <2>1. PICK i \in VbIds :
           /\ vjob.pc = "rest" /\ 1 \in DOMAIN vqueue /\ vqueue[1].id = i
           /\ \A j \in DOMAIN vqueue' : j + 1 \in DOMAIN vqueue /\ vqueue'[j] = vqueue[j + 1]
           /\ DOMAIN vqueue' = 1..(Len(vqueue) - 1)
           /\ \/ ~ HasVb(i)
              \/ /\ \E row \in VbRow : vb' = [vb EXCEPT ![i] = row] /\ row.status = "running" /\ row.op = vb[i].op
                 /\ vjob'.id = i /\ vjob'.pc = FirstVbStep(vb[i])
    BY <1>7, TakesJob
  <2>2. vb[i].status = "queued"
    BY <2>1 DEF JobsRunOnce
  <2>3. PICK row \in VbRow : vb' = [vb EXCEPT ![i] = row] /\ row.status = "running" /\ row.op = vb[i].op
    BY <2>1, <2>2 DEF HasVb
  <2>4. vjob'.id = i /\ vjob'.pc = FirstVbStep(vb[i])
    BY <2>1, <2>2 DEF HasVb
  <2>5. vb'[i] = row /\ \A k \in VbIds : k # i => vb'[k] = vb[k]
    BY <2>3, OneRow
  <2>6. \A j \in DOMAIN vqueue' : vqueue'[j].id # i
    <3> TAKE j \in DOMAIN vqueue'
    <3>1. j + 1 # 1
      BY <1>t, <2>1
    <3> QED
      BY <2>1, <3>1 DEF JobsRunOnce
  <2>7. \A j, k \in DOMAIN vqueue' : vqueue'[j].id = vqueue'[k].id => j = k
    <3> SUFFICES ASSUME NEW j \in DOMAIN vqueue', NEW k \in DOMAIN vqueue', vqueue'[j].id = vqueue'[k].id PROVE j = k
      OBVIOUS
    <3>1. j + 1 = k + 1
      BY <2>1 DEF JobsRunOnce
    <3> QED
      BY <1>t, <2>1, <3>1
  <2>8. \A j \in DOMAIN vqueue' : vb'[vqueue'[j].id].status = "queued"
    BY <1>t, <2>1, <2>5, <2>6 DEF JobsRunOnce
  <2>9. vb[i].op \in {"backup", "restore"}
    BY <1>t DEF VbRow
  <2>10. vjob'.pc = "fail" => vb'[i].op = "restore"
    BY <2>3, <2>4, <2>5, <2>9 DEF FirstVbStep
  <2> QED
    BY <2>3, <2>4, <2>5, <2>6, <2>7, <2>8, <2>10 DEF JobsRunOnce
<1>8. CASE WriteArchive
  <2>1. UNCHANGED <<vb, vqueue>> /\ vjob.pc = "archive" /\ vjob'.id = vjob.id /\ vjob'.pc = "record"
    <3>1. TRUE \in BOOLEAN
      OBVIOUS
    <3> QED
      BY <1>8, <3>1, Archives
  <2> QED
    BY <1>2, <2>1
<1>9. CASE RecordArchive
  <2>1. PICK i \in VbIds : i = vjob.id
    BY <1>9, Records
  <2>2. UNCHANGED vqueue /\ vjob.pc = "record" /\ vjob'.id = vjob.id /\ vjob'.pc = "retain"
    BY <1>9, Records DEF RecordArchive
  <2>3. UNCHANGED vb \/ \E row \in VbRow : vb' = [vb EXCEPT ![i] = row]
    BY <1>9, <2>1, Records
  <2> QED
    BY <1>1, <1>2, <2>1, <2>2, <2>3
<1>10. ASSUME NEW i \in VbIds, ApplyRetention(i) PROVE JobsRunOnce'
  <2>1. vjob.pc = "retain" /\ i \in vjob.old /\ vjob'.pc = "retain" /\ vjob'.id = vjob.id /\ UNCHANGED vqueue
    BY <1>10, Retains
  <2>2. PICK row \in VbRow : vb' = [vb EXCEPT ![i] = row]
    BY <1>10, Retains
  <2>3. vb[i].status # "queued"
    BY <2>1 DEF BackedUp
  <2> QED
    BY <1>1, <2>1, <2>2, <2>3
<1>11. CASE EndVolumeBackup
  BY <1>2, <1>11 DEF EndVolumeBackup, NoVbJob
<1>12. CASE DownloadArchive \/ StopBox \/ StartBox
  <2>1. UNCHANGED <<vb, vqueue>> /\ vjob.pc \in {"download", "stop", "start"}
    BY <1>12 DEF DownloadArchive, StopBox, StartBox
  <2>2. PICK pc \in {"stop", "fail", "replace", "restored"} : VolumeGoes(pc)
    BY <1>12 DEF DownloadArchive, StopBox, StartBox
  <2>3. vjob'.id = vjob.id /\ vjob'.pc = pc
    BY <2>2, JobGoes
  <2>4. vb[vjob.id].op = "restore"
    <3>1. vb[vjob.id].status = "running"
      BY <2>1 DEF JobsRunOnce
    <3> QED
      BY <2>1, <3>1 DEF WorkIsTrue, HasVb
  <2> QED
    BY <1>2, <2>1, <2>3, <2>4
<1>13. CASE ReplaceData
  <2>1. UNCHANGED <<vb, vqueue>> /\ vjob'.id = vjob.id /\ vjob.pc = "replace" /\ vjob'.pc = "start"
    <3>1. TRUE \in BOOLEAN
      OBVIOUS
    <3> QED
      BY <1>13, <3>1, ReplacesData
  <2> QED
    BY <1>2, <2>1
<1>14. CASE EndVolumeRestore \/ VolumeJobFails
  <2>1. PICK i \in VbIds : i = vjob.id
    BY <1>14, Finishes
  <2>2. UNCHANGED vqueue /\ vjob.pc # "rest" /\ vjob'.pc = "rest"
    BY <1>14 DEF EndVolumeRestore, VolumeJobFails, NoVbJob
  <2>3. \E row \in VbRow : vb' = [vb EXCEPT ![i] = row]
    BY <1>14, <2>1, Finishes
  <2> QED
    BY <1>1, <2>1, <2>2, <2>3
<1> QED
  BY <1>4, <1>5, <1>6, <1>7, <1>8, <1>9, <1>10, <1>11, <1>12, <1>13, <1>14 DEF NothingWrong

LEMMA DataStaysWhole ==
  ASSUME VolumeTyped, RowsAreTrue, ArchivesMatch, DataIsWhole, NothingWrong
  PROVE  DataIsWhole'
<1>t. /\ vb \in [VbIds -> VbRow] /\ vjob \in VbJobs /\ inS3 = {}
  BY DEF VolumeTyped
\* The archives stay, and the job restores the archive it was to restore.
<1>1. ASSUME UNCHANGED <<vdata, archives>>,
             vjob'.pc \in {"stop", "replace"} => vjob'.from \in DOMAIN archives
      PROVE  DataIsWhole'
  BY <1>1 DEF DataIsWhole
<1>2. CASE UNCHANGED <<vdata, archives, vjob>>
  BY <1>1, <1>2 DEF DataIsWhole
<1>3. CASE InsertBackup \/ \E i \in VbIds : RequestVolumeRestore(i)
  BY <1>2, <1>3 DEF InsertBackup, RequestVolumeRestore
<1>4. CASE TakeVolumeJob
  <2>1. PICK i \in VbIds :
           \/ UNCHANGED vjob
           \/ /\ vjob'.pc = FirstVbStep(vb[i])
              /\ vjob'.from = IF vb[i].op = "restore" /\ vb[i].src # 0 THEN vb[vb[i].src].file ELSE NoArchive
    BY <1>4, TakesJob
  <2>2. UNCHANGED <<vdata, archives>>
    BY <1>4 DEF TakeVolumeJob
  <2>3. CASE UNCHANGED vjob
    BY <1>2, <2>2, <2>3
  <2>4. CASE FirstVbStep(vb[i]) \in {"stop", "replace"} /\ vjob'.from = IF vb[i].op = "restore" /\ vb[i].src # 0 THEN vb[vb[i].src].file ELSE NoArchive
    <3>1. vb[i].op = "restore" /\ ~ SourceGone(vb[i]) /\ ~ vb[vb[i].src].s3
      BY <1>t, <2>4 DEF FirstVbStep, VbRow
    <3>2. PICK k \in VbIds : k = vb[i].src
      BY <3>1 DEF RowsAreTrue
    <3>3. HasVb(k) /\ vb[k].file # NoArchive /\ vb[k].op = "backup" /\ ~ vb[k].s3
      BY <3>1, <3>2 DEF SourceGone, RowsAreTrue
    <3>4. BackedUp(k) /\ vb[k].file[1] = k
      BY <3>3 DEF RowsAreTrue, ArchivesMatch, BackedUp
    <3>5. vb[k].file \in Archive
      BY <1>t, <3>3 DEF VbRow
    <3>6. vb[k].file \in DOMAIN archives
      BY <3>3, <3>4, <3>5 DEF ArchivesMatch, OnServer
    <3>7. k # 0
      BY VbAssumption DEF VbIds
    <3>8. vjob'.from = vb[k].file
      BY <2>4, <3>1, <3>2, <3>7
    <3> QED
      BY <1>1, <2>2, <3>6, <3>8
  <2> QED
    BY <1>1, <2>1, <2>2, <2>3, <2>4
<1>5. CASE WriteArchive
  <2>1. TRUE \in BOOLEAN
    OBVIOUS
  <2>2. /\ DOMAIN archives' = DOMAIN archives \cup {<<vjob.id, vjob.run>>} /\ vjob'.pc = "record" /\ UNCHANGED vdata
        /\ \A a \in DOMAIN archives : a # <<vjob.id, vjob.run>> => archives'[a] = archives[a]
        /\ archives'[<<vjob.id, vjob.run>>] <=> vdata = "whole"
    BY <1>5, <2>1, Archives
  <2>3. ASSUME NEW a \in DOMAIN archives' PROVE archives'[a]
    BY <2>2 DEF DataIsWhole
  <2> QED
    BY <2>2, <2>3 DEF DataIsWhole
<1>6. CASE RecordArchive
  <2>1. UNCHANGED <<vdata, archives>> /\ vjob'.pc = "retain"
    BY <1>6, Records DEF RecordArchive
  <2> QED
    BY <1>1, <2>1
<1>7. ASSUME NEW i \in VbIds, ApplyRetention(i) PROVE DataIsWhole'
  <2>1. vjob'.pc = "retain" /\ UNCHANGED vdata
    BY <1>7, Retains
  <2>2. DOMAIN archives' \subseteq DOMAIN archives /\ \A a \in DOMAIN archives' : archives'[a] = archives[a]
    <3>1. vb[i] \in VbRow
      BY <1>t
    <3>2. CASE HasVb(i)
      BY <1>7, <3>1, <3>2, Retains, RemovesFile
    <3>3. CASE ~ HasVb(i)
      BY <1>7, <3>3, Retains
    <3> QED
      BY <3>2, <3>3
  <2> QED
    BY <2>1, <2>2 DEF DataIsWhole
<1>8. CASE EndVolumeBackup \/ EndVolumeRestore \/ VolumeJobFails
  <2>1. UNCHANGED <<vdata, archives>> /\ vjob'.pc = "rest"
    BY <1>8 DEF EndVolumeBackup, EndVolumeRestore, VolumeJobFails, NoVbJob
  <2> QED
    BY <1>1, <2>1
<1>9. CASE DownloadArchive
  <2>1. UNCHANGED <<vdata, archives>> /\ VolumeGoes("fail")
    BY <1>t, <1>9 DEF DownloadArchive
  <2>2. vjob'.pc = "fail"
    BY <2>1, JobGoes
  <2> QED
    BY <1>1, <2>1, <2>2
<1>10. CASE StopBox
  <2>1. UNCHANGED <<vdata, archives>> /\ VolumeGoes("replace") /\ vjob.pc = "stop"
    BY <1>10 DEF StopBox
  <2>2. vjob'.from = vjob.from
    BY <2>1, JobGoes
  <2>3. vjob'.from \in DOMAIN archives
    BY <2>1, <2>2 DEF DataIsWhole
  <2> QED
    BY <1>1, <2>1, <2>3
<1>11. CASE StartBox
  <2>1. UNCHANGED <<vdata, archives>> /\ vjob.pc = "start"
    BY <1>11 DEF StartBox
  <2>2. PICK pc \in {"restored", "fail"} : VolumeGoes(pc)
    BY <1>11 DEF StartBox
  <2>3. vjob'.pc = pc
    BY <2>2, JobGoes
  <2> QED
    BY <1>1, <2>1, <2>3
<1>12. CASE ReplaceData
  <2>1. vjob.pc = "replace" /\ vjob'.pc = "start" /\ UNCHANGED archives
    <3>1. TRUE \in BOOLEAN
      OBVIOUS
    <3> QED
      BY <1>12, <3>1, ReplacesData
  <2>2. vjob.from \in DOMAIN archives /\ archives[vjob.from]
    BY <2>1 DEF DataIsWhole
  <2>3. vdata' = "whole"
    BY <1>12, <2>2 DEF ReplaceData
  <2> QED
    BY <2>1, <2>3 DEF DataIsWhole
<1> QED
  BY <1>2, <1>3, <1>4, <1>5, <1>6, <1>7, <1>8, <1>9, <1>10, <1>11, <1>12 DEF NothingWrong

LEMMA ArchivesStayMatched ==
  ASSUME VolumeTyped, RowsAreTrue, WorkIsTrue, JobsRunOnce, ArchivesMatch, NothingWrong
  PROVE  ArchivesMatch'
<1>t. /\ vb \in [VbIds -> VbRow] /\ vjob \in VbJobs /\ (vjob.pc # "rest" => vjob.id \in VbIds)
      /\ vjob.old \subseteq VbIds /\ DOMAIN archives \subseteq Archive
  BY DEF VolumeTyped, VbJobs
<1>a. \A a \in Archive : a[1] \in VbIds
  BY DEF Archive
\* A row is written that was no success of a backup and does not become one.
<1>1. ASSUME NEW i \in VbIds, NEW row \in VbRow, vb' = [vb EXCEPT ![i] = row], ~ BackedUp(i),
             row.status # "success" \/ row.op # "backup", row.op = "backup" => row.file = NoArchive, row.s3 \/ ~ vb[i].s3,
             UNCHANGED archives, vjob.pc = "record" => vjob.id # i,
             UNCHANGED vjob \/ (vjob.pc # "record" /\ vjob'.pc \notin {"record", "retain"})
      PROVE  ArchivesMatch'
  <2>1. vb'[i] = row /\ \A k \in VbIds : k # i => vb'[k] = vb[k]
    BY <1>1, OneRow
  <2>2. \A k \in VbIds : BackedUp(k)' <=> BackedUp(k)
    BY <1>1, <2>1 DEF BackedUp
  <2>3. ASSUME NEW k \in VbIds, HasVb(k)', vb'[k].op = "backup" PROVE vb'[k].file # NoArchive <=> vb'[k].status = "success"
    <3>1. CASE k = i
      BY <1>1, <2>1, <2>3, <3>1
    <3>2. CASE k # i
      BY <2>1, <2>3, <3>2 DEF ArchivesMatch, HasVb
    <3> QED
      BY <3>1, <3>2
  <2>4. vjob'.pc = "retain" => \A k \in vjob'.old : BackedUp(k)'
    BY <1>t, <1>1, <2>2 DEF ArchivesMatch
  <2>5. ASSUME NEW a \in Archive, ~ vb'[a[1]].s3
        PROVE  a \in DOMAIN archives' <=> (BackedUp(a[1])' /\ vb'[a[1]].file = a) \/ (vjob'.pc = "record" /\ a = <<vjob'.id, vjob'.run>>)
    <3>1. ~ vb[a[1]].s3
      BY <1>a, <1>1, <2>1, <2>5
    <3>2. a \in DOMAIN archives <=> (BackedUp(a[1]) /\ vb[a[1]].file = a) \/ (vjob.pc = "record" /\ a = <<vjob.id, vjob.run>>)
      BY <3>1 DEF ArchivesMatch, OnServer
    <3>3. vjob'.pc = "record" /\ a = <<vjob'.id, vjob'.run>> <=> vjob.pc = "record" /\ a = <<vjob.id, vjob.run>>
      BY <1>1
    <3>4. BackedUp(a[1])' /\ vb'[a[1]].file = a <=> BackedUp(a[1]) /\ vb[a[1]].file = a
      BY <1>a, <1>1, <2>1, <2>2
    <3> QED
      BY <1>1, <3>2, <3>3, <3>4
  <2> QED
    BY <2>3, <2>4, <2>5 DEF ArchivesMatch, OnServer
\* Only the job moves on, and not to or from the record of an archive.
<1>2. ASSUME UNCHANGED <<vb, archives>>, UNCHANGED vjob \/ (vjob.pc # "record" /\ vjob'.pc \notin {"record", "retain"})
      PROVE  ArchivesMatch'
  BY <1>2 DEF ArchivesMatch, OnServer, BackedUp, HasVb
<1>3. ASSUME NEW n \in VbIds, NEW row \in VbRow, vb[n].status = "absent", vb' = [vb EXCEPT ![n] = row], row.status = "queued",
             row.file = NoArchive, UNCHANGED <<archives, vjob>>
      PROVE  ArchivesMatch'
  <2>1. ~ vb[n].s3
    BY <1>3 DEF RowsAreTrue, NoVbRow
  <2>2. vjob.pc = "record" => vjob.id # n
    BY <1>3 DEF WorkIsTrue
  <2> QED
    BY <1>1, <1>3, <2>1, <2>2 DEF BackedUp
<1>4. CASE InsertBackup
  <2>1. UNCHANGED <<archives, vjob>>
    BY <1>4 DEF InsertBackup
  <2> QED
    BY <1>2, <1>3, <1>4, <2>1, InsertsBackup
<1>5. ASSUME NEW i \in VbIds, RequestVolumeRestore(i) PROVE ArchivesMatch'
  <2>1. UNCHANGED <<archives, vjob>>
    BY <1>5 DEF RequestVolumeRestore
  <2>2. \E n \in VbIds, row \in VbRow :
          /\ vb[n].status = "absent" /\ vb' = [vb EXCEPT ![n] = row]
          /\ vqueue' = Append(vqueue, [id |-> n, run |-> 0]) /\ vqueue' \in Seq(VbWaiting)
          /\ row.status = "queued" /\ row.op = "restore" /\ row.file = NoArchive /\ row.src = i
    BY <1>5, InsertsRestore, Zenon
  <2> QED
    BY <1>3, <2>1, <2>2
<1>6. CASE TakeVolumeJob
  <2>1. PICK i \in VbIds :
           /\ vjob.pc = "rest" /\ 1 \in DOMAIN vqueue /\ vqueue[1].id = i
           /\ \/ ~ HasVb(i)
              \/ /\ \E row \in VbRow : /\ vb' = [vb EXCEPT ![i] = row] /\ row.status = "running" /\ row.op = vb[i].op
                                       /\ row.file = vb[i].file /\ (row.s3 <=> vb[i].s3)
                 /\ vjob'.pc = FirstVbStep(vb[i])
    BY <1>6, TakesJob
  <2>2. vb[i].status = "queued" /\ HasVb(i)
    BY <2>1 DEF JobsRunOnce, HasVb
  <2>3. PICK row \in VbRow : /\ vb' = [vb EXCEPT ![i] = row] /\ row.status = "running" /\ row.op = vb[i].op
                             /\ row.file = vb[i].file /\ (row.s3 <=> vb[i].s3)
    BY <2>1, <2>2
  <2>4. vjob'.pc \notin {"record", "retain"}
    BY <2>1, <2>2 DEF FirstVbStep
  <2>5. row.op = "backup" => row.file = NoArchive
    BY <2>2, <2>3 DEF ArchivesMatch
  <2>6. UNCHANGED archives
    BY <1>6 DEF TakeVolumeJob
  <2> QED
    BY <1>1, <2>1, <2>2, <2>3, <2>4, <2>5, <2>6 DEF BackedUp
<1>7. CASE WriteArchive
  <2>1. TRUE \in BOOLEAN
    OBVIOUS
  <2>2. /\ DOMAIN archives' = DOMAIN archives \cup {<<vjob.id, vjob.run>>} /\ vjob'.pc = "record" /\ UNCHANGED vb
        /\ vjob.pc = "archive" /\ vjob'.id = vjob.id /\ vjob'.run = vjob.run
    BY <1>7, <2>1, Archives
  <2>3. \A a \in Archive : ~ vb[a[1]].s3 => (a \in DOMAIN archives <=> BackedUp(a[1]) /\ vb[a[1]].file = a)
    BY <2>2 DEF ArchivesMatch, OnServer
  <2> QED
    BY <2>2, <2>3 DEF ArchivesMatch, OnServer, BackedUp, HasVb
<1>8. CASE RecordArchive
  <2>1. PICK i \in VbIds : i = vjob.id
    BY <1>8, Records
  <2>2. vjob.pc = "record" /\ vjob'.pc = "retain" /\ vjob'.old = Excess(vb') /\ UNCHANGED archives
    BY <1>8, Records DEF RecordArchive
  <2>3. vb[i].status = "running" /\ HasVb(i) /\ vb[i].op = "backup"
    BY <2>1, <2>2 DEF JobsRunOnce, WorkIsTrue, HasVb
  <2>4. PICK row \in VbRow : /\ vb' = [vb EXCEPT ![i] = row] /\ row.status = "success" /\ row.op = "backup"
                             /\ row.file = <<i, vjob.run>> /\ (row.s3 <=> vb[i].s3)
    BY <1>8, <2>1, <2>3, Records
  <2>5. vb'[i] = row /\ \A k \in VbIds : k # i => vb'[k] = vb[k]
    BY <2>4, OneRow
  <2>6. row.file \in Archive
    <3>1. vjob.run \in 0..1
      BY <1>t DEF VbJobs
    <3> QED
      BY <2>4, <3>1 DEF Archive
  <2>7. ASSUME NEW k \in VbIds, HasVb(k)', vb'[k].op = "backup" PROVE vb'[k].file # NoArchive <=> vb'[k].status = "success"
    <3>1. CASE k = i
      BY <2>4, <2>5, <2>6, <3>1, NoArchiveIsNone
    <3>2. CASE k # i
      BY <2>5, <2>7, <3>2 DEF ArchivesMatch, HasVb
    <3> QED
      BY <3>1, <3>2
  <2>8. \A k \in vjob'.old : BackedUp(k)'
    BY <2>2 DEF Excess, BackedUp
  <2>9. ASSUME NEW a \in Archive, ~ vb'[a[1]].s3 PROVE a \in DOMAIN archives' <=> BackedUp(a[1])' /\ vb'[a[1]].file = a
    <3>1. ~ vb[a[1]].s3
      BY <1>a, <2>4, <2>5, <2>9
    <3>2. a \in DOMAIN archives <=> (BackedUp(a[1]) /\ vb[a[1]].file = a) \/ a = <<i, vjob.run>>
      BY <2>1, <2>2, <3>1 DEF ArchivesMatch, OnServer
    <3>3. CASE a[1] = i
      <4>1. a \in DOMAIN archives <=> a = <<i, vjob.run>>
        BY <2>3, <3>2, <3>3 DEF BackedUp
      <4>2. BackedUp(a[1])' /\ vb'[a[1]].file = a <=> a = <<i, vjob.run>>
        BY <2>4, <2>5, <3>3 DEF BackedUp
      <4> QED
        BY <2>2, <4>1, <4>2
    <3>4. CASE a[1] # i
      <4>1. a # <<i, vjob.run>>
        BY <3>4
      <4>2. vb'[a[1]] = vb[a[1]]
        BY <1>a, <2>5, <3>4
      <4> QED
        BY <2>2, <3>2, <4>1, <4>2 DEF BackedUp
    <3> QED
      BY <3>3, <3>4
  <2> QED
    BY <2>2, <2>7, <2>8, <2>9 DEF ArchivesMatch, OnServer
<1>9. ASSUME NEW i \in VbIds, ApplyRetention(i) PROVE ArchivesMatch'
  <2>1. vjob.pc = "retain" /\ i \in vjob.old /\ vjob'.pc = "retain" /\ vjob'.old = vjob.old \ {i}
    BY <1>9, Retains
  <2>2. PICK row \in VbRow : /\ vb' = [vb EXCEPT ![i] = row] /\ row.status = "deleted" /\ row.op = "backup" /\ row.file = NoArchive
                             /\ (row.s3 <=> vb[i].s3)
    BY <1>9, Retains
  <2>3. vb'[i] = row /\ \A k \in VbIds : k # i => vb'[k] = vb[k]
    BY <2>2, OneRow
  <2>4. BackedUp(i) /\ HasVb(i) /\ vb[i].file # NoArchive /\ vb[i].file[1] = i
    BY <2>1 DEF ArchivesMatch, BackedUp, HasVb, RowsAreTrue
  <2>5. /\ DOMAIN archives' \subseteq DOMAIN archives
        /\ \A a \in DOMAIN archives : a \in DOMAIN archives' \/ vb[i].file = a
        /\ ~ vb[i].s3 => vb[i].file \notin DOMAIN archives'
    <3>1. vb[i] \in VbRow /\ removeVolumeBackupFile(vb[i])
      BY <1>t, <1>9, <2>4, Retains
    <3> QED
      BY <2>4, <3>1, RemovesFile DEF BackedUp
  <2>6. \A k \in VbIds : HasVb(k)' /\ vb'[k].op = "backup" => (vb'[k].file # NoArchive <=> vb'[k].status = "success")
    BY <2>2, <2>3 DEF ArchivesMatch, HasVb
  <2>7. \A k \in vjob'.old : BackedUp(k)'
    BY <1>t, <2>1, <2>3 DEF ArchivesMatch, BackedUp
  <2>8. ASSUME NEW a \in Archive, ~ vb'[a[1]].s3 PROVE a \in DOMAIN archives' <=> BackedUp(a[1])' /\ vb'[a[1]].file = a
    <3>1. ~ vb[a[1]].s3
      BY <1>a, <2>2, <2>3, <2>8
    <3>2. a \in DOMAIN archives <=> BackedUp(a[1]) /\ vb[a[1]].file = a
      BY <2>1, <3>1 DEF ArchivesMatch, OnServer
    <3>3. CASE a[1] = i
      <4>1. a \notin DOMAIN archives'
        BY <2>5, <3>1, <3>2, <3>3
      <4>2. ~ BackedUp(a[1])'
        BY <2>2, <2>3, <3>3 DEF BackedUp
      <4> QED
        BY <4>1, <4>2
    <3>4. CASE a[1] # i
      <4>1. a # vb[i].file
        BY <2>4, <3>4
      <4>2. vb'[a[1]] = vb[a[1]]
        BY <1>a, <2>3, <3>4
      <4> QED
        BY <2>5, <3>2, <4>1, <4>2 DEF BackedUp
    <3> QED
      BY <3>3, <3>4
  <2> QED
    BY <2>1, <2>6, <2>7, <2>8 DEF ArchivesMatch, OnServer
<1>10. CASE EndVolumeBackup
  BY <1>2, <1>10 DEF EndVolumeBackup, NoVbJob
<1>11. CASE DownloadArchive \/ StopBox \/ StartBox
  <2>1. UNCHANGED <<vb, archives>> /\ vjob.pc \in {"download", "stop", "start"}
    BY <1>11 DEF DownloadArchive, StopBox, StartBox
  <2>2. PICK pc \in {"stop", "fail", "replace", "restored"} : VolumeGoes(pc)
    BY <1>11 DEF DownloadArchive, StopBox, StartBox
  <2>3. vjob'.pc = pc
    BY <2>2, JobGoes
  <2> QED
    BY <1>2, <2>1, <2>3
<1>12. CASE ReplaceData
  <2>1. UNCHANGED <<vb, archives>> /\ vjob.pc = "replace" /\ vjob'.pc = "start"
    <3>1. TRUE \in BOOLEAN
      OBVIOUS
    <3> QED
      BY <1>12, <3>1, ReplacesData
  <2> QED
    BY <1>2, <2>1
<1>13. CASE EndVolumeRestore \/ VolumeJobFails
  <2>1. PICK i \in VbIds : i = vjob.id
    BY <1>13, Finishes
  <2>2. UNCHANGED archives /\ vjob.pc \in {"restored", "fail"} /\ vjob'.pc = "rest"
    BY <1>13 DEF EndVolumeRestore, VolumeJobFails, NoVbJob
  <2>3. vb[i].op = "restore"
    BY <2>1, <2>2 DEF JobsRunOnce, WorkIsTrue, HasVb
  <2>4. PICK row \in VbRow : vb' = [vb EXCEPT ![i] = row] /\ row.op = vb[i].op /\ (row.s3 <=> vb[i].s3)
    BY <1>13, <2>1, Finishes
  <2> QED
    BY <1>1, <2>2, <2>3, <2>4 DEF BackedUp
<1> QED
  BY <1>2, <1>4, <1>5, <1>6, <1>7, <1>8, <1>9, <1>10, <1>11, <1>12, <1>13 DEF NothingWrong

LEMMA StepVolumes ==
  ASSUME VolumeInv, [VolumeNext]_volumeVars
  PROVE  VolumeInv'
<1>1. VolumeTyped /\ RowsAreTrue /\ WorkIsTrue /\ DropIsOver /\ BoxIsUp /\ ArchiveIsThere /\ AllGoesWell
  BY DEF VolumeInv
<1>2. CASE VolumeNext
  <2>1. VolumeTyped'
    BY <1>1, <1>2, VolumeStaysTyped
  <2>2. RowsAreTrue'
    BY <1>1, <1>2, RowsMoveOn, RowsStayTrue
  <2>3. WorkIsTrue'
    BY <1>1, <1>2, WorkStaysTrue
  <2>4. DropIsOver' /\ BoxIsUp'
    BY <1>1, <1>2, DropStaysOver, BoxStaysUp
  <2>5. ArchiveIsThere'
    BY <1>1, <1>2, ArchiveStaysThere
  <2>6. AllGoesWell'
    <3> SUFFICES ASSUME vluck' = {} PROVE vdrop'.pc # "row" /\ JobsRunOnce' /\ ArchivesMatch' /\ DataIsWhole'
      BY DEF AllGoesWell
    <3>1. vluck = {}
      BY <1>2, LuckStays
    <3>2. vdrop.pc # "row" /\ JobsRunOnce /\ ArchivesMatch /\ DataIsWhole
      BY <1>1, <3>1 DEF AllGoesWell
    <3>3. NothingWrong
      BY <1>2, <3>2, WithoutLuck
    <3>4. vdrop'.pc # "row"
      BY <3>2, <3>3 DEF NothingWrong
    <3>5. vjob.pc = "retain" => \A i \in vjob.old : BackedUp(i)
      BY <3>2 DEF ArchivesMatch
    <3> QED
      BY <1>1, <3>2, <3>3, <3>4, <3>5, JobsStayOnce, ArchivesStayMatched, DataStaysWhole
  <2> QED
    BY <2>1, <2>2, <2>3, <2>4, <2>5, <2>6 DEF VolumeInv
<1>3. CASE UNCHANGED volumeVars
  <2>1. UNCHANGED <<vb, archives, inS3, vdata, box, vqueue, vjob, vask, vdrop, vused, vluck>>
    BY <1>3 DEF volumeVars
  <2>2. VolumeTyped'
    BY <1>1, <2>1 DEF VolumeTyped
  <2>3. RowsAreTrue' /\ WorkIsTrue' /\ DropIsOver' /\ BoxIsUp' /\ ArchiveIsThere'
    BY <1>1, <2>1 DEF RowsAreTrue, WorkIsTrue, DropIsOver, BoxIsUp, ArchiveIsThere, BackedUp, HasVb
  <2>4. AllGoesWell'
    <3>1. JobsRunOnce' <=> JobsRunOnce
      BY <2>1 DEF JobsRunOnce
    <3>2. ArchivesMatch' <=> ArchivesMatch
      BY <2>1 DEF ArchivesMatch, OnServer, BackedUp, HasVb
    <3>3. DataIsWhole' <=> DataIsWhole
      BY <2>1 DEF DataIsWhole
    <3> QED
      BY <1>1, <2>1, <3>1, <3>2, <3>3 DEF AllGoesWell
  <2> QED
    BY <2>2, <2>3, <2>4 DEF VolumeInv
<1> QED
  BY <1>2, <1>3

\* The backups of a volume and of the panel itself are of use: what is listed as a success is there and whole, a restore
\* loses nothing by itself, the container comes back, and the retention keeps what it promises.
THEOREM BackupsAlwaysHold == AllSpec => []BackupsHold
<1> DEFINE Inv == VolumeInv /\ PanelBackupInv
<1>1. AllInit => Inv
  BY InitVolumes, InitPanelBackup DEF AllInit
<1>2. Inv /\ [AllSteps]_AllVars => Inv'
  BY PanelSteps, StepVolumes, StepPanelBackup
<1>3. Inv => BackupsHold
  BY VolumesAreSound, PanelBackupIsSound DEF BackupsHold
<1> QED
  BY <1>1, <1>2, <1>3, PTL DEF AllSpec

----------------------------------------------------------------------------
(* Types: the teams' rows                                                   *)

\* Every request that was let in is counted.
LEMMA TeamRowsCount ==
  ASSUME TeamRows
  PROVE  Counted
<1> SUFFICES ASSUME NEW t \in Teams, NEW u \in Users,
               \/ Registries(t, u) \/ GitSources(t, u) \/ Storages(t, u) \/ SshKeys(t, u) \/ LogDrains(t, u)
               \/ Channels(t, u) \/ Tags(t, u) \/ ApiTokens(t, u) \/ SharedVariables(t, u)
               \/ \E a \in Apps, wanted \in SUBSET Ids : AssignTags(t, u, a, wanted)
               \/ InstallUrl(t, u) \/ GithubTeam(t, u)
               \/ TeamReads(t, u) \/ Search(t, u) \/ SetMcp(t, u) \/ ListServers(t, u) \/ ImageUpdates(t, u)
               \/ \E i \in Ids : CreateVps(t, u, i)
               \/ \E s \in Places : SetServerFlags(t, u, s) \/ ServerMaintenance(t, u, s) \/ ProxyLogs(t, u, s)
               \/ \E i \in Ids : ChangeTag(t, u, i)
               \/ \E e \in Places : Projects(t, u, e) \/ ProjectEnvironments(t, u, e)
               \/ \E on \in BOOLEAN : SetSecurity(t, u, on)
             PROVE  Counted
  BY DEF TeamRows
<1> USE DEF Session, Acts
<1>1. ASSUME NEW i \in Ids, Lists(t, u) \/ Adds(t, u, i) \/ Edits(t, u, i) \/ Removes(t, u, i) PROVE Counted
  BY <1>1 DEF Lists, Adds, Edits, Removes
<1>2. Lists(t, u) => Counted
  BY DEF Lists
<1>3. CASE \/ Registries(t, u) \/ GitSources(t, u) \/ Storages(t, u) \/ SshKeys(t, u) \/ LogDrains(t, u)
           \/ Channels(t, u) \/ Tags(t, u) \/ ApiTokens(t, u) \/ SharedVariables(t, u)
           \/ \E i \in Ids : ChangeTag(t, u, i)
  BY <1>1, <1>2, <1>3 DEF Registries, GitSources, Storages, SshKeys, LogDrains, Channels, Tags, ApiTokens,
     SharedVariables, AddVariable, ChangeTag
<1>4. CASE \/ \E a \in Apps, wanted \in SUBSET Ids : AssignTags(t, u, a, wanted)
           \/ InstallUrl(t, u) \/ GithubTeam(t, u)
           \/ TeamReads(t, u) \/ Search(t, u) \/ SetMcp(t, u) \/ ListServers(t, u) \/ ImageUpdates(t, u)
  BY <1>2, <1>4 DEF AssignTags, InstallUrl, GithubTeam, TeamReads, Search, SetMcp, ListServers, ImageUpdates
<1>5. CASE \/ \E i \in Ids : CreateVps(t, u, i)
           \/ \E s \in Places : SetServerFlags(t, u, s) \/ ServerMaintenance(t, u, s) \/ ProxyLogs(t, u, s)
           \/ \E e \in Places : Projects(t, u, e) \/ ProjectEnvironments(t, u, e)
           \/ \E on \in BOOLEAN : SetSecurity(t, u, on)
  BY <1>5 DEF CreateVps, SetServerFlags, ServerMaintenance, ProxyLogs, VisitsServer, Projects, ProjectEnvironments,
     SetSecurity
<1> QED
  BY <1>3, <1>4, <1>5

LEMMA ApplicationRowsCount ==
  ASSUME ApplicationRows
  PROVE  Counted
<1> SUFFICES ASSUME NEW t \in Teams, NEW u \in Users, NEW e \in Places,
               \/ ListApplications(t, e, u) \/ ListDatabases(t, e, u) \/ ListServices(t, e, u)
               \/ \E a \in Apps, s \in Places, i \in Ids \cup {NoRef} : CreateApplication(t, e, u, a, s, i)
               \/ \E a \in {b \in Apps : loadApplication(e, b)} :
                     \/ \E i \in Ids : SetSource(t, e, u, a, i)
                     \/ \E i \in Ids \cup {NoRef} : SetRegistry(t, e, u, a, i)
                     \/ \E s \in Places : BeginBuildServer(t, e, u, a, s)
                     \/ \E to \in Places : MoveApplication(t, e, u, a, to)
                     \/ ConnectFile(t, e, u, a) \/ DeleteApplication(t, e, u, a)
                     \/ \E copy \in Apps, to, s \in Places : Clone(t, e, u, a, copy, to, s)
                     \/ SetDeployToken(t, e, u, a) \/ RemoveDeployToken(t, e, u, a)
                     \/ ApplicationVisits(t, e, u, a) \/ DatabaseVisits(t, e, u, a) \/ ServiceVisits(t, e, u, a)
                     \/ \E b \in Apps : PartVisits(t, e, u, a, b)
             PROVE  Counted
  BY DEF ApplicationRows
<1>1. ASSUME NEW a \in Apps, InScope(t, e, u, a) PROVE Counted
  BY <1>1 DEF InScope, Session, Acts
<1>2. CASE \/ ListApplications(t, e, u) \/ ListDatabases(t, e, u) \/ ListServices(t, e, u)
           \/ \E a \in Apps, s \in Places, i \in Ids \cup {NoRef} : CreateApplication(t, e, u, a, s, i)
  BY <1>2 DEF ListApplications, ListDatabases, ListServices, CreateApplication, Session, Acts
<1>3. ASSUME NEW a \in Apps,
             \/ \E i \in Ids : SetSource(t, e, u, a, i)
             \/ \E i \in Ids \cup {NoRef} : SetRegistry(t, e, u, a, i)
             \/ \E s \in Places : BeginBuildServer(t, e, u, a, s)
             \/ \E to \in Places : MoveApplication(t, e, u, a, to)
             \/ ConnectFile(t, e, u, a) \/ DeleteApplication(t, e, u, a)
             \/ \E copy \in Apps, to, s \in Places : Clone(t, e, u, a, copy, to, s)
             \/ SetDeployToken(t, e, u, a) \/ RemoveDeployToken(t, e, u, a)
      PROVE  Counted
  BY <1>1, <1>3 DEF SetSource, SetRegistry, BeginBuildServer, MoveApplication, ConnectFile, DeleteApplication, Clone,
     SetDeployToken, RemoveDeployToken
<1>4. ASSUME NEW a \in Apps, ApplicationVisits(t, e, u, a) \/ DatabaseVisits(t, e, u, a) \/ ServiceVisits(t, e, u, a)
      PROVE  Counted
  <2>1. Visits(t, e, u, a)
    BY <1>4 DEF ApplicationVisits, DatabaseVisits, ServiceVisits, GetApplication, SetDeployCommands, ContainerLogs,
       ListTasks, ListVolumes, ContainerStats, MetricHistories, ListDeployments, ListRollbackImages, BrowseFiles,
       GetDatabase, DatabaseConnection, UploadRestore, GetService, SetServiceLimits, StackContainers, StackLogs
  <2> QED
    BY <1>1, <2>1 DEF Visits
<1>5. ASSUME NEW a \in Apps, NEW b \in Apps, PartVisits(t, e, u, a, b) PROVE Counted
  BY <1>5 DEF PartVisits, TaskExecutions, GetDeployment, BackupSchedules, DownloadBackup, StackVolumes, VisitsPart,
     Session, Acts
<1> QED
  BY <1>2, <1>3, <1>4, <1>5

\* Requests are counted and stop at their bound.
RequestBound == requests \in 0 .. MaxTenantRequests

LEMMA RequestsStayCounted == RequestBound /\ [TenantNext]_tenantVars => RequestBound'
<1> SUFFICES ASSUME RequestBound, [TenantNext]_tenantVars PROVE RequestBound'
  OBVIOUS
<1>1. CASE Counted
  BY <1>1, TenancyAssumption DEF Counted, RequestBound
<1>2. CASE UNCHANGED requests
  BY <1>2 DEF RequestBound
<1>3. TokenRows => Counted
  BY DEF TokenRows, CiReads, Mcp, CiTriggers, moveResource, Bearer, Acts
<1>4. TenantNext => Counted \/ UNCHANGED requests
  BY <1>3, TeamRowsCount, ApplicationRowsCount
     DEF TenantNext, CommitBuildServer, HookDeploys, TwoFactor, GithubCallback, StateExpires, Session, Acts
<1> QED
  BY <1>1, <1>2, <1>4 DEF tenantVars

LEMMA TeamsAreTyped == TeamInv /\ TouchInv /\ RequestBound => TenantTypeOK
  BY DEF TeamInv, TouchInv, RequestBound, RowsTyped, OwnerTyped, AppTyped, AppRow, RestTyped, TenantTypeOK

----------------------------------------------------------------------------

----------------------------------------------------------------------------
(* Types: accounts                                                          *)

\* Requests are counted, and a password is written as often as a reset that began allows.
AuthBound ==
    /\ authSteps \in 0 .. MaxAuthSteps
    /\ \A u \in Accounts : account[u].pw <= 2
    /\ reset.pc = "password" => account[reset.user].pw < 2

\* Every step but the reset leaves a password as it is, or begins an account with the first one.
KeepsPasswords == \A u \in Accounts : account'[u].pw \in {account[u].pw, 0}
StepsCounted == AuthStep \/ UNCHANGED authSteps

LEMMA PasswordsKept ==
  ASSUME AuthInv, AuthNext, reset.pc = "password" => ~ \E off \in BOOLEAN : WritePassword(off)
  PROVE  StepsCounted /\ KeepsPasswords /\ (UNCHANGED reset \/ reset' = NoReset \/ \E u \in Accounts : BeginReset(u))
<1>0. account \in [Accounts -> AccountRows] /\ attempt \in [Attempts -> AttemptRows]
  BY DEF AuthInv, AuthTyped
<1> DEFINE Goal == StepsCounted /\ KeepsPasswords /\ (UNCHANGED reset \/ reset' = NoReset \/ \E u \in Accounts : BeginReset(u))
<1> SUFFICES Goal
  OBVIOUS
<1>1. UNCHANGED account => KeepsPasswords
  BY DEF KeepsPasswords
<1>2. ASSUME NEW l \in Attempts,
             \/ \E u \in Accounts : BeginRegister(l, u) \/ PasskeyLogin(l, u)
             \/ \E u \in Accounts, code \in Codes \cup {"totp", "wrong"} : BeginLogin(l, u, code)
             \/ VerifyPassword(l) \/ PasskeyLoginOptions(l) \/ \E s \in Sessions : createSession(l, s)
      PROVE  Goal
  BY <1>1, <1>2 DEF BeginRegister, PasskeyLogin, BeginLogin, VerifyPassword, PasskeyLoginOptions, createSession, StepsCounted
<1>3. ASSUME NEW l \in Attempts, Register(l) PROVE Goal
  <2>1. CASE account[attempt[l].user].exists
    BY <1>1, <1>3, <2>1 DEF Register, StepsCounted
  <2>2. CASE ~ account[attempt[l].user].exists
    <3>1. account' = [account EXCEPT ![attempt[l].user] = [NoAccount EXCEPT !.exists = TRUE]] /\ UNCHANGED <<reset, authSteps>>
      BY <1>3, <2>2 DEF Register
    <3>2. [NoAccount EXCEPT !.exists = TRUE].pw = 0
      BY DEF NoAccount
    <3>3. KeepsPasswords
      BY <1>0, <3>1, <3>2 DEF KeepsPasswords
    <3> QED
      BY <3>1, <3>3 DEF StepsCounted
  <2> QED
    BY <2>1, <2>2
<1>4. ASSUME NEW l \in Attempts, checkSecondFactor(l) PROVE Goal
  <2>1. UNCHANGED <<reset, authSteps>>
    BY <1>4 DEF checkSecondFactor
  <2>2. UNCHANGED account \/ \E v \in Accounts \cup {"none"}, K \in SUBSET Codes : account' = [account EXCEPT ![v].codes = K]
    <3>1. attempt[l].user \in Accounts \cup {"none"} /\ attempt[l].row.codes \in SUBSET Codes
      BY <1>0 DEF AttemptRows, AccountRows
    <3> QED
      BY <1>4, <3>1 DEF checkSecondFactor
  <2>3. KeepsPasswords
    BY <1>0, <1>1, <2>2 DEF KeepsPasswords, AccountRows
  <2> QED
    BY <2>1, <2>3 DEF StepsCounted
<1>5. ASSUME NEW u \in Accounts, SetupTwoFactor(u) \/ EnableTwoFactor(u) \/ DisableTwoFactor(u) PROVE Goal
  <2>1. UNCHANGED reset /\ AuthStep
    BY <1>5 DEF SetupTwoFactor, EnableTwoFactor, DisableTwoFactor
  <2>2. \E x \in {"setup", "on", "off"}, K \in SUBSET Codes :
           account' = [account EXCEPT ![u].totp = x] \/ account' = [account EXCEPT ![u].totp = x, ![u].codes = K]
    BY <1>5 DEF SetupTwoFactor, EnableTwoFactor, DisableTwoFactor
  <2>3. KeepsPasswords
    BY <1>0, <2>2 DEF KeepsPasswords, AccountRows
  <2> QED
    BY <2>1, <2>3 DEF StepsCounted
<1>6. ASSUME NEW u \in Accounts, BeginReset(u) \/ PasskeyOptions(u) \/ AddPasskey(u) \/ RemovePasskey(u) PROVE Goal
  BY <1>1, <1>6 DEF BeginReset, PasskeyOptions, AddPasskey, RemovePasskey, StepsCounted
<1>7. CASE EndSessions \/ (\E s \in Sessions : destroySession(s)) \/ \E k \in Keys : ChallengeExpires(k)
  BY <1>1, <1>7 DEF EndSessions, destroySession, ChallengeExpires, StepsCounted
<1>8. ~ \E off \in BOOLEAN : WritePassword(off)
  BY DEF WritePassword
<1> HIDE DEF Goal
<1> QED
  BY <1>2, <1>3, <1>4, <1>5, <1>6, <1>7, <1>8 DEF AuthNext

LEMMA AccountsStayBounded == AuthInv /\ AuthBound /\ [AuthNext]_authVars => AuthBound'
<1> SUFFICES ASSUME AuthInv, AuthBound, [AuthNext]_authVars PROVE AuthBound'
  OBVIOUS
<1>0. account \in [Accounts -> AccountRows] /\ reset \in [pc : {"rest", "password", "sessions"}, user : Accounts \cup {"none"}]
      /\ (reset.pc # "rest" => reset.user \in Accounts)
  BY DEF AuthInv, AuthTyped
<1>1. CASE UNCHANGED authVars
  BY <1>1 DEF authVars, AuthBound
<1>2. ASSUME NEW off \in BOOLEAN, WritePassword(off) PROVE AuthBound'
  <2>1. /\ reset.pc = "password" /\ account[reset.user].pw < 2 /\ UNCHANGED authSteps /\ reset.user \in Accounts
        /\ reset' = [reset EXCEPT !.pc = "sessions"]
        /\ account' = [account EXCEPT ![reset.user].pw = @ + 1, ![reset.user].totp = IF off THEN "off" ELSE @,
                                      ![reset.user].codes = IF off THEN {} ELSE @]
    BY <1>0, <1>2 DEF WritePassword, AuthBound
  <2>2. reset'.pc = "sessions"
    BY <1>0, <2>1
  <2>3. \A u \in Accounts : account'[u].pw = IF u = reset.user THEN account[u].pw + 1 ELSE account[u].pw
    BY <1>0, <2>1 DEF AccountRows
  <2>4. \A u \in Accounts : account'[u].pw <= 2
    BY <1>0, <2>1, <2>3 DEF AuthBound, AccountRows
  <2> QED
    BY <2>1, <2>2, <2>4 DEF AuthBound
<1>3. CASE AuthNext /\ ~ \E off \in BOOLEAN : WritePassword(off)
  <2>1. StepsCounted /\ KeepsPasswords /\ (UNCHANGED reset \/ reset' = NoReset \/ \E u \in Accounts : BeginReset(u))
    BY <1>3, PasswordsKept
  <2>2. authSteps' \in 0 .. MaxAuthSteps
    BY <2>1, SignInAssumption DEF StepsCounted, AuthStep, AuthBound
  <2>3. \A u \in Accounts : account'[u].pw <= 2 /\ (account[u].pw < 2 => account'[u].pw < 2)
    BY <2>1 DEF KeepsPasswords, AuthBound
  <2>4. CASE UNCHANGED reset \/ reset' = NoReset
    BY <1>0, <2>2, <2>3, <2>4 DEF AuthBound, NoReset
  <2>5. ASSUME NEW u \in Accounts, BeginReset(u) PROVE AuthBound'
    <3>1. reset'.user = u /\ account[u].pw < 2
      BY <2>5 DEF BeginReset
    <3> QED
      BY <2>2, <2>3, <3>1 DEF AuthBound
  <2> QED
    BY <2>1, <2>4, <2>5
<1> QED
  BY <1>1, <1>2, <1>3

LEMMA AccountsBegin == AuthInit => AuthBound
BY SignInAssumption DEF AuthInit, NoAccount, NoReset, AuthBound

LEMMA AccountsAreTyped == AuthInv /\ AuthBound => AuthTypeOK
<1> SUFFICES ASSUME AuthInv, AuthBound PROVE AuthTypeOK
  OBVIOUS
<1>1. AuthTyped
  BY DEF AuthInv
<1>2. ASSUME NEW u \in Accounts PROVE account[u] \in AccountRows /\ account[u].pw \in 0 .. 2
  <2>1. account[u] \in AccountRows
    BY <1>1 DEF AuthTyped
  <2>2. account[u].pw \in Nat /\ account[u].pw <= 2
    BY <2>1 DEF AuthBound, AccountRows
  <2> QED
    BY <2>1, <2>2
<1>3. \A s \in Sessions : session[s].user \in Accounts \cup {"none"}
  BY <1>1 DEF AuthTyped, NoSession, OpenSessions
<1>4. \A l \in Attempts : attempt[l] \in AttemptRows
  BY <1>1 DEF AuthTyped
<1> QED
  BY <1>1, <1>2, <1>3, <1>4 DEF AuthTyped, AuthBound, AuthTypeOK, AccountRows, AttemptRows

----------------------------------------------------------------------------
(* Types: browsers and terminals                                            *)

\* Sessions and resources only go, and events and faults are counted up to their bounds.
ConnBound ==
    /\ live \subseteq Logins /\ present \subseteq Resources
    /\ connUsed \in [events : 0 .. MaxEvents, faults : 0 .. MaxDrops, overlap : BOOLEAN]

LEMMA ConnectionsStayBounded ==
  ConnBound /\ [RelayNext \/ TerminalNext \/ \E s \in Logins : SessionEnds(s)]_connVars => ConnBound'
<1> SUFFICES ASSUME ConnBound, [RelayNext \/ TerminalNext \/ \E s \in Logins : SessionEnds(s)]_connVars PROVE ConnBound'
  OBVIOUS
<1> DEFINE Calm == UNCHANGED connUsed
           Event == connUsed.events < MaxEvents /\ connUsed' = [connUsed EXCEPT !.events = @ + 1]
           Overlap == \E b \in BOOLEAN : connUsed' = [connUsed EXCEPT !.overlap = @ \/ b]
<1>1. Calm \/ Event \/ Faulty \/ Overlap => connUsed' \in [events : 0 .. MaxEvents, faults : 0 .. MaxDrops, overlap : BOOLEAN]
  <2>1. Calm \/ Overlap => connUsed' \in [events : 0 .. MaxEvents, faults : 0 .. MaxDrops, overlap : BOOLEAN]
    BY DEF ConnBound
  <2>2. Event => connUsed' \in [events : 0 .. MaxEvents, faults : 0 .. MaxDrops, overlap : BOOLEAN]
    BY ConnAssumption DEF ConnBound
  <2>3. Faulty => connUsed' \in [events : 0 .. MaxEvents, faults : 0 .. MaxDrops, overlap : BOOLEAN]
    BY ConnAssumption DEF ConnBound, Faulty
  <2> QED
    BY <2>1, <2>2, <2>3
<1>2. RelayNext => (Calm \/ Event \/ Faulty) /\ UNCHANGED live /\ present' \subseteq present
  BY DEF RelayNext, Connect, Upgrade, Disconnect, Refresh, RefreshFails, Publish, ResourceDeleted, CacheExpires, OwnerFound,
     BeginRefresh, EndRefresh, KeepTerminals
<1>3. TerminalNext => (Calm \/ Faulty \/ Overlap) /\ UNCHANGED <<live, present>>
  <2>1. ASSUME NEW t \in Terminals, OpenTerminal(t) PROVE Overlap /\ UNCHANGED <<live, present>>
    BY <2>1 DEF OpenTerminal, KeepRelay
  <2>2. ASSUME NEW t \in Terminals,
               CheckLimit(t) \/ RegisterTerminal(t) \/ SshConnects(t) \/ ShellOpens(t) \/ CloseTerminal(t) \/ SshFails(t)
        PROVE  (Calm \/ Faulty) /\ UNCHANGED <<live, present>>
    BY <2>2 DEF CheckLimit, RegisterTerminal, SshConnects, ShellOpens, CloseTerminal, SshFails, KeepRelay
  <2> QED
    BY <2>1, <2>2 DEF TerminalNext
<1>4. (\E s \in Logins : SessionEnds(s)) => Calm /\ live' \subseteq live /\ UNCHANGED present
  BY DEF SessionEnds, KeepRelay
<1>5. UNCHANGED connVars => Calm /\ UNCHANGED <<live, present>>
  BY DEF connVars
<1> HIDE DEF Calm, Event, Overlap
<1> QED
  BY <1>1, <1>2, <1>3, <1>4, <1>5 DEF ConnBound

LEMMA ConnectionsBegin == ConnInit => ConnBound
BY ConnAssumption DEF ConnInit, ConnBound

LEMMA ConnectionsAreTyped == RelayInv /\ TerminalInv /\ ConnBound => ConnTypeOK
<1> SUFFICES ASSUME RelayInv, TerminalInv, ConnBound PROVE ConnTypeOK
  OBVIOUS
<1>1. ASSUME NEW w \in Sockets PROVE sock[w].pc \in {"closed", "upgrade", "open"} /\ sock[w].doomed \in BOOLEAN
  <2>1. sock[w] = ClosedSocket \/ sock[w] \in OpenSockets
    BY DEF RelayInv, RelayTyped
  <2>2. ClosedSocket.pc = "closed" /\ ClosedSocket.doomed = FALSE
    BY DEF ClosedSocket
  <2>3. sock[w] \in OpenSockets => sock[w].pc \in {"upgrade", "open"} /\ sock[w].doomed \in BOOLEAN
    BY DEF OpenSockets
  <2> QED
    BY <2>1, <2>2, <2>3
<1>2. \A t \in Terminals : term[t].pc \in {"rest", "session", "register", "connect", "shell", "open", "done"}
  BY DEF TerminalInv, TermRecords
<1> QED
  BY <1>1, <1>2 DEF RelayInv, RelayTyped, ConnBound, ConnTypeOK

----------------------------------------------------------------------------
(* Types: the container watch                                               *)

\* What is seen of a container, and what is counted of it, stays within the limits of the throttle and of the tracker.
WatchBound ==
    /\ seenState \in [Containers -> [state : ContainerState, restarts : 0 .. MaxRestartCount, oom : BOOLEAN]]
    /\ asleep \subseteq Containers
    /\ counts \in [Containers -> -1 .. MaxRestartCount]
    /\ alerted \in [Containers -> 0 .. AlertTicks]
    /\ settled \in [Containers -> [state : ContainerState, n : 0 .. Limit]]
    /\ clock \in 0 .. MaxWatchTicks

LEMMA WatchBegins == WatchInit => WatchBound
BY WatchAssumption, LimitIsBoth DEF WatchInit, WatchBound, ContainerState

LEMMA CountsUpTo == \A limit \in Nat : \A n \in 0 .. limit : UpTo(n + 1, limit) \in 0 .. limit
BY DEF UpTo

LEMMA WatchStaysBounded == WatchBound /\ [WatchNext]_watchVars => WatchBound'
<1> SUFFICES ASSUME WatchBound, [WatchNext]_watchVars PROVE WatchBound'
  OBVIOUS
<1>1. CASE UNCHANGED watchVars
  BY <1>1 DEF watchVars, WatchBound
<1>2. \A c \in Containers : UpTo(alerted[c] + 1, AlertTicks) \in 0 .. AlertTicks
  BY CountsUpTo, WatchAssumption DEF WatchBound
<1>3. TimePasses => clock' \in 0 .. MaxWatchTicks
  BY WatchAssumption DEF TimePasses, WatchBound
<1>4. CASE Poll
  <2>1. clock' \in 0 .. MaxWatchTicks /\ UNCHANGED <<seenState, asleep>>
    BY <1>3, <1>4 DEF Poll
  <2>2. CASE Present = {}
    <3>1. UNCHANGED <<counts, settled>> /\ alerted' = [c \in Containers |-> UpTo(alerted[c] + 1, AlertTicks)]
      BY <1>4, <2>2 DEF Poll
    <3>2. alerted' \in [Containers -> 0 .. AlertTicks]
      BY <1>2, <3>1
    <3> QED
      BY <2>1, <3>1, <3>2 DEF WatchBound
  <2>3. CASE Present # {}
    <3>1. /\ counts' = [c \in Containers |-> IF c \in Present THEN seenState[c].restarts ELSE counts[c]]
          /\ alerted' = [c \in Containers |-> IF Problem(c) /\ Allowed(c) THEN 0 ELSE UpTo(alerted[c] + 1, AlertTicks)]
          /\ settled' = [c \in Containers |-> IF c \in Watched THEN [state |-> seenState[c].state, n |-> InARow(c)]
                                              ELSE [state |-> "absent", n |-> 0]]
      BY <1>4, <2>3 DEF Poll
    <3>2. \A c \in Containers : InARow(c) \in 0 .. Limit /\ seenState[c].state \in ContainerState
                                /\ seenState[c].restarts \in 0 .. MaxRestartCount
      BY CountsUpTo, LimitIsBoth DEF InARow, WatchBound
    <3>3. \A c \in Containers : [state |-> seenState[c].state, n |-> InARow(c)] \in [state : ContainerState, n : 0 .. Limit]
      BY <3>2
    <3>4. [state |-> "absent", n |-> 0] \in [state : ContainerState, n : 0 .. Limit]
      BY LimitIsBoth DEF ContainerState
    <3>5. settled' \in [Containers -> [state : ContainerState, n : 0 .. Limit]]
      BY <3>1, <3>3, <3>4
    <3>6. alerted' \in [Containers -> 0 .. AlertTicks]
      BY <1>2, <3>1, WatchAssumption
    <3>7. counts' \in [Containers -> -1 .. MaxRestartCount]
      BY <3>1, <3>2, WatchAssumption DEF WatchBound
    <3> QED
      BY <2>1, <3>5, <3>6, <3>7 DEF WatchBound
  <2> QED
    BY <2>2, <2>3
<1>5. CASE LostPoll
  <2>1. alerted' \in [Containers -> 0 .. AlertTicks]
    BY <1>2, <1>5 DEF LostPoll
  <2> QED
    BY <1>3, <1>5, <2>1 DEF LostPoll, WatchBound
<1>6. CASE WatchRestarts
  BY <1>3, <1>6, WatchAssumption, LimitIsBoth DEF WatchRestarts, WatchBound, ContainerState
<1>7. ASSUME NEW c \in Containers, NEW s \in ContainerState, NEW n \in 0 .. MaxRestartCount, NEW oom \in BOOLEAN,
             Becomes(c, s, n, oom)
      PROVE  WatchBound'
  BY <1>7 DEF Becomes, WatchBound
<1>8. ASSUME NEW c \in Containers, NEW oom \in BOOLEAN, ContainerCrashes(c, oom) PROVE WatchBound'
  <2>1. seenState[c].restarts + 1 \in 0 .. MaxRestartCount /\ {"running", "restarting"} \subseteq ContainerState
    BY <1>8, WatchAssumption DEF ContainerCrashes, WatchBound, ContainerState
  <2> QED
    BY <1>7, <1>8, <2>1 DEF ContainerCrashes
<1>9. ASSUME NEW c \in Containers, ContainerChanges(c) PROVE WatchBound'
  <2>1. 0 \in 0 .. MaxRestartCount /\ seenState[c].restarts \in 0 .. MaxRestartCount
    BY WatchAssumption DEF WatchBound
  <2>2. PICK s \in ContainerState :
           Becomes(c, s, IF "absent" \in {s, seenState[c].state} THEN 0 ELSE seenState[c].restarts, FALSE)
    BY <1>9 DEF ContainerChanges
  <2> QED
    BY <1>7, <2>1, <2>2
<1>10. ASSUME NEW c \in Containers, SleepChanges(c) PROVE WatchBound'
  BY <1>10 DEF SleepChanges, WatchBound
<1> QED
  BY <1>1, <1>4, <1>5, <1>6, <1>8, <1>9, <1>10 DEF WatchNext

LEMMA WatchIsTyped == WatchInv /\ WatchBound => WatchTypeOK
<1> SUFFICES ASSUME WatchInv, WatchBound PROVE WatchTypeOK
  OBVIOUS
<1>1. ASSUME NEW c \in Containers
      PROVE  /\ tracked[c].reported \in ContainerState \cup {"none"} /\ tracked[c].candidate \in ContainerState \cup {"none"}
             /\ tracked[c].polls \in 0 .. Limit /\ tracked[c].since \in 0 .. HoldTicks
  <2>1. tracked[c] \in Entries /\ Remembers(tracked[c], settled[c])
    BY DEF WatchInv
  <2> QED
    BY <2>1, LimitIsBoth DEF Entries, Remembers
<1> QED
  BY <1>1 DEF WatchBound, WatchTypeOK

----------------------------------------------------------------------------
(* Types: deliveries                                                        *)

\* The commits of a pull request are some of the events at the provider, and what is torn down was a preview.
DeliveryBound ==
    /\ \A p \in Prs : github[p].head <= done["event"]
    /\ done["event"] <= MaxPrEvents
    /\ leaving \subseteq Previews

\* What a step does to the events and the commits.
NoEvent == done'["event"] = done["event"] /\ \A p \in Prs : github'[p].head = github[p].head
OneEvent == /\ done["event"] < MaxPrEvents /\ done'["event"] = done["event"] + 1
            /\ \A p \in Prs : github'[p].head <= github[p].head + 1

LEMMA OneMoreDone ==
  ASSUME DeliveryTyped, NEW what \in {"event", "op", "odd"}, NEW bound, UpDone(what, bound)
  PROVE  done'["event"] = (IF what = "event" THEN done["event"] + 1 ELSE done["event"]) /\ done[what] < bound
BY DEF DeliveryTyped, UpDone

LEMMA EventsCounted ==
  ASSUME DeliveryTyped, DeliveryNext
  PROVE  NoEvent \/ OneEvent
<1>0. /\ github \in [Prs -> [open : BOOLEAN, head : Nat, comments : {0, 1}]]
      /\ done \in [{"event", "op", "odd"} -> Nat] /\ prOf \in [Previews -> Prs \cup {0}]
  BY DEF DeliveryTyped
<1>1. ASSUME NEW p \in Prs, PrMoves(p) PROVE OneEvent
  <2>1. UpDone("event", MaxPrEvents) /\ github' = [github EXCEPT ![p].open = TRUE, ![p].head = @ + 1]
    BY <1>1 DEF PrMoves
  <2>2. \A q \in Prs : github'[q].head = IF q = p THEN github[q].head + 1 ELSE github[q].head
    BY <1>0, <2>1
  <2> QED
    BY <1>0, <2>1, <2>2, OneMoreDone DEF OneEvent
<1>2. ASSUME NEW p \in Prs, PrCloses(p) PROVE OneEvent
  <2>1. UpDone("event", MaxPrEvents) /\ github' = [github EXCEPT ![p].open = FALSE]
    BY <1>2 DEF PrCloses
  <2>2. \A q \in Prs : github'[q].head = github[q].head
    BY <1>0, <2>1
  <2> QED
    BY <1>0, <2>1, <2>2, OneMoreDone DEF OneEvent
<1>3. CASE BasePush
  <2>1. UpDone("event", MaxPrEvents) /\ UNCHANGED github
    BY <1>3 DEF BasePush
  <2> QED
    BY <1>0, <2>1, OneMoreDone DEF OneEvent
<1>4. UNCHANGED <<github, done>> => NoEvent
  BY DEF NoEvent
<1>5. ASSUME UNCHANGED github,
             UpDone("op", MaxDeliveryOps) \/ done' = [done EXCEPT !["op"] = @ + 1, !["odd"] = 1]
      PROVE  NoEvent
  BY <1>0, <1>5 DEF NoEvent, UpDone
<1>6. CASE DeployHook \/ SetPreview \/ ProxyChanges \/ \E s \in Sinks : SinkChanges(s)
  BY <1>5, <1>6 DEF DeployHook, SetPreview, ProxyChanges, SinkChanges
<1>7. CASE \E p \in Prs : Redeliver(p)
  BY <1>5, <1>7 DEF Redeliver
<1>8. ASSUME NEW h \in Handlers, NEW i \in DOMAIN hooks, TakePullRequest(h, i) \/ \E skip \in BOOLEAN : TakePush(h, i, skip)
      PROVE  NoEvent
  <2>1. Takes(i) /\ UNCHANGED github
    BY <1>8 DEF TakePullRequest, TakePush
  <2> QED
    BY <1>4, <1>5, <2>1 DEF Takes
<1>9. CASE \/ \E h \in Handlers : EndHandler(h) \/ ClosePreview(h) \/ WritePreview(h) \/ QueuePreview(h)
           \/ \E s \in Sinks : Send(s) \/ SendLogs(s)
           \/ StartDeployment \/ BuildPreview \/ ForwardLog \/ EndDeployment
           \/ \E r \in Previews : PreviewGone(r)
  BY <1>4, <1>9 DEF EndHandler, ClosePreview, WritePreview, QueuePreview, Send, SendLogs, StartDeployment, BuildPreview,
     ForwardLog, EndDeployment, PreviewGone
<1>10. ASSUME NEW fails \in BOOLEAN, CommentOnPreview(fails) PROVE NoEvent
  <2>1. done'["event"] = done["event"]
    BY <1>0, <1>10 DEF CommentOnPreview
  <2>2. UNCHANGED github \/ \E p \in Prs \cup {0} : \E n : github' = [github EXCEPT ![p].comments = n]
    <3>1. CASE fails \/ deployment.row = Parent \/ prOf[deployment.row] = 0
      BY <1>10, <3>1 DEF CommentOnPreview
    <3>2. CASE ~ (fails \/ deployment.row = Parent \/ prOf[deployment.row] = 0)
      <4>1. prOf[deployment.row] \in Prs \cup {0}
        BY <1>0, <3>2 DEF DeliveryTyped, Deployments, Parent
      <4> QED
        BY <1>10, <3>2, <4>1 DEF CommentOnPreview
    <3> QED
      BY <3>1, <3>2
  <2>3. \A q \in Prs : github'[q].head = github[q].head
    BY <1>0, <2>2
  <2> QED
    BY <2>1, <2>3 DEF NoEvent
<1> QED
  BY <1>1, <1>2, <1>3, <1>6, <1>7, <1>8, <1>9, <1>10 DEF DeliveryNext

LEMMA TeardownsKept ==
  ASSUME DeliveryTyped, DeliveryNext, leaving \subseteq Previews
  PROVE  leaving' \subseteq Previews
<1>1. ASSUME NEW h \in Handlers, ClosePreview(h) PROVE leaving' \subseteq Previews
  <2>1. handler[h].existing \in Previews
    BY <1>1 DEF ClosePreview, DeliveryTyped, Requests
  <2> QED
    BY <1>1, <2>1 DEF ClosePreview
<1>2. ASSUME NEW r \in Previews, PreviewGone(r) PROVE leaving' \subseteq Previews
  BY <1>2 DEF PreviewGone
<1>3. CASE \/ BasePush \/ DeployHook \/ SetPreview \/ ProxyChanges
           \/ \E p \in Prs : PrMoves(p) \/ PrCloses(p) \/ Redeliver(p)
           \/ \E h \in Handlers, i \in DOMAIN hooks : TakePullRequest(h, i) \/ \E skip \in BOOLEAN : TakePush(h, i, skip)
           \/ \E h \in Handlers : EndHandler(h) \/ WritePreview(h) \/ QueuePreview(h)
  BY <1>3 DEF BasePush, DeployHook, SetPreview, ProxyChanges, PrMoves, PrCloses, Redeliver, TakePullRequest, TakePush,
     EndHandler, WritePreview, QueuePreview
<1>4. CASE \/ \E s \in Sinks : SinkChanges(s) \/ Send(s) \/ SendLogs(s)
           \/ StartDeployment \/ BuildPreview \/ ForwardLog \/ EndDeployment
           \/ \E fails \in BOOLEAN : CommentOnPreview(fails)
  BY <1>4 DEF SinkChanges, Send, SendLogs, StartDeployment, BuildPreview, ForwardLog, EndDeployment, CommentOnPreview
<1> QED
  BY <1>1, <1>2, <1>3, <1>4 DEF DeliveryNext

LEMMA DeliveryStaysBounded == DeliveryInv /\ DeliveryBound /\ [DeliveryNext]_deliveryVars => DeliveryBound'
<1> SUFFICES ASSUME DeliveryInv, DeliveryBound, [DeliveryNext]_deliveryVars PROVE DeliveryBound'
  OBVIOUS
<1>1. CASE UNCHANGED deliveryVars
  BY <1>1 DEF deliveryVars, DeliveryBound
<1>2. CASE DeliveryNext
  <2>0. DeliveryTyped /\ DeliveryTyped'
    BY StepDelivery DEF DeliveryInv
  <2>1. leaving' \subseteq Previews
    BY <1>2, <2>0, TeardownsKept DEF DeliveryBound
  <2>2. /\ done["event"] \in Nat /\ done'["event"] \in Nat
        /\ \A p \in Prs : github[p].head \in Nat /\ github'[p].head \in Nat
    BY <2>0 DEF DeliveryTyped
  <2>3. CASE NoEvent
    BY <2>1, <2>2, <2>3 DEF NoEvent, DeliveryBound
  <2>4. CASE OneEvent
    BY <2>1, <2>2, <2>4, DeliveryAssumption DEF OneEvent, DeliveryBound
  <2> QED
    BY <1>2, <2>0, <2>3, <2>4, EventsCounted
<1> QED
  BY <1>1, <1>2

LEMMA DeliveriesBegin == DeliveryInit => DeliveryBound
BY DeliveryAssumption DEF DeliveryInit, DeliveryBound

LEMMA DeliveryIsTyped == DeliveryInv /\ DeliveryBound => DeliveryTypeOK
<1> SUFFICES ASSUME DeliveryInv, DeliveryBound PROVE DeliveryTypeOK
  OBVIOUS
<1>0. DeliveryTyped
  BY DEF DeliveryInv
<1>1. ASSUME NEW p \in Prs
      PROVE  github[p].open \in BOOLEAN /\ github[p].head \in 0 .. MaxPrEvents /\ github[p].comments \in Nat
  <2>1. github[p] \in [open : BOOLEAN, head : Nat, comments : {0, 1}] /\ done["event"] \in Nat
    BY <1>0 DEF DeliveryTyped
  <2> QED
    BY <2>1, DeliveryAssumption DEF DeliveryBound
<1>2. Requests \subseteq [pc : {"idle", "close", "write", "queue"}, existing : Previews \cup {0},
                          hook : [pr : Prs \cup {0}, action : {"none", "opened", "closed", "push", "base"}]]
  BY DEF Requests, HookEvents, NoHook
<1>3. ASSUME NEW s \in Sinks PROVE owed[s].due \in Nat /\ owed[s].got \in 0 .. owed[s].due
  <2>1. owed[s].due \in Nat /\ owed[s].got \in Nat
    BY <1>0 DEF DeliveryTyped
  <2> QED
    BY <2>1 DEF DeliveryInv, SendsArePending
<1>4. preview.enabled \in BOOLEAN /\ preview.ready \in BOOLEAN /\ prOf \in [Previews -> Prs \cup {0}]
  BY <1>0 DEF DeliveryTyped
<1>5. deployment.pc \in {"idle", "build", "comment", "notify", "logs"} /\ deployment.left \subseteq Sinks
  BY <1>0 DEF DeliveryTyped, Deployments
<1>6. handler \in [Handlers -> [pc : {"idle", "close", "write", "queue"}, existing : Previews \cup {0},
                                hook : [pr : Prs \cup {0}, action : {"none", "opened", "closed", "push", "base"}]]]
  BY <1>0, <1>2 DEF DeliveryTyped
<1> QED
  BY <1>1, <1>3, <1>4, <1>5, <1>6 DEF DeliveryBound, DeliveryTypeOK

----------------------------------------------------------------------------
(* Types: files                                                             *)

\* The container runs or not, and the faults are counted.
FileBound == running \in BOOLEAN /\ fileFaults \in 0 .. MaxFileFaults

LEMMA FilesStayBounded == FileBound /\ [FileNext]_fileVars => FileBound'
<1> SUFFICES ASSUME FileBound, [FileNext]_fileVars PROVE FileBound'
  OBVIOUS
<1>1. (UNCHANGED fileFaults \/ Fault) => fileFaults' \in 0 .. MaxFileFaults
  BY FileAssumption DEF Fault, FileBound
<1>2. UNCHANGED fileVars => UNCHANGED <<running, fileFaults>>
  BY DEF fileVars
<1>3. ContainerToggles => running' \in BOOLEAN /\ (UNCHANGED fileFaults \/ Fault)
  BY DEF ContainerToggles, FileBound
<1>4. ASSUME NEW r \in FileRequests, FileAsks(r) PROVE UNCHANGED <<running, fileFaults>>
  BY <1>4 DEF FileAsks, AskSave, AskUpload, AskMkdir, AskList, AskRead, AskDelete, Enters, NoFault
<1>5. ASSUME NEW r \in FileRequests,
             \/ prepareStaging(r) \/ writeRemoteFile(r) \/ resolveContainer(r) \/ GuardWrite(r) \/ OpenFile(r) \/ FillFile(r)
             \/ WriteCut(r) \/ execBuffered(r) \/ CommandFails(r)
      PROVE  UNCHANGED <<running, fileFaults>>
  BY <1>5 DEF prepareStaging, writeRemoteFile, resolveContainer, GuardWrite, OpenFile, FillFile, WriteCut, execBuffered,
     CommandFails, NoFault
<1>6. ASSUME NEW r \in FileRequests, StagingFails(r) \/ LostWhileStaging(r) \/ LostUnderCommand(r)
      PROVE  UNCHANGED running /\ Fault
  BY <1>6 DEF StagingFails, LostWhileStaging, LostUnderCommand
<1>7. FileNext => running' \in BOOLEAN /\ (UNCHANGED fileFaults \/ Fault)
  BY <1>3, <1>4, <1>5, <1>6 DEF FileNext, FileBound
<1> QED
  BY <1>1, <1>2, <1>7 DEF FileBound

LEMMA FilesBegin == FileInit => FileBound
BY FileAssumption DEF FileInit, FileBound

LEMMA FilesAreTyped == FileInv /\ FileBound => FileTypeOK
<1> SUFFICES ASSUME FileTyped, FileBound PROVE FileTypeOK
  BY DEF FileInv
<1> QED
  BY DEF FileTyped, FileBound, FileTypeOK, Replies, Pasts

----------------------------------------------------------------------------
(* Types: secrets                                                           *)

\* A row, the history and a rewrite hold values that were saved, under keys that were made.
SecretBound ==
    /\ ring.current <= MaxKeys
    /\ \A s \in Secrets : stored[s].val <= MaxSaves /\ lastSaved[s] <= MaxSaves
    /\ \A t \in rewrite.todo : t[2] <= MaxSaves
    /\ rekey \in {"never", "failed"} /\ secretFaults \in 0 .. MaxSecretFaults

LEMMA SecretsStayBounded == SecretInv /\ SecretBound /\ [SecretNext]_secretVars => SecretBound'
<1> SUFFICES ASSUME SecretInv, SecretBound, [SecretNext]_secretVars PROVE SecretBound'
  OBVIOUS
<1>t. /\ stored \in [Secrets -> [key : Nat, val : Nat]] /\ lastSaved \in [Secrets -> Nat]
      /\ ring \in [current : Nat \ {0}, previous : SUBSET Nat]
      /\ rewrite \in [at : {"off", "select", "rows", "ended"}, todo : SUBSET (Secrets \X Nat), failed : BOOLEAN]
  BY DEF SecretInv, SecretTyped
<1>f. secretFaults < MaxSecretFaults /\ secretFaults' = secretFaults + 1 => secretFaults' \in 0 .. MaxSecretFaults
  BY SecretsAssumption DEF SecretBound
<1>1. CASE UNCHANGED secretVars
  BY <1>1 DEF secretVars, SecretBound
<1>2. ASSUME NEW s \in Secrets, NEW v \in 1 .. MaxSaves, SaveSecret(s, v) PROVE SecretBound'
  <2>1. /\ stored' = [stored EXCEPT ![s] = [key |-> keys["api"].current, val |-> v]]
        /\ lastSaved' = [lastSaved EXCEPT ![s] = v] /\ UNCHANGED <<ring, rewrite, rekey, secretFaults>>
    BY <1>2 DEF SaveSecret, encryptSecret
  <2>2. \A x \in Secrets : stored'[x].val = (IF x = s THEN v ELSE stored[x].val)
                           /\ lastSaved'[x] = (IF x = s THEN v ELSE lastSaved[x])
    BY <1>t, <2>1
  <2> QED
    BY <2>1, <2>2, SecretsAssumption DEF SecretBound
<1>3. CASE RotateKey
  <2>1. ring.current < MaxKeys /\ ring'.current = ring.current + 1 /\ UNCHANGED <<stored, rewrite, lastSaved, rekey, secretFaults>>
    BY <1>3 DEF RotateKey
  <2> QED
    BY <1>t, <2>1, SecretsAssumption DEF SecretBound
<1>4. CASE RestartWorker \/ reencryptSecrets \/ EndRewrite
  BY <1>t, <1>4 DEF RestartWorker, reencryptSecrets, EndRewrite, SecretBound
<1>5. CASE RestartApi \/ ApiDiesMidway
  <2>1. rewrite'.todo = {} /\ UNCHANGED <<stored, ring, lastSaved, rekey>>
    BY <1>5 DEF RestartApi, ApiDiesMidway, StartsApi, NoRewrite
  <2>2. secretFaults' \in 0 .. MaxSecretFaults
    BY <1>f, <1>5 DEF RestartApi, ApiDiesMidway, SecretBound
  <2> QED
    BY <2>1, <2>2 DEF SecretBound
<1>6. CASE SelectPlain
  <2>1. /\ rewrite'.todo = {<<s, stored[s].val>> : s \in {x \in Secrets : ~isEncrypted(stored[x])}}
        /\ UNCHANGED <<stored, ring, lastSaved, rekey, secretFaults>>
    BY <1>t, <1>6 DEF SelectPlain
  <2>2. \A t \in rewrite'.todo : t[2] <= MaxSaves
    BY <2>1 DEF SecretBound
  <2> QED
    BY <2>1, <2>2 DEF SecretBound
<1>7. ASSUME NEW t \in rewrite.todo, EncryptRow(t) PROVE SecretBound'
  <2>1. /\ rewrite'.todo \subseteq rewrite.todo /\ UNCHANGED <<ring, lastSaved, rekey, secretFaults>>
        /\ stored' = [stored EXCEPT ![t[1]] = [key |-> keys["api"].current, val |-> t[2]]]
    BY <1>t, <1>7 DEF EncryptRow, encryptSecret
  <2>2. \A x \in Secrets : stored'[x].val = IF x = t[1] THEN t[2] ELSE stored[x].val
    BY <1>t, <2>1
  <2> QED
    BY <2>1, <2>2 DEF SecretBound
<1>8. ASSUME NEW t \in rewrite.todo, RowFails(t) PROVE SecretBound'
  <2>1. rewrite'.todo \subseteq rewrite.todo /\ UNCHANGED <<stored, ring, lastSaved, rekey>>
    BY <1>t, <1>8 DEF RowFails
  <2>2. secretFaults' \in 0 .. MaxSecretFaults
    BY <1>f, <1>8 DEF RowFails
  <2> QED
    BY <2>1, <2>2 DEF SecretBound
<1> QED
  BY <1>1, <1>2, <1>3, <1>4, <1>5, <1>6, <1>7, <1>8 DEF SecretNext

LEMMA SecretsBegin == SecretInit => SecretBound
<1> SUFFICES ASSUME SecretInit PROVE SecretBound
  OBVIOUS
<1>1. ring.current = 1 /\ rewrite.todo = {} /\ \A s \in Secrets : stored[s].val = 0 /\ lastSaved[s] = 0
  BY DEF SecretInit, NoRewrite
<1> QED
  BY <1>1, SecretsAssumption DEF SecretInit, SecretBound

LEMMA SecretsAreTyped == SecretInv /\ SecretBound => SecretTypeOK
<1> SUFFICES ASSUME SecretInv, SecretBound PROVE SecretTypeOK
  OBVIOUS
<1>0. SecretTyped /\ KeysInOrder
  BY DEF SecretInv
<1>1. ring.current \in 1 .. MaxKeys /\ ring.previous \subseteq 1 .. MaxKeys
  BY <1>0, SecretsAssumption DEF SecretTyped, KeysInOrder, SecretBound
<1>2. ASSUME NEW s \in Secrets
      PROVE  stored[s] \in [key : 0 .. MaxKeys, val : 0 .. MaxSaves] /\ lastSaved[s] \in 0 .. MaxSaves
  <2>1. stored[s] \in [key : Nat, val : Nat] /\ lastSaved[s] \in Nat /\ stored[s].key <= ring.current /\ ring.current \in Nat
    BY <1>0 DEF SecretTyped, KeysInOrder
  <2>2. stored[s].key \in 0 .. MaxKeys /\ stored[s].val \in 0 .. MaxSaves /\ lastSaved[s] \in 0 .. MaxSaves
    BY <1>1, <2>1, SecretsAssumption DEF SecretBound
  <2> QED
    BY <2>1, <2>2
<1>3. ASSUME NEW p \in Processes PROVE keys[p].current \in 1 .. MaxKeys
  <2>1. keys[p].current \in Nat \ {0} /\ keys[p].current <= ring.current /\ ring.current \in Nat
    BY <1>0 DEF SecretTyped, KeysInOrder
  <2> QED
    BY <1>1, <2>1, SecretsAssumption
<1>4. stored \in [Secrets -> [key : 0 .. MaxKeys, val : 0 .. MaxSaves]] /\ lastSaved \in [Secrets -> 0 .. MaxSaves]
  BY <1>0, <1>2 DEF SecretTyped
<1>5. rewrite.at \in {"off", "select", "rows", "ended"} /\ overtaken \subseteq Secrets /\ \A t \in rewrite.todo : t[1] \in Secrets
  BY <1>0 DEF SecretTyped
<1> QED
  BY <1>1, <1>3, <1>4, <1>5 DEF SecretBound, SecretTypeOK

----------------------------------------------------------------------------
(* Types: operations, tasks, backups                                        *)

LEMMA UpdatesAreTyped == UpdateInv => UpdateTypeOK
<1> SUFFICES ASSUME UpdateTyped PROVE UpdateTypeOK
  BY DEF UpdateInv
<1>1. pjob.id \in 0..UpdateRows /\ pjob.pc \in {"rest", "launch", "mark", "requeue", "poll", "system"} /\ pjob.run \in 0..1
  <2>1. CASE pjob = NoUpdateJob
    BY <2>1, UpdateAssumption DEF NoUpdateJob
  <2>2. CASE pjob \in [id : UpdateIds, pc : {"launch", "mark", "requeue", "poll", "system"}, run : 0..1]
    BY <2>2, UpdateAssumption DEF UpdateIds
  <2> QED
    BY <2>1, <2>2 DEF UpdateTyped
<1> QED
  BY <1>1 DEF UpdateTyped, UpdateTypeOK

LEMMA TasksAreTyped == TaskInv => TaskTypeOK
<1> SUFFICES ASSUME TaskTyped PROVE TaskTypeOK
  BY DEF TaskInv
<1>1. taskJob.pc \in {"rest", "exec", "keep"} /\ taskJob.manual \in BOOLEAN /\ taskJob.run \in 0..1
  <2>1. CASE taskJob = NoTaskJob
    BY <2>1 DEF NoTaskJob
  <2>2. CASE taskJob \in [pc : {"exec", "keep"}, manual : BOOLEAN, run : 0..1]
    BY <2>2
  <2> QED
    BY <2>1, <2>2 DEF TaskTyped
<1>2. asking \in [Askers -> [op : {"none", "create", "update", "write", "delete", "erase"}, on : BOOLEAN]]
  <2>1. {NotAsking} \cup [op : {"create", "update", "write", "delete", "erase"}, on : BOOLEAN]
          \subseteq [op : {"none", "create", "update", "write", "delete", "erase"}, on : BOOLEAN]
    <3>1. NotAsking \in [op : {"none", "create", "update", "write", "delete", "erase"}, on : BOOLEAN]
      BY DEF NotAsking
    <3>2. [op : {"create", "update", "write", "delete", "erase"}, on : BOOLEAN]
            \subseteq [op : {"none", "create", "update", "write", "delete", "erase"}, on : BOOLEAN]
      OBVIOUS
    <3> QED
      BY <3>1, <3>2
  <2> QED
    BY <2>1 DEF TaskTyped
<1> QED
  BY <1>1, <1>2 DEF TaskTyped, TaskTypeOK

LEMMA VolumesAreTyped == VolumeInv => VolumeTypeOK
<1> SUFFICES ASSUME VolumeTyped PROVE VolumeTypeOK
  BY DEF VolumeInv
<1>1. /\ vjob.id \in 0..VbRows /\ vjob.run \in 0..1 /\ vjob.old \subseteq VbIds
      /\ vjob.pc \in {"rest", "archive", "record", "retain", "download", "stop", "replace", "start", "restored", "fail"}
  BY DEF VolumeTyped, VbJobs
<1>2. vdrop.id \in 0..VbRows /\ vdrop.pc \in {"rest", "file", "row"}
  BY DEF VolumeTyped
<1> QED
  BY <1>1, <1>2 DEF VolumeTyped, VbRow, VbWaiting, VolumeTypeOK

LEMMA PanelBackupIsTyped == PanelBackupInv => PanelTypeOK
<1> SUFFICES ASSUME PanelTyped PROVE PanelTypeOK
  BY DEF PanelBackupInv
<1>1. last.at \in -1..MaxHours /\ last.status \in {"none", "running", "success", "failed"} /\ last.key \in 0..MaxPanelRuns
  BY DEF PanelTyped, LastBackups
<1>2. panelJob.pc \in {"rest", "dump", "upload", "retain", "done", "fail"}
  BY DEF PanelTyped, PanelJobs
<1>3. 1..dumps \subseteq 1..MaxPanelRuns
  BY PanelBackupAssumption DEF PanelTyped
<1> QED
  BY <1>1, <1>2, <1>3 DEF PanelTyped, WaitingBackups, PanelTypeOK

----------------------------------------------------------------------------
(* Types: the panel                                                         *)

Parts == {"tenancy", "signin", "relay", "terminals", "watch", "delivery", "volumes", "updates", "tasks", "panelbackup", "files",
          "secrets"}

\* A step of the panel leaves the focus, and is a step of the teams' rows or leaves them.
LEMMA PanelKeepsFocus ==
  ASSUME [AllSteps]_AllVars
  PROVE  UNCHANGED focus /\ [TenantNext]_tenantVars
<1>1. UNCHANGED AllVars => UNCHANGED focus /\ UNCHANGED tenantVars
  BY DEF AllVars
<1>2. Others => UNCHANGED focus /\ (focus # "tenancy" => UNCHANGED tenantVars)
  BY DEF Others
<1>3. AllSteps => Others /\ ((focus = "tenancy" /\ TenantNext) \/ focus # "tenancy")
  BY DEF AllSteps, TenancySteps, SignInSteps, RelaySteps, TerminalSteps, WatchSteps, DeliverySteps, VolumeSteps,
     UpdateSteps, TaskSteps, PanelBackupSteps, FileSteps, SecretSteps
<1> QED
  BY <1>1, <1>2, <1>3

\* Who may act and what is relayed; what is watched, delivered, read and stored.
AccessTypes == TeamInv /\ TouchInv /\ RequestBound /\ AuthInv /\ AuthBound /\ RelayInv /\ TerminalInv /\ ConnBound
ReportTypes == WatchInv /\ WatchBound /\ DeliveryInv /\ DeliveryBound
StoredTypes == FileInv /\ FileBound /\ SecretInv /\ SecretBound
JobTypes == UpdateInv /\ UpdatesSound /\ TaskInv /\ VolumeInv /\ PanelBackupInv

\* Each variable of the component in focus stays within the values the rows, the records in memory and the counters of the
\* code can take, over every route, job, tick and fault: no row of a kind that is not written, no counter beyond its limit
\* (the schema of packages/db, and the state in memory of the API, the worker and the relay).
THEOREM PanelAlwaysTyped == AllSpec => []PanelTypesOK
<1> DEFINE Inv == focus \in Parts /\ AccessTypes /\ ReportTypes /\ StoredTypes /\ JobTypes
<1>1. AllInit => Inv
  <2> SUFFICES ASSUME AllInit PROVE Inv
    OBVIOUS
  <2>1. TenantInit => TouchInv /\ RequestBound
    BY TenancyAssumption DEF TenantInit, TouchInv, Quiet, RequestBound
  <2>2. focus \in Parts
    BY DEF AllInit, Parts
  <2>3. AccessTypes
    BY <2>1, InitTeams, InitAccess, AccountsBegin, InitRelay, InitTerminals, ConnectionsBegin DEF AllInit, AccessTypes
  <2>4. ReportTypes
    BY InitWatch, WatchBegins, InitDelivery, DeliveriesBegin DEF AllInit, ReportTypes
  <2>5. StoredTypes
    BY InitFiles, FilesBegin, InitSecrets, SecretsBegin DEF AllInit, StoredTypes
  <2>6. JobTypes
    BY InitUpdates, InitTasks, InitVolumes, InitPanelBackup DEF AllInit, JobTypes
  <2> QED
    BY <2>2, <2>3, <2>4, <2>5, <2>6
<1>2. Inv /\ [AllSteps]_AllVars => Inv'
  <2> SUFFICES ASSUME Inv, [AllSteps]_AllVars PROVE Inv'
    OBVIOUS
  <2>1. UNCHANGED focus /\ [TenantNext]_tenantVars
    BY PanelKeepsFocus
  <2>2. AccessTypes'
    BY <2>1, PanelSteps, StepTeams, StepTouch, RequestsStayCounted, StepAccess, AccountsStayBounded, StepConnections,
       ConnectionsStayBounded DEF AccessTypes
  <2>3. ReportTypes'
    BY PanelSteps, StepWatch, WatchStaysBounded, StepDelivery, DeliveryStaysBounded DEF ReportTypes
  <2>4. StoredTypes'
    BY PanelSteps, StepFiles, FilesStayBounded, StepSecrets, SecretsStayBounded DEF StoredTypes
  <2>5. JobTypes'
    BY PanelSteps, StepUpdates, StepTasks, StepVolumes, StepPanelBackup DEF JobTypes
  <2> QED
    BY <2>1, <2>2, <2>3, <2>4, <2>5
<1>3. Inv => PanelTypesOK
  <2> SUFFICES ASSUME Inv PROVE PanelTypesOK
    OBVIOUS
  <2>1. TenantTypeOK /\ AuthTypeOK /\ ConnTypeOK
    BY TeamsAreTyped, AccountsAreTyped, ConnectionsAreTyped DEF AccessTypes
  <2>2. WatchTypeOK /\ DeliveryTypeOK /\ FileTypeOK /\ SecretTypeOK
    BY WatchIsTyped, DeliveryIsTyped, FilesAreTyped, SecretsAreTyped DEF ReportTypes, StoredTypes
  <2>3. UpdateTypeOK /\ TaskTypeOK /\ VolumeTypeOK /\ PanelTypeOK
    BY UpdatesAreTyped, TasksAreTyped, VolumesAreTyped, PanelBackupIsTyped DEF JobTypes
  <2> QED
    BY <2>1, <2>2, <2>3 DEF PanelTypesOK, Parts
<1> QED
  BY <1>1, <1>2, <1>3, PTL DEF AllSpec

=============================================================================
