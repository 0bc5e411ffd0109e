--------------------------- MODULE ContainerWatch ---------------------------
(***************************************************************************)
(* The container watch of the metrics tick of one server: what it tells    *)
(* the team about containers that crash or change their status.            *)
(*                                                                         *)
(* A poll sees every container at once.  What it remembers (the restart    *)
(* counts, the states it reported, when it last told the team) is kept in  *)
(* the worker's memory, so a restart forgets it.  Time is counted in the   *)
(* minutes between two polls; a poll of a server that does not answer is   *)
(* lost, and one without a single line (no container at all, or a          *)
(* connection lost under the command) changes nothing either.              *)
(***************************************************************************)
EXTENDS Integers, FiniteSets

CONSTANTS
    Containers,    \* containers of the server
    Foreign,       \* those that were not created by the panel
    ConfirmPolls,  \* polls in a row before a new state is reported (2)
    HoldTicks,     \* minutes between two reports of a container (5)
    AlertTicks,    \* minutes between two alerts about a container (60)
    MaxRestartCount, MaxWatchTicks

ASSUME WatchAssumption ==
    /\ Foreign \subseteq Containers
    /\ ConfirmPolls \in Nat \ {0} /\ HoldTicks \in Nat /\ AlertTicks \in Nat
    /\ MaxRestartCount \in Nat /\ MaxWatchTicks \in Nat

VARIABLES
    seenState,  \* what docker inspect says of each container: its state, restart count and OOM flag
    asleep,     \* the containers of applications with scale to zero
    counts,     \* restartCounts: the count of the last poll, or -1
    tracked,    \* ContainerStatusTracker: an entry per container
    alerted,    \* alertThrottle: minutes since the last alert, up to AlertTicks
    settled,    \* history: the state the last poll saw, and how many polls in a row saw it, up to a limit
    told,       \* history: the last report of each container
    clock       \* minutes so far

watchVars == <<seenState, asleep, counts, tracked, alerted, settled, told, clock>>

ContainerState == {"absent", "running", "unhealthy", "restarting"}
Nothing == [reported |-> "none", candidate |-> "none", polls |-> 0, since |-> HoldTicks]
NotTold == [polls |-> ConfirmPolls, gap |-> HoldTicks, from |-> "none", to |-> "some"]
\* the polls after which a state that stays is the reported one
Limit == IF ConfirmPolls > HoldTicks THEN ConfirmPolls ELSE HoldTicks
UpTo(n, limit) == IF n < limit THEN n ELSE limit

WatchTypeOK ==
    /\ seenState \in [Containers -> [state : ContainerState, restarts : 0 .. MaxRestartCount, oom : BOOLEAN]]
    /\ asleep \subseteq Containers
    /\ counts \in [Containers -> -1 .. MaxRestartCount]
    /\ \A c \in Containers :
          /\ tracked[c].reported \in ContainerState \cup {"none"} /\ tracked[c].candidate \in ContainerState \cup {"none"}
          /\ tracked[c].polls \in 0 .. Limit /\ tracked[c].since \in 0 .. HoldTicks
    /\ alerted \in [Containers -> 0 .. AlertTicks]
    /\ settled \in [Containers -> [state : ContainerState, n : 0 .. Limit]]
    /\ clock \in 0 .. MaxWatchTicks

----------------------------------------------------------------------------
(* The containers                                                          *)

Becomes(c, s, restarts, oom) ==
    /\ seenState' = [seenState EXCEPT ![c] = [state |-> s, restarts |-> restarts, oom |-> oom]]
    /\ UNCHANGED <<asleep, counts, tracked, alerted, settled, told, clock>>

\* docker restarts a process that ended, stops, starts, removes or creates the container
ContainerCrashes(c, oom) ==
    /\ seenState[c].state # "absent" /\ seenState[c].restarts < MaxRestartCount
    /\ \E s \in {"running", "restarting"} : Becomes(c, s, seenState[c].restarts + 1, oom)

ContainerChanges(c) ==
    \E s \in ContainerState \ {seenState[c].state} :
        Becomes(c, s, IF "absent" \in {s, seenState[c].state} THEN 0 ELSE seenState[c].restarts, FALSE)

\* scale to zero is turned on or off
SleepChanges(c) ==
    /\ asleep' = IF c \in asleep THEN asleep \ {c} ELSE asleep \cup {c}
    /\ UNCHANGED <<seenState, counts, tracked, alerted, settled, told, clock>>

----------------------------------------------------------------------------
(* A poll                                                                  *)

Present == {c \in Containers : seenState[c].state # "absent"}

\* detectContainerProblems: the first poll of a container only learns its count
Problem(c) ==
    LET now == seenState[c]
        delta == now.restarts - counts[c]
    IN  /\ c \in Present \ asleep /\ counts[c] # -1
        /\ now.state = "restarting" \/ (now.oom /\ delta >= 1) \/ delta >= 3

\* Throttle.allow
Allowed(c) == alerted[c] >= AlertTicks

\* mutant: a poll that sees the reported state leaves the candidate as it is
StepKeepsCandidate(t, s) ==
    IF t.reported = "none" THEN [t EXCEPT !.reported = s]
    ELSE IF s = t.reported THEN t
    ELSE IF s = t.candidate THEN [t EXCEPT !.polls = UpTo(@ + 1, Limit)]
    ELSE [t EXCEPT !.candidate = s, !.polls = 1]

\* observe, up to the decision: learn a container, go back to the reported state, count a candidate
Step(t, s) ==
    IF t.reported = "none" THEN [t EXCEPT !.reported = s]
    ELSE IF s = t.reported THEN [t EXCEPT !.candidate = "none", !.polls = 0]
    ELSE IF s = t.candidate THEN [t EXCEPT !.polls = UpTo(@ + 1, Limit)]
    ELSE [t EXCEPT !.candidate = s, !.polls = 1]

Reports(t) == t.polls >= ConfirmPolls /\ t.since >= HoldTicks

\* the entry after the poll, and what is told
After(t, s) == IF Reports(Step(t, s)) THEN [reported |-> s, candidate |-> "none", polls |-> 0, since |-> 0] ELSE Step(t, s)

\* polls in a row that saw the present state, this one included
InARow(c) == IF settled[c].state = seenState[c].state THEN UpTo(settled[c].n + 1, Limit) ELSE 1

Watched == Present \ (asleep \cup Foreign)

TimePasses ==
    /\ clock < MaxWatchTicks /\ clock' = clock + 1

Later(t) == [t EXCEPT !.since = UpTo(@ + 1, HoldTicks)]

\* watchContainers: a poll that sees nothing at all changes nothing; a container that is gone is forgotten
Poll ==
    /\ TimePasses
    /\ IF Present = {} THEN /\ UNCHANGED <<counts, settled, told>>
                            /\ tracked' = [c \in Containers |-> Later(tracked[c])]
                            /\ alerted' = [c \in Containers |-> UpTo(alerted[c] + 1, AlertTicks)]
       ELSE /\ counts' = [c \in Containers |-> IF c \in Present THEN seenState[c].restarts ELSE counts[c]]
            /\ alerted' = [c \in Containers |-> IF Problem(c) /\ Allowed(c) THEN 0 ELSE UpTo(alerted[c] + 1, AlertTicks)]
            /\ tracked' = [c \in Containers |-> IF c \in Watched THEN After(Later(tracked[c]), seenState[c].state) ELSE Nothing]
            /\ told' = [c \in Containers |->
                           IF c \in Watched /\ Reports(Step(Later(tracked[c]), seenState[c].state))
                           THEN [polls |-> InARow(c), gap |-> Later(tracked[c]).since,
                                 from |-> tracked[c].reported, to |-> seenState[c].state]
                           ELSE told[c]]
            /\ settled' = [c \in Containers |-> IF c \in Watched THEN [state |-> seenState[c].state, n |-> InARow(c)]
                                                ELSE [state |-> "absent", n |-> 0]]
    /\ UNCHANGED <<seenState, asleep>>

\* the server does not answer, or the circuit is open
LostPoll ==
    /\ TimePasses
    /\ tracked' = [c \in Containers |-> Later(tracked[c])]
    /\ alerted' = [c \in Containers |-> UpTo(alerted[c] + 1, AlertTicks)]
    /\ UNCHANGED <<seenState, asleep, counts, settled, told>>

\* the maps are in memory
WatchRestarts ==
    /\ TimePasses
    /\ counts' = [c \in Containers |-> -1]
    /\ tracked' = [c \in Containers |-> Nothing]
    /\ alerted' = [c \in Containers |-> AlertTicks]
    /\ settled' = [c \in Containers |-> [state |-> "absent", n |-> 0]]
    /\ UNCHANGED <<seenState, asleep, told>>

----------------------------------------------------------------------------
WatchInit ==
    /\ seenState = [c \in Containers |-> [state |-> "running", restarts |-> 0, oom |-> FALSE]]
    /\ asleep = {}
    /\ counts = [c \in Containers |-> -1]
    /\ tracked = [c \in Containers |-> Nothing]
    /\ alerted = [c \in Containers |-> AlertTicks]
    /\ settled = [c \in Containers |-> [state |-> "absent", n |-> 0]]
    /\ told = [c \in Containers |-> NotTold]
    /\ clock = 0

WatchNext ==
    \/ Poll \/ LostPoll \/ WatchRestarts
    \/ \E c \in Containers : ContainerChanges(c) \/ SleepChanges(c) \/ \E oom \in BOOLEAN : ContainerCrashes(c, oom)

WatchSpec == WatchInit /\ [][WatchNext]_watchVars

----------------------------------------------------------------------------
(* Properties                                                              *)

\* A report names a change, of a state that was seen in enough polls in a row, and not too soon after the last one:
\* a container that flaps floods nobody (containerWatch.ts).
ReportsAreSettled ==
    \A c \in Containers : told[c].polls >= ConfirmPolls /\ told[c].gap >= HoldTicks /\ told[c].from # told[c].to

\* What the team was last told is true in the end: a state seen in every poll for longer than the hold is the
\* reported one (containerWatch.ts: "always describing the latest settled state").
SettledStateIsTold ==
    \A c \in Containers : settled[c].n >= Limit => tracked[c].reported = settled[c].state

\* Both together: nobody is flooded and nobody is misled (containerWatch.ts).
WatchSound == ReportsAreSettled /\ SettledStateIsTold
=============================================================================
