---------------------------- MODULE Waker_proofs ----------------------------
(***************************************************************************)
(* Theorems about Waker, for every set of requests and sweeps and every    *)
(* bound: the states are well typed, every object counts exactly its open  *)
(* requests, and while the configuration is not rewritten the sweep stops  *)
(* the container only after the whole idle time without visitors.          *)
(***************************************************************************)
EXTENDS Waker, FiniteSetTheorems, TLAPS

\* a configuration that is, or will be, in the file and has no object yet
Pending(a) == IF writing # NoFile \/ (file \in Config /\ a = 0) THEN 1 ELSE 0

\* every object was made for a write of its own, but the first
MadeInv ==
    /\ made + Pending(apps) <= used["write"] + 1
    /\ used["write"] <= MaxWrites
    /\ writing # NoFile => file = Torn

\* requests and sweeps refer to objects that were made
RefInv ==
    /\ \A r \in Requests : req[r].o <= made /\ (req[r].open => req[r].o # 0)
    /\ \A s \in Sweeps : sweep[s].o <= made /\ \A o \in sweep[s].idle : o <= made

IInv == TypeOK /\ MadeInv /\ RefInv /\ InflightExact

----------------------------------------------------------------------------

LEMMA OpenCount ==
    ASSUME TypeOK, NEW o \in Objects
    PROVE  IsFiniteSet(Open(o)) /\ Cardinality(Open(o)) \in 0 .. Cardinality(Requests)
<1>1. Open(o) \subseteq Requests
  BY DEF Open
<1>2. IsFiniteSet(Open(o)) /\ Cardinality(Open(o)) <= Cardinality(Requests)
  BY <1>1, WakerAssumption, FS_Subset
<1>3. Cardinality(Open(o)) \in Nat /\ Cardinality(Requests) \in Nat
  BY <1>2, WakerAssumption, FS_CardinalityType
<1> QED BY <1>2, <1>3

\* the fields the handlers set
LEMMA Forgotten ==
    ASSUME NEW x \in StateObject
    PROVE  [x EXCEPT !.up = FALSE] \in StateObject /\ [x EXCEPT !.up = FALSE].inflight = x.inflight
<1>1. [x EXCEPT !.up = FALSE] \in StateObject
  BY DEF StateObject
<1>2. [x EXCEPT !.up = FALSE].inflight = x.inflight
  BY DEF StateObject
<1> QED BY <1>1, <1>2

LEMMA Woken ==
    ASSUME NEW x \in StateObject
    PROVE  /\ [x EXCEPT !.up = TRUE, !.check = 0, !.waking = "no"] \in StateObject
           /\ [x EXCEPT !.up = TRUE, !.check = 0, !.waking = "no"].inflight = x.inflight
<1>1. [x EXCEPT !.up = TRUE, !.check = 0, !.waking = "no"] \in StateObject
  <2>1. 0 \in 0 .. CheckTicks
    BY WakerAssumption
  <2> QED BY <2>1 DEF StateObject
<1>2. [x EXCEPT !.up = TRUE, !.check = 0, !.waking = "no"].inflight = x.inflight
  BY DEF StateObject
<1> QED BY <1>1, <1>2

\* what loadConfig may do to the objects
LoadedFacts(m) ==
    /\ m.obj \in [Objects -> StateObject]
    /\ m.made \in 0 .. (MaxWrites + 1) /\ m.apps \in 0 .. m.made
    /\ made <= m.made
    /\ m.made + Pending(m.apps) <= used["write"] + 1
    /\ \A o \in Objects : m.obj[o].inflight = obj[o].inflight

LEMMA NewStateTyped ==
    ASSUME NEW c \in Config \cup {NoFile}
    PROVE  NewState(c) \in StateObject /\ NewState(c).inflight = 0
<1>1. Cardinality(Requests) \in Nat
  BY WakerAssumption, FS_CardinalityType
<1> QED BY <1>1, WakerAssumption DEF NewState, StateObject

LEMMA LoadKeepsCounts ==
    ASSUME IInv
    PROVE  LoadedFacts(Loaded)
<1> USE DEF IInv
<1>1. CASE throttled
  BY <1>1 DEF Loaded, LoadedFacts, TypeOK, MadeInv
<1>2. CASE ~throttled /\ file \notin Config
  <2>1. Loaded = [apps |-> 0, obj |-> obj, made |-> made]
    BY <1>2 DEF Loaded
  <2>2. made + Pending(0) <= used["write"] + 1
    BY <1>2 DEF MadeInv, Pending, TypeOK
  <2> QED BY <2>1, <2>2 DEF LoadedFacts, TypeOK
<1>3. CASE ~throttled /\ file \in Config /\ apps # 0
  <2> DEFINE objs == [obj EXCEPT ![apps].cfg = file]
  <2>1. Loaded = [apps |-> apps, obj |-> objs, made |-> made]
    BY <1>3 DEF Loaded
  <2>2. objs \in [Objects -> StateObject] /\ \A o \in Objects : objs[o].inflight = obj[o].inflight
    BY <1>3, ZenonT(60) DEF TypeOK, StateObject
  <2> QED BY <2>1, <2>2 DEF LoadedFacts, TypeOK, MadeInv
<1>4. CASE ~throttled /\ file \in Config /\ apps = 0
  <2> DEFINE new == made + 1
             objs == [obj EXCEPT ![new] = NewState(file)]
  <2>1. Loaded = [apps |-> new, obj |-> objs, made |-> new]
    BY <1>4 DEF Loaded
  <2>2. new \in Objects /\ made + 1 <= used["write"] + 1
    BY <1>4, WakerAssumption DEF MadeInv, Pending, TypeOK, Objects, Bounded
  <2>3. writing = NoFile
    BY <1>4 DEF MadeInv, Torn, Config
  <2>4. Open(new) = {}
    BY <2>2 DEF Open, RefInv, TypeOK, Request, Objects
  <2>5. obj[new].inflight = 0
    BY <2>2, <2>4, FS_EmptySet DEF InflightExact
  <2>6. NewState(file) \in StateObject /\ NewState(file).inflight = 0
    BY <1>4, NewStateTyped
  <2>7. objs \in [Objects -> StateObject] /\ \A o \in Objects : objs[o].inflight = obj[o].inflight
    BY <2>2, <2>5, <2>6 DEF TypeOK
  <2>8. Pending(new) = 0
    BY <2>2, <2>3 DEF Pending, Objects
  <2> HIDE DEF new, objs
  <2>9. new \in 0 .. (MaxWrites + 1) /\ new = made + 1
    BY <2>2 DEF new, Objects
  <2> QED BY <2>1, <2>2, <2>7, <2>8, <2>9 DEF LoadedFacts, TypeOK
<1> QED BY <1>1, <1>2, <1>3, <1>4

----------------------------------------------------------------------------
(* What a step does to the counts                                          *)

LEMMA SameCounts ==
    ASSUME IInv,
           \A o \in Objects : obj'[o].inflight = obj[o].inflight,
           \A r \in Requests : (req'[r].open <=> req[r].open) /\ (req[r].open => req'[r].o = req[r].o)
    PROVE  InflightExact'
<1>1. \A o \in Objects : Open(o)' = Open(o)
  BY DEF Open
<1> QED BY <1>1 DEF IInv, InflightExact

LEMMA OneMore ==
    ASSUME IInv, NEW r \in Requests, NEW o \in Objects, ~req[r].open,
           req'[r].open, req'[r].o = o,
           \A x \in Objects : obj'[x].inflight = IF x = o THEN obj[x].inflight + 1 ELSE obj[x].inflight,
           \A x \in Requests \ {r} : req'[x] = req[x]
    PROVE  InflightExact' /\ \A x \in Objects : obj'[x].inflight \in 0 .. Cardinality(Requests)
<1>1. Open(o)' = Open(o) \cup {r} /\ r \notin Open(o)
  BY DEF Open
<1>2. \A x \in Objects \ {o} : Open(x)' = Open(x)
  BY DEF Open
<1>3. IsFiniteSet(Open(o)) /\ Cardinality(Open(o)) \in Nat
  BY OpenCount DEF IInv
<1>4. Cardinality(Open(o)') = Cardinality(Open(o)) + 1
  BY <1>1, <1>3, FS_AddElement
<1>5. InflightExact'
  BY <1>2, <1>4 DEF IInv, InflightExact
<1>6. Open(o)' \subseteq Requests
  BY DEF Open
<1>7. Cardinality(Open(o)') \in 0 .. Cardinality(Requests)
  BY <1>3, <1>4, <1>6, WakerAssumption, FS_Subset, FS_CardinalityType
<1>8. \A x \in Objects \ {o} : obj'[x].inflight \in 0 .. Cardinality(Requests)
  BY DEF IInv, TypeOK, StateObject
<1>9. obj'[o].inflight = Cardinality(Open(o)')
  BY <1>5 DEF InflightExact
<1> QED BY <1>5, <1>7, <1>8, <1>9

LEMMA OneLess ==
    ASSUME IInv, NEW r \in Requests, NEW o \in Objects, req[r].open, req[r].o = o,
           ~req'[r].open,
           \A x \in Objects : obj'[x].inflight = IF x = o THEN obj[x].inflight - 1 ELSE obj[x].inflight,
           \A x \in Requests \ {r} : req'[x] = req[x]
    PROVE  InflightExact' /\ \A x \in Objects : obj'[x].inflight \in 0 .. Cardinality(Requests)
<1>1. Open(o)' = Open(o) \ {r} /\ r \in Open(o)
  BY DEF Open
<1>2. \A x \in Objects \ {o} : Open(x)' = Open(x)
  BY DEF Open
<1>3. IsFiniteSet(Open(o)) /\ Cardinality(Open(o)) \in 0 .. Cardinality(Requests)
  BY OpenCount DEF IInv
<1>4. Cardinality(Open(o)') = Cardinality(Open(o)) - 1 /\ IsFiniteSet(Open(o)')
  BY <1>1, <1>3, FS_RemoveElement
<1>5. InflightExact'
  BY <1>2, <1>4 DEF IInv, InflightExact
<1>6. Cardinality(Open(o)') \in Nat
  BY <1>4, FS_CardinalityType
<1>7. Cardinality(Open(o)') \in 0 .. Cardinality(Requests)
  BY <1>3, <1>4, <1>6, WakerAssumption, FS_CardinalityType
<1>8. \A x \in Objects \ {o} : obj'[x].inflight \in 0 .. Cardinality(Requests)
  BY DEF IInv, TypeOK, StateObject
<1>9. obj'[o].inflight = Cardinality(Open(o)')
  BY <1>5 DEF InflightExact
<1> QED BY <1>5, <1>7, <1>8, <1>9

LEMMA NobodyCounted ==
    ASSUME \A r \in Requests : ~req[r].open, \A o \in Objects : obj[o].inflight = 0
    PROVE  InflightExact
<1>1. \A o \in Objects : Open(o) = {}
  BY DEF Open
<1> QED BY <1>1, FS_EmptySet DEF InflightExact

----------------------------------------------------------------------------
(* The invariant                                                           *)

LEMMA StartedTyped ==
    ASSUME NEW c \in Config \cup {NoFile, Torn}
    PROVE  Started(c) \in [Objects -> StateObject] /\ \A o \in Objects : Started(c)[o].inflight = 0
<1>1. NewState(NoFile) \in StateObject /\ NewState(NoFile).inflight = 0
  BY NewStateTyped
<1>2. CASE c \in Config
  <2> DEFINE first == [NewState(c) EXCEPT !.up = TRUE]
  <2>1. NewState(c) \in StateObject /\ NewState(c).inflight = 0
    BY <1>2, NewStateTyped
  <2>2. first \in StateObject /\ first.inflight = 0
    BY <2>1 DEF StateObject
  <2>3. Started(c) = [o \in Objects |-> IF o = 1 THEN first ELSE NewState(NoFile)]
    BY <1>2 DEF Started
  <2> HIDE DEF first
  <2> QED BY <1>1, <2>2, <2>3
<1>3. CASE c \notin Config
  <2>1. Started(c) = [o \in Objects |-> NewState(NoFile)]
    BY <1>3 DEF Started
  <2> QED BY <1>1, <2>1
<1> QED BY <1>2, <1>3

LEMMA InitInv == Init => IInv
<1> SUFFICES ASSUME Init PROVE IInv
  OBVIOUS
<1>1. TypeOK
  <2>1. file \in {NoFile, {"sleep"}} /\ {"sleep"} \in Config
    BY DEF Init, Config
  <2>2. obj \in [Objects -> StateObject]
    BY <2>1, StartedTyped DEF Init
  <2>3. apps \in 0 .. made /\ made \in 0 .. (MaxWrites + 1)
    BY WakerAssumption DEF Init
  <2>4. NoRequest \in Request /\ NoSweep \in Sweep
    BY DEF NoRequest, NoSweep, Request, Sweep
  <2>5. req \in [Requests -> Request] /\ sweep \in [Sweeps -> Sweep]
    BY <2>4 DEF Init
  <2> QED BY <2>1, <2>2, <2>3, <2>5, WakerAssumption DEF Init, TypeOK
<1>2. MadeInv
  <2>1. file \in {NoFile, {"sleep"}} /\ {"sleep"} \in Config /\ NoFile \notin Config
    BY DEF Init, Config, NoFile
  <2> QED BY <2>1, WakerAssumption DEF Init, MadeInv, Pending, Bounded
<1>3. RefInv
  BY WakerAssumption DEF Init, RefInv, NoRequest, NoSweep
<1>4. InflightExact
  <2>1. file \in Config \cup {NoFile, Torn}
    BY DEF Init, Config
  <2>2. \A o \in Objects : obj[o].inflight = 0
    BY <2>1, StartedTyped DEF Init
  <2>3. \A r \in Requests : ~req[r].open
    BY DEF Init, NoRequest
  <2> QED BY <2>2, <2>3, NobodyCounted
<1> QED BY <1>1, <1>2, <1>3, <1>4 DEF IInv

\* the parts of the invariant, for steps that make no object and name none
LEMMA SameRefs ==
    ASSUME IInv, made' = made,
           \A r \in Requests : req'[r].o \in {0, req[r].o} /\ (req'[r].open => req[r].open /\ req'[r].o = req[r].o),
           \A s \in Sweeps : sweep'[s].o \in {0, sweep[s].o} /\ sweep'[s].idle \subseteq sweep[s].idle
    PROVE  RefInv'
BY DEF IInv, TypeOK, RefInv

LEMMA MoreUsed ==
    ASSUME TypeOK, NEW what \in Bounded, NEW bound, UseUp(what, bound)
    PROVE  /\ used' \in [Bounded -> Nat]
           /\ what # "write" => used'["write"] = used["write"]
           /\ what = "write" => used'["write"] = used["write"] + 1 /\ used["write"] < bound
BY DEF TypeOK, UseUp, Bounded

LEMMA FileSteps ==
    ASSUME IInv, (\E c \in Config : OpenConfig(c)) \/ FinishConfig \/ RemoveConfig
    PROVE  IInv'
<1> USE DEF IInv
<1>1. UNCHANGED <<obj, made, apps, req, sweep, throttled, quiet>>
  BY DEF OpenConfig, FinishConfig, RemoveConfig
<1>2. InflightExact'
  BY <1>1, SameCounts
<1>3. RefInv'
  BY <1>1 DEF RefInv
<1>4. TypeOK' /\ MadeInv'
  <2>1. CASE \E c \in Config : OpenConfig(c)
    <3>1. PICK c \in Config : OpenConfig(c)
      BY <2>1
    <3>2. used' \in [Bounded -> Nat] /\ used'["write"] = used["write"] + 1 /\ used["write"] < MaxWrites
      BY <3>1, MoreUsed DEF OpenConfig, Bounded
    <3>3. TypeOK'
      BY <1>1, <3>1, <3>2 DEF OpenConfig, TypeOK
    <3>4. Pending(apps)' <= Pending(apps) + 1
      BY DEF Pending
    <3> QED BY <1>1, <3>1, <3>2, <3>3, <3>4, WakerAssumption DEF OpenConfig, MadeInv, TypeOK, Bounded, Pending
  <2>2. CASE FinishConfig
    <3>1. TypeOK'
      BY <1>1, <2>2 DEF FinishConfig, TypeOK
    <3>2. Pending(apps) = 1 /\ Pending(apps)' \in {0, 1}
      BY <2>2 DEF FinishConfig, Pending
    <3>3. writing' = NoFile
      BY <2>2 DEF FinishConfig
    <3>4. used' = used
      BY <2>2 DEF FinishConfig
    <3> QED BY <1>1, <3>1, <3>2, <3>3, <3>4 DEF MadeInv, TypeOK, Bounded
  <2>3. CASE RemoveConfig
    <3>2. used' \in [Bounded -> Nat] /\ used'["write"] = used["write"] + 1 /\ used["write"] < MaxWrites
      BY <2>3, MoreUsed DEF RemoveConfig, Bounded
    <3>3. TypeOK'
      BY <1>1, <2>3, <3>2 DEF RemoveConfig, TypeOK
    <3>4. file # Torn /\ writing = NoFile
      BY <2>3 DEF RemoveConfig, MadeInv, Config, Torn
    <3>5. Pending(apps)' = 0 /\ Pending(apps) \in {0, 1}
      BY <1>1, <2>3, <3>4 DEF RemoveConfig, Pending, Config, NoFile
    <3>6. writing' = NoFile
      BY <2>3, <3>4 DEF RemoveConfig
    <3> QED BY <1>1, <3>2, <3>3, <3>5, <3>6, WakerAssumption DEF MadeInv, TypeOK, Bounded
  <2> QED BY <2>1, <2>2, <2>3
<1> QED BY <1>2, <1>3, <1>4

\* steps of a sweep and of the container that touch no object
LEMMA SweepSteps ==
    ASSUME IInv,
           \/ \E s \in Sweeps : Visit(s) \/ StopContainer(s) \/ StopRefused(s) \/ StopThrows(s)
           \/ ContainerExits \/ Boots \/ Crashes \/ Outside
    PROVE  IInv'
<1> USE DEF IInv
<1>1. UNCHANGED <<file, writing, obj, made, apps, req, throttled, quiet>>
  BY DEF Visit, StopContainer, StopRefused, StopThrows, ContainerExits, Boots, Crashes, Outside
<1>2. used' \in [Bounded -> Nat] /\ used'["write"] = used["write"]
  BY MoreUsed DEF Visit, StopContainer, StopRefused, StopThrows, ContainerExits, Boots, Crashes, Outside, TypeOK,
     Bounded
<1>3. container' \in {"up", "booting", "stopping", "down", "absent"}
  BY DEF Visit, StopContainer, StopRefused, StopThrows, ContainerExits, Boots, Crashes, Outside, TypeOK
<1>4. sweep' \in [Sweeps -> Sweep] /\ \A s \in Sweeps : /\ sweep'[s].o \in {0, apps, sweep[s].o}
                                                       /\ sweep'[s].idle \subseteq sweep[s].idle
  <2>1. apps \in Objects \cup {0}
    BY WakerAssumption DEF TypeOK, Objects
  <2>2. CASE \E s \in Sweeps : Visit(s)
    BY <2>1, <2>2 DEF Visit, EndSweep, NoSweep, TypeOK, Sweep
  <2>3. CASE \E s \in Sweeps : StopContainer(s)
    BY <2>3 DEF StopContainer, SetSweep, TypeOK, Sweep
  <2>4. CASE \E s \in Sweeps : StopRefused(s) \/ StopThrows(s)
    BY <2>4 DEF StopRefused, StopThrows, SetSweep, EndSweep, NoSweep, TypeOK, Sweep
  <2>5. CASE ContainerExits
    BY <2>5 DEF ContainerExits, TypeOK, Sweep
  <2>6. CASE Boots \/ Crashes \/ Outside
    BY <2>6 DEF Boots, Crashes, Outside, TypeOK
  <2> QED BY <2>2, <2>3, <2>4, <2>5, <2>6
<1>5. TypeOK'
  BY <1>1, <1>2, <1>3, <1>4 DEF TypeOK
<1>6. InflightExact'
  BY <1>1, SameCounts
<1>7. MadeInv'
  BY <1>1, <1>2 DEF MadeInv, Pending
<1>8. RefInv'
  BY <1>1, <1>4 DEF RefInv, TypeOK
<1> QED BY <1>5, <1>6, <1>7, <1>8

\* steps that change fields of the objects other than inflight, and no request
LEMMA ObjectSteps ==
    ASSUME IInv, (\E o \in Objects : Inspect(o) \/ StartContainer(o)) \/ (\E s \in Sweeps : Slept(s)) \/ Tick
    PROVE  IInv'
<1> USE DEF IInv
<1>1. UNCHANGED <<file, writing, made, apps, req, used>>
  BY DEF Inspect, StartContainer, Slept, Tick
<1>2. obj' \in [Objects -> StateObject] /\ \A o \in Objects : obj'[o].inflight = obj[o].inflight
  <2>1. CASE \E o \in Objects : Inspect(o)
    BY <2>1 DEF Inspect, SetWaking, TypeOK, StateObject
  <2>2. CASE \E o \in Objects : StartContainer(o)
    BY <2>2 DEF StartContainer, SetWaking, TypeOK, StateObject
  <2>3. CASE \E s \in Sweeps : Slept(s)
    <3>1. PICK s \in Sweeps : Slept(s)
      BY <2>3
    <3>2. CASE sweep[s].o \in Objects
      BY <3>1, <3>2, ZenonT(60) DEF Slept, TypeOK, StateObject
    <3>3. CASE sweep[s].o \notin Objects
      <4>1. obj' = obj
        BY <3>1, <3>3 DEF Slept, TypeOK
      <4> QED BY <4>1 DEF TypeOK
    <3> QED BY <3>2, <3>3
  <2>4. CASE Tick
    <3>1. \A o \in Objects : Older(obj[o].last, IdleTicks) \in 0 .. IdleTicks /\ Older(obj[o].check, CheckTicks) \in 0 .. CheckTicks
      BY WakerAssumption DEF Older, TypeOK, StateObject
    <3> QED BY <2>4, <3>1, ZenonT(60) DEF Tick, TypeOK, StateObject
  <2> QED BY <2>1, <2>2, <2>3, <2>4
<1>3. sweep' \in [Sweeps -> Sweep] /\ \A s \in Sweeps : /\ sweep'[s].o \in {0, sweep[s].o}
                                                       /\ sweep'[s].idle \subseteq sweep[s].idle
  <2>1. CASE \E s \in Sweeps : Slept(s)
    BY <2>1 DEF Slept, EndSweep, NoSweep, TypeOK, Sweep
  <2>2. CASE Tick \/ \E o \in Objects : Inspect(o) \/ StartContainer(o)
    <3>1. sweep' = sweep
      BY <2>2 DEF Tick, Inspect, StartContainer
    <3> QED BY <3>1 DEF TypeOK
  <2> QED BY <2>1, <2>2
<1>4. throttled' \in BOOLEAN /\ quiet' \in 0 .. IdleTicks
  <2>1. CASE Tick
    <3>1. Older(quiet, IdleTicks) \in 0 .. IdleTicks
      BY WakerAssumption DEF Older, TypeOK
    <3> QED BY <2>1, <3>1 DEF Tick
  <2>2. CASE (\E s \in Sweeps : Slept(s)) \/ \E o \in Objects : Inspect(o) \/ StartContainer(o)
    <3>1. throttled' = throttled /\ quiet' = quiet
      BY <2>2 DEF Slept, Inspect, StartContainer
    <3> QED BY <3>1 DEF TypeOK
  <2> QED BY <2>1, <2>2
<1>5. container' \in {"up", "booting", "stopping", "down", "absent"}
  BY DEF Inspect, StartContainer, Slept, Tick, TypeOK
<1>6. TypeOK'
  BY <1>1, <1>2, <1>3, <1>4, <1>5 DEF TypeOK
<1>7. InflightExact'
  BY <1>1, <1>2, SameCounts
<1>8. MadeInv'
  BY <1>1 DEF MadeInv, Pending
<1>9. RefInv'
  BY <1>1, <1>3, SameRefs
<1> QED BY <1>6, <1>7, <1>8, <1>9

\* steps of handlers that neither start nor end
LEMMA RequestSteps ==
    ASSUME IInv,
           \/ \E r \in Requests : Forward(r)
           \/ \E o \in Objects : WakeDone(o) \/ WakeFailed(o) \/ DockerFails(o)
    PROVE  IInv'
<1> USE DEF IInv
<1>1. UNCHANGED <<file, writing, made, apps, throttled, container, sweep, quiet>>
  BY DEF Forward, WakeDone, WakeFailed, DockerFails
<1>2. used' \in [Bounded -> Nat] /\ used'["write"] = used["write"]
  BY MoreUsed DEF Forward, WakeDone, WakeFailed, DockerFails, TypeOK, Bounded
<1>3. NoRequest \in Request /\ ~NoRequest.open /\ NoRequest.o = 0
  BY DEF NoRequest, Request
<1>4. /\ obj' \in [Objects -> StateObject] /\ \A o \in Objects : obj'[o].inflight = obj[o].inflight
      /\ req' \in [Requests -> Request]
      /\ \A r \in Requests : (req'[r].open <=> req[r].open) /\ req'[r].o \in {0, req[r].o} /\ (req[r].open => req'[r].o = req[r].o)
  <2>1. ASSUME NEW r \in Requests, Forward(r) PROVE <1>4!1 /\ <1>4!2 /\ <1>4!3
    <3>1. \A x \in Requests \ {r} : req'[x] = req[x]
      BY <2>1 DEF Forward, TypeOK
    <3>2. req' \in [Requests -> Request] /\ (req'[r].open <=> req[r].open) /\ req'[r].o \in {0, req[r].o}
          /\ (req[r].open => req'[r].o = req[r].o)
      <4>1. \/ req' = [req EXCEPT ![r] = NoRequest] /\ ~req[r].open
            \/ req' = [req EXCEPT ![r] = [req[r] EXCEPT !.pc = "connected"]]
            \/ req' = [req EXCEPT ![r] = [req[r] EXCEPT !.pc = "answered"]]
        BY <2>1 DEF Forward, TypeOK
      <4>2. [req[r] EXCEPT !.pc = "connected"] \in Request /\ [req[r] EXCEPT !.pc = "answered"] \in Request
        BY DEF TypeOK, Request
      <4> QED BY <4>1, <4>2, <1>3 DEF TypeOK, Request
    <3>3. obj' \in [Objects -> StateObject] /\ \A o \in Objects : obj'[o].inflight = obj[o].inflight
      <4>1. obj' = obj \/ obj' = [obj EXCEPT ![req[r].o].up = FALSE]
        BY <2>1 DEF Forward
      <4>2. CASE req[r].o \in Objects
        <5> DEFINE o == req[r].o
        <5>0. obj[o] \in StateObject
          BY <4>2 DEF TypeOK
        <5>1. [obj[o] EXCEPT !.up = FALSE] \in StateObject /\ [obj[o] EXCEPT !.up = FALSE].inflight = obj[o].inflight
          BY <5>0, Forgotten
        <5>2. obj' = obj \/ obj' = [obj EXCEPT ![o] = [obj[o] EXCEPT !.up = FALSE]]
          BY <4>1
        <5> HIDE DEF o
        <5> QED BY <5>1, <5>2 DEF TypeOK
      <4>3. CASE req[r].o \notin Objects
        <5>1. obj' = obj
          BY <4>1, <4>3 DEF TypeOK
        <5> QED BY <5>1 DEF TypeOK
      <4> QED BY <4>2, <4>3
    <3> QED BY <3>1, <3>2, <3>3
  <2>2. ASSUME NEW o \in Objects, WakeDone(o) PROVE <1>4!1 /\ <1>4!2 /\ <1>4!3
    <3>1. obj' \in [Objects -> StateObject] /\ \A x \in Objects : obj'[x].inflight = obj[x].inflight
      <4> DEFINE woken == [obj[o] EXCEPT !.up = TRUE, !.check = 0, !.waking = "no"]
      <4>1. woken \in StateObject /\ woken.inflight = obj[o].inflight
        <5>1. obj[o] \in StateObject
          BY DEF TypeOK
        <5> QED BY <5>1, Woken
      <4>2. obj' = [obj EXCEPT ![o] = woken]
        BY <2>2 DEF WakeDone
      <4> HIDE DEF woken
      <4> QED BY <4>1, <4>2 DEF TypeOK
    <3>2. \A r \in Requests : [req[r] EXCEPT !.pc = "forwarding"] \in Request
      BY DEF TypeOK, Request
    <3>3. req' \in [Requests -> Request] /\ \A r \in Requests : req'[r] \in {req[r], [req[r] EXCEPT !.pc = "forwarding"]}
      BY <2>2, <3>2 DEF WakeDone, TypeOK
    <3>4. \A r \in Requests : req'[r].open = req[r].open /\ req'[r].o = req[r].o
      BY <3>3 DEF TypeOK, Request
    <3> QED BY <3>1, <3>3, <3>4
  <2>3. ASSUME NEW o \in Objects, FailWaiting(o) PROVE <1>4!1 /\ <1>4!2 /\ <1>4!3
    <3> DEFINE http == \A r \in Waiting(o) : req[r].kind # "http"
    <3>1. obj' \in [Objects -> StateObject] /\ \A x \in Objects : obj'[x].inflight = obj[x].inflight
      <4>1. obj' = [obj EXCEPT ![o] = [obj[o] EXCEPT !.waking = "no", !.up = obj[o].up /\ http]]
        BY <2>3 DEF FailWaiting, TypeOK
      <4>2. (obj[o].up /\ http) \in BOOLEAN
        OBVIOUS
      <4> HIDE DEF http
      <4>3. [obj[o] EXCEPT !.waking = "no", !.up = obj[o].up /\ http] \in StateObject
        BY <4>2 DEF TypeOK, StateObject
      <4>4. [obj[o] EXCEPT !.waking = "no", !.up = obj[o].up /\ http].inflight = obj[o].inflight
        BY DEF TypeOK, StateObject
      <4> QED BY <4>1, <4>3, <4>4 DEF TypeOK
    <3>2. \A r \in Requests : [req[r] EXCEPT !.pc = "answered"] \in Request
      BY DEF TypeOK, Request
    <3>3. \A r \in Requests : \/ req'[r] = req[r]
                              \/ req'[r] = [req[r] EXCEPT !.pc = "answered"]
                              \/ ~req[r].open /\ req'[r] = NoRequest
      BY <2>3 DEF FailWaiting
    <3>4. req' \in [Requests -> Request]
      <4>1. req' = [r \in Requests |-> req'[r]]
        BY <2>3 DEF FailWaiting
      <4> QED BY <1>3, <3>2, <3>3, <4>1 DEF TypeOK
    <3>5. \A r \in Requests : (req'[r].open <=> req[r].open) /\ req'[r].o \in {0, req[r].o} /\ (req[r].open => req'[r].o = req[r].o)
      BY <1>3, <3>3, ZenonT(60) DEF TypeOK, Request
    <3> QED BY <3>1, <3>4, <3>5
  <2> QED BY <2>1, <2>2, <2>3 DEF WakeFailed, DockerFails
<1>5. TypeOK'
  BY <1>1, <1>2, <1>4 DEF TypeOK
<1>6. InflightExact'
  BY <1>4, SameCounts
<1>7. MadeInv'
  BY <1>1, <1>2 DEF MadeInv, Pending
<1>8. RefInv'
  BY <1>1, <1>4, SameRefs
<1> QED BY <1>5, <1>6, <1>7, <1>8

\* a visitor, or a sweep that starts: loadConfig runs first
LEMMA LoadSteps ==
    ASSUME IInv,
           \/ \E s \in Sweeps : StartSweep(s)
           \/ \E r \in Requests, kind \in {"http", "upgrade"} : Arrive(r, kind)
    PROVE  IInv'
<1> DEFINE m == Loaded
<1> USE DEF IInv
<1>1. LoadedFacts(m)
  BY LoadKeepsCounts
<1> HIDE DEF m
<1>2. UNCHANGED <<file, writing, container, used>> /\ apps' = m.apps /\ made' = m.made /\ throttled' \in BOOLEAN
  BY DEF StartSweep, Arrive, m
<1>3. MadeInv'
  BY <1>1, <1>2 DEF MadeInv, LoadedFacts, Pending
<1>4. m.apps \in Objects \cup {0}
  BY <1>1, WakerAssumption DEF LoadedFacts, Objects
<1>5. \A s \in Sweeps : sweep[s].o <= m.made /\ \A o \in sweep[s].idle : o <= m.made
  BY <1>1 DEF RefInv, LoadedFacts, TypeOK, Sweep, Objects
<1>6. \A r \in Requests : req[r].o <= m.made
  BY <1>1 DEF RefInv, LoadedFacts, TypeOK, Request, Objects
<1>7. CASE \E s \in Sweeps : StartSweep(s)
  <2> PICK s \in Sweeps : StartSweep(s)
    BY <1>7
  <2>1. UNCHANGED <<req, quiet>> /\ obj' = m.obj
    BY DEF StartSweep, m
  <2> DEFINE idle == {o \in Objects : o = m.apps /\ m.obj[o].last = IdleTicks}
             started == [pc |-> "visit", o |-> 0, idle |-> idle]
  <2>2. sweep' = [sweep EXCEPT ![s] = started]
    BY DEF StartSweep, m
  <2>3. started \in Sweep /\ \A o \in idle : o <= m.made
    BY <1>1 DEF Sweep, LoadedFacts
  <2>4. started.o = 0 /\ started.idle = idle
    OBVIOUS
  <2> HIDE DEF started, idle
  <2>5. TypeOK'
    BY <1>1, <1>2, <2>1, <2>2, <2>3 DEF TypeOK, LoadedFacts
  <2>6. RefInv'
    BY <1>1, <1>2, <1>5, <1>6, <2>1, <2>2, <2>3, <2>4 DEF RefInv, TypeOK, LoadedFacts
  <2>7. InflightExact'
    BY <1>1, <2>1, SameCounts DEF LoadedFacts
  <2> QED BY <1>3, <2>5, <2>6, <2>7
<1>8. CASE \E r \in Requests, kind \in {"http", "upgrade"} : Arrive(r, kind)
  <2> PICK r \in Requests, kind \in {"http", "upgrade"} : Arrive(r, kind)
    BY <1>8
  <2>1. req[r] = NoRequest /\ ~req[r].open
    BY DEF Arrive, NoRequest
  <2>2. CASE UNCHANGED <<req, sweep, quiet>> /\ obj' = m.obj
    <3>1. TypeOK'
      BY <1>1, <1>2, <2>2 DEF TypeOK, LoadedFacts
    <3>2. RefInv'
      BY <1>2, <1>5, <1>6, <2>2 DEF RefInv
    <3>3. InflightExact'
      BY <1>1, <2>2, SameCounts DEF LoadedFacts
    <3> QED BY <1>3, <3>1, <3>2, <3>3
  <2>3. CASE m.apps # 0 /\ Admit(r, kind, m.apps, m.obj)
    <3> DEFINE o == m.apps
               before == m.obj[o]
               cached == before.up /\ before.check < CheckTicks
               last == IF kind = "http" THEN 0 ELSE before.last
               waking == IF ~cached /\ before.waking = "no" THEN "inspect" ELSE before.waking
               after == [before EXCEPT !.inflight = before.inflight + 1, !.last = last, !.waking = waking]
               new == [pc |-> IF cached THEN "forwarding" ELSE "waiting", kind |-> kind, o |-> o, open |-> TRUE]
    <3>1. o \in Objects /\ before \in StateObject /\ before.inflight = obj[o].inflight
      BY <1>1, <1>4, <2>3 DEF LoadedFacts
    <3>2. new \in Request /\ new.open /\ new.o = o
      BY <3>1 DEF Request
    <3>3. req' = [req EXCEPT ![r] = new]
      BY <2>3 DEF Admit
    <3>4. obj' = [m.obj EXCEPT ![o] = after]
      BY <2>3 DEF Admit
    <3>5. last \in 0 .. IdleTicks /\ waking \in {"no", "inspect", "running", "start", "port", "failed"}
      BY <3>1, WakerAssumption DEF StateObject
    <3> HIDE DEF new, last, waking, cached
    <3>6. /\ after.inflight = before.inflight + 1
          /\ before.inflight + 1 \in 0 .. Cardinality(Requests) => after \in StateObject
      <4> HIDE DEF before
      <4>1. before \in StateObject
        BY <3>1
      <4> DEFINE count == before.inflight + 1
      <4> HIDE DEF count
      <4> HIDE DEF after
      <4>2. after = [before EXCEPT !.inflight = count, !.last = last, !.waking = waking]
        BY DEF after, count
      <4>3. after.inflight = count
        BY <4>1, <4>2 DEF StateObject
      <4>4. ASSUME count \in 0 .. Cardinality(Requests) PROVE after \in StateObject
        BY <3>5, <4>1, <4>2, <4>4 DEF StateObject
      <4> QED BY <4>3, <4>4 DEF count
    <3> HIDE DEF after
    <3>7. \A x \in Objects : obj'[x].inflight = IF x = o THEN obj[x].inflight + 1 ELSE obj[x].inflight
      BY <1>1, <3>1, <3>4, <3>6 DEF LoadedFacts
    <3>8. req'[r].open /\ req'[r].o = o /\ \A x \in Requests \ {r} : req'[x] = req[x]
      BY <3>2, <3>3 DEF TypeOK
    <3>9. InflightExact' /\ \A x \in Objects : obj'[x].inflight \in 0 .. Cardinality(Requests)
      BY <2>1, <3>1, <3>7, <3>8, OneMore
    <3>10. after.inflight \in 0 .. Cardinality(Requests)
      BY <1>1, <3>1, <3>4, <3>9 DEF LoadedFacts
    <3>11. after \in StateObject
      BY <3>6, <3>10
    <3>12. obj' \in [Objects -> StateObject]
      BY <1>1, <3>1, <3>4, <3>11 DEF LoadedFacts
    <3>13. sweep' \in [Sweeps -> Sweep] /\ \A s \in Sweeps : sweep'[s].o = sweep[s].o /\ sweep'[s].idle \subseteq sweep[s].idle
      BY <2>3 DEF Admit, Touched, TypeOK, Sweep
    <3>14. quiet' \in 0 .. IdleTicks
      <4>1. quiet' = 0
        BY <2>3, Zenon DEF Admit
      <4> QED
        BY <4>1, WakerAssumption
    <3>15. req' \in [Requests -> Request]
      BY <3>2, <3>3 DEF TypeOK
    <3>16. TypeOK'
      BY <1>1, <1>2, <3>12, <3>13, <3>14, <3>15 DEF TypeOK, LoadedFacts
    <3>17. o <= m.made
      BY <1>1 DEF LoadedFacts
    <3>18. RefInv'
      BY <1>2, <1>5, <1>6, <2>3, <3>8, <3>13, <3>17 DEF RefInv
    <3> QED BY <1>3, <3>9, <3>16, <3>18
  <2> QED BY <2>2, <2>3 DEF Arrive, m
<1> QED BY <1>7, <1>8

LEMMA CloseStep ==
    ASSUME IInv, NEW r \in Requests, Close(r)
    PROVE  IInv'
<1> USE DEF IInv
<1> DEFINE o == req[r].o
           before == obj[o]
           after == [before EXCEPT !.inflight = before.inflight - 1, !.last = 0]
           left == IF req[r].pc \in {"connected", "answered"} THEN NoRequest ELSE [req[r] EXCEPT !.open = FALSE]
<1>1. req[r].open /\ UNCHANGED <<file, writing, apps, made, throttled, container, used>>
  BY DEF Close
<1>2. o \in Objects
  BY <1>1 DEF RefInv, TypeOK, Request
<1>3. before \in StateObject
  BY <1>2 DEF TypeOK
<1>4. obj' = [obj EXCEPT ![o] = after]
  BY DEF Close
<1>5. left \in Request /\ ~left.open /\ left.o \in {0, o}
  BY <1>2 DEF NoRequest, TypeOK, Request
<1>6. req' = [req EXCEPT ![r] = left]
  BY DEF Close
<1>7. after.inflight = before.inflight - 1
  BY <1>3 DEF StateObject
<1>8. ASSUME after.inflight \in 0 .. Cardinality(Requests) PROVE after \in StateObject
  <2>1. 0 \in 0 .. IdleTicks
    BY WakerAssumption
  <2> QED BY <1>3, <1>8, <2>1 DEF StateObject
<1> HIDE DEF after, left
<1>9. ~req'[r].open /\ \A x \in Requests \ {r} : req'[x] = req[x]
  BY <1>5, <1>6 DEF TypeOK
<1>10. \A x \in Objects : obj'[x].inflight = IF x = o THEN obj[x].inflight - 1 ELSE obj[x].inflight
  BY <1>2, <1>4, <1>7 DEF TypeOK
<1>11. InflightExact' /\ \A x \in Objects : obj'[x].inflight \in 0 .. Cardinality(Requests)
  BY <1>1, <1>2, <1>9, <1>10, OneLess
<1>12. after \in StateObject
  BY <1>2, <1>4, <1>8, <1>11 DEF TypeOK
<1>13. sweep' \in [Sweeps -> Sweep] /\ \A s \in Sweeps : sweep'[s].o = sweep[s].o /\ sweep'[s].idle \subseteq sweep[s].idle
  BY DEF Close, Touched, TypeOK, Sweep
<1>14. quiet' \in 0 .. IdleTicks
  BY WakerAssumption DEF Close
<1>15. TypeOK'
  BY <1>1, <1>2, <1>4, <1>5, <1>6, <1>12, <1>13, <1>14 DEF TypeOK
<1>16. MadeInv'
  BY <1>1 DEF MadeInv, Pending
<1>17. \A x \in Requests : req'[x].o \in {0, req[x].o} /\ (req'[x].open => req[x].open /\ req'[x].o = req[x].o)
  BY <1>5, <1>6, <1>9 DEF TypeOK
<1>18. RefInv'
  BY <1>1, <1>13, <1>17, SameRefs
<1> QED BY <1>11, <1>15, <1>16, <1>18

LEMMA RestartStep ==
    ASSUME IInv, Restart
    PROVE  IInv'
<1> USE DEF IInv
<1>1. UNCHANGED <<file, writing, container>> /\ made' = apps' /\ throttled' = TRUE /\ obj' = Started(file)
  BY DEF Restart
<1>2. apps' \in 0 .. 1 /\ (file \in Config => apps' = 1)
  BY DEF Restart
<1>3. used' \in [Bounded -> Nat] /\ used'["write"] = used["write"]
  BY MoreUsed DEF Restart, Bounded
<1>4. obj' \in [Objects -> StateObject] /\ \A o \in Objects : obj'[o].inflight = 0
  BY <1>1, StartedTyped DEF TypeOK
<1>5. NoRequest \in Request /\ NoSweep \in Sweep
  BY DEF NoRequest, NoSweep, Request, Sweep
<1>6. req' \in [Requests -> Request] /\ sweep' \in [Sweeps -> Sweep]
  BY <1>5 DEF Restart
<1>7. quiet' \in 0 .. IdleTicks
  BY WakerAssumption DEF Restart, TypeOK
<1>8. TypeOK'
  BY <1>1, <1>2, <1>3, <1>4, <1>6, <1>7, WakerAssumption DEF TypeOK
<1>9. \A r \in Requests : ~req'[r].open /\ req'[r].o = 0
  BY DEF Restart, NoRequest
<1>10. InflightExact'
  <2>1. \A o \in Objects : Open(o)' = {}
    BY <1>9 DEF Open
  <2> QED BY <1>4, <2>1, FS_EmptySet DEF InflightExact
<1>11. RefInv'
  BY <1>1, <1>2, <1>9 DEF RefInv, Restart, NoSweep
<1>12. MadeInv'
  <2>1. writing # NoFile => apps' = 0
    BY DEF Restart, MadeInv, Torn, Config
  <2>2. used["write"] \in Nat
    BY DEF TypeOK, Bounded
  <2>3. Pending(apps)' \in {0, 1} /\ (apps' = 1 => Pending(apps)' = 0)
    BY <1>1, <2>1 DEF Pending
  <2> QED BY <1>1, <1>2, <1>3, <2>2, <2>3 DEF MadeInv
<1> QED BY <1>8, <1>10, <1>11, <1>12

LEMMA StepInv == IInv /\ [Next]_vars => IInv'
<1> SUFFICES ASSUME IInv, [Next]_vars PROVE IInv'
  OBVIOUS
<1>1. CASE UNCHANGED vars
  <2>1. \A o \in Objects : Open(o)' = Open(o)
    BY <1>1 DEF vars, Open
  <2> QED BY <1>1, <2>1 DEF vars, IInv, TypeOK, MadeInv, Pending, RefInv, InflightExact
<1>2. CASE (\E c \in Config : OpenConfig(c)) \/ FinishConfig \/ RemoveConfig
  BY <1>2, FileSteps
<1>3. CASE \E r \in Requests : Arrive(r, "http") \/ Arrive(r, "upgrade")
  BY <1>3, LoadSteps
<1>4. CASE \E r \in Requests : Forward(r)
  BY <1>4, RequestSteps
<1>5. CASE \E r \in Requests : Close(r)
  BY <1>5, CloseStep
<1>6. CASE \E o \in Objects : Inspect(o) \/ StartContainer(o)
  BY <1>6, ObjectSteps
<1>7. CASE \E o \in Objects : WakeDone(o) \/ WakeFailed(o) \/ DockerFails(o)
  BY <1>7, RequestSteps
<1>8. CASE \E s \in Sweeps : StartSweep(s)
  BY <1>8, LoadSteps
<1>9. CASE \E s \in Sweeps : Visit(s) \/ StopContainer(s) \/ StopRefused(s) \/ StopThrows(s)
  BY <1>9, SweepSteps
<1>10. CASE (\E s \in Sweeps : Slept(s)) \/ Tick
  BY <1>10, ObjectSteps
<1>11. CASE ContainerExits \/ Boots \/ Crashes \/ Outside
  BY <1>11, SweepSteps
<1>12. CASE Restart
  BY <1>12, RestartStep
<1> QED
  BY <1>1, <1>2, <1>3, <1>4, <1>5, <1>6, <1>7, <1>8, <1>9, <1>10, <1>11, <1>12 DEF Next

LEMMA Invariance == Spec => []IInv
<1>1. Init => IInv
  BY InitInv
<1>2. IInv /\ [Next]_vars => IInv'
  BY StepInv
<1> QED BY <1>1, <1>2, PTL DEF Spec

\* Every state of the waker is well typed: in particular loadConfig never runs out of objects, and no count
\* goes below zero or above the number of requests.
THEOREM WakerTypeCorrect == Spec => []TypeOK
<1>1. IInv => TypeOK
  BY DEF IInv
<1> QED BY <1>1, Invariance, PTL

\* Every state object counts exactly the open requests and upgrades it was handed, whichever of them fail,
\* hang up during a wake-up or outlive the object's place in the map (done, waker.cjs:215-222 and 256-263).
THEOREM RequestsCountedExactly == Spec => []InflightExact
<1>1. IInv => InflightExact
  BY DEF IInv
<1> QED BY <1>1, Invariance, PTL

----------------------------------------------------------------------------
(* The sweep                                                               *)

NobodyThere == \A r \in Requests : ~req[r].open

\* Without visitors no object saw traffic longer ago than the application did, and a sweep that found
\* an object idle is right.  While somebody is there this need not hold: an upgrade does not set last.
QuietInv ==
    NobodyThere => /\ \A o \in Objects : obj[o].last <= quiet
                   /\ \A s \in Sweeps : sweep[s].idle # {} => quiet = IdleTicks

\* steps that leave the ages and whether somebody is there as they are
LEMMA QuietSame ==
    ASSUME QuietInv, quiet' = quiet,
           \A r \in Requests : req'[r].open <=> req[r].open,
           \A o \in Objects : obj'[o].last <= obj[o].last,
           \A o \in Objects : obj[o].last \in Nat /\ obj'[o].last \in Nat,
           quiet \in Nat,
           \A s \in Sweeps : sweep'[s].idle \subseteq sweep[s].idle
    PROVE  QuietInv'
<1> SUFFICES ASSUME NobodyThere' PROVE QuietInv!2'
  BY DEF QuietInv
<1>1. NobodyThere
  BY DEF NobodyThere
<1> QED BY <1>1 DEF QuietInv

LEMMA LoadedAges ==
    ASSUME IInv, NEW o \in Objects
    PROVE  Loaded.obj[o].last \in {0, obj[o].last}
<1>1. CASE Loaded.obj = obj
  BY <1>1
<1>2. CASE ~throttled /\ file \in Config /\ apps # 0
  <2>1. Loaded.obj = [obj EXCEPT ![apps].cfg = file]
    BY <1>2 DEF Loaded
  <2> QED BY <2>1 DEF IInv, TypeOK, StateObject
<1>3. CASE ~throttled /\ file \in Config /\ apps = 0
  <2>1. Loaded.obj = [obj EXCEPT ![made + 1] = NewState(file)]
    BY <1>3 DEF Loaded
  <2> QED BY <2>1 DEF IInv, TypeOK, NewState
<1> QED BY <1>1, <1>2, <1>3 DEF Loaded

LEMMA QuietStep ==
    ASSUME IInv, IInv', QuietInv, Next, MaxWrites = 0
    PROVE  QuietInv'
<1>1. Objects = {1}
  BY DEF Objects
<1>2. quiet \in 0 .. IdleTicks /\ \A o \in Objects : obj[o].last \in 0 .. IdleTicks /\ obj'[o].last \in 0 .. IdleTicks
  BY DEF IInv, TypeOK, StateObject
<1>3. IdleTicks \in Nat
  BY WakerAssumption
<1>4. CASE (\E c \in Config : OpenConfig(c)) \/ FinishConfig \/ RemoveConfig \/ Boots \/ Crashes \/ Outside
  <2>1. UNCHANGED <<obj, req, sweep, quiet>>
    BY <1>4 DEF OpenConfig, FinishConfig, RemoveConfig, Boots, Crashes, Outside
  <2> QED BY <2>1, <1>2, <1>3, QuietSame
<1>5. CASE ContainerExits \/ \E s \in Sweeps : Visit(s) \/ StopContainer(s) \/ StopRefused(s) \/ StopThrows(s) \/ Slept(s)
  <2>1. UNCHANGED <<req, quiet>>
    BY <1>5 DEF ContainerExits, Visit, StopContainer, StopRefused, StopThrows, Slept
  <2>2. \A s \in Sweeps : sweep'[s].idle \subseteq sweep[s].idle
    <3> USE DEF SetSweep, EndSweep, NoSweep, IInv, TypeOK, Sweep
    <3>1. CASE ContainerExits
      BY <3>1 DEF ContainerExits
    <3>2. CASE \E s \in Sweeps : Visit(s)
      BY <3>2 DEF Visit
    <3>3. CASE \E s \in Sweeps : StopContainer(s)
      BY <3>3 DEF StopContainer
    <3>4. CASE \E s \in Sweeps : StopRefused(s)
      BY <3>4 DEF StopRefused
    <3>5. CASE \E s \in Sweeps : StopThrows(s) \/ Slept(s)
      BY <3>5 DEF StopThrows, Slept
    <3> QED BY ONLY <1>5, <3>1, <3>2, <3>3, <3>4, <3>5
  <2>3. \A o \in Objects : obj'[o].last = obj[o].last
    <3>1. CASE \E s \in Sweeps : Slept(s)
      BY <3>1 DEF Slept, IInv, TypeOK, StateObject
    <3>2. CASE ContainerExits \/ \E s \in Sweeps : Visit(s) \/ StopContainer(s) \/ StopRefused(s) \/ StopThrows(s)
      BY <3>2 DEF ContainerExits, Visit, StopContainer, StopRefused, StopThrows
    <3> QED BY <1>5, <3>1, <3>2
  <2> QED BY <2>1, <2>2, <2>3, <1>2, <1>3, QuietSame
<1>6. CASE \/ \E r \in Requests : Forward(r)
           \/ \E o \in Objects : Inspect(o) \/ StartContainer(o) \/ WakeDone(o) \/ WakeFailed(o) \/ DockerFails(o)
  <2>1. UNCHANGED <<sweep, quiet>>
    BY <1>6 DEF Forward, Inspect, StartContainer, WakeDone, WakeFailed, DockerFails
  <2>2. \A o \in Objects : obj'[o].last = obj[o].last
    <3>1. CASE \E r \in Requests : Forward(r)
      BY <3>1 DEF Forward, IInv, TypeOK, StateObject
    <3>2. CASE \E o \in Objects : Inspect(o) \/ StartContainer(o)
      BY <3>2 DEF Inspect, StartContainer, SetWaking, IInv, TypeOK, StateObject
    <3>3. CASE \E o \in Objects : WakeDone(o)
      BY <3>3 DEF WakeDone, IInv, TypeOK, StateObject
    <3>4. CASE \E o \in Objects : WakeFailed(o) \/ DockerFails(o)
      BY <3>4 DEF WakeFailed, DockerFails, FailWaiting, IInv, TypeOK, StateObject
    <3> QED BY <1>6, <3>1, <3>2, <3>3, <3>4
  <2>3. \A r \in Requests : req'[r].open <=> req[r].open
    <3>1. CASE \E r \in Requests : Forward(r)
      BY <3>1 DEF Forward, NoRequest, IInv, TypeOK, Request
    <3>2. CASE \E o \in Objects : Inspect(o) \/ StartContainer(o)
      BY <3>2 DEF Inspect, StartContainer
    <3>3. CASE \E o \in Objects : WakeDone(o)
      BY <3>3 DEF WakeDone, IInv, TypeOK, Request
    <3>4. CASE \E o \in Objects : WakeFailed(o) \/ DockerFails(o)
      BY <3>4 DEF WakeFailed, DockerFails, FailWaiting, NoRequest, IInv, TypeOK, Request
    <3> QED BY <1>6, <3>1, <3>2, <3>3, <3>4
  <2> QED BY <2>1, <2>2, <2>3, <1>2, <1>3, QuietSame
<1>7. CASE Tick
  <2>1. UNCHANGED <<req, sweep>> /\ quiet' = Older(quiet, IdleTicks)
    BY <1>7 DEF Tick
  <2>2. \A o \in Objects : obj'[o].last = Older(obj[o].last, IdleTicks)
    BY <1>7 DEF Tick, IInv, TypeOK, StateObject
  <2>3. \A o \in Objects : obj[o].last <= quiet => obj'[o].last <= quiet'
    BY <1>2, <1>3, <2>1, <2>2 DEF Older
  <2>4. quiet = IdleTicks => quiet' = IdleTicks
    BY <1>3, <2>1 DEF Older
  <2> QED BY <2>1, <2>3, <2>4 DEF QuietInv, NobodyThere
<1>8. CASE \E s \in Sweeps : StartSweep(s)
  <2> PICK s \in Sweeps : StartSweep(s)
    BY <1>8
  <2>1. UNCHANGED <<req, quiet>> /\ obj' = Loaded.obj
    BY DEF StartSweep
  <2>2. \A o \in Objects : obj'[o].last \in {0, obj[o].last}
    BY <2>1, LoadedAges
  <2>3. \A t \in Sweeps \ {s} : sweep'[t] = sweep[t]
    BY DEF StartSweep, IInv, TypeOK
  <2>4. sweep'[s].idle # {} => \E o \in Objects : obj'[o].last = IdleTicks
    BY <2>1 DEF StartSweep, IInv, TypeOK
  <2> SUFFICES ASSUME NobodyThere' PROVE QuietInv!2'
    BY DEF QuietInv
  <2>5. NobodyThere
    BY <2>1 DEF NobodyThere
  <2>6. \A o \in Objects : obj'[o].last <= quiet
    BY <1>2, <2>2, <2>5 DEF QuietInv
  <2>7. sweep'[s].idle # {} => quiet = IdleTicks
    BY <1>2, <1>3, <2>4, <2>6
  <2> QED BY <2>1, <2>3, <2>5, <2>6, <2>7 DEF QuietInv
<1>9. CASE \E r \in Requests, kind \in {"http", "upgrade"} : Arrive(r, kind)
  <2> PICK r \in Requests, kind \in {"http", "upgrade"} : Arrive(r, kind)
    BY <1>9
  <2>1. CASE UNCHANGED <<req, sweep, quiet>> /\ obj' = Loaded.obj
    <3>1. \A o \in Objects : obj'[o].last \in {0, obj[o].last}
      BY <2>1, LoadedAges
    <3>2. \A o \in Objects : obj'[o].last <= obj[o].last
      BY <1>2, <1>3, <3>1
    <3> QED BY <1>2, <1>3, <2>1, <3>2, QuietSame
  <2>2. CASE Admit(r, kind, Loaded.apps, Loaded.obj)
    <3>1. req'[r].open
      BY <2>2 DEF Admit, IInv, TypeOK
    <3> QED BY <3>1 DEF QuietInv, NobodyThere
  <2> QED BY <2>1, <2>2 DEF Arrive
<1>10. CASE \E r \in Requests : Close(r)
  <2> PICK r \in Requests : Close(r)
    BY <1>10
  <2>1. req[r].o = 1
    BY <1>1 DEF Close, IInv, RefInv, TypeOK, Request
  <2>2. obj'[1].last = 0 /\ quiet' = 0
    BY <1>1, <2>1 DEF Close, IInv, TypeOK, StateObject
  <2>3. \A s \in Sweeps : sweep'[s].idle = {}
    BY <1>1, <2>1 DEF Close, Touched, IInv, TypeOK, Sweep
  <2> QED BY <1>1, <2>2, <2>3 DEF QuietInv
<1>11. CASE Restart
  <2>1. \A o \in Objects : obj'[o].last = 0
    BY <1>11 DEF Restart, Started, NewState
  <2>2. \A s \in Sweeps : sweep'[s].idle = {}
    BY <1>11 DEF Restart, NoSweep
  <2>3. quiet' \in Nat
    BY <1>3 DEF IInv, TypeOK
  <2> QED BY <2>1, <2>2, <2>3 DEF QuietInv
<1> QED BY <1>4, <1>5, <1>6, <1>7, <1>8, <1>9, <1>10, <1>11 DEF Next

\* what the sweep relies on when it decides to stop the container
LEMMA StopWhenQuiet ==
    ASSUME IInv, QuietInv, MaxWrites = 0, Next,
           NEW s \in Sweeps, sweep[s].pc = "visit", sweep'[s].pc = "stop"
    PROVE  NobodyThere /\ quiet = IdleTicks
<1>1. Visit(s) /\ MayStop(s, apps)
  <2>1. ASSUME NEW t \in Sweeps, Visit(t) PROVE Visit(s) /\ MayStop(s, apps)
    BY <2>1 DEF Visit, EndSweep, NoSweep, IInv, TypeOK, Sweep
  <2>2. ASSUME NEW t \in Sweeps, StartSweep(t) PROVE FALSE
    BY <2>2 DEF StartSweep, IInv, TypeOK, Sweep
  <2>3. ASSUME NEW t \in Sweeps, StopContainer(t) \/ StopRefused(t) \/ StopThrows(t) \/ Slept(t) PROVE FALSE
    BY <2>3 DEF StopContainer, StopRefused, StopThrows, Slept, SetSweep, EndSweep, NoSweep, IInv, TypeOK, Sweep
  <2>4. ASSUME ContainerExits PROVE FALSE
    BY <2>4 DEF ContainerExits, IInv, TypeOK, Sweep
  <2>5. ASSUME NEW r \in Requests, Close(r) PROVE FALSE
    BY <2>5 DEF Close, Touched, IInv, TypeOK, Sweep
  <2>6. ASSUME NEW r \in Requests, NEW kind \in {"http", "upgrade"}, Arrive(r, kind) PROVE FALSE
    BY <2>6 DEF Arrive, Admit, Touched, IInv, TypeOK, Sweep
  <2>7. ASSUME Restart PROVE FALSE
    BY <2>7 DEF Restart, NoSweep
  <2>8. ASSUME sweep' = sweep PROVE FALSE
    BY <2>8
  <2> QED
    BY <2>1, <2>2, <2>3, <2>4, <2>5, <2>6, <2>7, <2>8 DEF Next, OpenConfig, FinishConfig, RemoveConfig, Forward, Inspect,
       StartContainer, WakeDone, WakeFailed, DockerFails, Boots, Crashes, Outside, Tick
<1>2. apps = 1 /\ Objects = {1}
  BY <1>1 DEF MayStop, IInv, TypeOK, Objects
<1>3. Open(1) = {}
  BY <1>1, <1>2, OpenCount, FS_EmptySet DEF MayStop, IInv, InflightExact
<1>4. NobodyThere
  BY <1>2, <1>3 DEF Open, NobodyThere, IInv, RefInv, TypeOK, Request
<1> QED BY <1>1, <1>4 DEF MayStop, QuietInv

\* While nobody rewrites the configuration, a sweep stops the container only when no request is open and the
\* last one ended the whole idle time ago, however the sweeps overlap and whatever fails or restarts (sweep,
\* waker.cjs:283-299).  With a rewrite this is false: the count of open connections is lost.
THEOREM SweepStopsOnlyIdle == ASSUME MaxWrites = 0 PROVE Spec => StopsOnlyIdle
<1>1. Init => QuietInv
  BY WakerAssumption DEF Init, QuietInv, Started, NewState, NoSweep
<1>2. IInv /\ IInv' /\ QuietInv /\ [Next]_vars => QuietInv'
  <2>1. ASSUME IInv, IInv', QuietInv, Next PROVE QuietInv'
    BY <2>1, QuietStep
  <2>2. ASSUME QuietInv, UNCHANGED vars PROVE QuietInv'
    BY <2>2 DEF vars, QuietInv, NobodyThere
  <2> QED BY <2>1, <2>2
<1> DEFINE Stops == \A s \in Sweeps : sweep[s].pc = "visit" /\ sweep'[s].pc = "stop"
                        => (\A r \in Requests : ~req[r].open) /\ quiet = IdleTicks
<1>3. IInv /\ QuietInv /\ [Next]_vars => [Stops]_vars
  <2>1. ASSUME IInv, QuietInv, Next PROVE Stops
    BY <2>1, StopWhenQuiet DEF NobodyThere
  <2> QED BY <2>1
<1>4. Spec => [][Stops]_vars
  BY <1>1, <1>2, <1>3, Invariance, PTL DEF Spec
<1> QED BY <1>4 DEF StopsOnlyIdle
=============================================================================
