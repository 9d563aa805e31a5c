--------------------------- MODULE StateEventsProofs ---------------------------
(* What the emitter remembers, the dashboard was told.  The emitter's      *)
(* memory runs ahead of the frames: it holds the last instance of each id  *)
(* while the events of all of them are still to be sent, so that the       *)
(* invariant says of each aspect which event in the queue tells it last.   *)
EXTENDS StateEvents, FiniteSetTheorems, WellFoundedInduction, TLAPS

Pending(a, x) == {e \in queue : e.app = a /\ e.aspect = x}

Told(a, x) == memory[a][x] # None => mirror[a][x] = memory[a][x]

(* The last event of the aspect tells what is remembered; with no event    *)
(* left, the dashboard knows.                                              *)
ToldAtLast(a, x) ==
    IF Pending(a, x) = {} THEN Told(a, x)
    ELSE memory[a][x] # None =>
             \E e \in Pending(a, x) :
                 /\ e.value = memory[a][x]
                 /\ \A d \in Pending(a, x) : d = e \/ d.at < e.at

ToldOrQueued ==
    link = "alive" =>
        /\ loop \in {"cycle", "containers", "built", "recv"} =>
               \A a \in Apps, x \in Aspects : Told(a, x)
        /\ loop = "snapshot" => memory = View(heartbeat)
        /\ loop = "changes" => \A a \in Apps, x \in Aspects : ToldAtLast(a, x)

--------------------------------------------------------------------------------
(* The first and the last of some files.                                   *)

LEMMA WellOrdered ==
  ASSUME NEW T \in SUBSET (SUBSET Files), T # {}
  PROVE  \E s \in T : \A t \in T : ~ (t \subseteq s /\ t # s)
  <1>1. IsFiniteSet(Files)
    BY NodeAssumption, FS_Interval DEF Files
  <1>2. FiniteSubsetsOf(Files) = SUBSET Files
    BY <1>1, FS_FiniteSubsetsOfFinite
  <1>3. IsWellFoundedOn(StrictSubsetOrdering(Files), SUBSET Files)
    BY <1>2, FS_StrictSubsetOrderingWellFounded
  <1>4. PICK s \in T : \A t \in T : <<t, s>> \notin StrictSubsetOrdering(Files)
    BY <1>3, WFMin
  <1> QED
    BY <1>4 DEF StrictSubsetOrdering

LEMMA LastOf ==
  ASSUME NEW S \in SUBSET Files, S # {}
  PROVE  Max(S) \in S /\ \A m \in S : m <= Max(S)
  <1> DEFINE T == {m .. NumFiles : m \in S}
  <1>1. T \in SUBSET (SUBSET Files) /\ T # {}
    <2>1. \A m \in S : m .. NumFiles \subseteq Files
      BY NodeAssumption DEF Files
    <2>2. T \subseteq SUBSET Files
      BY <2>1, Zenon
    <2>3. T # {}
      OBVIOUS
    <2> QED
      BY <2>2, <2>3
  <1>2. PICK s \in T : \A t \in T : ~ (t \subseteq s /\ t # s)
    BY <1>1, WellOrdered
  <1>3. PICK n \in S : s = n .. NumFiles
    BY <1>2
  <1>4. \A m \in S : m <= n
    <2>1. SUFFICES ASSUME NEW m \in S, m > n PROVE FALSE
      BY NodeAssumption DEF Files
    <2>2. m .. NumFiles \subseteq s /\ n \in s /\ n \notin m .. NumFiles
      BY <1>3, <2>1, NodeAssumption DEF Files
    <2> QED
      BY <1>2, <2>2
  <1>5. \A m \in S : n >= m
    BY <1>4, NodeAssumption DEF Files
  <1>6. \E k \in S : \A m \in S : k >= m
    BY <1>5
  <1>7. Max(S) \in S /\ \A m \in S : Max(S) >= m
    BY <1>6 DEF Max
  <1> QED
    BY <1>7, NodeAssumption DEF Files

LEMMA FirstOf ==
  ASSUME NEW S \in SUBSET Files, S # {}
  PROVE  \E n \in S : \A m \in S : n <= m
  <1> DEFINE T == {1 .. m : m \in S}
  <1>1. T \in SUBSET (SUBSET Files) /\ T # {}
    <2>1. \A m \in S : 1 .. m \subseteq Files
      BY NodeAssumption DEF Files
    <2>2. T \subseteq SUBSET Files
      BY <2>1, Zenon
    <2>3. T # {}
      OBVIOUS
    <2> QED
      BY <2>2, <2>3
  <1>2. PICK s \in T : \A t \in T : ~ (t \subseteq s /\ t # s)
    BY <1>1, WellOrdered
  <1>3. PICK n \in S : s = 1 .. n
    BY <1>2
  <1>4. \A m \in S : n <= m
    <2>1. SUFFICES ASSUME NEW m \in S, m < n PROVE FALSE
      BY NodeAssumption DEF Files
    <2>2. 1 .. m \subseteq s /\ n \in s /\ n \notin 1 .. m
      BY <1>3, <2>1, NodeAssumption DEF Files
    <2> QED
      BY <1>2, <2>2
  <1> QED
    BY <1>4

--------------------------------------------------------------------------------
(* Types.                                                                  *)

LEMMA SaysType ==
  ASSUME EventsTypeOK, NEW f \in Files, heartbeat[f] # None
  PROVE  /\ heartbeat[f].app \in Apps /\ heartbeat[f].says \in Looks
         /\ f \in Of(heartbeat, heartbeat[f].app)
  BY DEF EventsTypeOK, Of

LEMMA ViewType ==
  ASSUME NEW instances \in [Files -> [app : Apps, says : Looks] \cup {None}]
  PROVE  View(instances) \in [Apps -> Looks]
  <1>1. ASSUME NEW a \in Apps, Of(instances, a) # {}
        PROVE  instances[Max(Of(instances, a))].says \in Looks
    <2>1. Max(Of(instances, a)) \in Of(instances, a)
      BY <1>1, LastOf DEF Of
    <2> QED
      BY <2>1 DEF Of
  <1>2. Nothing \in Looks
    BY DEF Nothing, Looks
  <1> QED
    BY <1>1, <1>2 DEF View

LEMMA InstancesType ==
  ASSUME EventsTypeOK
  PROVE  Instances(files, observed) \in [Files -> [app : Apps, says : Looks] \cup {None}]
  <1>1. ASSUME NEW f \in Files, files[f] # None
        PROVE  [x \in Aspects |-> IF x \in Names THEN observed[f][x] ELSE files[f][x]] \in Looks
    <2>1. files[f] \in Entries /\ observed[f] \in [Names -> Values \cup {None}]
      BY <1>1 DEF EventsTypeOK
    <2>2. files[f]["instance"] \in Values /\ files[f]["deployment"] \in Values
      BY <2>1 DEF Entries
    <2> QED
      BY <2>1, <2>2 DEF Looks, Aspects, Metadata
  <1>2. \A f \in Files : files[f] # None => files[f].app \in Apps
    BY DEF EventsTypeOK, Entries
  <1> QED
    BY <1>1, <1>2 DEF Instances

LEMMA EventType ==
  ASSUME EventsTypeOK, NEW f \in Files, heartbeat[f] # None
  PROVE  Differences(f) \subseteq [at : Files, app : Apps, aspect : Aspects, value : Values]
  <1>1. heartbeat[f].app \in Apps /\ heartbeat[f].says \in Looks
    BY SaysType
  <1>2. ASSUME NEW x \in Aspects, heartbeat[f].says[x] # None
        PROVE  Event(f, x) \in [at : Files, app : Apps, aspect : Aspects, value : Values]
    BY <1>1, <1>2 DEF Event, Looks
  <1> QED
    BY <1>2 DEF Differences

LEMMA InitType == Init => EventsTypeOK
  <1> SUFFICES ASSUME Init PROVE EventsTypeOK
    OBVIOUS
  <1>1. (CHOOSE v \in Values : TRUE) \in Values
    BY AppsAssumption
  <1>2. files \in [Files -> Entries \cup {None}]
    BY <1>1 DEF Init, Entries
  <1>3. Nothing \in Looks
    BY DEF Nothing, Looks
  <1> QED
    BY <1>2, <1>3, NodeAssumption, FaultsAssumption
    DEF Init, EventsTypeOK, NoContainers, NoInstances

LEMMA FaultType == faults \in 0 .. MaxFaults /\ Fault => faults' \in 0 .. MaxFaults
  BY FaultsAssumption DEF Fault

LEMMA EnvironmentType ==
  ASSUME EventsTypeOK, Environment
  PROVE  EventsTypeOK'
  <1>1. CASE LinkDies
    BY <1>1, FaultType DEF LinkDies, EventsTypeOK, nodeVars, emitterVars
  <1>2. CASE LinkNoticed
    BY <1>2 DEF LinkNoticed, EventsTypeOK, nodeVars, emitterVars
  <1>3. ASSUME NEW f \in Files, FileChanges(f)
        PROVE  EventsTypeOK'
    <2>1. changes' \in 0 .. MaxChanges
      BY <1>3, FaultsAssumption DEF FileChanges, EventsTypeOK
    <2>2. files' \in [Files -> Entries \cup {None}]
      BY <1>3 DEF FileChanges, EventsTypeOK
    <2> QED
      BY <1>3, <2>1, <2>2 DEF FileChanges, NodeFrame, EventsTypeOK, emitterVars
  <1>4. ASSUME NEW f \in Files, NEW x \in Names, ContainerChanges(f, x)
        PROVE  EventsTypeOK'
    <2>1. changes' \in 0 .. MaxChanges
      BY <1>4, FaultsAssumption DEF ContainerChanges, EventsTypeOK
    <2>2. PICK v \in Values \cup {None} : running' = [running EXCEPT ![f][x] = v]
      BY <1>4 DEF ContainerChanges
    <2>3. running' \in [Files -> [Names -> Values \cup {None}]]
      BY <2>2 DEF EventsTypeOK
    <2> QED
      BY <1>4, <2>1, <2>3 DEF ContainerChanges, NodeFrame, EventsTypeOK, emitterVars
  <1> QED
    BY <1>1, <1>2, <1>3, <1>4 DEF Environment

LEMMA LoopType ==
  ASSUME EventsTypeOK, LoopStep
  PROVE  EventsTypeOK'
  <1> USE DEF EventsTypeOK
  <1>1. CASE Connect
    <2>1. memory' \in [Apps -> Looks]
      BY <1>1 DEF Connect, Nothing, Looks
    <2> QED
      BY <1>1, <2>1, NodeAssumption DEF Connect, nodeVars
  <1>2. CASE CollectContainers
    <2>1. observed' \in [Files -> [Names -> Values \cup {None}]]
      BY <1>2 DEF CollectContainers, NoContainers
    <2>2. faults' \in 0 .. MaxFaults
      BY <1>2, FaultType DEF CollectContainers
    <2> QED
      BY <1>2, <2>1, <2>2 DEF CollectContainers, nodeVars, emitterVars
  <1>3. CASE CollectInstances
    <2>1. heartbeat' \in [Files -> [app : Apps, says : Looks] \cup {None}]
      BY <1>3, InstancesType DEF CollectInstances, NoInstances
    <2>2. faults' \in 0 .. MaxFaults
      BY <1>3, FaultType DEF CollectInstances
    <2> QED
      BY <1>3, <2>1, <2>2 DEF CollectInstances, nodeVars, emitterVars
  <1>4. CASE Snapshot
    <2>1. memory' \in [Apps -> Looks] /\ age' \in 0 .. FullEvery
      BY <1>4, ViewType, NodeAssumption DEF Snapshot
    <2> QED
      BY <1>4, <2>1 DEF Snapshot, nodeVars
  <1>5. CASE Changes
    <2>1. memory' \in [Apps -> Looks]
      BY <1>5, ViewType DEF Changes
    <2>2. queue' \subseteq [at : Files, app : Apps, aspect : Aspects, value : Values]
      BY <1>5, EventType DEF Changes, Present
    <2>3. age' \in 0 .. FullEvery
      BY <1>5, NodeAssumption DEF Changes
    <2> QED
      BY <1>5, <2>1, <2>2, <2>3 DEF Changes, nodeVars
  <1>6. CASE SendSnapshot
    <2>1. mirror' \in [Apps -> Looks]
      BY <1>6, ViewType DEF SendSnapshot, Tell
    <2> QED
      BY <1>6, <2>1 DEF SendSnapshot, nodeVars, emitterVars
  <1>7. CASE SendChange
    <2>1. PICK e \in queue : /\ Tell([mirror EXCEPT ![e.app][e.aspect] = e.value])
                             /\ queue' = queue \ {e}
      BY <1>7 DEF SendChange
    <2>2. mirror' \in [Apps -> Looks]
      BY <2>1 DEF Tell, Looks
    <2> QED
      BY <1>7, <2>1, <2>2 DEF SendChange, nodeVars
  <1>8. CASE ChangesRejected \/ ChangesSent \/ Receive \/ SocketClosed \/ Close
    BY <1>8 DEF ChangesRejected, ChangesSent, Receive, SocketClosed, Close, nodeVars,
       emitterVars
  <1> QED
    BY <1>1, <1>2, <1>3, <1>4, <1>5, <1>6, <1>7, <1>8 DEF LoopStep

LEMMA NextType == EventsTypeOK /\ [Next]_vars => EventsTypeOK'
  <1> SUFFICES ASSUME EventsTypeOK, [Next]_vars PROVE EventsTypeOK'
    OBVIOUS
  <1>1. CASE Next
    BY <1>1, EnvironmentType, LoopType DEF Next
  <1>2. CASE UNCHANGED vars
    BY <1>2 DEF EventsTypeOK, vars, nodeVars, emitterVars
  <1> QED
    BY <1>1, <1>2

(* Every variable keeps its type, and a change event always carries a      *)
(* value: nothing that is gone is reported as a change.                    *)
THEOREM EventsTypeCorrect == Spec => []EventsTypeOK
  BY InitType, NextType, PTL DEF Spec

--------------------------------------------------------------------------------
(* What the events of a heartbeat leave out, the dashboard knows.          *)

(* The first instance of an id from which on an aspect looks as the last   *)
(* one says: later ones are no change, and this one is a change, unless it *)
(* is the first of its id and looks as it was remembered.                  *)
LEMMA FirstOfTheLast ==
  ASSUME EventsTypeOK, NEW a \in Apps, NEW x \in Aspects, Of(heartbeat, a) # {}
  PROVE  LET v == heartbeat[Max(Of(heartbeat, a))].says[x]
         IN  \E n \in Of(heartbeat, a) :
                 /\ heartbeat[n].says[x] = v
                 /\ \A m \in Of(heartbeat, a) :
                        m > n => heartbeat[m].says[x] = v /\ Known(m)[x] = v
                 /\ Known(n)[x] = v =>
                        memory[a][x] = v /\ \A m \in Of(heartbeat, a) : n <= m
  <1> DEFINE of == Of(heartbeat, a)
             v == heartbeat[Max(of)].says[x]
             before(n) == {g \in of : g < n}
             Same == {n \in of : \A m \in of : n <= m => heartbeat[m].says[x] = v}
  <1>1. of \in SUBSET Files /\ of # {}
    BY DEF Of
  <1>2. Max(of) \in of /\ \A m \in of : m <= Max(of)
    BY <1>1, LastOf
  <1>3. Max(of) \in Same
    <2>1. ASSUME NEW m \in of, Max(of) <= m PROVE m = Max(of)
      BY <1>1, <1>2, <2>1, NodeAssumption DEF Files
    <2> QED
      BY <1>2, <2>1
  <1>4. PICK n \in Same : \A m \in Same : n <= m
    <2>1. Same \in SUBSET Files /\ Same # {}
      BY <1>1, <1>3
    <2> QED
      BY <2>1, FirstOf
  <1>5. \A m \in of : heartbeat[m].app = a
    BY DEF Of
  <1>6. ASSUME NEW m \in of
        PROVE  Known(m) = IF before(m) = {} THEN memory[a] ELSE heartbeat[Max(before(m))].says
    BY <1>5 DEF Known
  <1>7. ASSUME NEW m \in of, before(m) # {}
        PROVE  Max(before(m)) \in before(m) /\ \A k \in before(m) : k <= Max(before(m))
    <2>1. before(m) \in SUBSET Files
      BY <1>1
    <2> QED
      BY <1>7, <2>1, LastOf
  <1>8. ASSUME NEW m \in of, m > n
        PROVE  heartbeat[m].says[x] = v /\ Known(m)[x] = v
    <2>1. n \in before(m)
      BY <1>1, <1>8, NodeAssumption DEF Files
    <2>2. Max(before(m)) \in of /\ n <= Max(before(m)) /\ n <= m
      BY <1>1, <1>7, <1>8, <2>1, NodeAssumption DEF Files
    <2> QED
      BY <1>6, <2>1, <2>2
  <1>9. ASSUME Known(n)[x] = v
        PROVE  memory[a][x] = v /\ \A m \in of : n <= m
    <2>1. CASE before(n) = {}
      <3>1. \A m \in of : ~(m < n)
        BY <2>1
      <3>2. \A m \in of : n <= m
        BY <1>1, <3>1, NodeAssumption DEF Files
      <3> QED
        BY <1>6, <1>9, <2>1, <3>2
    <2>2. CASE before(n) # {}
      <3> DEFINE p == Max(before(n))
      <3>1. p \in of /\ p < n /\ \A k \in before(n) : k <= p
        BY <1>7, <2>2
      <3>2. heartbeat[p].says[x] = v
        BY <1>6, <1>9, <2>2
      <3>3. ASSUME NEW m \in of, p <= m
            PROVE  heartbeat[m].says[x] = v
        <4>1. CASE m < n
          <5>1. m = p
            BY <1>1, <3>1, <3>3, <4>1, NodeAssumption DEF Files
          <5> QED
            BY <3>2, <5>1
        <4>2. CASE ~(m < n)
          BY <1>1, <4>2, NodeAssumption DEF Files
        <4> QED
          BY <4>1, <4>2
      <3>4. p \in Same
        BY <3>1, <3>3
      <3> QED
        BY <1>1, <1>4, <3>1, <3>4, NodeAssumption DEF Files
    <2> QED
      BY <2>1, <2>2
  <1>10. n \in of /\ heartbeat[n].says[x] = v
    BY <1>1, NodeAssumption DEF Files
  <1> QED
    BY <1>8, <1>9, <1>10

LEMMA ChangesTold ==
  ASSUME EventsTypeOK, Changes, NEW a \in Apps, NEW x \in Aspects, Told(a, x)
  PROVE  ToldAtLast(a, x)'
  <1> DEFINE of == Of(heartbeat, a)
             changed(f) == /\ heartbeat[f].says[x] # None
                           /\ heartbeat[f].says[x] # Known(f)[x]
  <1>1. Pending(a, x)' = {Event(f, x) : f \in {f \in of : changed(f)}}
    <2>1. queue' = UNION {Differences(f) : f \in Present}
      BY DEF Changes
    <2>2. ASSUME NEW e \in Pending(a, x)'
          PROVE  \E f \in of : changed(f) /\ e = Event(f, x)
      <3>1. e \in queue' /\ e.app = a /\ e.aspect = x
        BY DEF Pending
      <3>2. PICK f \in Present : e \in Differences(f)
        BY <2>1, <3>1
      <3>3. PICK y \in Aspects : /\ e = Event(f, y)
                                 /\ heartbeat[f].says[y] # None
                                 /\ heartbeat[f].says[y] # Known(f)[y]
        BY <3>2 DEF Differences
      <3>4. y = x /\ heartbeat[f].app = a
        BY <3>1, <3>3 DEF Event
      <3> QED
        BY <3>3, <3>4 DEF Of, Present
    <2>3. ASSUME NEW f \in of, changed(f)
          PROVE  Event(f, x) \in Pending(a, x)'
      <3>1. f \in Present /\ heartbeat[f].app = a
        BY DEF Of, Present
      <3>2. Event(f, x) \in Differences(f)
        BY <2>3 DEF Differences
      <3>3. Event(f, x) \in queue'
        BY <2>1, <3>1, <3>2
      <3> QED
        BY <3>1, <3>3 DEF Pending, Event
    <2> QED
      BY <2>2, <2>3
  <1>2. mirror' = mirror
    BY DEF Changes
  <1>3. CASE of = {}
    <2>1. memory'[a] = memory[a]
      BY <1>3 DEF Changes
    <2>2. Pending(a, x)' = {}
      BY <1>1, <1>3
    <2> QED
      BY <1>2, <2>1, <2>2 DEF ToldAtLast, Told
  <1>4. CASE of # {}
    <2> DEFINE v == heartbeat[Max(of)].says[x]
    <2>1. memory'[a][x] = v
      BY <1>4 DEF Changes, View
    <2>2. PICK n \in of : /\ heartbeat[n].says[x] = v
                          /\ \A m \in of : m > n => heartbeat[m].says[x] = v /\ Known(m)[x] = v
                          /\ Known(n)[x] = v =>
                                 memory[a][x] = v /\ \A m \in of : n <= m
      BY <1>4, FirstOfTheLast
    <2>3. ASSUME NEW m \in of, changed(m)
          PROVE  m = n \/ m < n
      BY <2>2, <2>3, NodeAssumption DEF Of, Files
    <2>4. SUFFICES ASSUME v # None PROVE ToldAtLast(a, x)'
      BY <2>1 DEF ToldAtLast, Told
    <2>5. CASE Known(n)[x] # v
      <3>1. Event(n, x) \in Pending(a, x)'
        BY <1>1, <2>2, <2>4, <2>5
      <3>2. Event(n, x).value = v /\ \A m \in of : Event(m, x).at = m
        BY <2>2 DEF Event
      <3>3. \A d \in Pending(a, x)' : d = Event(n, x) \/ d.at < Event(n, x).at
        BY <1>1, <2>3, <3>2
      <3> QED
        BY <2>1, <3>1, <3>2, <3>3 DEF ToldAtLast
    <2>6. CASE Known(n)[x] = v
      <3>1. mirror[a][x] = v
        BY <2>2, <2>4, <2>6 DEF Told
      <3>2. ASSUME NEW m \in of PROVE ~changed(m)
        <4>1. n <= m
          BY <2>2, <2>6
        <4>2. m \in Files /\ n \in Files
          BY DEF Of
        <4>3. m = n \/ m > n
          BY <4>1, <4>2, NodeAssumption DEF Files
        <4> QED
          BY <2>2, <2>6, <4>3
      <3>3. Pending(a, x)' = {}
        BY <1>1, <3>2
      <3> QED
        BY <1>2, <2>1, <3>1, <3>3 DEF ToldAtLast, Told
    <2> QED
      BY <2>5, <2>6
  <1> QED
    BY <1>3, <1>4

(* The soonest event of the queue is sent; the last one of its aspect, if  *)
(* another is left, still is.                                              *)
LEMMA ChangeTold ==
  ASSUME EventsTypeOK, SendChange, link = "alive",
         NEW a \in Apps, NEW x \in Aspects, ToldAtLast(a, x)
  PROVE  ToldAtLast(a, x)'
  <1>1. PICK e \in queue : /\ \A d \in queue : ~Sooner(d, e)
                           /\ mirror' = [mirror EXCEPT ![e.app][e.aspect] = e.value]
                           /\ queue' = queue \ {e}
    BY DEF SendChange, Tell
  <1>2. memory' = memory
    BY DEF SendChange
  <1>3. e.app \in Apps /\ e.aspect \in Aspects /\ \A d \in queue : d.at \in Nat
    BY NodeAssumption DEF EventsTypeOK, Files
  <1>4. Pending(a, x)' = Pending(a, x) \ {e}
    BY <1>1 DEF Pending
  <1>5. mirror \in [Apps -> [Aspects -> Values \cup {None}]]
    BY DEF EventsTypeOK, Looks
  <1>6. CASE e \notin Pending(a, x)
    <2>1. mirror'[a][x] = mirror[a][x]
      BY <1>1, <1>3, <1>5, <1>6 DEF Pending
    <2>2. Pending(a, x)' = Pending(a, x)
      BY <1>4, <1>6
    <2> QED
      BY <1>2, <2>1, <2>2 DEF ToldAtLast, Told
  <1>7. CASE e \in Pending(a, x) /\ memory[a][x] # None
    <2>1. PICK last \in Pending(a, x) : /\ last.value = memory[a][x]
                                        /\ \A d \in Pending(a, x) : d = last \/ d.at < last.at
      BY <1>7 DEF ToldAtLast
    <2>2. CASE last = e
      <3>1. ASSUME NEW d \in Pending(a, x), d # e PROVE FALSE
        BY <1>1, <2>1, <2>2, <3>1 DEF Sooner, Pending
      <3>2. Pending(a, x)' = {}
        BY <1>4, <3>1
      <3>3. mirror'[a][x] = memory[a][x]
        BY <1>1, <1>3, <1>5, <1>7, <2>1, <2>2 DEF Pending
      <3> QED
        BY <1>2, <3>2, <3>3 DEF ToldAtLast, Told
    <2>3. CASE last # e
      BY <1>2, <1>4, <2>1, <2>3 DEF ToldAtLast
    <2> QED
      BY <2>2, <2>3
  <1>8. CASE memory[a][x] = None
    BY <1>2, <1>8 DEF ToldAtLast, Told
  <1> QED
    BY <1>6, <1>7, <1>8

LEMMA InitTold == Init => ToldOrQueued
  BY DEF Init, ToldOrQueued

LEMMA EnvironmentTold ==
  ASSUME ToldOrQueued, Environment
  PROVE  ToldOrQueued'
  <1>1. link' = "alive" => link = "alive"
    BY DEF Environment, LinkDies, LinkNoticed, FileChanges, ContainerChanges, NodeFrame
  <1>2. UNCHANGED <<loop, heartbeat, memory, queue, mirror>>
    BY DEF Environment, LinkDies, LinkNoticed, FileChanges, ContainerChanges, NodeFrame,
       emitterVars
  <1> QED
    BY <1>1, <1>2 DEF ToldOrQueued, Told, ToldAtLast, Pending

LEMMA LoopTold ==
  ASSUME EventsTypeOK, ToldOrQueued, LoopStep
  PROVE  ToldOrQueued'
  <1>1. CASE Connect
    BY <1>1 DEF Connect, ToldOrQueued, Told, Nothing
  <1>2. CASE CollectContainers \/ CollectInstances
    BY <1>2 DEF CollectContainers, CollectInstances, ToldOrQueued, Told, emitterVars
  <1>3. CASE Snapshot
    BY <1>3 DEF Snapshot, ToldOrQueued
  <1>4. CASE Changes
    <2>1. loop = "built" /\ loop' = "changes" /\ link' = link
      BY <1>4 DEF Changes
    <2> QED
      BY <1>4, <2>1, ChangesTold DEF ToldOrQueued
  <1>5. CASE SendSnapshot
    <2>1. link = "alive" => mirror' = View(heartbeat) /\ memory' = View(heartbeat)
      BY <1>5 DEF SendSnapshot, ToldOrQueued, Tell, emitterVars
    <2> QED
      BY <1>5, <2>1 DEF SendSnapshot, ToldOrQueued, Told
  <1>6. CASE SendChange
    <2>1. loop = "changes" /\ loop' = "changes" /\ link' = link
      BY <1>6 DEF SendChange
    <2> QED
      BY <1>6, <2>1, ChangeTold DEF ToldOrQueued
  <1>7. CASE ChangesSent
    <2>1. \A a \in Apps, x \in Aspects : Pending(a, x) = {}
      BY <1>7 DEF ChangesSent, Pending
    <2> QED
      BY <1>7, <2>1 DEF ChangesSent, ToldOrQueued, ToldAtLast, Told, emitterVars
  <1>8. CASE Receive
    BY <1>8 DEF Receive, ToldOrQueued, Told
  <1>9. CASE ChangesRejected \/ SocketClosed \/ Close
    BY <1>9 DEF ChangesRejected, SocketClosed, Close, ToldOrQueued
  <1> QED
    BY <1>1, <1>2, <1>3, <1>4, <1>5, <1>6, <1>7, <1>8, <1>9 DEF LoopStep

LEMMA NextTold == EventsTypeOK /\ ToldOrQueued /\ [Next]_vars => ToldOrQueued'
  <1> SUFFICES ASSUME EventsTypeOK, ToldOrQueued, [Next]_vars PROVE ToldOrQueued'
    OBVIOUS
  <1>1. CASE Next
    BY <1>1, EnvironmentTold, LoopTold DEF Next
  <1>2. CASE UNCHANGED vars
    BY <1>2 DEF ToldOrQueued, Told, ToldAtLast, Pending, vars, emitterVars
  <1> QED
    BY <1>1, <1>2

(* At the end of a cycle on a live connection the dashboard knows of every *)
(* aspect what the emitter remembers of it, so that what is not reported   *)
(* again (events.py:65-88) was told, for two env files of one id too.      *)
THEOREM RememberedWasTold == Spec => []RememberedIsTold
  <1>1. ToldOrQueued => RememberedIsTold
    BY DEF ToldOrQueued, RememberedIsTold, Told
  <1> QED
    BY <1>1, InitType, NextType, InitTold, NextTold, PTL DEF Spec

================================================================================
