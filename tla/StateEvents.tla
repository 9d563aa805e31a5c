------------------------------ MODULE StateEvents ------------------------------
(***************************************************************************)
(* Structural telemetry: collect_payload, AgentEventEmitter and the cycle  *)
(* of run_realtime that turns one heartbeat into a node.snapshot or into   *)
(* change events (src/agent/main.py, events.py, client/realtime.py).       *)
(*                                                                         *)
(* What an instance looks like is a value per aspect: its metadata, its    *)
(* deployment and each of its containers.  CPU, memory and host metrics    *)
(* are left out: they are sent and never compared.                         *)
(***************************************************************************)
EXTENDS Naturals, FiniteSetsExt

CONSTANTS
    Apps,           \* app ids
    BadApps,        \* ids the event models reject (models.py:149), discovery does not
    Names,          \* container names
    NumFiles,       \* saad-deploy env files a node may have
    Values,         \* what an aspect may look like
    None,           \* no such file, container or instance
    FullEvery,      \* cycles in full_snapshot_interval_seconds
    MaxChanges,     \* bound: changes on the node
    MaxFaults       \* bound: broken links and failing helpers

ASSUME AppsAssumption == BadApps \subseteq Apps /\ Values # {} /\ None \notin Apps \cup Values
ASSUME NodeAssumption == NumFiles \in Nat /\ FullEvery \in Nat \ {0}
ASSUME FaultsAssumption == MaxChanges \in Nat /\ MaxFaults \in Nat

VARIABLES
    files,          \* the node: per env file, its app id, metadata and deployment
    running,        \* the node: containers of the Compose project of each env file
    changes,        \* changes on the node so far
    faults,         \* faults so far
    loop,           \* where the telemetry cycle of run_realtime is suspended
    link,           \* the connection: alive, broken but not noticed, closed
    observed,       \* collect_payload's docker snapshot
    heartbeat,      \* the last payload: the instance of each env file, in that order
    memory,         \* AgentEventEmitter._instances
    queue,          \* change events of this cycle that are still to be sent
    requested,      \* snapshot_requested
    age,            \* cycles since last_snapshot_at
    mirror          \* what the dashboard was told, per app and aspect

nodeVars == <<files, running, changes>>
emitterVars == <<memory, queue, requested, age>>
vars == <<nodeVars, faults, loop, link, observed, heartbeat, emitterVars, mirror>>

Files == 1 .. NumFiles
Metadata == {"instance", "deployment"}
Aspects == Metadata \cup Names

Looks == [Aspects -> Values \cup {None}]
Nothing == [x \in Aspects |-> None]
NoContainers == [x \in Names |-> None]
Entries == [app : Apps, instance : Values, deployment : Values]

Fault == faults < MaxFaults /\ faults' = faults + 1

--------------------------------------------------------------------------------
(* The env files whose instance has the app id a.                          *)
Of(instances, a) == {f \in Files : instances[f] # None /\ instances[f].app = a}

(* What the instances say about each app: the last one of an id.           *)
View(instances) ==
    [a \in Apps |-> IF Of(instances, a) = {} THEN Nothing
                    ELSE instances[Max(Of(instances, a))].says]

(* The instances that the env files and the containers make up.            *)
Instances(entries, containers) ==
    [f \in Files |->
        IF entries[f] = None THEN None
        ELSE [app |-> entries[f].app,
              says |-> [x \in Aspects |-> IF x \in Names THEN containers[f][x]
                                          ELSE entries[f][x]]]]

NoInstances == [f \in Files |-> None]
Present == {f \in Files : heartbeat[f] # None}

(* What _instances holds of the app when the loop arrives at f: an earlier *)
(* instance of the same id, or what an earlier heartbeat said.             *)
Known(f) ==
    LET a == heartbeat[f].app
        before == {g \in Of(heartbeat, a) : g < f}
    IN  IF before = {} THEN memory[a] ELSE heartbeat[Max(before)].says

Event(f, x) ==
    [at |-> f, app |-> heartbeat[f].app, aspect |-> x, value |-> heartbeat[f].says[x]]

(* Slip: what an instance no longer has is reported too.                   *)
DifferencesAndGone(f) ==
    {Event(f, x) : x \in {x \in Aspects : heartbeat[f].says[x] # Known(f)[x]}}

(* Slip: containers are compared with their CPU and memory samples.        *)
DifferencesSampled(f) ==
    {Event(f, x) : x \in {x \in Aspects : /\ heartbeat[f].says[x] # None
                                          /\ x \in Names \/ heartbeat[f].says[x] # Known(f)[x]}}

(* instance.changed, deployment.changed and container.changed for what is  *)
(* present and is not remembered as it looks now.                          *)
Differences(f) ==
    {Event(f, x) : x \in {x \in Aspects : /\ heartbeat[f].says[x] # None
                                          /\ heartbeat[f].says[x] # Known(f)[x]}}

(* The list of events: instance by instance, its metadata, its deployment, *)
(* its containers.                                                         *)
Rank(x) == IF x = "instance" THEN 1 ELSE IF x = "deployment" THEN 2 ELSE 3
Sooner(d, e) == d.at < e.at \/ (d.at = e.at /\ Rank(d.aspect) < Rank(e.aspect))

--------------------------------------------------------------------------------
Init ==
    /\ files \in [Files -> {None} \cup [app : Apps, instance : {CHOOSE v \in Values : TRUE},
                                        deployment : {CHOOSE v \in Values : TRUE}]]
    /\ running = [f \in Files |-> NoContainers]
    /\ changes = 0 /\ faults = 0
    /\ loop = "down" /\ link = "closed"
    /\ observed = running /\ heartbeat = NoInstances
    /\ memory = [a \in Apps |-> Nothing] /\ queue = {}
    /\ requested = TRUE /\ age = 0
    /\ mirror = [a \in Apps |-> Nothing]

NodeFrame ==
    UNCHANGED <<faults, loop, link, observed, heartbeat, emitterVars, mirror>>

(* An env file is written or removed, or a deployment moves on.            *)
FileChanges(f) ==
    /\ changes < MaxChanges /\ changes' = changes + 1
    /\ \E e \in (Entries \cup {None}) \ {files[f]} : files' = [files EXCEPT ![f] = e]
    /\ UNCHANGED running /\ NodeFrame

(* A container is started, changes its state or is removed.                *)
ContainerChanges(f, x) ==
    /\ changes < MaxChanges /\ changes' = changes + 1
    /\ \E v \in (Values \cup {None}) \ {running[f][x]} : running' = [running EXCEPT ![f][x] = v]
    /\ UNCHANGED files /\ NodeFrame

(* The path to the dashboard breaks; sends still return.                   *)
LinkDies ==
    /\ link = "alive" /\ Fault /\ link' = "broken"
    /\ UNCHANGED <<nodeVars, loop, observed, heartbeat, emitterVars, mirror>>

(* A reset or the ping timeout: the next send or recv raises.              *)
LinkNoticed ==
    /\ link = "broken" /\ link' = "closed"
    /\ UNCHANGED <<nodeVars, faults, loop, observed, heartbeat, emitterVars, mirror>>

--------------------------------------------------------------------------------
(* The connection loop.                                                    *)

(* Slip: one emitter for all connections.                                  *)
ConnectSameEmitter ==
    /\ loop = "down" /\ loop' = "cycle" /\ link' = "alive"
    /\ UNCHANGED <<nodeVars, faults, observed, heartbeat, emitterVars, mirror>>

(* A new emitter with an empty memory; the first cycle sends a snapshot.   *)
Connect ==
    /\ loop = "down" /\ loop' = "cycle" /\ link' = "alive"
    /\ memory' = [a \in Apps |-> Nothing] /\ queue' = {}
    /\ requested' = TRUE /\ age' = 0
    /\ UNCHANGED <<nodeVars, faults, observed, heartbeat, mirror>>

(* collect_payload runs in a thread: first the Docker snapshot...          *)
CollectContainers ==
    /\ loop = "cycle" /\ loop' = "containers"
    /\ \/ observed' = running /\ UNCHANGED faults
       \/ observed' = [f \in Files |-> NoContainers] /\ Fault
    /\ UNCHANGED <<nodeVars, link, heartbeat, emitterVars, mirror>>

(* ...then discovery; either helper that fails yields an empty list.       *)
CollectInstances ==
    /\ loop = "containers" /\ loop' = "built"
    /\ \/ heartbeat' = Instances(files, observed) /\ UNCHANGED faults
       \/ heartbeat' = NoInstances /\ Fault
    /\ UNCHANGED <<nodeVars, link, observed, emitterVars, mirror>>

(* A cycle takes one telemetry interval or longer, so that the time of the *)
(* next full snapshot may come early and comes after FullEvery cycles.     *)
Snapshot ==
    /\ loop = "built" /\ loop' = "snapshot"
    /\ memory' = View(heartbeat) /\ requested' = FALSE /\ age' = 0
    /\ UNCHANGED <<nodeVars, faults, link, observed, heartbeat, queue, mirror>>

(* Slip: full snapshots are sent on request only.                          *)
ChangesWanted == ~requested

ChangesDue == ~requested /\ age < FullEvery

Rejected == \E f \in Present : heartbeat[f].app \in BadApps

Changes ==
    /\ loop = "built" /\ ChangesDue /\ ~Rejected
    /\ queue' = UNION {Differences(f) : f \in Present}
    /\ memory' = [a \in Apps |-> IF Of(heartbeat, a) = {} THEN memory[a]
                                 ELSE View(heartbeat)[a]]
    /\ loop' = "changes" /\ age' = IF age < FullEvery THEN age + 1 ELSE age
    /\ UNCHANGED <<nodeVars, faults, link, observed, heartbeat, requested, mirror>>

(* The telemetry frame is built first and its model rejects an app id: the *)
(* exception leaves the cycle and the connection.                          *)
ChangesRejected ==
    /\ loop = "built" /\ ChangesDue /\ Rejected
    /\ loop' = "raised"
    /\ UNCHANGED <<nodeVars, faults, link, observed, heartbeat, emitterVars, mirror>>

Tell(news) == mirror' = IF link = "alive" THEN news ELSE mirror

SendSnapshot ==
    /\ loop = "snapshot" /\ link # "closed" /\ loop' = "recv"
    /\ Tell(View(heartbeat))
    /\ UNCHANGED <<nodeVars, faults, link, observed, heartbeat, emitterVars>>

SendChange ==
    /\ loop = "changes" /\ link # "closed"
    /\ \E e \in queue :
           /\ \A d \in queue : ~Sooner(d, e)
           /\ Tell([mirror EXCEPT ![e.app][e.aspect] = e.value])
           /\ queue' = queue \ {e}
    /\ UNCHANGED <<nodeVars, faults, loop, link, observed, heartbeat, memory, requested, age>>

ChangesSent ==
    /\ loop = "changes" /\ queue = {} /\ loop' = "recv"
    /\ UNCHANGED <<nodeVars, faults, link, observed, heartbeat, emitterVars, mirror>>

(* The control window: nothing, or a snapshot request; then the pause.     *)
Receive ==
    /\ loop = "recv" /\ link # "closed" /\ loop' = "cycle"
    /\ requested' \in {requested, TRUE}
    /\ UNCHANGED <<nodeVars, faults, link, observed, heartbeat, memory, queue, age, mirror>>

(* A send or recv raises.                                                  *)
SocketClosed ==
    /\ loop \in {"snapshot", "changes", "recv"} /\ link = "closed" /\ loop' = "raised"
    /\ UNCHANGED <<nodeVars, faults, link, observed, heartbeat, emitterVars, mirror>>

Close ==
    /\ loop = "raised" /\ loop' = "down" /\ link' = "closed"
    /\ UNCHANGED <<nodeVars, faults, observed, heartbeat, emitterVars, mirror>>

--------------------------------------------------------------------------------
LoopStep ==
    \/ Connect \/ CollectContainers \/ CollectInstances
    \/ Snapshot \/ Changes \/ ChangesRejected
    \/ SendSnapshot \/ SendChange \/ ChangesSent \/ Receive \/ SocketClosed \/ Close

Environment ==
    \/ LinkDies \/ LinkNoticed
    \/ \E f \in Files : FileChanges(f) \/ \E x \in Names : ContainerChanges(f, x)

Next == LoopStep \/ Environment

Spec == Init /\ [][Next]_vars

(* The loop goes on cycling and the ping timeout notices a broken link.    *)
FairSpec == Spec /\ WF_vars(LoopStep) /\ WF_vars(LinkNoticed)

--------------------------------------------------------------------------------
(* Properties.                                                             *)

(* Type invariant; a change event always carries a value.                  *)
EventsTypeOK ==
    /\ files \in [Files -> Entries \cup {None}]
    /\ running \in [Files -> [Names -> Values \cup {None}]]
    /\ observed \in [Files -> [Names -> Values \cup {None}]]
    /\ changes \in 0 .. MaxChanges /\ faults \in 0 .. MaxFaults
    /\ loop \in {"down", "cycle", "containers", "built", "snapshot", "changes", "recv", "raised"}
    /\ link \in {"alive", "broken", "closed"}
    /\ heartbeat \in [Files -> [app : Apps, says : Looks] \cup {None}]
    /\ memory \in [Apps -> Looks] /\ mirror \in [Apps -> Looks]
    /\ queue \subseteq [at : Files, app : Apps, aspect : Aspects, value : Values]
    /\ requested \in BOOLEAN /\ age \in 0 .. FullEvery

(* What the emitter takes for known, the dashboard was told: at the end of *)
(* a cycle on a live connection every remembered aspect is mirrored as it  *)
(* is remembered, so that an event the emitter suppresses is never missed  *)
(* (memory is updated before the frames are sent, events.py:88, 92).       *)
RememberedIsTold ==
    loop = "recv" /\ link = "alive" =>
        \A a \in Apps, x \in Aspects :
            memory[a][x] # None => mirror[a][x] = memory[a][x]

Current == View(Instances(files, running))

(* The dashboard catches up with the node, vanished instances and          *)
(* containers included, whatever was lost or failed before and with bad    *)
(* app ids too: changes cannot report a removal, full snapshots do         *)
(* (realtime.py:223, events.py:27-38).                                     *)
CatchesUp == []<>(mirror = Current)

Distinct == \A f, g \in Files :
    f # g /\ files[f] # None /\ files[g] # None => files[f].app # files[g].app

(* A node that does not change is told about by snapshots only; change     *)
(* events cease, unless two env files declare one app id, which then       *)
(* alternate for ever (events.py:65-88).                                   *)
FallsSilent == <>[]Distinct => <>[](queue = {})

(* README.md:32: "one bad instance is contained and logged; the rest of    *)
(* the heartbeat continues".  An exception discards no other instance.     *)
BadInstanceContained ==
    loop = "raised" /\ link = "alive" =>
        \A f \in Present : heartbeat[f].app \in BadApps

================================================================================
