----------------------------- MODULE Collection -----------------------------
(***************************************************************************)
(* One collect_payload after the other: snapshot.sh lists and inspects the *)
(* containers, deploy_metadata.py reads the env file and then the state    *)
(* files, and the agent assembles what the two said into a report.  Each   *)
(* of them looks at the node at a moment of its own.                       *)
(***************************************************************************)
EXTENDS Node, Sequences

VARIABLES
  scan      \* the collection in progress, or the report that came of it

(* Slip: the status is read when everything else has been.                 *)
StatusLast ==
  <<"current-sha", "previous-sha", "deployed-at", "last-error.log", "status.json">>

(* collect_deployment_state reads in this order.                           *)
ReadOrder ==
  <<"status.json", "current-sha", "previous-sha", "deployed-at", "last-error.log">>

Stages == {"idle", "listed", "snapshot", "declared", "read", "reported"}
Known  == [of : 0..MaxEvents, says : {"unknown", "running", "finished"}, left : Versions]
Unknown == [of |-> 0, says |-> "unknown", left |-> Unwritten]
NoInstance == [id |-> Empty, project |-> Empty]

(* Slip: what a half-written file seems to say is believed.                *)
ParsedAnyway(s) == s

(* A status.json that does not parse, or is not there, is unknown.         *)
Parsed(s) == IF s.says = "finished" THEN s
             ELSE IF s.says = "running" THEN [s EXCEPT !.left = Unwritten]
             ELSE Unknown

(* "records": what docker inspect has said so far, and at last the          *)
(* containers in the report.  "lost": there is no snapshot.  "next" counts *)
(* through ReadOrder.  The rest is history: the containers and the newest  *)
(* operation answered with success when the collection began, whether a    *)
(* command of it failed, and at the end the containers of the project that *)
(* were there all along and are not in the report.                         *)
Scan == [stage    : Stages,
         listed   : SUBSET Container,
         records  : SUBSET Container,
         lost     : BOOLEAN,
         instance : [id : Value, project : Value],
         status   : Known,
         files    : Versions,
         next     : 1..6,
         begun    : SUBSET Container,
         answered : 0..MaxEvents,
         faulty   : BOOLEAN,
         missed   : SUBSET Container]

Idle == [stage |-> "idle", listed |-> {}, records |-> {}, lost |-> FALSE,
         instance |-> NoInstance, status |-> Unknown, files |-> Unwritten, next |-> 1,
         begun |-> {}, answered |-> 0, faulty |-> FALSE, missed |-> {}]

CollectionInit == scan = Idle

Stage(s) == scan.stage = s

-----------------------------------------------------------------------------
(* docker ps --all --quiet: ids, of the containers there are now.          *)
List(success) ==
  /\ scan.stage \in {"idle", "reported"}
  /\ scan' = [Idle EXCEPT !.stage = "listed", !.listed = containers,
                          !.begun = containers, !.answered = success]
  /\ UNCHANGED nodeVars

(* Nobody looks at its exit status: a failed listing is an empty one.      *)
ListFails(success) ==
  /\ Happens
  /\ scan.stage \in {"idle", "reported"}
  /\ scan' = [Idle EXCEPT !.stage = "listed", !.begun = containers,
                          !.answered = success, !.faulty = TRUE]
  /\ UNCHANGED <<env, containers, status, files, lock, operations>>

(* docker inspect looks at one id after the other, exits with 1 if one has *)
(* gone, and takes the helper with it: no snapshot at all.                 *)
InspectContainer(c) ==
  /\ Stage("listed")
  /\ c \in scan.listed \ scan.records
  /\ scan' = IF c \in containers
             THEN [scan EXCEPT !.records = @ \cup {c}]
             ELSE [scan EXCEPT !.lost = TRUE, !.stage = "snapshot"]
  /\ UNCHANGED nodeVars

InspectDone ==
  /\ Stage("listed") /\ scan.listed \subseteq scan.records
  /\ scan' = [scan EXCEPT !.stage = "snapshot"]
  /\ UNCHANGED nodeVars

(* sudo, Docker or the time-out: collect_docker_snapshot returns None.     *)
SnapshotFails ==
  /\ Happens
  /\ Stage("listed")
  /\ scan' = [scan EXCEPT !.lost = TRUE, !.faulty = TRUE, !.stage = "snapshot"]
  /\ UNCHANGED <<env, containers, status, files, lock, operations>>

(* The second helper: what the env file announces.  Without an app id      *)
(* there is no instance, and nothing more to read.                         *)
ReadDeclaration ==
  /\ Stage("snapshot")
  /\ scan' = IF Announced(env).id = Empty
             THEN [scan EXCEPT !.stage = "read"]
             ELSE [scan EXCEPT !.stage = "declared", !.instance = Announced(env)]
  /\ UNCHANGED nodeVars

MetadataFails ==
  /\ Happens
  /\ scan.stage \in {"snapshot", "declared"}
  /\ scan' = [scan EXCEPT !.stage = "read", !.faulty = TRUE, !.instance = NoInstance,
                          !.status = Unknown, !.files = Unwritten]
  /\ UNCHANGED <<env, containers, status, files, lock, operations>>

(* Slip: while an operation is running its files are left alone.           *)
ReadStateFileAtRest ==
  LET name == ReadOrder[scan.next]
      read == IF name = "status.json"
              THEN [scan EXCEPT !.status = Parsed(status)]
              ELSE IF scan.status.says = "running" THEN scan
              ELSE [scan EXCEPT !.files[name] = files[name]]
  IN
  /\ Stage("declared")
  /\ scan' = [read EXCEPT !.next = @ + 1,
                          !.stage = IF scan.next = 5 THEN "read" ELSE "declared"]
  /\ UNCHANGED nodeVars

(* One state file after the other, each as it is at that moment.           *)
ReadStateFile ==
  LET name == ReadOrder[scan.next]
      read == IF name = "status.json"
              THEN [scan EXCEPT !.status = Parsed(status)]
              ELSE [scan EXCEPT !.files[name] = files[name]]
  IN
  /\ Stage("declared")
  /\ scan' = [read EXCEPT !.next = @ + 1,
                          !.stage = IF scan.next = 5 THEN "read" ELSE "declared"]
  /\ UNCHANGED nodeVars

(* Slip: a container without a service label is not counted.               *)
ContainersWithService(records, project) ==
  {c \in records : c.labels.project = project /\ c.labels.service}

(* Containers are selected by the label of the project; without a project  *)
(* or without a snapshot there are none.                                   *)
ContainersForProject(records, project) ==
  IF project = Empty THEN {} ELSE {c \in records : c.labels.project = project}

(* collect_payload puts the two together.                                  *)
Assemble ==
  LET project == scan.instance.project
      shown   == IF scan.lost THEN {} ELSE ContainersForProject(scan.records, project)
      stayed  == {c \in scan.begun \cap containers :
                    project # Empty /\ c.labels.project = project}
  IN
  /\ Stage("read")
  /\ scan' = [scan EXCEPT !.stage = "reported", !.listed = {}, !.records = shown,
                                 !.missed = stayed \ shown]
  /\ UNCHANGED nodeVars
=============================================================================
