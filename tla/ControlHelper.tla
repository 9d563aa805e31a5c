---------------------------- MODULE ControlHelper ----------------------------
(***************************************************************************)
(* A dashboard frame on its way through the agent and the control helper:  *)
(* validated by the agent's models, turned into an argument list, checked  *)
(* again by the helper against the env file and the container as they are  *)
(* then, executed, and answered by what the exit code says.  The relay and *)
(* the streams around it are CommandRelay and LogStreams.                  *)
(***************************************************************************)
EXTENDS Node

CONSTANTS
  Frames       \* the frames the dashboard sends

VARIABLES
  request      \* the frame that is being served, and how far it has come

AgentEventType ==
  {"node.snapshot", "telemetry", "instance.changed", "container.changed",
   "deployment.changed", "command.ack", "command.result", "logs.chunk",
   "logs.ended", "error"}
DashboardEventType ==
  {"snapshot.request", "command.execute", "logs.start", "logs.stop", "error"}
CommandType == {"DEPLOY", "RESTART", "RECREATE", "ROLLBACK"}

(* "sound": the fields that are not looked at below are as they should be, *)
(* and there are no others.                                                *)
Frame == [version   : Nat,
          type      : AgentEventType \cup DashboardEventType,
          sound     : BOOLEAN,
          command   : CommandType,
          app       : Text,
          container : Text,
          tail      : Int]

ASSUME FramesAssumption == Frames \subseteq Frame

-----------------------------------------------------------------------------
(* The agent's validation.                                                 *)

(* Slip: the dashboard's enumeration comes first in the union.             *)
ResolvedTypeOther(type) ==
  IF type \in DashboardEventType THEN "dashboard's" ELSE "agent's"

(* A string that both enumerations of the union accept becomes a member of *)
(* the first: "error" is an agent's event, whoever sent it.                *)
ResolvedType(type) ==
  IF type \in AgentEventType THEN "agent's" ELSE "dashboard's"

AcceptsApp(app)       == app.legal /\ app.length \in 1..120
AcceptsContainer(con) == con.length \in 1..255
AcceptsTail(tail)     == tail \in 1..1000

Accepted(frame) ==
  /\ frame.version = 2 /\ frame.sound
  /\ ResolvedType(frame.type) = "dashboard's"
  /\ frame.type = "command.execute" => AcceptsApp(frame.app)
  /\ frame.type = "logs.start" => /\ AcceptsApp(frame.app)
                                  /\ AcceptsContainer(frame.container)
                                  /\ AcceptsTail(frame.tail)

Served == {"snapshot.request", "logs.start", "logs.stop", "command.execute"}

(* What a frame is answered with that starts no helper.                    *)
DirectAnswer(frame) ==
  IF Accepted(frame) /\ frame.type \notin Served THEN "error" ELSE "nothing"

HelperOperation(command) ==
  [DEPLOY |-> "deploy", RESTART |-> "restart",
   RECREATE |-> "recreate", ROLLBACK |-> "rollback"][command]

(* Slip: a busy lock is taken for the operation being under way.           *)
CommandAnswerHopeful(exit) == IF exit \in {0, 75} THEN "SUCCESS" ELSE "FAILED"

(* What the agent makes of an exit code.                                   *)
FailureMessage(exit) == IF exit = 75 THEN "lock busy" ELSE "FAILED"
CommandAnswer(exit)  == IF exit = 0 THEN "SUCCESS" ELSE FailureMessage(exit)
StreamAnswer(exit)   == IF exit = 0 THEN "stopped" ELSE "failed"

-----------------------------------------------------------------------------
(* The helper's own checks.                                                *)
AppId(app)     == app.legal /\ app.length - 1 \in 0..119
ContainerId(c) == c.legal /\ c.length - 1 \in 0..254
MaxTailLines   == 1000

(* Slip: range() would do it.                                              *)
TailBelow(t)   == 1 <= t /\ t < MaxTailLines
TailInRange(t) == 1 <= t /\ t <= MaxTailLines

Entrypoint(operation) ==
  [restart |-> "restart.sh", recreate |-> "recreate.sh",
   deploy |-> "deploy-sha.sh", rollback |-> "rollback.sh"][operation]

(* The node has one env file at most.  It is named after the app of the    *)
(* model, and the helper looks for no other name; the agent shows what it  *)
(* declares under whatever id that is.                                     *)
FileOf(app) == IF app = App THEN env ELSE NoFile
Registered(app, file) == AppId(app) /\ Declares(file, app)

(* Slip: the project is enough.                                            *)
OwnedByProject(labels, file) == labels.project = Project(file)

(* The labels of an inspected container against the declaration.           *)
Owned(labels, file) == labels.project = Project(file) /\ labels.service

-----------------------------------------------------------------------------
Steps   == {"none", "started", "found", "inspected", "following", "running",
            "exited", "answered"}
Answers == {"none", "nothing", "error", "SUCCESS", "FAILED", "lock busy",
            "stopped", "failed"}
Exits   == {0, 1, 64, 65, 69, 75}
Unasked == [version |-> 2, type |-> "snapshot.request", sound |-> TRUE,
            command |-> "DEPLOY", app |-> App, container |-> App, tail |-> 1]

(* "file", "found" and "followed": the env file of the node as it was when *)
(* the helper looked for the one of the app, the containers it found under *)
(* the name, and those it followed at last.                                *)
(* "operation": the operation of saad-deploy that it became.               *)
Request == [frame : Frames \cup {Unasked}, step : Steps, file : Files,
            found : SUBSET Container, followed : SUBSET Container,
            operation : 0..MaxEvents, exit : Exits, answer : Answers]

Fresh(frame) == [frame |-> frame, step |-> "started", file |-> NoFile,
                 found |-> {}, followed |-> {}, operation |-> 0,
                 exit |-> 0, answer |-> "none"]

ControlInit == request = [Fresh(Unasked) EXCEPT !.step = "none"]

At(step) == request.step = step
IsCommand == request.frame.type = "command.execute"

Exit(code) == [request EXCEPT !.step = "exited", !.exit = code]

-----------------------------------------------------------------------------
(* A frame that is rejected, or that the agent serves or answers itself.   *)
ReceiveOther(frame) ==
  /\ Happens
  /\ request.step \in {"none", "answered"}
  /\ ~(Accepted(frame) /\ frame.type \in {"command.execute", "logs.start"})
  /\ request' = [Fresh(frame) EXCEPT !.step = "answered",
                                     !.answer = DirectAnswer(frame)]
  /\ UNCHANGED <<env, containers, status, files, lock, operations>>

StartHelper(frame) ==
  /\ Happens
  /\ request.step \in {"none", "answered"}
  /\ Accepted(frame) /\ frame.type \in {"command.execute", "logs.start"}
  /\ request' = Fresh(frame)
  /\ UNCHANGED <<env, containers, status, files, lock, operations>>

(* _exec_fixed: read the declaration ...                                   *)
CheckCommand ==
  LET app == request.frame.app IN
  /\ At("started") /\ IsCommand
  /\ request' = [(IF Registered(app, FileOf(app))
                  THEN [request EXCEPT !.step = "found"] ELSE Exit(65))
                 EXCEPT !.file = env]
  /\ UNCHANGED nodeVars

(* ... and become the entrypoint, if it is there: one that finds the lock  *)
(* taken exits with 75.                                                    *)
EntrypointMissing ==
  /\ At("found") /\ IsCommand
  /\ request' = Exit(69)
  /\ UNCHANGED nodeVars

ExecBusy ==
  /\ At("found") /\ IsCommand /\ lock # 0
  /\ request' = Exit(75)
  /\ UNCHANGED nodeVars

ExecEntrypoint ==
  /\ Happens
  /\ At("found") /\ IsCommand
  /\ Begins(Entrypoint(HelperOperation(request.frame.command)))
  /\ request' = [request EXCEPT !.step = "running", !.operation = events + 1]

(* The entrypoint's exit code is the helper's, whose process it took over. *)
(* Of saad-deploy it is assumed that an entrypoint that did run ends with  *)
(* 0 or with a code that is none of the helper's own, 1 here: 75 is kept   *)
(* for a busy lock, as command_failure_message reads it.                   *)
EntrypointExits ==
  /\ At("running")
  /\ operations[request.operation].outcome \in {"success", "failure"}
  /\ request' = Exit(IF operations[request.operation].outcome = "success" THEN 0 ELSE 1)
  /\ UNCHANGED nodeVars

(* Slip: an operation that was begun is taken for one that succeeds.       *)
CommandTimesOutHopeful ==
  /\ At("running")
  /\ request' = [request EXCEPT !.step = "answered", !.answer = "SUCCESS"]
  /\ UNCHANGED nodeVars

(* The agent stops waiting; the operation does not stop.                   *)
CommandTimesOut ==
  /\ At("running")
  /\ request' = [request EXCEPT !.step = "answered", !.answer = "FAILED"]
  /\ UNCHANGED nodeVars

(* _logs: the arguments and the declaration ...                            *)
CheckStream ==
  LET app  == request.frame.app
      tail == request.frame.tail
      con  == request.frame.container
  IN
  /\ At("started") /\ ~IsCommand
  /\ request' = [(IF ~AppId(app) \/ ~ContainerId(con) THEN Exit(64)
                  ELSE IF ~TailInRange(tail) \/ ~Registered(app, FileOf(app)) THEN Exit(65)
                  ELSE [request EXCEPT !.step = "found"])
                 EXCEPT !.file = env, !.found = Named(con)]
  /\ UNCHANGED nodeVars

(* ... docker inspect, and what it says of the owner ...                   *)
Inspect ==
  LET found == Named(request.frame.container) IN
  /\ At("found") /\ ~IsCommand
  /\ request' = [(IF \E c \in found : Owned(c.labels, request.file)
                  THEN [request EXCEPT !.step = "inspected"] ELSE Exit(65))
                 EXCEPT !.found = found]
  /\ UNCHANGED nodeVars

(* ... and docker logs --follow, by name once more.                        *)
Follow ==
  LET now == Named(request.frame.container) IN
  /\ At("inspected")
  /\ request' = IF now = {} THEN Exit(1)
                ELSE [request EXCEPT !.step = "following", !.followed = now]
  /\ UNCHANGED nodeVars

(* docker logs ends when the container stops, or fails.                    *)
FollowEnds(code) ==
  /\ At("following")
  /\ request' = Exit(code)
  /\ UNCHANGED nodeVars

AnswerExit ==
  /\ At("exited")
  /\ request' = [request EXCEPT !.step = "answered",
                   !.answer = IF IsCommand THEN CommandAnswer(request.exit)
                                           ELSE StreamAnswer(request.exit)]
  /\ UNCHANGED nodeVars
=============================================================================
