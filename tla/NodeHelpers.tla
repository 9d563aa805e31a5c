----------------------------- MODULE NodeHelpers -----------------------------
(***************************************************************************)
(* The node, a request on its way through the control helper, and the      *)
(* collections of the agent, interleaved: what the one decides against     *)
(* what the other shows.                                                   *)
(***************************************************************************)
EXTENDS ControlHelper, Collection

vars == <<nodeVars, request, scan>>

(* The newest operation that the dashboard was told has succeeded.         *)
Success == IF request.answer = "SUCCESS" THEN request.operation ELSE 0

Init == NodeInit /\ ControlInit /\ CollectionInit

(* What the node does by itself.                                           *)
NodeStep ==
  /\ \/ EditDeclaration
     \/ \E c \in containers : ContainerRemoved(c)
     \/ \E n \in Names, l \in Labels : ContainerCreated(n, l)
     \/ ForeignOperation
     \/ WritesStatus
     \/ \E f \in StateFiles : WritesFile(f)
     \/ Closes
     \/ \E o \in {"success", "failure"} : Ends(o)
     \/ Dies
  /\ UNCHANGED <<request, scan>>

RequestStep ==
  /\ \/ \E frame \in Frames : ReceiveOther(frame) \/ StartHelper(frame)
     \/ CheckCommand
     \/ EntrypointMissing
     \/ ExecBusy
     \/ ExecEntrypoint
     \/ EntrypointExits
     \/ CommandTimesOut
     \/ CheckStream
     \/ Inspect
     \/ Follow
     \/ \E code \in {0, 1} : FollowEnds(code)
     \/ AnswerExit
  /\ UNCHANGED scan

Collects ==
  \/ List(Success)
  \/ \E c \in scan.listed : InspectContainer(c)
  \/ InspectDone
  \/ ReadDeclaration
  \/ ReadStateFile
  \/ Assemble

CollectionStep ==
  /\ Collects \/ ListFails(Success) \/ SnapshotFails \/ MetadataFails
  /\ UNCHANGED request

Next == NodeStep \/ RequestStep \/ CollectionStep

(* run_realtime and run_forever collect again and again.  Nothing else     *)
(* need ever happen.                                                       *)
Fairness == WF_vars(Collects /\ UNCHANGED request)

Spec == Init /\ [][Next]_vars /\ Fairness

-----------------------------------------------------------------------------
(* The types, and what they bound: a report is only made of status files   *)
(* that parse, and no operation is numbered past the events.               *)
TypeOK ==
  /\ NodeTypeOK
  /\ request \in Request
  /\ scan \in Scan

(* A container that is followed under the name that was inspected belongs  *)
(* to the very project, and carries the app id, that the other helper      *)
(* announces for the file the decision was made by; only a name that was   *)
(* given to another container in between leads elsewhere                   *)
(* (allowed_container and the execv of _logs; the two parsers).            *)
FollowedIsAnnounced ==
  At("following") /\ request.followed = request.found =>
    \A c \in request.followed :
      /\ Announced(request.file) =
           [id |-> Bare(request.frame.app), project |-> c.labels.project]
      /\ c.labels.service

(* What the agent's models let pass, and what the reports show as the      *)
(* app's own, the helper does not refuse (exit 64 and 65): the two         *)
(* validations and the two parsers agree, but for                          *)
(*   - an app that is declared in a file of another name, which the        *)
(*     reports show and the helper does not find (deploy_metadata.py:131,  *)
(*     control_helper.py:59);                                              *)
(*   - a container name with other characters;                             *)
(*   - values that are quoted after a blank or have blanks inside quotes.  *)
Misnamed == request.frame.app # App

Disputed(raw) == raw.quotes = "closed" /\ (raw.blank \/ raw.padded)

ShownIsServed ==
  LET shown == Announced(request.file)
      own   == [project |-> shown.project, service |-> TRUE]
  IN
  /\ At("exited") /\ request.exit \in {64, 65}
  /\ shown.id = Bare(request.frame.app)
  /\ shown.project.dress = "bare" /\ shown.project # Empty
  /\ ~Disputed(request.file.id)
  => \/ Misnamed
     \/ /\ ~IsCommand
        /\ \/ Disputed(request.file.project)
           \/ ~request.frame.container.legal
           \/ \A c \in request.found : c.labels # own

(* SUCCESS is said only of the entrypoint of the command that was asked    *)
(* for, run to its end for an app that the reports show; "lock busy" only  *)
(* when nothing was run (execute_command, _exec_fixed).                    *)
Asked == [DEPLOY |-> "deploy-sha.sh", RESTART |-> "restart.sh",
          RECREATE |-> "recreate.sh", ROLLBACK |-> "rollback.sh"]

AnswersAreTrue ==
  /\ request.answer = "SUCCESS" =>
       /\ request.operation # 0
       /\ operations[request.operation] =
            [entrypoint |-> Asked[request.frame.command], outcome |-> "success"]
       /\ Announced(request.file).id = Bare(request.frame.app)
  /\ request.answer = "lock busy" => request.operation = 0

(* An error frame is never answered by an error frame: the two ends cannot *)
(* keep each other busy (the type union of ProtocolEnvelope, and the last  *)
(* branch of the dispatch).                                                *)
NeverAnswersErrors == request.answer = "error" => request.frame.type # "error"

(* A report that was begun after the dashboard was told of a success shows *)
(* that operation finished, or a later one, or a status.json that is being *)
(* rewritten: never the state from before (execute_command against         *)
(* collect_deployment_state).                                              *)
SuccessIsReported ==
  Stage("reported") /\ scan.answered # 0 /\ scan.instance # NoInstance
    /\ scan.status.says # "unknown" =>
    \/ scan.status.of > scan.answered
    \/ scan.status.of = scan.answered /\ scan.status.says = "finished"

(* A report never shows an operation as finished next to state files from  *)
(* before its end, though it reads them while the next one writes them     *)
(* (the order of collect_deployment_state).                                *)
FinishedIsWhole ==
  Stage("reported") /\ scan.status.says = "finished" =>
    \A f \in StateFiles : scan.files[f] >= scan.status.left[f]

(* A container of the announced project that was there all along is in the *)
(* report, unless a command failed or some container, of whatever project, *)
(* was removed while they were inspected (snapshot.sh,                     *)
(* containers_for_project).                                                *)
MissedForAReason ==
  Stage("reported") /\ scan.missed # {} =>
    scan.faulty \/ ~(scan.begun \subseteq containers)

(* Reports go on being made, and once the node stops changing every one    *)
(* shows it as it is: nothing that one collection saw survives in the next *)
(* (collect_payload).                                                      *)
ShowsNode ==
  /\ scan.instance = IF Announced(env).id = Empty THEN NoInstance ELSE Announced(env)
  /\ scan.instance # NoInstance =>
       /\ scan.status = Parsed(status)
       /\ scan.files = files
       /\ scan.records = {c \in containers : /\ scan.instance.project # Empty
                                             /\ c.labels.project = scan.instance.project}
ReportsSettle ==
  /\ []<>Stage("reported")
  /\ <>[](Stage("reported") => ShowsNode)
=============================================================================
