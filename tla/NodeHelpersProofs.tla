-------------------------- MODULE NodeHelpersProofs --------------------------
(***************************************************************************)
(* Proofs about the control helper and the node it looks at: types, the    *)
(* order of versions on the node, and what a request is answered with.     *)
(***************************************************************************)
EXTENDS NodeHelpers, TLAPS

(* Nothing of the node changes but the count.                              *)
Quiet ==
  /\ UNCHANGED <<env, containers, status, files, lock, operations>>
  /\ events' \in {events, events + 1} /\ events' <= MaxEvents

(* Whatever a step of the system does to the node.                         *)
Moves ==
  \/ Quiet
  \/ EditDeclaration
  \/ \E c \in containers : ContainerRemoved(c)
  \/ \E n \in Names, l \in Labels : ContainerCreated(n, l)
  \/ \E e \in Entrypoints \cup {"none"} : Happens /\ Begins(e)
  \/ WritesStatus
  \/ \E f \in StateFiles : WritesFile(f)
  \/ Closes
  \/ \E o \in {"success", "failure"} : Ends(o)
  \/ Dies

LEMMA EntrypointFound ==
  ASSUME NEW command \in CommandType
  PROVE  /\ Entrypoint(HelperOperation(command)) \in Entrypoints
         /\ Entrypoint(HelperOperation(command)) = Asked[command]
BY DEF CommandType, Entrypoint, HelperOperation, Entrypoints, Asked

LEMMA FrameTypes == Frames \cup {Unasked} \subseteq Frame
<1>1. App \in Text
  BY NodeAssumption
<1>2. "snapshot.request" \in AgentEventType \cup DashboardEventType
  BY DEF DashboardEventType
<1>3. "DEPLOY" \in CommandType
  BY DEF CommandType
<1>4. Unasked \in Frame
  BY <1>1, <1>2, <1>3 DEF Unasked, Frame
<1> QED BY <1>4, FramesAssumption

(* The node is moved by one of these in every step.                        *)
LEMMA StepsMove ==
  ASSUME NodeTypeOK, request \in Request, [Next]_vars
  PROVE  Moves
<1> USE NodeAssumption
<1>1. CASE UNCHANGED vars
  BY <1>1 DEF vars, nodeVars, Moves, Quiet, NodeTypeOK
<1>2. CASE NodeStep
  BY <1>2 DEF NodeStep, Moves, ForeignOperation
<1>3. CASE RequestStep
  <2>1. UNCHANGED nodeVars => Quiet
    BY DEF nodeVars, Quiet, NodeTypeOK
  <2>2. ASSUME Happens, UNCHANGED <<env, containers, status, files, lock, operations>>
        PROVE  Quiet
    BY <2>2 DEF Happens, Quiet, NodeTypeOK
  <2>3. CASE \E frame \in Frames : ReceiveOther(frame) \/ StartHelper(frame)
    BY <2>2, <2>3 DEF ReceiveOther, StartHelper, Moves
  <2>4. CASE ExecEntrypoint
    <3>1. request.frame.command \in CommandType
      BY FrameTypes DEF Request, Frame
    <3>2. Entrypoint(HelperOperation(request.frame.command)) \in Entrypoints \cup {"none"}
      BY <3>1, EntrypointFound
    <3> QED BY <2>4, <3>2 DEF ExecEntrypoint, Moves
  <2> QED
    BY <1>3, <2>1, <2>3, <2>4
    DEF RequestStep, CheckCommand, EntrypointMissing, ExecBusy, EntrypointExits,
        CommandTimesOut, CheckStream, Inspect, Follow, FollowEnds, AnswerExit, Moves
<1>4. CASE CollectionStep
  <2>1. UNCHANGED nodeVars => Quiet
    BY DEF nodeVars, Quiet, NodeTypeOK
  <2>2. ASSUME Happens, UNCHANGED <<env, containers, status, files, lock, operations>>
        PROVE  Quiet
    BY <2>2 DEF Happens, Quiet, NodeTypeOK
  <2>3. CASE Collects
    BY <2>1, <2>3
    DEF Collects, List, InspectContainer, InspectDone, ReadDeclaration,
        ReadStateFile, Assemble, Moves
  <2> QED
    BY <1>4, <2>2, <2>3 DEF CollectionStep, ListFails, SnapshotFails, MetadataFails, Moves
<1> QED BY <1>1, <1>2, <1>3, <1>4 DEF Next

-----------------------------------------------------------------------------
(* The versions on the node: status.json is never behind the other files,  *)
(* a running operation is the newest, and a success is written in          *)
(* status.json until a newer operation begins.                             *)
NodeInv ==
  /\ NodeTypeOK
  /\ \A c \in containers : c.id <= events
  /\ \A c, d \in containers : c.name = d.name => c = d
  /\ status.of <= events
  /\ \A f \in StateFiles : status.left[f] <= files[f] /\ files[f] <= status.of
  /\ lock # 0 => /\ lock = status.of /\ status.says # "finished"
                 /\ operations[lock].outcome = "running"
  /\ \A k \in Numbers : operations[k].outcome = "success" =>
       k <= status.of /\ (k = status.of => status.says = "finished")

(* Never does an operation that succeeded, or a file, go back; a finished  *)
(* status goes only when a newer operation begins.                         *)
Onward ==
  /\ events <= events'
  /\ status.of <= status'.of
  /\ (status'.of = status.of /\ status.says = "finished" => status'.says = "finished")
  /\ \A f \in StateFiles : files[f] <= files'[f]
  /\ \A c \in containers' \ containers : c.id > events
  /\ \A k \in Numbers : k <= events /\ operations[k].outcome # "running" =>
       operations'[k] = operations[k]
  /\ \A k \in Numbers : k <= events => operations'[k].entrypoint = operations[k].entrypoint

LEMMA NodeInvInit == NodeInit => NodeInv
<1> SUFFICES ASSUME NodeInit PROVE NodeInv
  OBVIOUS
<1> USE NodeAssumption
<1>0. 0 \in 0..MaxEvents
  OBVIOUS
<1>1. PICK node \in Nodes : env = node.env /\ containers = node.containers
  BY DEF NodeInit
<1>2. env \in Files /\ containers \subseteq Container
  BY <1>1
<1>3. Unwritten \in Versions /\ \A f \in StateFiles : Unwritten[f] = 0
  BY <1>0 DEF Unwritten, Versions
<1>4. status \in Status /\ files \in Versions /\ status.of = 0 /\ status.left = Unwritten
      /\ files = Unwritten
  BY <1>0, <1>3 DEF NodeInit, Status
<1>5. operations \in [Numbers -> Operation]
      /\ \A k \in Numbers : operations[k].outcome = "none"
  BY DEF NodeInit, Operation, NotBegun
<1>6. lock = 0 /\ events = 0
  BY DEF NodeInit
<1>7. NodeTypeOK
  BY <1>0, <1>2, <1>4, <1>5, <1>6 DEF NodeTypeOK
<1>8. \A c, d \in containers : c.id = 0 /\ (c.name = d.name => c = d)
  BY <1>1
<1> QED BY <1>3, <1>4, <1>5, <1>6, <1>7, <1>8 DEF NodeInv

LEMMA NodeInvMoves ==
  ASSUME NodeInv, Moves
  PROVE  NodeInv' /\ Onward
<1> USE NodeAssumption
<1>0. NodeTypeOK
  BY DEF NodeInv
<1>t. /\ status.of \in Int /\ events \in Int /\ lock \in Int
      /\ \A f \in StateFiles : files[f] \in Int /\ status.left[f] \in Int
      /\ status = [of |-> status.of, says |-> status.says, left |-> status.left]
      /\ \A k \in Numbers : operations[k] \in Operation
  BY <1>0 DEF NodeTypeOK, Status, Versions
<1>q. ASSUME env' \in Files, containers' \subseteq containers,
             UNCHANGED <<status, files, lock, operations>>,
             events <= events', events' \in 0..MaxEvents
      PROVE  NodeInv' /\ Onward
  <2>1. \A c \in containers : c.id \in Int
    BY <1>0 DEF NodeTypeOK, Container
  <2>2. NodeTypeOK'
    BY <1>0, <1>q DEF NodeTypeOK
  <2>3. NodeInv'
    BY <1>q, <1>t, <2>1, <2>2 DEF NodeInv
  <2>4. Onward
    BY <1>q, <1>t DEF Onward
  <2> QED BY <2>3, <2>4
<1>1. CASE Quiet
  <2>1. env' \in Files /\ containers' = containers /\ events <= events'
        /\ events' \in 0..MaxEvents /\ UNCHANGED <<status, files, lock, operations>>
    BY <1>0, <1>1, <1>t DEF Quiet, NodeTypeOK
  <2> QED BY <1>q, <2>1
<1>2. CASE EditDeclaration
  <2>1. env' \in Files /\ containers' = containers /\ events <= events'
        /\ events' \in 0..MaxEvents /\ UNCHANGED <<status, files, lock, operations>>
    BY <1>0, <1>2, <1>t DEF EditDeclaration, Happens, NodeTypeOK
  <2> QED BY <1>q, <2>1
<1>3. ASSUME NEW c \in containers, ContainerRemoved(c) PROVE NodeInv' /\ Onward
  <2>1. env' \in Files /\ containers' \subseteq containers /\ events <= events'
        /\ events' \in 0..MaxEvents /\ UNCHANGED <<status, files, lock, operations>>
    BY <1>0, <1>3, <1>t DEF ContainerRemoved, Happens, NodeTypeOK
  <2> QED BY <1>q, <2>1
<1>4. ASSUME NEW n \in Names, NEW l \in Labels, ContainerCreated(n, l)
      PROVE  NodeInv' /\ Onward
  <2> DEFINE new == [id |-> events + 1, name |-> n, labels |-> l]
  <2>1. events < MaxEvents /\ events' = events + 1 /\ events' \in 0..MaxEvents
    BY <1>0, <1>4 DEF ContainerCreated, Happens, NodeTypeOK
  <2>2. new \in Container /\ new.id = events + 1 /\ new.name = n
    BY <1>0, <2>1 DEF Container, NodeTypeOK
  <2>3. containers' = (containers \ Named(n)) \cup {new}
    BY <1>4 DEF ContainerCreated
  <2>4. \A c \in containers \ Named(n) : c.name # n /\ c.id \in Int
    BY <1>0 DEF Named, NodeTypeOK, Container
  <2> HIDE DEF new
  <2>5. /\ containers' \subseteq Container
        /\ \A c \in containers' : c.id <= events'
        /\ \A c \in containers' \ containers : c.id > events
    BY <1>0, <1>t, <2>1, <2>2, <2>3, <2>4 DEF NodeInv, NodeTypeOK
  <2>6. \A c, d \in containers' : c.name = d.name => c = d
    BY <2>2, <2>3, <2>4 DEF NodeInv
  <2>7. UNCHANGED <<env, status, files, lock, operations>>
    BY <1>4 DEF ContainerCreated
  <2> QED BY <1>0, <1>t, <2>1, <2>5, <2>6, <2>7 DEF NodeInv, NodeTypeOK, Onward
<1>5. ASSUME NEW e \in Entrypoints \cup {"none"}, Happens, Begins(e)
      PROVE  NodeInv' /\ Onward
  <2> DEFINE run == [entrypoint |-> e, outcome |-> "running"]
  <2>1. events < MaxEvents /\ events' = events + 1 /\ events' \in 0..MaxEvents
        /\ events' \in Numbers
    BY <1>0, <1>5 DEF Happens, NodeTypeOK, Numbers
  <2>2. run \in Operation /\ run.outcome = "running"
    BY DEF Operation
  <2> HIDE DEF run
  <2>3. /\ operations' = [operations EXCEPT ![events + 1] = run]
        /\ lock' = events + 1 /\ status' = [status EXCEPT !.of = events + 1, !.says = "torn"]
        /\ UNCHANGED <<env, containers, files>>
    BY <1>5 DEF Begins, run
  <2>4. /\ operations' \in [Numbers -> Operation]
        /\ operations'[events + 1] = run
        /\ \A k \in Numbers : k # events + 1 => operations'[k] = operations[k]
    BY <1>0, <2>1, <2>2, <2>3 DEF NodeTypeOK
  <2>5. /\ status' \in Status /\ status'.of = events + 1 /\ status'.says = "torn"
        /\ status'.left = status.left
    BY <1>0, <2>1, <2>3 DEF NodeTypeOK, Status
  <2>6. NodeTypeOK'
    BY <1>0, <2>1, <2>3, <2>4, <2>5 DEF NodeTypeOK
  <2>7. \A k \in Numbers : k \in Int
    BY DEF Numbers
  <2>8. \A f \in StateFiles : status'.left[f] <= files'[f] /\ files'[f] <= status'.of
    BY <1>t, <2>3, <2>5 DEF NodeInv
  <2>9. \A k \in Numbers : operations'[k].outcome = "success" => k < status'.of
    BY <1>t, <2>1, <2>2, <2>4, <2>5, <2>7 DEF NodeInv
  <2>10. NodeInv'
    <3>1. \A c \in containers : c.id \in Int
      BY <1>0 DEF NodeTypeOK, Container
    <3> QED BY <1>t, <2>1, <2>2, <2>3, <2>4, <2>5, <2>6, <2>7, <2>8, <2>9, <3>1 DEF NodeInv
  <2>11. Onward
    BY <1>t, <2>1, <2>3, <2>4, <2>5, <2>7 DEF NodeInv, Onward
  <2> QED BY <2>10, <2>11
<1>6. CASE WritesStatus
  <2>1. /\ status' \in Status /\ status'.of = status.of /\ status'.says = "running"
        /\ status'.left = status.left
    BY <1>0, <1>6 DEF WritesStatus, NodeTypeOK, Status
  <2>2. status.says = "torn" /\ UNCHANGED <<env, containers, files, lock, operations, events>>
    BY <1>6 DEF WritesStatus
  <2> QED BY <1>0, <1>t, <2>1, <2>2 DEF NodeInv, NodeTypeOK, Onward
<1>7. ASSUME NEW f \in StateFiles, WritesFile(f) PROVE NodeInv' /\ Onward
  <2>1. lock # 0 /\ files' = [files EXCEPT ![f] = lock]
        /\ UNCHANGED <<env, containers, status, lock, operations, events>>
    BY <1>7 DEF WritesFile
  <2>2. files' \in Versions /\ files'[f] = lock
        /\ \A g \in StateFiles : g # f => files'[g] = files[g]
    BY <1>0, <2>1 DEF NodeTypeOK, Versions
  <2>3. \A g \in StateFiles : files[g] <= files'[g] /\ files'[g] <= status.of
                                /\ status.left[g] <= files'[g] /\ files'[g] \in Int
    BY <1>t, <2>1, <2>2 DEF NodeInv
  <2> QED BY <1>0, <1>t, <2>1, <2>2, <2>3 DEF NodeInv, NodeTypeOK, Onward
<1>8. CASE Closes
  <2>1. /\ status' \in Status /\ status'.of = status.of /\ status'.says = "closing"
        /\ status'.left = status.left
    BY <1>0, <1>8 DEF Closes, NodeTypeOK, Status
  <2>2. status.says = "running" /\ UNCHANGED <<env, containers, files, lock, operations, events>>
    BY <1>8 DEF Closes
  <2> QED BY <1>0, <1>t, <2>1, <2>2 DEF NodeInv, NodeTypeOK, Onward
<1>9. ASSUME NEW o \in {"success", "failure"}, Ends(o) PROVE NodeInv' /\ Onward
  <2>1. /\ status' \in Status /\ status'.of = status.of /\ status'.says = "finished"
        /\ status'.left = files
    BY <1>0, <1>9 DEF Ends, NodeTypeOK, Status
  <2>2. /\ lock # 0 /\ lock' = 0 /\ UNCHANGED <<env, containers, files, events>>
        /\ operations' = [operations EXCEPT ![lock].outcome = o]
    BY <1>9 DEF Ends
  <2>3. lock \in Numbers /\ lock = status.of /\ operations[lock].outcome = "running"
    BY <1>0, <2>2 DEF NodeInv, NodeTypeOK, Numbers
  <2>4. /\ operations' \in [Numbers -> Operation]
        /\ operations'[lock].entrypoint = operations[lock].entrypoint
        /\ \A k \in Numbers : k # lock => operations'[k] = operations[k]
    BY <1>0, <2>2, <2>3 DEF NodeTypeOK, Operation
  <2>5. NodeTypeOK'
    BY <1>0, <2>1, <2>2, <2>4 DEF NodeTypeOK
  <2>6. NodeInv'
    BY <1>t, <2>1, <2>2, <2>3, <2>4, <2>5 DEF NodeInv
  <2> QED BY <1>t, <2>1, <2>2, <2>3, <2>4, <2>6 DEF Onward
<1>10. CASE Dies
  <2>1. /\ lock # 0 /\ lock' = 0 /\ UNCHANGED <<env, containers, status, files>>
        /\ operations' = [operations EXCEPT ![lock].outcome = "failure"]
        /\ events < MaxEvents /\ events' = events + 1
    BY <1>10 DEF Dies, Happens
  <2>2. lock \in Numbers /\ lock = status.of /\ operations[lock].outcome = "running"
    BY <1>0, <2>1 DEF NodeInv, NodeTypeOK, Numbers
  <2>3. /\ operations' \in [Numbers -> Operation]
        /\ operations'[lock].entrypoint = operations[lock].entrypoint
        /\ operations'[lock].outcome = "failure"
        /\ \A k \in Numbers : k # lock => operations'[k] = operations[k]
    BY <1>0, <2>1, <2>2 DEF NodeTypeOK, Operation
  <2>4. NodeTypeOK'
    BY <1>0, <1>t, <2>1, <2>3 DEF NodeTypeOK
  <2>5. \A c \in containers : c.id \in Int
    BY <1>0 DEF NodeTypeOK, Container
  <2>6. NodeInv'
    BY <1>t, <2>1, <2>2, <2>3, <2>4, <2>5 DEF NodeInv
  <2> QED BY <1>t, <2>1, <2>2, <2>3, <2>6 DEF Onward
<1> QED BY <1>1, <1>2, <1>3, <1>4, <1>5, <1>6, <1>7, <1>8, <1>9, <1>10 DEF Moves

-----------------------------------------------------------------------------
(* The two parsers.  What the helper accepts is what the agent shows ...   *)
LEMMA DeclaredIsAnnounced ==
  ASSUME NEW file \in File, NEW app \in Words, Declares(file, app)
  PROVE  Announced(file).id = Bare(app)
<1>1. file.id \in Raw
  BY DEF File
<1>2. ControlValue(file.id) = Bare(app) /\ app # NoWord
  BY NoWordAssumption DEF Declares
<1>3. MetadataValue(file.id) = Bare(app)
  BY <1>1, <1>2 DEF ControlValue, MetadataValue, Shlex, Bare, Unset, Raw
<1>4. Kept(Bare(app)) = Bare(app)
  BY <1>2 DEF Kept, Bare, Unset
<1> QED BY <1>3, <1>4 DEF Announced

(* ... a container it takes for the app's is one of the project shown ...  *)
LEMMA OwnedIsAnnounced ==
  ASSUME NEW file \in File, NEW app \in Words, Declares(file, app),
         NEW labels \in Labels, Owned(labels, file)
  PROVE  Announced(file).project = labels.project /\ labels.service
<1>1. file.project \in Raw
  BY DEF File
<1>2. PICK w \in Words \cup {NoWord} : labels.project = Bare(w)
  BY NodeAssumption DEF Labelling
<1>3. ControlValue(file.project) = Bare(w) /\ labels.service
  BY <1>2 DEF Owned, Project
<1>4. w # NoWord
  BY <1>3 DEF Declares, Empty
<1>5. MetadataValue(file.project) = Bare(w)
  BY <1>1, <1>3, <1>4 DEF ControlValue, MetadataValue, Shlex, Bare, Unset, Raw
<1>6. Kept(Bare(w)) = Bare(w)
  BY <1>4 DEF Kept, Bare, Unset
<1> QED BY <1>2, <1>3, <1>5, <1>6 DEF Announced

(* ... and what the agent shows the helper accepts, unless it is disputed. *)
LEMMA AnnouncedIsDeclared ==
  ASSUME NEW file \in File, NEW app, app # NoWord,
         Announced(file).id = Bare(app), ~Disputed(file.id),
         Announced(file).project.dress = "bare", Announced(file).project # Empty
  PROVE  /\ Declares(file, app)
         /\ ~Disputed(file.project) => Project(file) = Announced(file).project
<1>1. file.id \in Raw /\ file.project \in Raw
  BY DEF File
<1>2. Kept(MetadataValue(file.id)) = Bare(app)
  BY DEF Announced
<1>3. ControlValue(file.id) = Bare(app)
  BY <1>1, <1>2 DEF Disputed, Kept, ControlValue, MetadataValue, Shlex, Bare, Unset, Empty, Raw
<1> DEFINE shown == Kept(MetadataValue(file.project))
<1>4. shown.dress = "bare" /\ shown # Empty /\ Announced(file).project = shown
  BY DEF Announced
<1>5. ControlValue(file.project) \notin {Unset, Empty}
  BY <1>1, <1>4 DEF Kept, ControlValue, MetadataValue, Shlex, Bare, Unset, Empty, Raw
<1>6. ~Disputed(file.project) => ControlValue(file.project) = shown
  BY <1>1, <1>4 DEF Disputed, Kept, ControlValue, MetadataValue, Shlex, Bare, Unset, Empty, Raw
<1> QED BY <1>3, <1>4, <1>5, <1>6 DEF Declares, Project

LEMMA NoFileDeclaresNothing ==
  /\ NoFile \in File
  /\ ControlValue(NoFile.project) = Empty
  /\ Announced(NoFile).project = Empty
<1>1. NoFile \in File
  BY DEF NoFile, File, Raw
<1>2. NoFile.project.quotes = "none" /\ NoFile.project.word = NoWord
      /\ NoFile.project.comment = FALSE
  BY DEF NoFile
<1>3. ControlValue(NoFile.project) = Empty /\ MetadataValue(NoFile.project) = Empty
  BY <1>2 DEF ControlValue, MetadataValue, Empty
<1>4. Kept(Empty) = Empty
  BY DEF Kept, Empty, Bare, Unset
<1> QED BY <1>1, <1>3, <1>4 DEF Announced

-----------------------------------------------------------------------------
(* What a request has been checked for, step by step.                      *)
Checked ==
  /\ request \in Request
  /\ request.step \notin {"none", "answered"} =>
       /\ Accepted(request.frame)
       /\ request.frame.type \in {"command.execute", "logs.start"}
       /\ request.answer = "none"
  /\ request.step \in {"found", "inspected", "following", "running"} =>
       request.frame.app = App /\ Declares(request.file, App)
  /\ request.step \in {"inspected", "following"} =>
       ~IsCommand /\ \A c \in request.found : Owned(c.labels, request.file)
  /\ request.step = "running" => IsCommand
  /\ NeverAnswersErrors
  /\ ShownIsServed

LEMMA ExitIs ==
  ASSUME request \in Request, NEW code \in Exits
  PROVE  /\ Exit(code) \in Request
         /\ Exit(code).step = "exited" /\ Exit(code).exit = code
         /\ Exit(code).frame = request.frame /\ Exit(code).file = request.file
         /\ Exit(code).found = request.found /\ Exit(code).followed = request.followed
         /\ Exit(code).operation = request.operation /\ Exit(code).answer = request.answer
BY DEF Exit, Request, Steps

(* What a check makes of a request: it goes on to a step, or exits.        *)
LEMMA OutcomeIs ==
  ASSUME request \in Request, NEW ok \in BOOLEAN, NEW step \in Steps, NEW code \in Exits,
         NEW r, r = IF ok THEN [request EXCEPT !.step = step] ELSE Exit(code)
  PROVE  /\ r \in Request /\ r.frame = request.frame /\ r.file = request.file
         /\ r.found = request.found /\ r.followed = request.followed
         /\ r.operation = request.operation /\ r.answer = request.answer
         /\ ok => r.step = step
         /\ ~ok => r.step = "exited" /\ r.exit = code
<1>1. CASE ok
  <2>1. r = [request EXCEPT !.step = step]
    BY <1>1
  <2> QED BY <1>1, <2>1 DEF Request
<1>2. CASE ~ok
  BY <1>2, ExitIs
<1> QED BY <1>1, <1>2

LEMMA FreshIs ==
  ASSUME NEW frame \in Frames \cup {Unasked}
  PROVE  /\ Fresh(frame) \in Request
         /\ Fresh(frame).step = "started" /\ Fresh(frame).frame = frame
         /\ Fresh(frame).file = NoFile /\ Fresh(frame).operation = 0
         /\ Fresh(frame).answer = "none"
BY NodeAssumption DEF Fresh, Request, Steps, Exits, Answers

LEMMA FileOfTypes ==
  ASSUME NodeTypeOK, NEW app
  PROVE  /\ env \in Files /\ env \in File /\ App # NoWord
         /\ app = App => FileOf(app) = env
         /\ Declares(FileOf(app), app) => app = App
<1>1. env \in Files /\ env \in File
  BY NodeAssumption DEF NodeTypeOK
<1>2. FileOf(app) = IF app = App THEN env ELSE NoFile
  BY DEF FileOf
<1>3. ~Declares(NoFile, app)
  BY NoFileDeclaresNothing DEF Declares
<1>4. App # NoWord
  BY NodeAssumption, NoWordAssumption
<1> QED BY <1>1, <1>2, <1>3, <1>4

LEMMA TailsAgree ==
  ASSUME NEW t, AcceptsTail(t)
  PROVE  TailInRange(t)
BY DEF AcceptsTail, TailInRange, MaxTailLines

(* What the agent lets through passes the helper's own expressions.        *)
LEMMA ValidatorsAgree ==
  ASSUME NEW frame \in Frame, Accepted(frame)
  PROVE  /\ frame.type \in {"command.execute", "logs.start"} => AppId(frame.app)
         /\ frame.type = "logs.start" =>
              /\ TailInRange(frame.tail)
              /\ frame.container.legal => ContainerId(frame.container)
<1>1. frame.app.length \in Int /\ frame.container.length \in Int /\ frame.tail \in Int
  BY DEF Frame, Text
<1>2. AcceptsApp(frame.app) => AppId(frame.app)
  BY <1>1 DEF AcceptsApp, AppId
<1>3. AcceptsContainer(frame.container) /\ frame.container.legal => ContainerId(frame.container)
  BY <1>1 DEF AcceptsContainer, ContainerId
<1>4. /\ frame.type \in {"command.execute", "logs.start"} => AcceptsApp(frame.app)
      /\ frame.type = "logs.start" => AcceptsContainer(frame.container) /\ AcceptsTail(frame.tail)
  BY DEF Accepted
<1>5. AcceptsTail(frame.tail) => TailInRange(frame.tail)
  BY <1>1, TailsAgree
<1> QED BY <1>2, <1>3, <1>4, <1>5

LEMMA AnswerTypes ==
  ASSUME NEW exit \in Exits
  PROVE  /\ CommandAnswer(exit) \in {"SUCCESS", "lock busy", "FAILED"}
         /\ CommandAnswer(exit) = "SUCCESS" => exit = 0
         /\ CommandAnswer(exit) = "lock busy" => exit = 75
         /\ StreamAnswer(exit) \in {"stopped", "failed"}
BY DEF CommandAnswer, FailureMessage, StreamAnswer, Exits

LEMMA DirectAnswerTypes ==
  ASSUME NEW frame \in Frame
  PROVE  /\ DirectAnswer(frame) \in {"error", "nothing"}
         /\ DirectAnswer(frame) = "error" => frame.type # "error"
BY DEF DirectAnswer, Accepted, ResolvedType, AgentEventType

LEMMA NamedTypes ==
  ASSUME NodeTypeOK, NEW n
  PROVE  Named(n) \subseteq Container /\ \A c \in Named(n) : c.labels \in Labels
BY DEF NodeTypeOK, Named, Container

(* What remains to be shown of a step that goes on to a later check, or    *)
(* exits.                                                                  *)
LEMMA CheckedByStep ==
  ASSUME Checked, request' \in Request, request.step \notin {"none", "answered"},
         request'.frame = request.frame, request'.answer = request.answer,
         \/ request'.step = "found" /\ request'.frame.app = App /\ Declares(request'.file, App)
         \/ request'.step = "exited" /\ ShownIsServed'
  PROVE  Checked'
<1>1. Accepted(request.frame) /\ request.frame.type \in {"command.execute", "logs.start"}
      /\ request'.answer = "none"
  BY DEF Checked
<1>2. NeverAnswersErrors'
  BY <1>1 DEF NeverAnswersErrors
<1>3. CASE request'.step = "found"
  <2>1. ShownIsServed' /\ request'.frame.app = App /\ Declares(request'.file, App)
    BY <1>3 DEF ShownIsServed, At
  <2> QED BY <1>1, <1>2, <1>3, <2>1 DEF Checked
<1>4. CASE request'.step = "exited"
  <2>1. ShownIsServed'
    BY <1>4
  <2> QED BY <1>1, <1>2, <1>4, <2>1 DEF Checked
<1> QED BY <1>3, <1>4

(* What a check leaves alone, and the codes it exits with.                 *)
Goes ==
  /\ request'.frame = request.frame
  /\ request'.operation = request.operation /\ request'.answer = request.answer
  /\ \/ request'.step \in {"found", "inspected"}
     \/ request'.step = "exited" /\ request'.exit \in {64, 65}

(* The disputed declarations of an app, in the file of its name.           *)
LEMMA Undeclared ==
  ASSUME NodeTypeOK, ~Declares(env, App)
  PROVE  ~(/\ Announced(env).id = Bare(App) /\ ~Disputed(env.id)
           /\ Announced(env).project.dress = "bare" /\ Announced(env).project # Empty)
<1>1. env \in File /\ App # NoWord
  BY FileOfTypes
<1> QED BY <1>1, AnnouncedIsDeclared

LEMMA CheckCommandKeeps ==
  ASSUME NodeTypeOK, Checked, CheckCommand
  PROVE  Checked' /\ Goes
<1>1. PICK app, file : app = request.frame.app /\ file = env
  OBVIOUS
<1>2. PICK ok \in BOOLEAN : ok = Registered(app, FileOf(app))
  BY DEF Registered, AppId, Declares
<1>3. PICK r : r = IF ok THEN [request EXCEPT !.step = "found"] ELSE Exit(65)
  OBVIOUS
<1>4. request.step = "started" /\ IsCommand /\ request' = [r EXCEPT !.file = file]
  BY <1>1, <1>2, <1>3 DEF CheckCommand, At
<1>5. /\ r \in Request /\ r.frame = request.frame /\ r.answer = request.answer
      /\ ok => r.step = "found"
      /\ ~ok => r.step = "exited" /\ r.exit \in {64, 65}
      /\ r.operation = request.operation
  <2>1. request \in Request /\ "found" \in Steps /\ 65 \in Exits
    BY DEF Checked, Steps, Exits
  <2> QED BY <1>3, <2>1, OutcomeIs
<1>6. file \in Files /\ (app = App => FileOf(app) = file)
      /\ (Declares(FileOf(app), app) => app = App)
  BY <1>1, FileOfTypes
<1>7. /\ request' \in Request /\ request'.file = file /\ request'.frame = request.frame
      /\ request'.answer = request.answer /\ request'.step = r.step
      /\ request'.operation = r.operation /\ request'.exit = r.exit
  BY <1>4, <1>5, <1>6 DEF Request
<1>8. ok = Declares(FileOf(app), app)
  <2>1. AppId(app)
    BY <1>1, <1>4, FrameTypes, ValidatorsAgree DEF Checked, IsCommand, Request
  <2> QED BY <1>2, <2>1 DEF Registered, Declares, AppId
<1>9. ASSUME ok PROVE Checked'
  <2>1. request'.step = "found" /\ request'.frame.app = App /\ Declares(request'.file, App)
    BY <1>1, <1>5, <1>6, <1>7, <1>8, <1>9
  <2> QED BY <1>4, <1>7, <2>1, CheckedByStep
<1>10. ASSUME ~ok PROVE Checked'
  <2>1. app = App =>
          ~(/\ Announced(file).id = Bare(app) /\ ~Disputed(file.id)
            /\ Announced(file).project.dress = "bare" /\ Announced(file).project # Empty)
    BY <1>1, <1>6, <1>8, <1>10, Undeclared
  <2>2. ShownIsServed'
    BY <1>1, <1>7, <2>1 DEF ShownIsServed, Misnamed
  <2> QED BY <1>4, <1>5, <1>7, <1>10, <2>2, CheckedByStep
<1>11. Goes
  BY <1>5, <1>7 DEF Goes
<1> QED BY <1>9, <1>10, <1>11

LEMMA CheckStreamKeeps ==
  ASSUME NodeTypeOK, Checked, CheckStream
  PROVE  Checked' /\ Goes
<1>1. PICK app, file, con : app = request.frame.app /\ file = env
                            /\ con = request.frame.container
  OBVIOUS
<1> DEFINE passes == /\ AppId(app) /\ ContainerId(con)
                     /\ TailInRange(request.frame.tail) /\ Registered(app, FileOf(app))
<1>2. PICK ok \in BOOLEAN : ok = passes
  OBVIOUS
<1>3. PICK code \in Exits : /\ code = IF ~AppId(app) \/ ~ContainerId(con) THEN 64 ELSE 65
                            /\ code \in {64, 65}
  BY DEF Exits
<1>4. PICK r : r = IF ok THEN [request EXCEPT !.step = "found"] ELSE Exit(code)
  OBVIOUS
<1>5. request.step = "started" /\ ~IsCommand
      /\ request' = [r EXCEPT !.file = file, !.found = Named(con)]
  BY <1>1, <1>2, <1>3, <1>4 DEF CheckStream, At
<1>6. /\ r \in Request /\ r.frame = request.frame /\ r.answer = request.answer
      /\ ok => r.step = "found"
      /\ ~ok => r.step = "exited" /\ r.exit \in {64, 65}
      /\ r.operation = request.operation
  <2>1. request \in Request /\ "found" \in Steps
    BY DEF Checked, Steps
  <2> QED BY <1>3, <1>4, <2>1, OutcomeIs
<1>7. file \in Files /\ (app = App => FileOf(app) = file)
      /\ (Declares(FileOf(app), app) => app = App) /\ Named(con) \in SUBSET Container
  BY <1>1, FileOfTypes, NamedTypes
<1>8. /\ request' \in Request /\ request'.file = file /\ request'.frame = request.frame
      /\ request'.answer = request.answer /\ request'.step = r.step
      /\ request'.operation = r.operation /\ request'.exit = r.exit
  BY <1>5, <1>6, <1>7 DEF Request
<1>9. AppId(app) /\ TailInRange(request.frame.tail) /\ (con.legal => ContainerId(con))
  BY <1>1, <1>5, FrameTypes, ValidatorsAgree DEF Checked, IsCommand, Request
<1>10. ASSUME ok PROVE Checked'
  <2>1. Declares(FileOf(app), app)
    BY <1>2, <1>10 DEF Registered
  <2>2. request'.step = "found" /\ request'.frame.app = App /\ Declares(request'.file, App)
    BY <1>1, <1>6, <1>7, <1>8, <1>10, <2>1
  <2> QED BY <1>5, <1>8, <2>2, CheckedByStep
<1>11. ASSUME ~ok PROVE Checked'
  <2>1. ~con.legal \/ ~Declares(FileOf(app), app)
    BY <1>2, <1>9, <1>11 DEF Registered
  <2>2. con.legal /\ app = App =>
          ~(/\ Announced(file).id = Bare(app) /\ ~Disputed(file.id)
            /\ Announced(file).project.dress = "bare" /\ Announced(file).project # Empty)
    BY <1>1, <1>7, <2>1, Undeclared
  <2>3. ~IsCommand'
    BY <1>5, <1>8 DEF IsCommand
  <2>4. ShownIsServed'
    BY <1>1, <1>8, <2>2, <2>3 DEF ShownIsServed, Misnamed
  <2> QED BY <1>5, <1>6, <1>8, <1>11, <2>4, CheckedByStep
<1>12. Goes
  BY <1>6, <1>8 DEF Goes
<1> QED BY <1>10, <1>11, <1>12

LEMMA InspectKeeps ==
  ASSUME NodeInv, Checked, Inspect
  PROVE  Checked' /\ Goes
<1>1. PICK found, file : found = Named(request.frame.container) /\ file = request.file
  OBVIOUS
<1>2. PICK ok \in BOOLEAN : ok = \E c \in found : Owned(c.labels, file)
  OBVIOUS
<1>3. PICK r : r = IF ok THEN [request EXCEPT !.step = "inspected"] ELSE Exit(65)
  OBVIOUS
<1>4. request.step = "found" /\ ~IsCommand /\ request' = [r EXCEPT !.found = found]
  BY <1>1, <1>2, <1>3 DEF Inspect, At
<1>5. /\ r \in Request /\ r.frame = request.frame /\ r.answer = request.answer
      /\ r.file = file
      /\ ok => r.step = "inspected"
      /\ ~ok => r.step = "exited" /\ r.exit \in {64, 65}
      /\ r.operation = request.operation
  <2>1. request \in Request /\ "inspected" \in Steps /\ 65 \in Exits
    BY DEF Checked, Steps, Exits
  <2> QED BY <1>1, <1>3, <2>1, OutcomeIs
<1>6. found \in SUBSET Container /\ \A c, d \in found : c = d
  BY <1>1, NamedTypes DEF Named, NodeInv
<1>7. /\ request' \in Request /\ request'.file = file /\ request'.frame = request.frame
      /\ request'.answer = request.answer /\ request'.step = r.step
      /\ request'.operation = r.operation /\ request'.exit = r.exit
      /\ request'.found = found
  BY <1>4, <1>5, <1>6 DEF Request
<1>8. request.frame.app = App /\ Declares(file, App)
  BY <1>1, <1>4 DEF Checked
<1>9. ASSUME ok PROVE Checked'
  <2>1. \A c \in found : Owned(c.labels, file)
    BY <1>2, <1>6, <1>9
  <2>2. /\ Accepted(request'.frame) /\ request'.answer = "none"
        /\ request'.frame.type \in {"command.execute", "logs.start"}
        /\ request'.step = "inspected" /\ ~IsCommand'
    BY <1>4, <1>5, <1>7, <1>9 DEF Checked, IsCommand
  <2>3. NeverAnswersErrors' /\ ShownIsServed'
    BY <2>2 DEF NeverAnswersErrors, ShownIsServed, At
  <2> QED BY <1>7, <1>8, <2>1, <2>2, <2>3 DEF Checked
<1>10. ASSUME ~ok PROVE Checked'
  <2> DEFINE own == [project |-> Announced(file).project, service |-> TRUE]
  <2>1. ASSUME Announced(file).id = Bare(App), ~Disputed(file.id), ~Disputed(file.project),
               Announced(file).project.dress = "bare", Announced(file).project # Empty
        PROVE  \A c \in found : c.labels # own
    <3>1. file \in File /\ App # NoWord
      BY <1>1, NodeAssumption, NoWordAssumption DEF Checked, Request
    <3>2. Project(file) = Announced(file).project
      BY <2>1, <3>1, AnnouncedIsDeclared
    <3>3. Owned(own, file)
      BY <3>2 DEF Owned
    <3> QED BY <1>2, <1>10, <3>3
  <2>2. ~IsCommand'
    BY <1>4, <1>7 DEF IsCommand
  <2>3. ShownIsServed'
    BY <1>7, <1>8, <2>1, <2>2 DEF ShownIsServed
  <2> QED BY <1>4, <1>5, <1>7, <1>10, <2>3, CheckedByStep
<1>11. Goes
  BY <1>5, <1>7 DEF Goes
<1> QED BY <1>9, <1>10, <1>11

LEMMA CheckedSteps ==
  ASSUME NodeInv, Checked, [Next]_vars
  PROVE  Checked'
<1> DEFINE con == request.frame.container
<1>0. NodeTypeOK
  BY DEF NodeInv
<1>t. /\ request \in Request /\ request.frame \in Frame /\ request.file \in Files
      /\ request.found \subseteq Container
  BY FrameTypes DEF Checked, Request
<1>u. CASE UNCHANGED request
  BY <1>u DEF Checked, IsCommand, NeverAnswersErrors, ShownIsServed, Misnamed, At
<1>1. ASSUME NEW frame \in Frames, ReceiveOther(frame) PROVE Checked'
  <2>1. frame \in Frame
    BY FramesAssumption
  <2>2. request' = [Fresh(frame) EXCEPT !.step = "answered", !.answer = DirectAnswer(frame)]
    BY <1>1 DEF ReceiveOther
  <2>4. DirectAnswer(frame) \in Answers /\ Fresh(frame) \in Request
    BY <2>1, FreshIs, DirectAnswerTypes DEF Answers
  <2> DEFINE fresh == Fresh(frame)
             answer == DirectAnswer(frame)
  <2>5. fresh.frame = frame
    BY FreshIs
  <2> HIDE DEF fresh, answer
  <2>6. request' = [fresh EXCEPT !.step = "answered", !.answer = answer]
    BY <2>2 DEF fresh, answer
  <2>3. /\ request' \in Request /\ request'.step = "answered" /\ request'.frame = frame
        /\ request'.answer = DirectAnswer(frame)
    BY <2>4, <2>5, <2>6 DEF Request, Steps, fresh, answer
  <2> QED BY <2>1, <2>3, DirectAnswerTypes DEF Checked, NeverAnswersErrors, ShownIsServed, At
<1>2. ASSUME NEW frame \in Frames, StartHelper(frame) PROVE Checked'
  <2>1. request' = Fresh(frame) /\ Accepted(frame)
        /\ frame.type \in {"command.execute", "logs.start"}
    BY <1>2 DEF StartHelper
  <2> QED BY <2>1, FreshIs DEF Checked, NeverAnswersErrors, ShownIsServed, At
<1>3. CASE CheckCommand
  BY <1>0, <1>3, CheckCommandKeeps
<1>4. ASSUME NEW code \in {1, 0, 69, 75}, request' = Exit(code), 
             request.step \in {"found", "inspected", "following", "running"}
      PROVE  Checked'
  <2>1. /\ request' \in Request /\ request'.step = "exited" /\ request'.exit = code
        /\ request'.frame = request.frame /\ request'.answer = request.answer
    BY <1>t, <1>4, ExitIs DEF Exits
  <2> QED BY <1>4, <2>1 DEF Checked, NeverAnswersErrors, ShownIsServed, At, IsCommand
<1>5. CASE ExecEntrypoint
  <2>1. /\ request.step = "found" /\ IsCommand
        /\ request' = [request EXCEPT !.step = "running", !.operation = events + 1]
    BY <1>5 DEF ExecEntrypoint, At
  <2>3. events + 1 \in 0..MaxEvents
    BY <1>0, <1>5, NodeAssumption DEF ExecEntrypoint, Happens, NodeTypeOK
  <2>2. /\ request' \in Request /\ request'.step = "running" /\ request'.file = request.file
        /\ request'.frame = request.frame /\ request'.answer = request.answer
    BY <1>t, <2>1, <2>3 DEF Request, Steps
  <2> QED BY <2>1, <2>2 DEF Checked, NeverAnswersErrors, ShownIsServed, At, IsCommand
<1>6. CASE CommandTimesOut
  <2>1. request' = [request EXCEPT !.step = "answered", !.answer = "FAILED"]
    BY <1>6 DEF CommandTimesOut
  <2>2. /\ request' \in Request /\ request'.step = "answered" /\ request'.answer = "FAILED"
        /\ request'.frame = request.frame
    BY <1>t, <2>1 DEF Request, Steps, Answers
  <2> QED BY <2>2 DEF Checked, NeverAnswersErrors, ShownIsServed, At
<1>7. CASE CheckStream
  BY <1>0, <1>7, CheckStreamKeeps
<1>8. CASE Inspect
  BY <1>8, InspectKeeps
<1>9. CASE Follow
  <2> DEFINE now == Named(con)
  <2>1. /\ request.step = "inspected"
        /\ request' = IF now = {} THEN Exit(1)
                      ELSE [request EXCEPT !.step = "following", !.followed = now]
    BY <1>9 DEF Follow, At
  <2>2. now \in SUBSET Container
    BY <1>0, NamedTypes
  <2>3. CASE now = {}
    BY <1>4, <2>1, <2>3
  <2> HIDE DEF now
  <2>4. CASE now # {}
    <3>1. /\ request' \in Request /\ request'.step = "following"
          /\ request'.file = request.file /\ request'.found = request.found
          /\ request'.frame = request.frame /\ request'.answer = request.answer
      BY <1>t, <2>1, <2>2, <2>4 DEF Request, Steps
    <3> QED BY <2>1, <3>1 DEF Checked, NeverAnswersErrors, ShownIsServed, At, IsCommand
  <2> QED BY <2>3, <2>4
<1>10. CASE AnswerExit
  <2> DEFINE answer == IF IsCommand THEN CommandAnswer(request.exit)
                                    ELSE StreamAnswer(request.exit)
  <2>1. request' = [request EXCEPT !.step = "answered", !.answer = answer]
    BY <1>10 DEF AnswerExit
  <2>2. answer \in {"SUCCESS", "lock busy", "FAILED", "stopped", "failed"}
    BY <1>t, AnswerTypes DEF Request
  <2>3. answer \in Answers /\ answer # "error"
    BY <2>2 DEF Answers
  <2> HIDE DEF answer
  <2>4. request' \in Request /\ request'.step = "answered" /\ request'.answer = answer
    BY <1>t, <2>1, <2>3 DEF Request, Steps
  <2> QED BY <2>3, <2>4 DEF Checked, NeverAnswersErrors, ShownIsServed, At
<1>11. CASE RequestStep
  <2>1. CASE EntrypointMissing \/ ExecBusy \/ EntrypointExits \/ \E code \in {0, 1} : FollowEnds(code)
    BY <1>4, <2>1 DEF EntrypointMissing, ExecBusy, EntrypointExits, FollowEnds, At
  <2> QED BY <1>1, <1>2, <1>3, <1>5, <1>6, <1>7, <1>8, <1>9, <1>10, <1>11, <2>1 DEF RequestStep
<1> QED BY <1>u, <1>11 DEF Next, NodeStep, CollectionStep, vars

-----------------------------------------------------------------------------
(* The operation that a request became.                                    *)
OfCommand ==
  request.operation # 0 =>
    /\ request.operation \in Numbers /\ request.operation <= events
    /\ request.frame.app = App /\ Declares(request.file, App)
    /\ operations[request.operation].entrypoint = Asked[request.frame.command]

Succeeded == request.operation # 0 /\ operations[request.operation].outcome = "success"

Runs ==
  /\ request.step \in {"none", "started", "found", "inspected", "following"} =>
       request.operation = 0
  /\ request.step = "running" => request.operation # 0
  /\ OfCommand
  /\ request.step = "exited" /\ request.exit = 0 /\ IsCommand => Succeeded
  /\ request.step = "exited" /\ request.exit = 75 => request.operation = 0
  /\ request.answer = "SUCCESS" => Succeeded
  /\ request.answer = "lock busy" => request.operation = 0

LEMMA OperationStays ==
  ASSUME OfCommand, Onward, NodeInv, NodeInv',
         request'.operation = request.operation, request'.frame = request.frame,
         request'.operation # 0 => request'.file = request.file
  PROVE  OfCommand' /\ (Succeeded => Succeeded')
<1>1. events \in Int /\ events' \in Int /\ \A k \in Numbers : k \in Int
  BY NodeAssumption DEF NodeInv, NodeTypeOK, Numbers
<1>2. CASE request.operation = 0
  BY <1>2 DEF OfCommand, Succeeded
<1>3. CASE request.operation # 0
  <2>1. PICK k \in Numbers : k = request.operation /\ k <= events
    BY <1>3 DEF OfCommand
  <2>2. k <= events' /\ operations'[k].entrypoint = operations[k].entrypoint
    BY <1>1, <2>1 DEF Onward
  <2>3. operations[k].outcome = "success" => operations'[k].outcome = "success"
    BY <2>1 DEF Onward
  <2>4. OfCommand'
    BY <1>3, <2>1, <2>2 DEF OfCommand
  <2> QED BY <2>1, <2>3, <2>4 DEF Succeeded
<1> QED BY <1>2, <1>3

LEMMA RunsSteps ==
  ASSUME NodeInv, Checked, Runs, [Next]_vars
  PROVE  Runs'
<1>0. request \in Request /\ NodeTypeOK
  BY DEF Checked, NodeInv
<1>m. NodeInv' /\ Onward
  BY <1>0, StepsMove, NodeInvMoves
<1>f. request.frame \in Frame
  BY <1>0, FrameTypes DEF Request
<1>u. CASE UNCHANGED request
  BY <1>u, <1>m, OperationStays DEF Runs, IsCommand
<1>1. ASSUME NEW frame \in Frames, ReceiveOther(frame) \/ StartHelper(frame) PROVE Runs'
  <2>1. frame \in Frame /\ Fresh(frame) \in Request /\ Fresh(frame).operation = 0
        /\ Fresh(frame).step = "started" /\ Fresh(frame).answer = "none"
    BY FramesAssumption, FreshIs
  <2>2. PICK fresh, answer : fresh = Fresh(frame) /\ answer = DirectAnswer(frame)
    OBVIOUS
  <2>3. CASE StartHelper(frame)
    BY <2>1, <2>3 DEF StartHelper, Runs, OfCommand
  <2>4. CASE ReceiveOther(frame)
    <3>1. request' = [fresh EXCEPT !.step = "answered", !.answer = answer]
      BY <2>2, <2>4 DEF ReceiveOther
    <3>2. answer \in {"error", "nothing"}
      BY <2>1, <2>2, DirectAnswerTypes
    <3>3. request'.step = "answered" /\ request'.answer = answer /\ request'.operation = 0
      BY <2>1, <2>2, <3>1 DEF Request
    <3> QED BY <3>2, <3>3 DEF Runs, OfCommand
  <2> QED BY <1>1, <2>3, <2>4
<1>2. CASE CheckCommand \/ CheckStream \/ Inspect
  <2>1. Goes
    BY <1>0, <1>2, CheckCommandKeeps, CheckStreamKeeps, InspectKeeps
  <2>2. request.operation = 0 /\ request.answer = "none"
    BY <1>2 DEF CheckCommand, CheckStream, Inspect, At, Runs, Checked
  <2> QED BY <2>1, <2>2 DEF Goes, Runs, OfCommand
<1>3. ASSUME NEW code \in {0, 1, 69, 75}, request' = Exit(code), request.answer = "none",
             (code = 0 /\ IsCommand) => Succeeded, code = 75 => request.operation = 0
      PROVE  Runs'
  <2>1. /\ request' \in Request /\ request'.step = "exited" /\ request'.exit = code
        /\ request'.frame = request.frame /\ request'.answer = "none"
        /\ request'.file = request.file /\ request'.operation = request.operation
    BY <1>0, <1>3, ExitIs DEF Exits
  <2>2. OfCommand' /\ (Succeeded => Succeeded')
    BY <1>m, <2>1, OperationStays DEF Runs
  <2> QED BY <1>3, <2>1, <2>2 DEF Runs, IsCommand
<1>4. CASE EntrypointMissing \/ ExecBusy
  <2>1. request.step = "found" /\ (request' = Exit(69) \/ request' = Exit(75))
    BY <1>4 DEF EntrypointMissing, ExecBusy, At
  <2>2. request.answer = "none" /\ request.operation = 0
    BY <2>1 DEF Checked, Runs
  <2> QED BY <1>3, <2>1, <2>2
<1>5. CASE EntrypointExits
  <2>1. PICK code \in {0, 1} : request' = Exit(code) /\ (code = 0 => Succeeded)
    <3>1. request.operation # 0 /\ request.step = "running"
      BY <1>5 DEF EntrypointExits, Runs, At
    <3> QED BY <1>5, <3>1 DEF EntrypointExits, Succeeded
  <2>2. request.answer = "none"
    BY <1>5 DEF EntrypointExits, Checked, At
  <2> QED BY <1>3, <2>1, <2>2
<1>6. CASE ExecEntrypoint
  <2>1. /\ request.step = "found" /\ IsCommand
        /\ request' = [request EXCEPT !.step = "running", !.operation = events + 1]
        /\ events' = events + 1 /\ events < MaxEvents
        /\ Begins(Entrypoint(HelperOperation(request.frame.command)))
    BY <1>6 DEF ExecEntrypoint, At, Happens
  <2>2. events + 1 \in Numbers /\ events' \in Int /\ events + 1 # 0
    BY <1>0, <2>1, NodeAssumption DEF NodeTypeOK, Numbers
  <2>3. /\ request'.step = "running" /\ request'.operation = events + 1
        /\ request'.frame = request.frame /\ request'.answer = request.answer
        /\ request'.file = request.file
    BY <1>0, <2>1 DEF Request
  <2>4. request.frame.command \in CommandType
    BY <1>f DEF Frame
  <2>5. PICK e : e = Entrypoint(HelperOperation(request.frame.command))
                 /\ e = Asked[request.frame.command]
    BY <2>4, EntrypointFound
  <2>6. operations'[events + 1].entrypoint = Asked[request.frame.command]
    <3>1. operations' = [operations EXCEPT ![events + 1] =
                           [entrypoint |-> e, outcome |-> "running"]]
      BY <2>1, <2>5 DEF Begins
    <3> QED BY <1>0, <2>2, <2>5, <3>1 DEF NodeTypeOK
  <2>7. request.frame.app = App /\ Declares(request.file, App) /\ request.answer = "none"
    BY <2>1 DEF Checked
  <2>8. OfCommand'
    BY <2>1, <2>2, <2>3, <2>6, <2>7 DEF OfCommand
  <2> QED BY <2>2, <2>3, <2>7, <2>8 DEF Runs
<1>7. CASE CommandTimesOut
  <2>1. request' = [request EXCEPT !.step = "answered", !.answer = "FAILED"]
    BY <1>7 DEF CommandTimesOut
  <2>2. /\ request'.step = "answered" /\ request'.answer = "FAILED"
        /\ request'.frame = request.frame /\ request'.operation = request.operation
        /\ request'.file = request.file
    BY <1>0, <2>1 DEF Request
  <2>3. OfCommand'
    BY <1>m, <2>2, OperationStays DEF Runs
  <2> QED BY <2>2, <2>3 DEF Runs
<1>8. CASE Follow
  <2>1. request.step = "inspected"
    BY <1>8 DEF Follow, At
  <2>2. ~IsCommand /\ request.answer = "none" /\ request.operation = 0
    BY <2>1 DEF Checked, Runs
  <2>3. PICK now : now = Named(request.frame.container)
    OBVIOUS
  <2>4. CASE request' = Exit(1)
    BY <1>3, <2>2, <2>4
  <2>5. CASE request' = [request EXCEPT !.step = "following", !.followed = now]
    <3>1. request'.step = "following" /\ request'.answer = "none" /\ request'.operation = 0
      BY <1>0, <2>2, <2>5 DEF Request
    <3> QED BY <3>1 DEF Runs, OfCommand
  <2> QED BY <1>8, <2>3, <2>4, <2>5 DEF Follow
<1>9. ASSUME NEW code \in {0, 1}, FollowEnds(code) PROVE Runs'
  BY <1>3, <1>9 DEF FollowEnds, At, Checked
<1>10. CASE AnswerExit
  <2>1. PICK answer : answer = IF IsCommand THEN CommandAnswer(request.exit)
                                            ELSE StreamAnswer(request.exit)
    OBVIOUS
  <2>2. request.step = "exited" /\ request.exit \in Exits
        /\ request' = [request EXCEPT !.step = "answered", !.answer = answer]
    BY <1>0, <1>10, <2>1 DEF AnswerExit, At, Request
  <2>3. /\ answer = "SUCCESS" => IsCommand /\ request.exit = 0
        /\ answer = "lock busy" => request.exit = 75
    BY <2>1, <2>2, AnswerTypes
  <2>4. /\ request'.step = "answered" /\ request'.answer = answer
        /\ request'.frame = request.frame /\ request'.operation = request.operation
        /\ request'.file = request.file
    BY <1>0, <2>2 DEF Request
  <2>5. OfCommand' /\ (Succeeded => Succeeded')
    BY <1>m, <2>4, OperationStays DEF Runs
  <2> QED BY <2>2, <2>3, <2>4, <2>5 DEF Runs
<1>11. CASE RequestStep
  BY <1>1, <1>2, <1>4, <1>5, <1>6, <1>7, <1>8, <1>9, <1>10, <1>11 DEF RequestStep
<1> QED BY <1>u, <1>11 DEF Next, NodeStep, CollectionStep, vars

-----------------------------------------------------------------------------
(* The invariant of the node and the request.                              *)
HelperInv == NodeInv /\ Checked /\ Runs

LEMMA HelperInvHolds == Spec => []HelperInv
<1>1. Init => HelperInv
  <2> SUFFICES ASSUME Init PROVE HelperInv
    OBVIOUS
  <2>1. NodeInv
    BY NodeInvInit DEF Init
  <2>2. request = [Fresh(Unasked) EXCEPT !.step = "none"]
    BY DEF Init, ControlInit
  <2>3. /\ request \in Request /\ request.step = "none" /\ request.operation = 0
        /\ request.answer = "none"
    <3>1. PICK fresh : fresh = Fresh(Unasked)
      OBVIOUS
    <3>2. fresh \in Request /\ fresh.operation = 0 /\ fresh.answer = "none"
      BY <3>1, FreshIs
    <3>3. request = [fresh EXCEPT !.step = "none"]
      BY <2>2, <3>1
    <3> QED BY <3>2, <3>3 DEF Request, Steps
  <2>4. Checked
    BY <2>3 DEF Checked, NeverAnswersErrors, ShownIsServed, At
  <2>5. Runs
    BY <2>3 DEF Runs, OfCommand
  <2> QED BY <2>1, <2>4, <2>5 DEF HelperInv
<1>2. HelperInv /\ [Next]_vars => HelperInv'
  <2> SUFFICES ASSUME HelperInv, [Next]_vars PROVE HelperInv'
    OBVIOUS
  <2>1. NodeInv /\ Checked /\ Runs /\ NodeTypeOK /\ request \in Request
    BY DEF HelperInv, NodeInv, Checked
  <2> QED BY <2>1, StepsMove, NodeInvMoves, CheckedSteps, RunsSteps DEF HelperInv
<1> QED BY <1>1, <1>2, PTL DEF Spec

(* A container that is followed under the name that was inspected belongs  *)
(* to the project, and carries the app id, that the metadata helper        *)
(* announces for the declaration it was checked against.                   *)
THEOREM FollowedAnnounced == Spec => []FollowedIsAnnounced
<1>1. HelperInv => FollowedIsAnnounced
  <2> SUFFICES ASSUME HelperInv, request.step = "following",
                      request.followed = request.found, NEW c \in request.followed
               PROVE  /\ Announced(request.file) =
                           [id |-> Bare(request.frame.app), project |-> c.labels.project]
                      /\ c.labels.service
    BY DEF FollowedIsAnnounced, At
  <2>1. /\ request.frame.app = App /\ Declares(request.file, App)
        /\ Owned(c.labels, request.file)
    BY DEF HelperInv, Checked
  <2>2. request.file \in File /\ c.labels \in Labels /\ App \in Words
    BY NodeAssumption DEF HelperInv, Checked, Request, Container
  <2>3. Announced(request.file).id = Bare(App)
    BY <2>1, <2>2, DeclaredIsAnnounced
  <2>4. Announced(request.file).project = c.labels.project /\ c.labels.service
    BY <2>1, <2>2, OwnedIsAnnounced
  <2> QED BY <2>1, <2>3, <2>4 DEF Announced
<1> QED BY <1>1, HelperInvHolds, PTL

(* The helper refuses nothing that the agent accepts and shows, but an app *)
(* declared in a file of another name, and what the two parsers, or the    *)
(* two validations, dispute.                                               *)
THEOREM ShownServed == Spec => []ShownIsServed
<1>1. HelperInv => ShownIsServed
  BY DEF HelperInv, Checked
<1> QED BY <1>1, HelperInvHolds, PTL

(* A command is answered with SUCCESS, or with a busy lock, only by what   *)
(* became of its own entrypoint.                                           *)
THEOREM AnswersTrue == Spec => []AnswersAreTrue
<1>1. HelperInv => AnswersAreTrue
  <2> SUFFICES ASSUME HelperInv PROVE AnswersAreTrue
    OBVIOUS
  <2>1. CASE request.answer = "SUCCESS"
    <3>1. request.operation # 0 /\ operations[request.operation].outcome = "success"
      BY <2>1 DEF HelperInv, Runs, Succeeded
    <3>2. /\ request.operation \in Numbers
          /\ request.frame.app = App /\ Declares(request.file, App)
          /\ operations[request.operation].entrypoint = Asked[request.frame.command]
      BY <3>1 DEF HelperInv, Runs, OfCommand
    <3>3. operations[request.operation] \in Operation
      BY <3>2 DEF HelperInv, NodeInv, NodeTypeOK
    <3>4. operations[request.operation] =
            [entrypoint |-> Asked[request.frame.command], outcome |-> "success"]
      BY <3>1, <3>2, <3>3 DEF Operation
    <3>5. Announced(request.file).id = Bare(request.frame.app)
      BY <3>2, NodeAssumption, DeclaredIsAnnounced DEF HelperInv, Checked, Request
    <3> QED BY <2>1, <3>1, <3>4, <3>5 DEF AnswersAreTrue
  <2>2. CASE request.answer # "SUCCESS"
    BY <2>2 DEF HelperInv, Runs, AnswersAreTrue
  <2> QED BY <2>1, <2>2
<1> QED BY <1>1, HelperInvHolds, PTL

(* No error frame is answered by an error frame.                           *)
THEOREM ErrorsUnanswered == Spec => []NeverAnswersErrors
<1>1. HelperInv => NeverAnswersErrors
  BY DEF HelperInv, Checked
<1> QED BY <1>1, HelperInvHolds, PTL
=============================================================================
