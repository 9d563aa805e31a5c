-------------------------------- MODULE Node --------------------------------
(***************************************************************************)
(* The node that the helpers look at, and that is not theirs: the env file *)
(* of an app, the containers, and the state files which saad-deploy writes *)
(* while the agent reads them.  Any of it may change between two steps of  *)
(* a helper.                                                               *)
(***************************************************************************)
EXTENDS EnvFiles, Integers

CONSTANTS
  App,         \* the app whose file may be there
  Files,       \* the contents its env file can have
  Names,       \* container names
  Labels,      \* Compose labels a container can carry
  Nodes,       \* the env file and the containers to start with
  Written,     \* the state files that operations write, besides status.json
  MaxEvents    \* bound on changes of the node, frames and faults

(* Identifiers, as far as the validators look at them.                     *)
Text      == [legal : BOOLEAN, length : Nat]
(* What Compose writes on a container: a name as it is, or nothing.        *)
Labelling == [project : {Bare(w) : w \in Words \cup {NoWord}}, service : BOOLEAN]

Entrypoints == {"restart.sh", "recreate.sh", "deploy-sha.sh", "rollback.sh"}
StateFiles  == {"current-sha", "previous-sha", "deployed-at", "last-error.log"}
Numbers     == 1..MaxEvents
Versions    == [StateFiles -> 0..MaxEvents]
Unwritten   == [f \in StateFiles |-> 0]

Container == [id : 0..MaxEvents, name : Names, labels : Labels]

ASSUME NodeAssumption ==
  /\ App \in Text /\ App \in Words
  /\ Files \subseteq File /\ NoFile \in Files
  /\ Names \subseteq Text
  /\ Labels \subseteq Labelling
  /\ Written \subseteq StateFiles
  /\ MaxEvents \in Nat
  /\ Nodes \subseteq [env : Files, containers : SUBSET Container]
  /\ \A node \in Nodes : \A c, d \in node.containers :
       c.id = 0 /\ (c.name = d.name => c = d)

VARIABLES
  env,          \* the content of <App>.env
  containers,   \* at most one of each name; a name can pass to another id
  status,       \* status.json
  files,        \* the other state files: the operation that wrote each
  lock,         \* the operation that holds the lock of saad-deploy, or 0
  operations,   \* by number: the entrypoint that was run, and how it ended
  events        \* how much has happened

nodeVars == <<env, containers, status, files, lock, operations, events>>

Named(n)  == {c \in containers : c.name = n}

Operation == [entrypoint : Entrypoints \cup {"none"},
              outcome    : {"none", "running", "success", "failure"}]
NotBegun  == [entrypoint |-> "none", outcome |-> "none"]

(* status.json: of which operation, and what it says.  "torn", "closing":  *)
(* it is being rewritten and does not parse, at the beginning and at the   *)
(* end of an operation.  "left" is history: what the other files held when *)
(* an operation last reported its end.                                     *)
Status == [of   : 0..MaxEvents,
           says : {"nothing", "torn", "running", "closing", "finished"},
           left : Versions]

NodeInit ==
  /\ \E node \in Nodes : env = node.env /\ containers = node.containers
  /\ status = [of |-> 0, says |-> "nothing", left |-> Unwritten]
  /\ files = Unwritten
  /\ lock = 0
  /\ operations = [k \in Numbers |-> NotBegun]
  /\ events = 0

NodeTypeOK ==
  /\ env \in Files
  /\ containers \subseteq Container
  /\ status \in Status
  /\ files \in Versions
  /\ lock \in 0..MaxEvents
  /\ operations \in [Numbers -> Operation]
  /\ events \in 0..MaxEvents

(* Everything that is counted.                                             *)
Happens == events < MaxEvents /\ events' = events + 1

(* The operator edits, adds or removes the env file.                       *)
EditDeclaration ==
  /\ Happens
  /\ env' \in Files \ {env}
  /\ UNCHANGED <<containers, status, files, lock, operations>>

ContainerRemoved(c) ==
  /\ Happens
  /\ containers' = containers \ {c}
  /\ UNCHANGED <<env, status, files, lock, operations>>

(* A name is given to a container, also one that another had until now.    *)
ContainerCreated(n, labels) ==
  /\ Happens
  /\ containers' = (containers \ Named(n))
       \cup {[id |-> events + 1, name |-> n, labels |-> labels]}
  /\ UNCHANGED <<env, status, files, lock, operations>>

(* An entrypoint takes the lock and begins to rewrite status.json.  The    *)
(* next number is that of the event.                                       *)
Begins(entrypoint) ==
  /\ lock = 0
  /\ lock' = events + 1
  /\ operations' = [operations EXCEPT ![events + 1] =
                      [entrypoint |-> entrypoint, outcome |-> "running"]]
  /\ status' = [status EXCEPT !.of = events + 1, !.says = "torn"]
  /\ UNCHANGED <<env, containers, files>>

(* One that the agent did not ask for (CI, a timer, an operator), whatever *)
(* its entrypoint.                                                         *)
ForeignOperation == Happens /\ Begins("none")

WritesStatus ==
  /\ status.says = "torn" /\ lock # 0
  /\ status' = [status EXCEPT !.says = "running"]
  /\ UNCHANGED <<env, containers, files, lock, operations, events>>

WritesFile(f) ==
  /\ f \in Written /\ status.says = "running" /\ lock # 0 /\ files[f] # lock
  /\ files' = [files EXCEPT ![f] = lock]
  /\ UNCHANGED <<env, containers, status, lock, operations, events>>

Closes ==
  /\ status.says = "running" /\ lock # 0
  /\ status' = [status EXCEPT !.says = "closing"]
  /\ UNCHANGED <<env, containers, files, lock, operations, events>>

(* The last thing an operation writes is how it ended.                     *)
Ends(outcome) ==
  /\ status.says = "closing" /\ lock # 0
  /\ status' = [status EXCEPT !.says = "finished", !.left = files]
  /\ operations' = [operations EXCEPT ![lock].outcome = outcome]
  /\ lock' = 0
  /\ UNCHANGED <<env, containers, files, events>>

(* Or it dies, leaves the files as they are, and the lock goes with it.    *)
Dies ==
  /\ Happens
  /\ lock # 0
  /\ operations' = [operations EXCEPT ![lock].outcome = "failure"]
  /\ lock' = 0
  /\ UNCHANGED <<env, containers, status, files>>
=============================================================================
