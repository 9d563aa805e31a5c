----------------------------- MODULE RelayRestarts -----------------------------
(***************************************************************************)
(* The command relay over several lives of its process, with a dashboard   *)
(* that repeats a command until it is told how it ended.                   *)
(*                                                                         *)
(* Registry, outbox and tasks are locals of run_realtime                   *)
(* (src/agent/client/realtime.py:107-114) and go with the process; systemd *)
(* starts a new one (src/systemd/saad-node-agent.service).  What the       *)
(* dashboard has seen outlives them.                                       *)
(***************************************************************************)
EXTENDS CommandRelay

CONSTANT MaxLives   \* bound: processes started one after the other

ASSUME LivesAssumption == MaxLives \in Nat \ {0}

VARIABLES
    lives,          \* processes started so far
    asked           \* commands the dashboard wants an answer to

restartVars == <<vars, lives, asked>>

Told(c) == \E k \in FinalKinds : Frame(c, k) \in seen

InitRestarts == Init /\ lives = 1 /\ asked = {}

(* COMMAND_EXECUTE for c, unless c has ended as far as the dashboard knows *)
(* or the socket still holds the last one.                                 *)
Ask(c) ==
    /\ link /\ ~Told(c) /\ c \notin ToSet(inbox)
    /\ inbox' = Append(inbox, c) /\ asked' = asked \cup {c}
    /\ UNCHANGED <<loopVars, netVars, stopping, registryVars, taskVars, cancelling,
                   queueVars, wireVars, lives>>

(* The process is killed, dies or has ended: the service manager clears    *)
(* the unit of what is left of it, helpers included, and starts the agent. *)
NewLife ==
    /\ lives < MaxLives /\ lives' = lives + 1
    /\ pc' = "connecting" /\ up' = FALSE /\ link' = FALSE /\ stopping' = FALSE
    /\ inflight' = {} /\ completed' = <<>> /\ cancelling' = {}
    /\ events' = [c \in Commands |-> <<>>]
    /\ task' = [c \in Commands |-> "none"]
    /\ helper' = [c \in Commands |-> "none"]
    /\ outbox' = <<>> /\ replayq' = <<>> /\ inbox' = <<>>
    /\ log' = <<>> /\ flushed' = <<>> /\ sent' = {}
    /\ UNCHANGED <<requests, faults, seen, asked>>

(* `systemctl restart`: SIGTERM first.                                     *)
OperatorStops == lives < MaxLives /\ Stop /\ UNCHANGED <<lives, asked>>

AgentStep ==
    /\ \/ LoopStep \/ \E c \in Commands : TaskStep(c)
       \/ LinkDies \/ LinkNoticed \/ ConnectFails \/ TelemetryFails \/ FlushBreaks
       \/ ReplayBreaks \/ Abort \/ \E c \in Commands : HelperExits(c)
    /\ UNCHANGED <<lives, asked>>

NextRestarts == AgentStep \/ NewLife \/ OperatorStops \/ \E c \in Commands : Ask(c)

(* The shutdown waits for a helper that asyncio could not kill and that    *)
(* need not exit.                                                          *)
Stuck == \E c \in Commands : task[c] = "unspawning" /\ helper[c] = "running"

(* The fairness of CommandRelay, and of its surroundings: an agent that    *)
(* was stopped is started again, one that is stuck in its shutdown is      *)
(* killed first (TimeoutStopSec of the unit), and a dashboard that has     *)
(* asked for c goes on asking while a connection holds.                    *)
SpecRestarts ==
    /\ InitRestarts /\ [][NextRestarts]_restartVars
    /\ Fairness
    /\ WF_restartVars((Over \/ Stuck) /\ NewLife)
    /\ \A c \in Commands : WF_restartVars(c \in asked /\ Ask(c))

--------------------------------------------------------------------------------
(* However often the agent is killed, restarted or cut off, and whatever a *)
(* dead connection swallowed, a command that the dashboard repeats until   *)
(* it is told of a final result is told of one: a duplicate is ignored     *)
(* only while an answer is under way, is answered from the registry after  *)
(* it, and is executed by an agent that knows nothing of it                *)
(* (realtime.py:257-265).                                                  *)
RepeatedIsTold == \A c \in Commands : c \in asked ~> Told(c)

(* While the registry forgets nothing but with its process, the dashboard  *)
(* is never told of two different ends of one command, though the command  *)
(* may have been executed in several lives (replay before claim, and the   *)
(* record made in the step of the last frame, realtime.py:155-161).        *)
OneVerdict ==
    \A f, g \in seen :
        f.cmd = g.cmd /\ {f.kind, g.kind} \subseteq FinalKinds => f = g

================================================================================
