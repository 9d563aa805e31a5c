---------------------------- MODULE LifecycleFrames ----------------------------
(* The lifecycle frames of remote commands (src/agent/models.py, emitted   *)
(* by execute_command in src/agent/client/realtime.py).                    *)
EXTENDS Naturals, Sequences

CONSTANT Commands   \* command ids the dashboard may use

(* A frame is COMMAND_ACK, or COMMAND_RESULT with its status; the final    *)
(* results are told apart by the text they carry.                          *)
FinalKinds == {"SUCCESS", "FAILED", "TIMED_OUT", "NOT_STARTED", "STOPPED"}
Kinds == {"ACK", "RUNNING"} \cup FinalKinds
Frames == [cmd : Commands, kind : Kinds]
Frame(c, k) == [cmd |-> c, kind |-> k]

(* What every execution emits before anything else.                        *)
Opening(c) == <<Frame(c, "ACK"), Frame(c, "RUNNING")>>

(* The frames of the same command that the protocol puts before f.         *)
Prior(f) ==
    CASE f.kind = "ACK" -> {}
      [] f.kind = "RUNNING" -> {Frame(f.cmd, "ACK")}
      [] OTHER -> {Frame(f.cmd, "RUNNING")}

================================================================================
