---------------------------- MODULE CommandLifecycle ----------------------------
(* What run_realtime promises about remote commands, without sockets,      *)
(* tasks or processes: each command it accepts lives once, ACK and RUNNING *)
(* then one final result, until the agent forgets it; and the frames of    *)
(* all commands form one stream that is handed over in order.              *)
EXTENDS LifecycleFrames

VARIABLES
    stage,      \* per command: unknown, accepted, open, closed
    stream,     \* every frame emitted so far
    handed,     \* how many of them a socket has taken
    ending      \* the agent has been told to stop

vars == <<stage, stream, handed, ending>>

Init ==
    /\ stage = [c \in Commands |-> "unknown"]
    /\ stream = <<>> /\ handed = 0 /\ ending = FALSE

Accept(c) ==
    /\ stage[c] = "unknown"
    /\ stage' = [stage EXCEPT ![c] = "accepted"]
    /\ UNCHANGED <<stream, handed, ending>>

Begin(c) ==
    /\ stage[c] = "accepted"
    /\ stage' = [stage EXCEPT ![c] = "open"]
    /\ stream' = stream \o Opening(c)
    /\ UNCHANGED <<handed, ending>>

(* Closing a life makes it a memory, and may push out older ones.          *)
Closed(c) ==
    \E forgotten \in SUBSET {d \in Commands : stage[d] = "closed"} :
        stage' = [d \in Commands |-> IF d = c THEN "closed"
                                     ELSE IF d \in forgotten THEN "unknown" ELSE stage[d]]

End(c) ==
    /\ stage[c] = "open" /\ Closed(c)
    /\ \E k \in FinalKinds : stream' = Append(stream, Frame(c, k))
    /\ UNCHANGED <<handed, ending>>

BeginAndEnd(c) ==
    /\ stage[c] = "accepted" /\ Closed(c)
    /\ \E k \in FinalKinds : stream' = stream \o Append(Opening(c), Frame(c, k))
    /\ UNCHANGED <<handed, ending>>

(* Only an agent that stops may leave a life without its final result.     *)
BreakOff(c) ==
    /\ ending /\ stage[c] = "open" /\ Closed(c)
    /\ UNCHANGED <<stream, handed, ending>>

Hand ==
    /\ handed < Len(stream) /\ handed' = handed + 1
    /\ UNCHANGED <<stage, stream, ending>>

EndOrdered == ~ending /\ ending' = TRUE /\ UNCHANGED <<stage, stream, handed>>

Next ==
    \/ Hand \/ EndOrdered
    \/ \E c \in Commands : Accept(c) \/ Begin(c) \/ End(c) \/ BeginAndEnd(c) \/ BreakOff(c)

Spec == Init /\ [][Next]_vars

================================================================================
