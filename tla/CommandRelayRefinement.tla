------------------------- MODULE CommandRelayRefinement -------------------------
(* CommandRelay implements CommandLifecycle.  A command is unknown to the  *)
(* registry, accepted while its task has not run, open while its task is   *)
(* suspended, closed once the registry holds its record.                   *)
EXTENDS CommandRelay

stageOf == [c \in Commands |->
    IF c \in ToSet(completed) THEN "closed"
    ELSE IF c \notin inflight THEN "unknown"
    ELSE IF events[c] = <<>> THEN "accepted" ELSE "open"]

Lifecycle == INSTANCE CommandLifecycle WITH
    stage <- stageOf, stream <- log, handed <- Len(flushed), ending <- stopping

(* Every step of run_realtime and its tasks is a step of the lifecycle the *)
(* dashboard is promised, or none: a command is accepted once until it is  *)
(* forgotten, opened once, closed by one final result, and reconnections,  *)
(* replays, broken sends and time-outs leave the stream alone.             *)
ImplementsLifecycle == Lifecycle!Spec

================================================================================
