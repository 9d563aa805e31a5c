------------------------------ MODULE LogStreams ------------------------------
(***************************************************************************)
(* Live log streams of one agent: the log_tasks table of run_realtime, the *)
(* stream_logs tasks, their done callbacks and the teardown of a           *)
(* connection (src/agent/client/realtime.py).                              *)
(*                                                                         *)
(* log_tasks, websocket and send_event are cells of run_realtime that each *)
(* connection binds anew: a task or a callback left over from an earlier   *)
(* connection uses the table and the socket of the present one.            *)
(***************************************************************************)
EXTENDS Naturals, FiniteSets, Sequences

CONSTANTS
    Requests,       \* request ids the dashboard may use
    MaxStreams,     \* streams one connection may have (3 in the code)
    MaxTasks,       \* bound: stream_logs tasks ever created
    MaxLosses       \* bound: connections that end

ASSUME StreamsAssumption == MaxStreams \in Nat \ {0}
ASSUME StreamBoundsAssumption == MaxTasks \in Nat /\ MaxLosses \in Nat

Tasks == 1 .. MaxTasks
NoTask == 0

VARIABLES
    conn,           \* where the connection loop is: open, closing, gather, down
    up,             \* send_event succeeds
    losses,         \* connections ended so far
    table,          \* log_tasks: request id -> task, or NoTask
    req,            \* request ids of the tasks created so far, in order
    state,          \* per task: where it is suspended
    proc,           \* per task: its `sudo ... logs` process
    cancelling,     \* tasks with a CancelledError waiting to be raised
    gathering,      \* tasks the teardown waits for
    ended,          \* history: ids whose latest LOGS_ENDED follows their latest start
    reused          \* history: ids started again before an earlier task was gone

connVars == <<conn, up, losses, gathering>>
vars == <<conn, up, losses, table, req, state, proc, cancelling, gathering,
          ended, reused>>

(* created: not run yet; spawning: in create_subprocess_exec; unspawning:  *)
(* cancelled there, asyncio waits for the process; reading: in `async for`;*)
(* winding: in `finally`, waiting for the process; done: the callback has  *)
(* not run yet; gone.                                                      *)
StreamStates == {"unused", "created", "spawning", "unspawning", "reading", "winding",
                 "done", "gone"}
(* over: it has exited or takes the signal it was sent; refused: it runs   *)
(* on, terminate() or asyncio's kill() was denied.                         *)
ProcStates == {"none", "running", "over", "refused"}

Tracked == {r \in Requests : table[r] # NoTask}
(* Streams that go on sending chunks.                                      *)
Active == {t \in Tasks : state[t] = "reading" /\ t \notin cancelling}

Init ==
    /\ conn = "open" /\ up = TRUE /\ losses = 0 /\ gathering = {}
    /\ table = [r \in Requests |-> NoTask]
    /\ req = <<>>
    /\ state = [t \in Tasks |-> "unused"]
    /\ proc = [t \in Tasks |-> "none"]
    /\ cancelling = {} /\ ended = {} /\ reused = {}

--------------------------------------------------------------------------------
(* The connection loop dispatches one control frame.                       *)

(* Slips: the limit is tested with `>`; it is tested for a tracked id too. *)
LimitMissed(r) == r \notin Tracked /\ Cardinality(Tracked) > MaxStreams

LimitForAll(r) == Cardinality(Tracked) >= MaxStreams

LimitReached(r) == r \notin Tracked /\ Cardinality(Tracked) >= MaxStreams

(* LOGS_ENDED with reason limit_reached.                                   *)
StartRefused(r) ==
    /\ conn = "open" /\ up /\ LimitReached(r)
    /\ ended' = ended \cup {r}
    /\ UNCHANGED <<connVars, table, req, state, proc, cancelling, reused>>

StartStream(r) ==
    /\ conn = "open" /\ Len(req) < MaxTasks
    /\ r \notin Tracked /\ ~LimitReached(r)
    /\ LET t == Len(req) + 1 IN
         /\ req' = Append(req, r)
         /\ state' = [state EXCEPT ![t] = "created"]
         /\ table' = [table EXCEPT ![r] = t]
         /\ reused' = IF \E o \in DOMAIN req : req[o] = r /\ state[o] # "gone"
                      THEN reused \cup {r} ELSE reused
    /\ ended' = ended \ {r}
    /\ UNCHANGED <<connVars, proc, cancelling>>

(* Slip: the entry is popped but the task is not cancelled.                *)
StopForgets(r) ==
    /\ conn = "open" /\ r \in Tracked
    /\ table' = [table EXCEPT ![r] = NoTask]
    /\ UNCHANGED <<connVars, req, state, proc, cancelling, ended, reused>>

(* The entry is popped at once; the task ends later.                       *)
StopStream(r) ==
    /\ conn = "open" /\ r \in Tracked
    /\ table' = [table EXCEPT ![r] = NoTask]
    /\ cancelling' = IF state[table[r]] = "done" THEN cancelling
                     ELSE cancelling \cup {table[r]}
    /\ UNCHANGED <<connVars, req, state, proc, ended, reused>>

(* A start of a tracked id, a stop of an unknown one, or no frame at all.  *)
NothingToDo == conn = "open" /\ UNCHANGED vars

--------------------------------------------------------------------------------
(* One stream_logs task.                                                   *)

StreamFrame == UNCHANGED <<connVars, table, req, reused>>

Becomes(t, s) == state' = [state EXCEPT ![t] = s]

(* The last await of the finally block: LOGS_ENDED is sent, or the send    *)
(* raises on a dead socket; the task is done either way.                   *)
SayEnded(t) == ended' = IF up THEN ended \cup {req[t]} ELSE ended

(* Runs up to the suspension in create_subprocess_exec, with the process   *)
(* there; a fork that fails goes to `finally` with none to wait for.       *)
StreamStarts(t) ==
    /\ state[t] = "created" /\ t \notin cancelling
    /\ \/ /\ Becomes(t, "spawning") /\ proc' = [proc EXCEPT ![t] = "running"]
          /\ UNCHANGED ended
       \/ Becomes(t, "done") /\ SayEnded(t) /\ UNCHANGED proc
    /\ UNCHANGED cancelling /\ StreamFrame

(* create_subprocess_exec returns: `process` is set.                       *)
Spawned(t) ==
    /\ state[t] = "spawning" /\ t \notin cancelling
    /\ Becomes(t, "reading")
    /\ UNCHANGED <<proc, cancelling, ended>> /\ StreamFrame

(* asyncio kills the process of a cancelled spawn and waits for it.        *)
SpawnKilled(t) ==
    /\ Becomes(t, "unspawning") /\ proc' = [proc EXCEPT ![t] = "over"]
    /\ UNCHANGED ended

(* A denied kill() is passed over, and the wait is the same; in an older   *)
(* asyncio the OSError is raised in place of the CancelledError: reason    *)
(* "failed", and `finally` with `process` None.                            *)
SpawnKillDenied(t) ==
    /\ proc[t] = "running" /\ proc' = [proc EXCEPT ![t] = "refused"]
    /\ \/ Becomes(t, "unspawning") /\ UNCHANGED ended
       \/ Becomes(t, "done") /\ SayEnded(t)

(* CancelledError raised in the spawn.                                     *)
SpawnCancelled(t) ==
    /\ state[t] = "spawning" /\ t \in cancelling
    /\ cancelling' = cancelling \ {t}
    /\ SpawnKilled(t) \/ SpawnKillDenied(t)
    /\ StreamFrame

(* asyncio has seen it exit: reason "stopped", and `finally` finds None.   *)
UnspawnEnds(t) ==
    /\ state[t] = "unspawning" /\ t \notin cancelling /\ proc[t] = "over"
    /\ Becomes(t, "done") /\ SayEnded(t)
    /\ UNCHANGED <<proc, cancelling>> /\ StreamFrame

(* Slip: `finally` neither terminates the process nor waits for it.        *)
TerminatesUnasked(t) == Becomes(t, "done") /\ UNCHANGED <<proc, ended>>

(* terminate(), unless the process has exited; then wait for it.           *)
Terminates(t) ==
    /\ Becomes(t, "winding")
    /\ proc' = [proc EXCEPT ![t] = "over"]
    /\ UNCHANGED ended

(* terminate() raises: the process is still there, `finally` is cut short. *)
TerminateDenied(t) ==
    /\ proc[t] = "running"
    /\ Becomes(t, "done") /\ proc' = [proc EXCEPT ![t] = "refused"]
    /\ UNCHANGED ended

(* End of the output of a process that has exited; or, with the process    *)
(* still running, a line the frame or the reader rejects, or a chunk sent  *)
(* on a dead socket: `finally` runs.                                       *)
ReadingEnds(t) ==
    /\ state[t] = "reading" /\ t \notin cancelling
    /\ Terminates(t) \/ TerminateDenied(t)
    /\ UNCHANGED cancelling /\ StreamFrame

(* CancelledError raised in the read: reason "stopped", then `finally`.    *)
ReadingCancelled(t) ==
    /\ state[t] = "reading" /\ t \in cancelling
    /\ cancelling' = cancelling \ {t}
    /\ Terminates(t) \/ TerminateDenied(t)
    /\ StreamFrame

(* The process has exited, because of SIGTERM at the latest.               *)
WindingEnds(t) ==
    /\ state[t] = "winding" /\ t \notin cancelling
    /\ Becomes(t, "done") /\ SayEnded(t)
    /\ UNCHANGED <<proc, cancelling>> /\ StreamFrame

(* CancelledError before the first step, or raised inside `finally`.       *)
CutShort(t) ==
    /\ state[t] \in {"created", "winding"} /\ t \in cancelling
    /\ cancelling' = cancelling \ {t}
    /\ Becomes(t, "done")
    /\ UNCHANGED <<proc, ended>> /\ StreamFrame

(* The done callback pops the id, whichever task it stands for by now.     *)
Callback(t) ==
    /\ state[t] = "done" /\ Becomes(t, "gone")
    /\ table' = [table EXCEPT ![req[t]] = NoTask]
    /\ UNCHANGED <<connVars, req, proc, cancelling, ended, reused>>

(* The external process exits by itself.                                   *)
ProcessExits(t) ==
    /\ proc[t] \in {"running", "refused"}
    /\ proc' = [proc EXCEPT ![t] = "over"]
    /\ UNCHANGED <<state, cancelling, ended>> /\ StreamFrame

--------------------------------------------------------------------------------
(* The end of a connection.                                                *)

SocketDies ==
    /\ conn = "open" /\ up /\ up' = FALSE
    /\ UNCHANGED <<conn, losses, gathering, table, req, state, proc, cancelling,
                   ended, reused>>

(* The loop leaves `async with connect`, by an exception or because the    *)
(* agent stops; the socket is closed before `finally` runs.                *)
LeaveConnection ==
    /\ conn = "open" /\ losses < MaxLosses
    /\ conn' = "closing" /\ up' = FALSE /\ losses' = losses + 1
    /\ UNCHANGED <<gathering, table, req, state, proc, cancelling, ended, reused>>

(* Slip: the finally block gathers without cancelling first.               *)
GatherOnly ==
    /\ conn = "closing" /\ conn' = "gather"
    /\ gathering' = {table[r] : r \in Tracked}
    /\ UNCHANGED <<up, losses, table, req, state, proc, cancelling, ended, reused>>

CancelStreams ==
    /\ conn = "closing" /\ conn' = "gather"
    /\ gathering' = {table[r] : r \in Tracked}
    /\ cancelling' = cancelling \cup {t \in gathering' : state[t] # "done"}
    /\ UNCHANGED <<up, losses, table, req, state, proc, ended, reused>>

(* The gather returns; connected.clear() follows.                          *)
StreamsGathered ==
    /\ conn = "gather" /\ \A t \in gathering : state[t] \in {"done", "gone"}
    /\ conn' = "down" /\ gathering' = {}
    /\ UNCHANGED <<up, losses, table, req, state, proc, cancelling, ended, reused>>

Reconnect ==
    /\ conn = "down" /\ conn' = "open" /\ up' = TRUE
    /\ table' = [r \in Requests |-> NoTask]
    /\ UNCHANGED <<losses, gathering, req, state, proc, cancelling, ended, reused>>

--------------------------------------------------------------------------------
TeardownStep == CancelStreams \/ StreamsGathered

StreamStep(t) ==
    \/ StreamStarts(t) \/ Spawned(t) \/ SpawnCancelled(t) \/ UnspawnEnds(t)
    \/ ReadingCancelled(t) \/ WindingEnds(t) \/ CutShort(t) \/ Callback(t)
    \/ proc[t] = "over" /\ ReadingEnds(t)

Next ==
    \/ \E r \in Requests : StartRefused(r) \/ StartStream(r) \/ StopStream(r)
    \/ \E t \in Tasks : StreamStep(t) \/ ReadingEnds(t) \/ ProcessExits(t)
    \/ TeardownStep \/ SocketDies \/ LeaveConnection \/ Reconnect \/ NothingToDo

Spec == Init /\ [][Next]_vars

(* The event loop resumes what can run; a process that takes a signal      *)
(* exits.  One that runs on is not assumed to exit by itself.              *)
FairSpec ==
    /\ Spec /\ WF_vars(TeardownStep)
    /\ \A t \in Tasks : WF_vars(StreamStep(t))

--------------------------------------------------------------------------------
(* Properties.                                                             *)

(* Type invariant; the table never holds more streams than the limit.      *)
StreamsTypeOK ==
    /\ conn \in {"open", "closing", "gather", "down"}
    /\ up \in BOOLEAN /\ losses \in 0 .. MaxLosses
    /\ req \in Seq(Requests) /\ Len(req) <= MaxTasks
    /\ table \in [Requests -> 0 .. Len(req)] /\ Cardinality(Tracked) <= MaxStreams
    /\ state \in [Tasks -> StreamStates] /\ proc \in [Tasks -> ProcStates]
    /\ cancelling \subseteq Tasks /\ gathering \subseteq Tasks
    /\ ended \subseteq Requests /\ reused \subseteq Requests

(* A stream that goes on sending can be reached: LOGS_STOP and the         *)
(* teardown find it in log_tasks.  The one way out of the table is to      *)
(* start an id again before the stopped stream of that id is gone, whose   *)
(* callback then pops the new entry (realtime.py:251, 254).                *)
ActiveIsTracked ==
    \A t \in Active : table[req[t]] = t \/ req[t] \in reused

(* As long as ids are not reused so, no more than the limit of streams     *)
(* send at a time, over all connections (realtime.py:246).                 *)
ActiveWithinLimit == reused = {} => Cardinality(Active) <= MaxStreams

(* A process the agent no longer waits for has exited or was told to,      *)
(* unless it refused the signal (the finally block of stream_logs).        *)
NoProcessForgotten ==
    \A t \in Tasks : state[t] \in {"done", "gone"} => proc[t] # "running"

(* LOGS_ENDED is the last word on a request: once it was sent nobody sends *)
(* chunks for the id, until it is started again or was reused.             *)
EndedIsFinal ==
    \A r \in ended \ reused : \A t \in Active : req[t] # r

(* The teardown waits for a stream that it cancelled in its spawn, whose   *)
(* process asyncio could not kill.                                         *)
Stuck ==
    \E t \in gathering : state[t] = "unspawning" /\ proc[t] = "refused"

(* The gather in `finally` returns, so the agent reconnects or ends,       *)
(* unless it waits for ever for a process that asyncio could not kill and  *)
(* that does not exit (realtime.py:196, 289-294).                          *)
TeardownEnds == conn = "closing" ~> (conn = "down" \/ []Stuck)

================================================================================
