------------------------------ MODULE CommandRelay ------------------------------
(***************************************************************************)
(* Remote lifecycle commands of the node agent: run_realtime and its       *)
(* execute_command tasks, the CommandExecutionRegistry and the outbox that *)
(* relays lifecycle frames over one WebSocket after another                *)
(* (src/agent/client/realtime.py).                                         *)
(*                                                                         *)
(* The agent is one asyncio thread: what the code does between two awaits  *)
(* is one action here.  The actors are the connection loop, one task per   *)
(* running command, the privileged helper process of each task, the        *)
(* network and the dashboard.                                              *)
(***************************************************************************)
EXTENDS LifecycleFrames, FiniteSets, SequencesExt

CONSTANTS
    MaxCompleted,   \* CommandExecutionRegistry.max_completed (256 in the code)
    MaxRequests,    \* bound: COMMAND_EXECUTE frames sent, duplicates included
    MaxFaults       \* bound: connect failures, broken links, failed cycles

ASSUME MaxCompletedAssumption == MaxCompleted \in Nat \ {0}
ASSUME BoundsAssumption == MaxRequests \in Nat /\ MaxFaults \in Nat

VARIABLES
    pc,             \* where run_realtime is suspended
    up,             \* the websocket object still accepts send and recv
    link,           \* bytes written to it still reach the dashboard
    stopping,       \* stop_event
    inflight,       \* CommandExecutionRegistry._inflight
    completed,      \* keys of CommandExecutionRegistry._completed, oldest first
    events,         \* per command: `emitted`, kept by the registry once completed
    task,           \* per command: where its execute_command task is suspended
    cancelling,     \* tasks with a CancelledError waiting to be raised
    helper,         \* per command: the sudo process of its latest execution
    outbox,         \* command_outbox
    replayq,        \* what is left of the tuple a duplicate is answered with
    inbox,          \* COMMAND_EXECUTE frames the socket has received
    requests,       \* COMMAND_EXECUTE frames sent so far
    faults,         \* faults so far
    log,            \* history: every frame emit() queued, in order
    flushed,        \* history: frames popped from the outbox, in order
    sent,           \* history: frames written to some socket
    seen            \* history: frames that reached the dashboard

loopVars == <<pc, up, replayq>>
registryVars == <<inflight, completed>>
taskVars == <<events, task, helper>>
netVars == <<link, requests, faults>>
queueVars == <<outbox, log, flushed>>
wireVars == <<sent, seen>>
vars == <<pc, up, link, stopping, inflight, completed, events, task, cancelling,
          helper, outbox, replayq, inbox, requests, faults, log, flushed, sent, seen>>

LoopStates == {"connecting", "pause", "collect", "flush", "recv", "replay", "closing",
               "backoff", "drain", "gather", "ended", "aborted", "interrupted"}
(* spawning: in create_subprocess_exec, where asyncio waits for the new    *)
(* process; unspawning: cancelled there, asyncio waits until it exits.     *)
TaskStates == {"none", "created", "spawning", "unspawning", "waiting", "reaping",
               "stopping"}
HelperStates == {"none", "running", "ok", "bad"}

Live == {c \in Commands : task[c] # "none"}
Fault == faults < MaxFaults /\ faults' = faults + 1

Init ==
    /\ pc = "connecting" /\ up = FALSE /\ link = FALSE /\ stopping = FALSE
    /\ inflight = {} /\ completed = <<>>
    /\ events = [c \in Commands |-> <<>>]
    /\ task = [c \in Commands |-> "none"]
    /\ cancelling = {}
    /\ helper = [c \in Commands |-> "none"]
    /\ outbox = <<>> /\ replayq = <<>> /\ inbox = <<>>
    /\ requests = 0 /\ faults = 0
    /\ log = <<>> /\ flushed = <<>> /\ sent = {} /\ seen = {}

--------------------------------------------------------------------------------
(* The dashboard and the network.                                          *)

(* The dashboard asks for c, for the first time or again.                  *)
Request(c) ==
    /\ link /\ requests < MaxRequests
    /\ requests' = requests + 1
    /\ inbox' = Append(inbox, c)
    /\ UNCHANGED <<loopVars, link, faults, stopping, registryVars, taskVars, cancelling,
                   queueVars, wireVars>>

(* The path to the dashboard breaks; the agent does not know yet and its   *)
(* sends still return, because send() only waits for the local buffer.     *)
LinkDies ==
    /\ link /\ Fault
    /\ link' = FALSE
    /\ UNCHANGED <<loopVars, requests, stopping, registryVars, taskVars, cancelling,
                   queueVars, inbox, wireVars>>

(* A reset, a close frame or the ping timeout closes the socket object.    *)
LinkNoticed ==
    /\ up /\ ~link
    /\ up' = FALSE
    /\ UNCHANGED <<pc, replayq, netVars, stopping, registryVars, taskVars, cancelling,
                   queueVars, inbox, wireVars>>

--------------------------------------------------------------------------------
(* The connection loop.  Goto moves it without touching anything else.     *)

Goto(from, to) ==
    /\ pc = from /\ pc' = to
    /\ UNCHANGED <<up, replayq, netVars, stopping, registryVars, taskVars, cancelling,
                   queueVars, inbox, wireVars>>

Connect ==
    /\ pc = "connecting" /\ pc' = "pause"
    /\ up' = TRUE /\ link' = TRUE
    /\ UNCHANGED <<replayq, requests, faults, stopping, registryVars, taskVars,
                   cancelling, queueVars, inbox, wireVars>>

ConnectFails ==
    /\ pc = "connecting" /\ Fault
    /\ pc' = IF stopping THEN "drain" ELSE "backoff"
    /\ UNCHANGED <<up, replayq, link, requests, stopping, registryVars, taskVars,
                   cancelling, queueVars, inbox, wireVars>>

BackoffOver == Goto("backoff", IF stopping THEN "drain" ELSE "connecting")

(* Slip: `while True` for the inner loop.                                  *)
PauseOverUnstoppable == Goto("pause", "collect")

(* The head of the cycle: the wait on stop_event, then the while test.     *)
PauseOver == Goto("pause", IF stopping THEN "closing" ELSE "collect")

(* Slip: the outbox is flushed when the connection opens only.             *)
TelemetrySentNoFlush == up /\ Goto("collect", "recv")

(* collect_payload in a thread, then the telemetry events.                 *)
TelemetrySent == up /\ Goto("collect", "flush")

(* collect_payload or the emitter raises (a model rejects the data).       *)
TelemetryFails ==
    /\ pc = "collect" /\ pc' = "closing" /\ Fault
    /\ UNCHANGED <<up, replayq, link, requests, stopping, registryVars, taskVars,
                   cancelling, queueVars, inbox, wireVars>>

Write(f) == sent' = sent \cup {f} /\ seen' = IF link THEN seen \cup {f} ELSE seen

(* await send(head) returns, then popleft: nothing runs between the two.   *)
FlushHead ==
    /\ pc = "flush" /\ up /\ outbox # <<>>
    /\ Write(Head(outbox))
    /\ outbox' = Tail(outbox) /\ flushed' = Append(flushed, Head(outbox))
    /\ UNCHANGED <<loopVars, netVars, stopping, registryVars, taskVars, cancelling,
                   inbox, log>>

(* Slip: popleft before the send, as the outbox comment warns against.     *)
FlushBreaksPopped ==
    /\ pc = "flush" /\ up /\ outbox # <<>> /\ Fault
    /\ Write(Head(outbox))
    /\ up' = FALSE /\ link' = FALSE /\ pc' = "closing"
    /\ outbox' = Tail(outbox)
    /\ UNCHANGED <<replayq, requests, stopping, registryVars, taskVars, cancelling,
                   log, flushed, inbox>>

(* Slip: popleft before the send and append again when it fails.           *)
FlushBreaksRequeued ==
    /\ pc = "flush" /\ up /\ outbox # <<>> /\ Fault
    /\ up' = FALSE /\ link' = FALSE /\ pc' = "closing"
    /\ outbox' = Append(Tail(outbox), Head(outbox))
    /\ UNCHANGED <<replayq, requests, stopping, registryVars, taskVars, cancelling,
                   log, flushed, inbox, wireVars>>

(* send raises although the frame was written (the socket breaks while     *)
(* send waits for the buffer to drain): the head is not popped.            *)
FlushBreaks ==
    /\ pc = "flush" /\ up /\ outbox # <<>> /\ Fault
    /\ Write(Head(outbox))
    /\ up' = FALSE /\ link' = FALSE /\ pc' = "closing"
    /\ UNCHANGED <<replayq, requests, stopping, registryVars, taskVars, cancelling,
                   queueVars, inbox>>

FlushDone == outbox = <<>> /\ Goto("flush", "recv")

(* recv hands out what is buffered before it times out or reports a close. *)
RecvTimesOut == up /\ inbox = <<>> /\ Goto("recv", "pause")

(* A send or recv on a socket known to be closed raises.                   *)
SocketClosed ==
    /\ ~up
    /\ \/ Goto("collect", "closing")
       \/ outbox # <<>> /\ Goto("flush", "closing")
       \/ inbox = <<>> /\ Goto("recv", "closing")
       \/ replayq # <<>> /\ Goto("replay", "closing")

Received(c) ==
    /\ pc = "recv" /\ inbox # <<>> /\ c = Head(inbox)
    /\ inbox' = Tail(inbox)
    /\ UNCHANGED <<up, netVars, stopping, completed, helper, cancelling, queueVars,
                   wireVars>>

(* Slip: a duplicate of a completed command is dropped like any other.     *)
DispatchReplayNothing(c) ==
    /\ Received(c) /\ c \in ToSet(completed)
    /\ pc' = "pause"
    /\ UNCHANGED <<replayq, inflight, events, task>>

(* A duplicate of a completed command is answered from the registry.       *)
DispatchReplay(c) ==
    /\ Received(c) /\ c \in ToSet(completed)
    /\ replayq' = events[c] /\ pc' = "replay"
    /\ UNCHANGED <<inflight, events, task>>

(* claim: a command neither in flight nor remembered gets a new task.      *)
DispatchClaim(c) ==
    /\ Received(c) /\ c \notin ToSet(completed) /\ c \notin inflight
    /\ inflight' = inflight \cup {c}
    /\ task' = [task EXCEPT ![c] = "created"]
    /\ events' = [events EXCEPT ![c] = <<>>]
    /\ pc' = "pause"
    /\ UNCHANGED replayq

(* A duplicate of a command in flight is dropped.                          *)
DispatchIgnore(c) ==
    /\ Received(c) /\ c \notin ToSet(completed) /\ c \in inflight
    /\ pc' = "pause"
    /\ UNCHANGED <<replayq, inflight, events, task>>

ReplayNext ==
    /\ pc = "replay" /\ up /\ replayq # <<>>
    /\ Write(Head(replayq))
    /\ replayq' = Tail(replayq)
    /\ UNCHANGED <<pc, up, netVars, stopping, registryVars, taskVars, cancelling,
                   queueVars, inbox>>

ReplayBreaks ==
    /\ pc = "replay" /\ up /\ replayq # <<>> /\ Fault
    /\ Write(Head(replayq))
    /\ up' = FALSE /\ link' = FALSE /\ pc' = "closing"
    /\ UNCHANGED <<replayq, requests, stopping, registryVars, taskVars, cancelling,
                   queueVars, inbox>>

ReplayDone == replayq = <<>> /\ Goto("replay", "pause")

(* Leaving `async with connect`, the finally block and the stop test.      *)
Close ==
    /\ pc = "closing"
    /\ pc' = IF stopping THEN "drain" ELSE "backoff"
    /\ up' = FALSE /\ link' = FALSE /\ inbox' = <<>> /\ replayq' = <<>>
    /\ UNCHANGED <<requests, faults, stopping, registryVars, taskVars, cancelling,
                   queueVars, wireVars>>

--------------------------------------------------------------------------------
(* One execute_command task.                                               *)

EmitAll(fs) == outbox' = outbox \o fs /\ log' = log \o fs /\ UNCHANGED flushed

(* Slips in complete: no record; no eviction; popitem(last=True); no       *)
(* discard.                                                                *)
RememberNothing(c) == inflight' = inflight \ {c} /\ UNCHANGED completed

RememberAll(c) == inflight' = inflight \ {c} /\ completed' = Append(completed, c)

RememberOldest(c) ==
    /\ inflight' = inflight \ {c}
    /\ completed' = IF Len(completed) < MaxCompleted THEN Append(completed, c)
                    ELSE completed

RememberBusy(c) ==
    /\ UNCHANGED inflight
    /\ completed' = IF Len(completed) < MaxCompleted THEN Append(completed, c)
                    ELSE Append(Tail(completed), c)

(* CommandExecutionRegistry.complete: c is in neither collection of the    *)
(* registry but _inflight when its task calls it, so it becomes the newest *)
(* entry and at most one entry, the oldest, falls out.                     *)
Remember(c) ==
    /\ inflight' = inflight \ {c}
    /\ completed' = IF Len(completed) < MaxCompleted THEN Append(completed, c)
                    ELSE Append(Tail(completed), c)

TaskFrame ==
    UNCHANGED <<loopVars, netVars, stopping, inbox, wireVars>>

Ends(c) == task' = [task EXCEPT ![c] = "none"]

(* The task emits its last frame of kind k, and `finally` completes it.    *)
EndsWith(c, k) ==
    /\ EmitAll(<<Frame(c, k)>>)
    /\ events' = [events EXCEPT ![c] = Append(@, Frame(c, k))]
    /\ Remember(c) /\ Ends(c)

(* The task ends by an exception: `finally` completes it without a final.  *)
EndsSilently(c) ==
    /\ Remember(c) /\ Ends(c)
    /\ UNCHANGED <<queueVars, events>>

Runs(c, state) == task[c] = state /\ c \notin cancelling /\ UNCHANGED cancelling

(* ACK, RUNNING and the fork of the helper: one step, up to the suspension *)
(* inside create_subprocess_exec, where `process` is still None.           *)
Start(c) ==
    /\ Runs(c, "created")
    /\ EmitAll(Opening(c))
    /\ events' = [events EXCEPT ![c] = Opening(c)]
    /\ helper' = [helper EXCEPT ![c] = "running"]
    /\ task' = [task EXCEPT ![c] = "spawning"]
    /\ UNCHANGED registryVars /\ TaskFrame

(* The spawn raises OSError.                                               *)
StartFails(c) ==
    /\ Runs(c, "created")
    /\ LET fs == Append(Opening(c), Frame(c, "NOT_STARTED"))
       IN  EmitAll(fs) /\ events' = [events EXCEPT ![c] = fs]
    /\ helper' = [helper EXCEPT ![c] = "none"]
    /\ Remember(c) /\ Ends(c) /\ TaskFrame

(* create_subprocess_exec returns: `process` is set, wait_for is entered.  *)
Spawned(c) ==
    /\ Runs(c, "spawning")
    /\ task' = [task EXCEPT ![c] = "waiting"]
    /\ UNCHANGED <<registryVars, events, helper, queueVars>> /\ TaskFrame

(* The external helper exits by itself, with status 0 or another one.      *)
HelperExits(c) ==
    /\ helper[c] = "running"
    /\ \E status \in {"ok", "bad"} : helper' = [helper EXCEPT ![c] = status]
    /\ UNCHANGED <<loopVars, netVars, stopping, registryVars, events, task, cancelling,
                   queueVars, inbox, wireVars>>

Finish(c) ==
    /\ Runs(c, "waiting") /\ helper[c] \in {"ok", "bad"}
    /\ EndsWith(c, IF helper[c] = "ok" THEN "SUCCESS" ELSE "FAILED")
    /\ UNCHANGED helper /\ TaskFrame

(* process.kill() succeeds: SIGKILL cannot be caught.  A process that had  *)
(* already exited, not yet reaped, keeps the status it exited with.        *)
Kill(c) == helper' = [helper EXCEPT ![c] = IF @ = "running" THEN "bad" ELSE @]

(* Slip: the time-out is reported before the process is reaped, and after. *)
TimesOutEager(c) ==
    /\ Runs(c, "waiting") /\ Kill(c)
    /\ task' = [task EXCEPT ![c] = "reaping"]
    /\ EmitAll(<<Frame(c, "TIMED_OUT")>>)
    /\ events' = [events EXCEPT ![c] = Append(@, Frame(c, "TIMED_OUT"))]
    /\ UNCHANGED registryVars /\ TaskFrame

TimesOut(c) ==
    /\ Runs(c, "waiting") /\ Kill(c)
    /\ task' = [task EXCEPT ![c] = "reaping"]
    /\ UNCHANGED <<registryVars, events, queueVars>> /\ TaskFrame

(* Slips: no handler for OSError; the error of kill() taken for success.   *)
TimesOutKillUncaught(c) ==
    /\ Runs(c, "waiting")
    /\ EndsSilently(c)
    /\ UNCHANGED helper /\ TaskFrame

TimesOutKillIgnored(c) ==
    /\ Runs(c, "waiting")
    /\ EndsWith(c, "TIMED_OUT")
    /\ UNCHANGED helper /\ TaskFrame

(* process.kill() raises: PermissionError on the setuid sudo process, or   *)
(* ProcessLookupError when it exited as the timer fired.  Both are OSError *)
(* and land in the handler of a failed start.                              *)
TimesOutKillFails(c) ==
    /\ Runs(c, "waiting")
    /\ EndsWith(c, "NOT_STARTED")
    /\ UNCHANGED helper /\ TaskFrame

ReapTimedOut(c) ==
    /\ Runs(c, "reaping") /\ helper[c] # "running"
    /\ EndsWith(c, "TIMED_OUT")
    /\ UNCHANGED helper /\ TaskFrame

(* CancelledError is raised in the task at the await where it is.          *)
Interrupted(c, states) ==
    c \in cancelling /\ task[c] \in states /\ cancelling' = cancelling \ {c}

(* A task cancelled before its first step never runs, `finally` included.  *)
CancelUnstarted(c) ==
    /\ Interrupted(c, {"created"}) /\ Ends(c)
    /\ UNCHANGED <<registryVars, events, helper, queueVars>> /\ TaskFrame

(* An exit that asyncio has not noticed yet is killed and waited for too.  *)
CancelKills(c) ==
    /\ Interrupted(c, {"waiting", "reaping"}) /\ Kill(c)
    /\ task' = [task EXCEPT ![c] = "stopping"]
    /\ UNCHANGED <<registryVars, events, queueVars>> /\ TaskFrame

CancelKillFails(c) ==
    /\ Interrupted(c, {"waiting", "reaping"}) /\ helper[c] = "running"
    /\ EndsSilently(c)
    /\ UNCHANGED helper /\ TaskFrame

CancelAfterExit(c) ==
    /\ Interrupted(c, {"spawning", "waiting", "reaping"}) /\ helper[c] # "running"
    /\ EndsWith(c, "STOPPED")
    /\ UNCHANGED helper /\ TaskFrame

(* The helper of a spawn that is cancelled is asyncio's to kill and to     *)
(* wait for, before the handler of CancelledError runs; a refused kill()   *)
(* is passed over, and the wait is for an exit of the helper's own accord. *)
CancelSpawn(c) ==
    /\ Interrupted(c, {"spawning"}) /\ (Kill(c) \/ UNCHANGED helper)
    /\ task' = [task EXCEPT ![c] = "unspawning"]
    /\ UNCHANGED <<registryVars, events, queueVars>> /\ TaskFrame

(* In an asyncio that does not pass over it, the PermissionError takes the *)
(* place of the CancelledError and lands in the handler of a failed start. *)
CancelSpawnKillFails(c) ==
    /\ Interrupted(c, {"spawning"}) /\ helper[c] = "running"
    /\ EndsWith(c, "NOT_STARTED")
    /\ UNCHANGED helper /\ TaskFrame

(* A second cancel there: `process` is None, so nobody kills or waits.     *)
CancelSpawnAgain(c) ==
    /\ Interrupted(c, {"unspawning"})
    /\ EndsWith(c, "STOPPED")
    /\ UNCHANGED helper /\ TaskFrame

ReapStopped(c) ==
    /\ \E s \in {"stopping", "unspawning"} : Runs(c, s)
    /\ helper[c] # "running"
    /\ EndsWith(c, "STOPPED")
    /\ UNCHANGED helper /\ TaskFrame

(* A second cancel while the handler of the first one waits.               *)
CancelAgain(c) ==
    /\ Interrupted(c, {"stopping"}) /\ EndsSilently(c)
    /\ UNCHANGED helper /\ TaskFrame

--------------------------------------------------------------------------------
(* Shutdown.                                                               *)

Stop ==
    /\ ~stopping /\ stopping' = TRUE
    /\ UNCHANGED <<loopVars, netVars, registryVars, taskVars, cancelling, queueVars,
                   inbox, wireVars>>

(* After the outer loop: cancel every command task, then gather them.      *)
CancelTasks ==
    /\ pc = "drain" /\ pc' = "gather"
    /\ cancelling' = Live
    /\ UNCHANGED <<up, replayq, netVars, stopping, registryVars, taskVars, queueVars,
                   inbox, wireVars>>

Finished == {"ended", "aborted", "interrupted"}

Gathered == Live = {} /\ Goto("gather", "ended")

(* run_forever cancels run_realtime wherever it is suspended, and the end  *)
(* of asyncio.run cancels what still runs.  A gather that is cancelled so  *)
(* cancels the tasks it waits for, for the second time.                    *)
Abort ==
    /\ stopping /\ pc \notin Finished
    /\ pc' = IF pc = "gather" THEN "interrupted" ELSE "aborted"
    /\ cancelling' = Live
    /\ up' = FALSE /\ link' = FALSE /\ inbox' = <<>> /\ replayq' = <<>>
    /\ UNCHANGED <<requests, faults, stopping, registryVars, taskVars, queueVars,
                   wireVars>>

Over == pc \in Finished /\ Live = {}
Terminated == Over /\ UNCHANGED vars

--------------------------------------------------------------------------------
Dispatch(c) == DispatchReplay(c) \/ DispatchClaim(c) \/ DispatchIgnore(c)

LoopStep ==
    \/ Connect \/ BackoffOver \/ PauseOver \/ TelemetrySent \/ FlushHead \/ FlushDone
    \/ RecvTimesOut \/ SocketClosed \/ ReplayNext \/ ReplayDone \/ Close
    \/ CancelTasks \/ Gathered
    \/ \E c \in Commands : Dispatch(c)

TaskStep(c) ==
    \/ Start(c) \/ StartFails(c) \/ Spawned(c) \/ Finish(c) \/ TimesOut(c)
    \/ TimesOutKillFails(c) \/ ReapTimedOut(c) \/ CancelUnstarted(c) \/ CancelKills(c)
    \/ CancelKillFails(c) \/ CancelAfterExit(c) \/ CancelSpawn(c)
    \/ CancelSpawnKillFails(c) \/ CancelSpawnAgain(c) \/ ReapStopped(c)
    \/ CancelAgain(c)

Environment ==
    \/ LinkDies \/ LinkNoticed \/ ConnectFails \/ TelemetryFails \/ FlushBreaks
    \/ ReplayBreaks \/ Stop \/ Abort
    \/ \E c \in Commands : Request(c) \/ HelperExits(c)

Next == LoopStep \/ (\E c \in Commands : TaskStep(c)) \/ Environment \/ Terminated

Spec == Init /\ [][Next]_vars

(* The event loop resumes whatever can run and fires due timers (so a task *)
(* that waits is resumed by an exit or by command_timeout_seconds), and    *)
(* the ping timeout notices a dead link.  Helpers are never assumed to     *)
(* exit by themselves, nor the dashboard to ask for anything.              *)
Fairness ==
    /\ WF_vars(LoopStep) /\ WF_vars(LinkNoticed)
    /\ \A c \in Commands : WF_vars(TaskStep(c))

--------------------------------------------------------------------------------
(* Safety.                                                                 *)

(* Type invariant: every variable of run_realtime and of its tasks has the *)
(* shape the code gives it, and the registry stays within its limit.       *)
TypeOK ==
    /\ pc \in LoopStates
    /\ up \in BOOLEAN /\ link \in BOOLEAN /\ stopping \in BOOLEAN
    /\ inflight \subseteq Commands /\ cancelling \subseteq Commands
    /\ completed \in Seq(Commands) /\ Len(completed) <= MaxCompleted
    /\ events \in [Commands -> Seq(Frames)]
    /\ task \in [Commands -> TaskStates]
    /\ helper \in [Commands -> HelperStates]
    /\ outbox \in Seq(Frames) /\ replayq \in Seq(Frames)
    /\ inbox \in Seq(Commands)
    /\ requests \in Nat /\ faults \in Nat
    /\ log \in Seq(Frames) /\ flushed \in Seq(Frames)
    /\ sent \subseteq Frames /\ seen \subseteq Frames

(* Whatever breaks and however often the agent reconnects, the frames the  *)
(* tasks emitted are handed over once each and in the order they were      *)
(* emitted: what was popped, followed by what is queued, is what was       *)
(* emitted (command_outbox, flush_command_outbox).                         *)
NoFrameLost == log = flushed \o outbox

(* No socket is given a result before the ACK of its command, nor a final  *)
(* result before RUNNING, whether from the outbox, after a reconnect or in *)
(* a replay that overtakes the outbox (realtime.py:111-113, 186-188).      *)
WrittenInOrder == \A f \in sent : Prior(f) \subseteq sent

(* What a duplicate is answered with is a whole life of the command, ACK,  *)
(* RUNNING and one final result, until the agent stops (the finally block  *)
(* of execute_command and CommandExecutionRegistry.complete).              *)
WholeRecords ==
    \A c \in ToSet(completed) :
        ~stopping => \E k \in FinalKinds : events[c] = Append(Opening(c), Frame(c, k))

(* The registry never forgets a running task, remembers no command twice,  *)
(* and never keeps a command in flight that no task will complete, whose   *)
(* duplicates would be ignored for ever; a task that the shutdown cancels  *)
(* before its first step leaves its command so (CommandExecutionRegistry). *)
RegistryMatchesTasks ==
    /\ IsInjective(completed)
    /\ inflight \cap ToSet(completed) = {}
    /\ Live \subseteq inflight
    /\ stopping \/ inflight \subseteq Live

(* A command id is executed again only after max_completed other commands  *)
(* finished since its last execution began (claim, complete).              *)
ReexecutedOnlyWhenForgotten ==
    \A i, j \in DOMAIN log :
        i < j /\ log[i].kind = "ACK" /\ log[j] = log[i] =>
            Cardinality({log[k].cmd : k \in {k \in i .. j : log[k].kind \in FinalKinds
                                                    /\ log[k].cmd # log[i].cmd}})
                >= MaxCompleted

(* A result that claims something about the helper tells the truth: it has *)
(* exited with status 0 after SUCCESS, with another one after FAILED, and  *)
(* no longer runs after a time-out or a stop (the handlers of              *)
(* execute_command).  A time-out that fires as the helper exits reports a  *)
(* failure of one that may have exited with 0.  And after "Agent stopped"  *)
(* the helper may still run in one case: the shutdown cancels the task in  *)
(* the spawn, and then its own wait for the task is cancelled, so that     *)
(* asyncio no longer waits for the helper either (realtime.py:137, 154).   *)
ResultsAreTrue ==
    \A c \in ToSet(completed) :
        LET kind == Last(events[c]).kind
        IN  events[c] # <<>> =>
                /\ kind = "SUCCESS" => helper[c] = "ok"
                /\ kind = "FAILED" => helper[c] = "bad"
                /\ kind = "TIMED_OUT" => helper[c] # "running"
                /\ kind = "STOPPED" /\ helper[c] = "running" => pc = "interrupted"

--------------------------------------------------------------------------------
(* Liveness, under Fairness (checked in RelayRestarts).                    *)

Answered(c) == c \notin inflight /\ \A f \in ToSet(outbox) : f.cmd # c

(* Every command the agent takes on is answered: its task ends and its     *)
(* frames, the final one included, are handed to a socket, unless the      *)
(* agent is told to stop.                                                  *)
EveryCommandAnswered == \A c \in Commands : c \in inflight ~> (stopping \/ Answered(c))

(* SIGTERM ends the loop and every task: no task outlives the shutdown,    *)
(* unless the process is killed and a new one takes its place, as it must  *)
(* be when asyncio waits for a helper that it could not kill               *)
(* (realtime.py:307-311, main.py:120-125).                                 *)
StopEnds == stopping ~> (Over \/ ~stopping)

--------------------------------------------------------------------------------
(* Statements of the source that the code does not keep.                   *)

(* The comment of flush_command_outbox (realtime.py:186-188): the next     *)
(* connection preserves the order "instead of delivering a result before   *)
(* its ACK".                                                               *)
DeliveredInOrder == \A f \in seen : Prior(f) \subseteq seen

(* The README's fixed remote operations: duplicate lifecycle command ids   *)
(* are rejected.                                                           *)
DuplicatesRejected ==
    \A i, j \in DOMAIN log : log[i].kind = "ACK" /\ log[i] = log[j] => i = j

(* The error text of realtime.py:159, "Unable to start the fixed control   *)
(* helper.": no helper of the command runs or has run.                     *)
NotStartedIsTrue ==
    \A c \in ToSet(completed) :
        (events[c] # <<>> /\ Last(events[c]).kind = "NOT_STARTED") => helper[c] = "none"

================================================================================
