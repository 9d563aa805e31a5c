# saad-node-agent: a TLA+ model of the node agent

The agent runs on a server, reports its host, deployments and containers to a
dashboard, and executes a few fixed operations the dashboard asks for. It is one
Python process with one asyncio event loop; helpers run as separate privileged
processes through `sudo -n`. This directory holds a model of what is hard about
it: reconnection, remote commands, live logs, the HTTP fallback, the change
events, the helpers that run with privileges and the reports that are collected
while the node changes. Paths below are relative to the repository (`src/`).

## Inventory

| component | state | operations | hard because |
|---|---|---|---|
| command relay: `run_realtime`, `execute_command`, `CommandExecutionRegistry` (`agent/client/realtime.py`) | registry (`_inflight`, `_completed`), `command_tasks`, `command_outbox`, one task and one helper process per command | claim, replay, emit, flush, time-out, cancel, complete | tasks outlive sockets; sends fail half-way; duplicates; a bounded memory; `kill()` may raise |
| log streams: `stream_logs`, `log_tasks` (same file) | `log_tasks`, one task and process per stream | LOGS_START, LOGS_STOP, chunk, LOGS_ENDED, done callback, teardown | cancellation at any await; callbacks that run later; cells that the next connection binds anew |
| transport policy: `RealtimeState`, the reconnect loop, `run_forever` (`agent/main.py`), `post_heartbeat` (`agent/client/dashboard.py`) | the event `connected`, `delay`, attempt counter, `stop_event` | connect, back off, check, post, retry, stop | a flag read long before it is used; two loops to stop |
| structural telemetry: `collect_payload` (`agent/main.py`), `AgentEventEmitter` (`agent/events.py`) | `_instances`, `snapshot_requested`, `last_snapshot_at` | snapshot, changes_and_telemetry | memory updated before the frames are sent; absence is never reported; one bad record |
| wire models (`agent/models.py`) | none | validate, serialise | stricter for events than for heartbeats; one type name is in two enumerations |
| discovery (`agent/collectors/saad_deploy.py`, `scripts/deploy_metadata.py`) | none (reads files) | parse env files, read state files, redact | files that change while they are read; a parser of its own |
| Docker collector (`agent/collectors/docker.py`, `scripts/snapshot.sh`) | none | list, inspect, stats, units | one removed container loses the snapshot; failure looks like an empty node |
| control helper (`scripts/control_helper.py`) | none (its process becomes the entrypoint, or `docker logs`) | validate, check the declaration, inspect, exec | check, then exec; an exit code that may come from any of the programs in between |
| host collector, settings, installer, systemd unit | none | | |

The components interact through shared objects of one event loop: `run_forever`
starts `run_realtime` as a task, shares `stop_event` and `RealtimeState` with it
and cancels it at the end; `run_realtime` calls `collect_payload` in a thread,
hands the payload to the emitter, flushes the command outbox on the same socket,
receives one control frame per cycle, and creates command tasks (which know no
socket and talk to it through the outbox) and log tasks (which send directly).

What makes them correct, in short: a command is executed once as long as it is
remembered, and its lifecycle is handed over whole and in order; a stream that
is active can be stopped and its process is not forgotten; the agent always has
a transport, hardly ever two, and stops; the dashboard's picture of the node is
what the emitter believes it to be and catches up with the node; the control
helper acts for the very app and container that the reports show, its exit codes
are answered truthfully, and a report does not mix the state of two operations.

## Modules

| module | what it is |
|---|---|
| `LifecycleFrames` | the frames of remote commands |
| `CommandRelay` | commands, registry, outbox, sockets and shutdown |
| `CommandLifecycle` | abstract: one life per accepted command, one ordered stream |
| `CommandRelayRefinement` | the mapping from `CommandRelay` to `CommandLifecycle` |
| `RelayRestarts` | several lives of `CommandRelay` in a row, a dashboard that repeats its commands |
| `CommandRelayProofs` | type correctness, `NoFrameLost` and `WrittenInOrder`, proved |
| `CommandRelayRegistryProofs` | the registry, its records and their truth, the step simulation of `CommandLifecycle`, and `ReexecutedOnlyWhenForgotten`, proved |
| `RelayRestartsProofs` | `OneVerdict`, proved |
| `LogStreams` | `log_tasks`, stream tasks, their processes, the teardown |
| `LogStreamsProofs` | its safety invariants, proved |
| `TransportPolicy` | reconnect loop, fallback loop, retries, the shared flag |
| `TransportPolicyProofs` | types, overlap, lateness and the back-off, proved |
| `StateEvents` | collection, the emitter, snapshots and change events |
| `StateEventsProofs` | types and `RememberedIsTold`, proved |
| `EnvFiles` | the values in an env file, and the two programs that read them |
| `Node` | the environment of the helpers: env file, containers, state files, operations |
| `ControlHelper` | one dashboard frame: validation, the helper's checks, execution, answer |
| `Collection` | one `collect_payload` after the other, read by read |
| `NodeHelpers` | node, request and collection composed, and their properties |
| `NodeHelpersProofs` | the node's versions, the parsers, the request: proved |
| `NodeReportsProofs` | the reports: proved |
| `MC*` | small instances for TLC |

In the modules of the event loop one action is what the code does between two
awaits: asyncio switches tasks nowhere else. The helpers are processes of their
own, and there one action is one look at the node: one file read, one `docker
inspect`, one `exec`. Operators named as a *slip* are plausible wrong
versions of the operator that follows; no specification uses them, and putting
one in the place of its original must violate the property it is aimed at
(`PROJECT.json`, `mutants`).

### CommandRelay

`pc` is the await at which `run_realtime` is suspended: connecting, collecting
the payload, flushing, receiving, replaying, pausing, closing, backing off,
draining and gathering at the end. `task[c]` is the await of `execute_command`:
created, spawning the helper, waiting for it, reaping it after a time-out, or
reaping it in the handler of a cancellation. `inflight` and `completed` are the registry;
`events[c]` is `emitted`, the record a duplicate is answered with. `up` says
whether the socket object still works, `link` whether bytes reach the dashboard:
between `LinkDies` and `LinkNoticed` sends succeed and are lost. `FlushBreaks`
is a send that raises although the frame was written. The helper is external: it
may exit at any time, and `kill()` may succeed or raise (`PermissionError`
because sudo runs as root, `ProcessLookupError` because it has just gone).
`create_subprocess_exec` suspends with the helper already there and `process`
still None: asyncio waits for its new process. A cancellation that arrives then is
first handled by asyncio, which kills the helper and waits for it (`CancelSpawn`,
the await `unspawning`). If the kill is denied, a recent asyncio goes on waiting;
an older one lets the `PermissionError` out, which reaches the handler of a failed
start (`CancelSpawnKillFails`): both are in the model. A second cancellation ends
asyncio's wait, and the agent's own handler finds no process to kill or to wait
for (`CancelSpawnAgain`, `realtime.py:154`). That takes a shutdown which is itself
cut short while it gathers the tasks (`pc = "interrupted"`), and it is the one case
in which "Agent stopped before the operation completed." is recorded of a helper
that runs; `ResultsAreTrue` says so. It also names what a time-out means: that the
helper no longer runs, not that it had failed, for it may exit with 0 as the timer
fires.
`Stop` is SIGTERM; `Abort` is the cancellation of `run_realtime` by
`run_forever`, wherever it stands, followed by the end of `asyncio.run`.
`CommandType`, app ids and wording are left out, except that the final results
are told apart by the text that tells what happened.

`CommandLifecycle` is what a dashboard may rely on: a command is unknown,
accepted, open or closed; it is opened by ACK and RUNNING and closed by one final
result; only a stopping agent breaks a life off; a closed command may be
forgotten; frames form one stream handed over in order. The refinement reads the
stage from the registry and from `events`, the stream from the frames emitted and
the number handed over from the frames popped.

### RelayRestarts

The relay of `CommandRelay` with what surrounds its process. `NewLife` ends a
process at any point (killed, crashed, or stopped and gone) and starts the next:
registry, outbox, tasks and socket are locals of `run_realtime` and begin anew,
and what is left of the unit, its helpers included, is cleared away by systemd
(`KillMode` has its default). Only what the dashboard has seen stays. `Ask` is a
dashboard that repeats a command until it has seen a final result, over whichever
connection there is; the registry exists for such a dashboard. An operator's
restart sends SIGTERM first (`OperatorStops`), and then the last results,
emitted by the cancelled tasks, are never flushed: the next life has to answer
for them, by executing the command again.

`RepeatedIsTold` says that nobody who repeats a command is left without an
answer, `OneVerdict` that the answers do not contradict each other. The second
needs a registry that holds every command asked for: with an evicted id (the
run `relay_duplicates`) a late duplicate is executed again and may end otherwise.

### LogStreams

`table` is `log_tasks`; a task is created, spawning, unspawning (cancelled there),
reading, winding (in `finally`, waiting for its process), done (its callback has
not run) or gone. Both ways in which `terminate()` can go are modelled, and the
spawn is as in `CommandRelay`: cancelled in it, the task leaves the process to
asyncio and `finally` finds None. If asyncio's kill is denied, the task waits for
a process that nobody has told to end, and a teardown that gathers the task waits
with it: `TeardownEnds` excepts a teardown that stays `Stuck` so for ever. `reused` records the ids that were
started again before an earlier task of the same id was gone: for them the done
callback pops the wrong entry, and the properties say exactly what is lost.
A task cancelled in `finally` is cut short. Chunks are not modelled one by one:
a task sends while it is `Active`. A connection is
left by an exception or by its own loop; that `run_forever` cancels `run_realtime`
in the gather of a teardown, for the last time, is left out.

### TransportPolicy

`rt` is the reconnect loop, `fb` the fallback loop with `post_heartbeat` inside.
`overlap` counts the heartbeats sent during the present connection, `late` those
sent after the stop request. Jitter is left out: the model's delay is the one
before jitter. Times other than the back-off are abstract, a wait may end at any
moment.

### StateEvents

A node is a list of env files (app id, metadata and deployment each) and the
containers of their Compose projects. Collection reads the containers first and
the env files later, as `collect_payload` does, and either helper may fail. What
an instance looks like is a value per aspect (metadata, deployment, each
container); the emitter's memory and the dashboard's `mirror` have the same
shape, so that an event is "this aspect of this app now looks so". The list of
events that `changes_and_telemetry` returns is the set `queue`, sent in the order
`Sooner`: instance by instance, metadata, deployment, containers (whose order is
Docker's, that is any). The loop over the instances updates `_instances` on its
way; `Known` says what it finds there when it reaches an instance. A full
snapshot is due on request or by the clock; a cycle lasts one telemetry interval
or longer, so that it comes after `FullEvery` cycles at the latest and may come
at any cycle. Two env files may declare one app id. `BadApps` are ids that
discovery accepts and the event models reject. The frame with CPU and memory
figures is left out (it is built first, and that is where a bad id raises). That
the dashboard keeps the latest it was told, and the last entry of a repeated id,
is an assumption about an external system.

### EnvFiles

The control helper decides by `/etc/saad-deploy/<app>.env`; the metadata helper
announces the same file to the agent. Each has a parser of its own
(`env_values`, `parse_env_file`), and they differ in one order: `parse_env_file`
strips a value before it looks for a quote, `env_values` strips only a value
without one. A raw value is abstracted to what they look at: a blank after `=`,
quotes (none, closed, not closed), blanks inside the quotes, the word, an inline
comment. A parsed value is a word and its dress: `bare`, with `blanks` around it,
with quote `marks` still on it, a lone comment (`hash`), or `unset`, when the
line is dropped. They disagree on `KEY= "x"` (the helper keeps the marks), on
`KEY=" x "` (the helper keeps the blanks, the agent strips them) and on
`KEY= #c` (empty for the helper, `#c` for the agent).

They also look for the app in different places: the metadata helper announces the
`APP_ID` of every `*.env` file whatever its name (`deploy_metadata.py:131-154`),
the control helper opens the file named after the id (`control_helper.py:56-63`).
The model has one such file, named after `App`, and its contents may declare
another id: that app is shown, and every frame for it is refused with 65.

### Node

The node is not part of this repository: the operator edits the env file, Docker
creates and removes containers, saad-deploy runs operations. Any of these may
come between two steps of a helper. What is assumed of saad-deploy, from how
the code reads its files and its exit code, is: one operation holds the lock at a
time; it rewrites `status.json` first and last (while it does, the file does not
parse) and the other state files in between, in any order, or none of them; it
may die anywhere and leave them so. Operations are numbered; a state file is the
number of the operation that wrote it. Container names are unique at a time and
ids are never used again. The declaration names a state directory; without one
the helper reports an unknown deployment and reads nothing.

### ControlHelper

`request.step` follows a frame: started, found (declaration read, arguments
checked), inspected, following or running, exited, answered. A `restart` becomes
the entrypoint's process (`os.execv`), so that the entrypoint's exit code is the
helper's; `logs` becomes `docker logs --follow`, which looks the name up again.
The relay answers by the exit code alone, so that an entrypoint's own 75 would be
answered as a busy lock although it ran. That saad-deploy keeps 75 for the lock is
an assumption (`EntrypointExits`), and the second clause of `AnswersAreTrue` rests
on it. `EntrypointMissing` is exit 69, `ExecBusy` the 75 of a taken lock, 64 and 65 are
refusals. One request is in progress at a time; other commands, of the agent or
of anybody else, are `ForeignOperation`. The relay and the streams around the
helper are `CommandRelay` and `LogStreams`, which take it as a process that exits
at any time with any status.

### Collection

`scan` is one collection: the ids `docker ps` listed, the records `docker
inspect` has made so far, the announced instance, the status and the state files
read so far. `InspectContainer` of a container that has gone loses the whole
snapshot (`set -e`, and `check=True` in the agent). `ListFails` is a `docker ps`
whose exit status the process substitution drops. Statistics are read after the
inspection and only decorate the records: left out. `begun`, `answered`, `faulty`
and `missed` are history, for the properties.

### NodeHelpers

| property | says |
|---|---|
| `FollowedIsAnnounced` | the container that is followed is the one inspected, or its name was given away in between; it belongs to the project, and the app id is the one, that the agent shows for that declaration |
| `ShownIsServed` | what the agent accepts and shows is not refused with 64 or 65, but for an app that is declared in a file of another name, the disagreements of the parsers named above and container names outside the helper's pattern |
| `AnswersAreTrue` | SUCCESS means that the command's own entrypoint ended well; "lock busy" that nothing was run, if saad-deploy keeps 75 for the lock |
| `NeverAnswersErrors` | an error frame is not answered by an error frame |
| `SuccessIsReported` | a report begun after SUCCESS was said does not show the time before it |
| `FinishedIsWhole` | a finished status never stands beside files from before its end |
| `MissedForAReason` | a container that stayed is missing only after a failed command or when some container was removed meanwhile |
| `ReportsSettle` | reports go on, and when the node has come to rest they show it as it is |

`NeverAnswersErrors` holds by an accident worth knowing: "error" is in both
enumerations of `ProtocolEnvelope.type`, pydantic takes the first, and an error
frame of the dashboard is rejected as an agent's event. The branch that
answers "not enabled" is therefore never taken.
`FinishedIsWhole` rests on the order of `collect_deployment_state`: status first.
A report may show a running or a finished operation beside files that a newer
operation has written since; it does not last (`ReportsSettle`).

## Runs

| run | instance | shows |
|---|---|---|
| `relay_transport` | 2 commands, registry of 1, 2 requests, 2 faults | `NoFrameLost`, `WrittenInOrder`, `ResultsAreTrue`, types |
| `relay_registry` | 2 commands, registry of 1, 3 requests, no faults | registry and tasks agree, whole records, re-execution only when forgotten, refinement |
| `relay_liveness` | `RelayRestarts`: 1 command, asked for until answered, 2 faults, 3 lives, fair | accepted commands are answered; a stop ends everything; the dashboard is told in the end, and never of two ends |
| `log_streams` | 2 ids, limit 1, 3 tasks, 1 lost connection, fair | tracking, limit, no forgotten process, last word, teardown, with cancellations in the spawn |
| `transport_policy` | delays 1 to 6, 3 attempts, fair | overlap and lateness bounded, back-off, never silent, stop |
| `state_events` | 2 env files, a good and a bad app, 1 container, 2 changes, 1 fault, fair | the mirror follows the memory and the node; change events cease |
| `node_helpers` | 1 app, 8 contents of its env file, 2 container names with 3 labellings, 9 frames, 2 written state files, 2 events, fair | the eight properties above and the types |
| `relay_delivery_order`, `relay_duplicates`, `relay_not_started`, `transport_overlap`, `bad_instance` | as above | five statements of the source that the code does not keep |

Bounds. A registry of one entry makes every completion an eviction; three
requests over two commands give a duplicate in flight, a duplicate that is
replayed and a re-execution after eviction; two faults give a failure during the
recovery from another one. Two ids with a limit of one give a refused start, a
reuse of an id and an old task beside a new one; one lost connection leaves
tasks of the first connection in the second. Delays 1, 2, 4, 6 reach the cap by
a step that is not a doubling. Two changes on a node give an appearance followed
by a disappearance, an app id that moves or that two files declare, and a change
between the two halves of a collection. The registry's 256, three streams and
the intervals of the settings are larger numbers of the same kind. The runs that
need no faults are separate from those that do, so that each stays small.

`node_helpers` counts as events what the node does by itself, frames, operations
and failures. Two of them give a container replaced or a declaration edited
between any two steps of a helper, an operation that begins or ends during any
collection, a lock taken by another operation, a failure during a collection, a
command that is answered and then reported. The env files are one for each way in
which the parsers agree or differ, and one that declares another app, for which
one frame asks; the frames lie at the bounds of both
validations (120 and 255 characters, 1, 1000 and 1001 lines). With two events no
later operation begins after a success was answered; the proofs are for any
number of events, containers, frames and files.

`relay_liveness` needs one command: commands share the outbox and the registry,
and the other runs look at both. Three lives give a restart during the recovery
from a restart, by a kill or by a stop; two faults give an answer lost on a dead
link and a broken repetition of it.

Symmetry over commands is used where no liveness is checked and is sound: no
definition tells two commands apart.

### Fairness

- The event loop resumes what can run, and timers fire: weak fairness of the
  connection loop, of each command task and of each stream. A command task that
  waits always goes on, because of `command_timeout_seconds`; helpers are not
  assumed to exit by themselves.
- A dead link is noticed: `ping_interval` and `ping_timeout` close the socket.
- A log process that was sent SIGTERM exits; one that was not, or that could not
  be signalled, need not.
- Connects may fail for ever; an open connection may stay open until the stop
  request, at which its loop looks in every cycle. `collect_payload` does not
  raise every time (strong fairness of `Collected`), otherwise no heartbeat
  could be promised; the code contains each failure and tries again.
- Collections follow each other for ever (`run_realtime` and `run_forever` both
  collect in a loop, and every helper call has a time-out): weak fairness of
  `Collects`. Nothing is assumed of the node, of saad-deploy or of requests.
- In `relay_liveness` a stopped agent is started again (systemd, or the operator
  who stopped it), one that waits in its shutdown for a helper asyncio could not
  kill is killed with what is left of it (`TimeoutStopSec=20s` of the unit; nothing
  in the agent would end that wait), and a dashboard that has asked for a command asks again while
  a connection holds. That is an assumption on the dashboard, whose code is not
  here: `RepeatedIsTold` says what the agent promises to one that does.
- Faults and changes on the node are bounded in number, hence finite: liveness
  says what happens after the last of them.

### What the failing runs show

- `relay_delivery_order`: `flush_command_outbox` pops a frame when `send()`
  returns. On a link that is already dead the ACK is lost and the next connection
  delivers the result without it, which the comment at `realtime.py:186-188`
  says does not happen. There is no acknowledgement from the dashboard to wait for.
- `relay_duplicates`: README.md:121-122 says duplicate command ids are rejected by
  the helper. The helper gets no id; the agent's registry is bounded and a
  forgotten id runs again.
- `relay_not_started`: a `kill()` that raises is reported as "Unable to start the
  fixed control helper." although the helper was started and may still run. The
  agent is unprivileged and sudo runs as root, so that this is the usual outcome
  of a time-out on a real node.
- `transport_overlap`: heartbeats are sent while the socket is open, though
  README.md:29 says only when it is unavailable. `OverlapBounded` says how many.
- `bad_instance`: an app id outside the pattern of the event models tears the
  connection down in every cycle that is not a snapshot, and the healthy
  instances' telemetry with it; README.md:32 says one bad instance is contained.

## Proofs

All proofs hold for every value of the constants that satisfies the assumptions:
every set of commands or ids, every limit and every bound.

- `CommandRelayProofs!TypeCorrect`: `Spec => []TypeOK`. `TypeOK` is inductive.
  The lemmas before it are about the registry (`Remember` keeps it within
  its limit) and about sequences of frames.
- `CommandRelayProofs!OutboxLosesNothing`: `Spec => []NoFrameLost`. Inductive
  with the types: a frame is appended to `log` and `outbox` together and moves
  from the head of `outbox` to the end of `flushed`.
- `CommandRelayProofs!OrderKept`: `Spec => []WrittenInOrder`. A frame
  reaches a socket from the outbox or from a replay that overtakes it, so that
  the property needs an invariant about everything that may still be written:
  `OrderInv` says that the outbox, a replay in progress and every
  record of the registry are ordered: each frame finds the frames it depends on
  earlier in the same sequence or, for the outbox and the replay, among those
  already written; and that the RUNNING frame of a suspended task is written or
  queued, and in its record. A record is ordered on its own, so that a replay may
  overtake the outbox at any point.

- `CommandRelayRegistryProofs!RegistryAgrees` and `RecordsAreWhole`:
  `Spec => []RegistryMatchesTasks` and `Spec => []WholeRecords`. A task that ends
  calls `complete`, so it must find its id in flight and not yet remembered, and a
  record is whole only if the task found it begun. `RegistryInv` adds both: what
  each suspended task has already recorded (`RecordsBegin`), and that tasks
  are cancelled only after the stop request (`StopsOnly`), which is why the two
  properties are limited to a running agent. The eviction of an oldest entry
  keeps the ids distinct (`InjectiveAppend`, `InjectiveTail`).
- `CommandRelayRegistryProofs!ResultsStayTrue`: `Spec => []ResultsAreTrue`. A step
  changes the record or the helper of one command (`TruthKept`); a recorded
  result claims an exit, and a helper that has exited stays so. A stop recorded
  with the helper running needs a second cancellation in the spawn: `SpawnsInv`
  says that a task is cancelled there a second time only by an `Abort` that
  interrupts the gather, after which no other loop state follows.
- `CommandRelayRegistryProofs!LifecycleImplemented`: `Spec =>
  ImplementsLifecycle`, a step simulation from `TypeOK`, `RegistryInv` and
  `NoFrameLost`: claiming accepts, the first step of a task opens, `complete`
  closes and may forget, a frame written from the outbox is a hand-over, a
  cancelled task breaks its life off, everything else stutters.
- `CommandRelayRegistryProofs!ReexecutionIsLate`: `Spec =>
  []ReexecutedOnlyWhenForgotten`, from `ForgetInv`. The property counts finished
  commands between two ACKs of the log, so the invariant has to say where that
  count comes from while the second ACK is still to be emitted: as long as a
  command is remembered, whatever the registry took up after it has finished
  since its ACK (`NewerFinished`); when it falls out it is the oldest of a full
  registry, so the newer records are `MaxCompleted` different commands; and what
  has been counted for a claimable command stays counted (`ForgottenLate`). Tasks
  that end without a final result would break the first part: they exist only
  once all tasks have been cancelled, and then none is left that could emit an
  ACK (`CancelledOnce`). Cardinalities come from `InjectiveCardinality`: a
  sequence without repetitions has as many elements as positions.
- `RelayRestartsProofs!OneVerdictOnly`: `SpecRestarts => []OneVerdict` for every
  finite `Commands` with at most `MaxCompleted` elements, from `VerdictInv`. In
  one life a command has one final result in the log, because the registry holds
  it from the step that emits it and never evicts (`NothingForgotten`); whatever
  a socket is given is in the log; and of a command whose end an earlier life
  told, the present one knows nothing (`Unaware`), because nobody asks for it any
  more. The hypothesis is needed: with a smaller registry an evicted command is
  executed again and may end otherwise (the run `relay_duplicates`).
- `LogStreamsProofs`: `StreamsTypeOK`, `NoProcessForgotten`, `ActiveIsTracked`,
  `ActiveWithinLimit` and `EndedIsFinal`, all from `StreamsInv`. Its parts: a task
  that sends or will send is in the table or its id was reused; two tasks of one
  id, the earlier not gone, mean that the id was reused, so that a callback which
  pops the entry of another task only touches reused ids; once the teardown has
  cancelled what the table names, only reused ids are left to send, so that the
  next connection may start with an empty table; and the process follows the
  await at which its task stands. The limit follows because `req` maps the
  sending tasks injectively into the table.
- `TransportPolicyProofs`: `PolicyTypeOK`, `OverlapBounded`, `LateBounded`, from
  `PolicyInv`, which bounds both histories by the number of attempts already made
  by the heartbeat in progress. A heartbeat begins only when the flag is clear and
  nobody asked to stop, so that the bound is reached once. `BackoffDoubles`, from
  the same invariant: doubling commutes with the cap. The provers take `2 ^ n` for
  an unknown function; that it doubles is derived from the cardinality of the
  power set of `1 .. n` (`PowerDoubles`).
- `StateEventsProofs`: `EventsTypeOK`, inductive, and `RememberedIsTold`, from
  `ToldOrQueued`. The emitter's memory runs ahead of the frames, and with two env
  files of one id the queue may hold several values of one aspect, so that the
  invariant names the event that comes last: it tells what is remembered, and with
  none left the dashboard knows it (`ToldAtLast`). That the loop over the instances
  establishes it rests on `FirstOfTheLast`: among the instances of an id take the
  first from which on the aspect looks as the last one says. Later ones are no
  change; this one is reported, unless it is the first of its id and looks as it
  was remembered, which the dashboard was told before. The maximum of a set of
  files is a choice for the provers; that it exists comes from the
  well-foundedness of strict inclusion (`WellOrdered`).
- `NodeHelpersProofs`: `FollowedIsAnnounced`, `ShownIsServed`, `AnswersAreTrue`
  and `NeverAnswersErrors`, from `HelperInv`. Its parts: `NodeInv`, the order of
  versions on the node (no state file is newer than `status.json` or older than
  what a finished status left; the lock belongs to the newest operation; a
  success is in `status.json` until a newer operation begins); `Checked`, what
  each step of the helper has established of the frame, the declaration and the
  container; `Runs`, the operation a request became. `Moves` says what any step
  does to the node, and `Onward` that it undoes nothing: no success, no version,
  no container id. The lemmas on the parsers (`DeclaredIsAnnounced`,
  `OwnedIsAnnounced`, `AnnouncedIsDeclared`) compare them over all raw values.
- `NodeReportsProofs`: `TypeOK`, `SuccessIsReported`, `FinishedIsWhole` and
  `MissedForAReason`, from `ReportInv`: the status is read before any file and
  files only go forward (`StatusFirst`, `Whole`); a success that was answered
  stays one and `status.json` is not older (`Told`); what was listed is inspected
  or gone for good (`Seen`).

The assumptions are the named ones on the constants (`MaxCompletedAssumption`,
`BoundsAssumption`, `StreamsAssumption`, `StreamBoundsAssumption`,
`DelayAssumption`, `AttemptsAssumption`, `BackoffsAssumption`,
`NoWordAssumption`, `NodeAssumption`, `FramesAssumption`, `AppsAssumption`,
`FaultsAssumption`): limits are positive, bounds are natural numbers, an aspect
has some look, frames and files have their types, an app id is not
empty, and container names are unique to start with.

Only model-checked: liveness under fairness, which the prover does not reach
(`EveryCommandAnswered`, `StopEnds`, `RepeatedIsTold`, `TeardownEnds`,
`NeverSilent`, `StopCompletes`, `CatchesUp`, `FallsSilent`, `ReportsSettle`). Every
other property of a passing run is a theorem.

## Not modelled, and why

- Redaction (`_sanitize_error_text`, `safe_error_text`), units and matching of
  statistics (`_memory_mb`, `_percent`, `_find_stat`, `aggregate_resources`):
  functions from text to text or numbers that no decision rests on.
- `discover_instances`, `parse_env_file` and `collect_deployment_state` of
  `saad_deploy.py`: the running agent does not reach them, because
  `discover_instances_from_helper` always sets a deployment.
- The host collector: one read of each counter, nothing compared or kept.
- Settings: loaded once; their bounds are the assumptions on the constants.
- The installer: file installation. Of the systemd unit, only that it starts the
  agent again (`RelayRestarts`).
- CPU, memory and disk figures: never compared by the code.
- saad-deploy itself, beyond the order assumed in `Node`.
- Several helpers at once: they share nothing but the node, and one request among
  foreign operations sees every state of it that another helper could cause.

## Plan

Done: the command relay with its abstract lifecycle, log streams, transport
policy, structural telemetry, control helper, collection, restarts; every safety
property proved, the refinement included.

Left: safety facts that the liveness properties rest on, as lemmas (what a step of
the shutdown or of a teardown can never undo), so that less of them rests on the
small instances.
