--------------------------- MODULE LogStreamsProofs ---------------------------
(* Theorems about LogStreams, for any request ids, any limit and any       *)
(* number of streams and connections.                                      *)
EXTENDS LogStreams, FiniteSetTheorems, TLAPS

USE StreamsAssumption, StreamBoundsAssumption

(* A task that sends or will send: it can only be ended by a cancellation  *)
(* or by its process.                                                      *)
Live(t) == state[t] \in {"created", "spawning", "reading"} /\ t \notin cancelling

(* Tasks beyond the requests are unused.                                   *)
TasksHaveRequests == \A t \in Tasks : state[t] # "unused" => t \in 1 .. Len(req)

(* Where the process of a task stands when the task is not reading.        *)
ProcessFollows ==
    \A t \in Tasks :
        /\ state[t] \in {"unused", "created"} => proc[t] = "none"
        /\ state[t] = "winding" => proc[t] = "over"

(* Two tasks of one id, the earlier one not gone: the id was reused.       *)
OverlapIsReuse ==
    \A o, t \in 1 .. Len(req) :
        o < t /\ req[o] = req[t] /\ state[o] # "gone" => req[t] \in reused

LiveIsTracked ==
    \A t \in Tasks : Live(t) => table[req[t]] = t \/ req[t] \in reused

(* The teardown cancelled whatever the table named.                        *)
TeardownLeavesReused ==
    conn \in {"gather", "down"} =>
        \A t \in Tasks : Live(t) => req[t] \in reused

EndedIsQuiet == \A t \in Tasks : Live(t) /\ req[t] \in ended => req[t] \in reused

StreamsInv ==
    /\ StreamsTypeOK /\ IsFiniteSet(Tracked) /\ NoProcessForgotten
    /\ TasksHaveRequests /\ ProcessFollows /\ OverlapIsReuse
    /\ LiveIsTracked /\ TeardownLeavesReused /\ EndedIsQuiet
--------------------------------------------------------------------------------
LEMMA InitStreams == Init => StreamsInv
  <1> SUFFICES ASSUME Init PROVE StreamsInv
    OBVIOUS
  <1>1. Tracked = {} /\ IsFiniteSet(Tracked) /\ Cardinality(Tracked) = 0
    BY FS_EmptySet DEF Init, Tracked
  <1>2. up \in BOOLEAN
    BY Zenon DEF Init
  <1>3. StreamsTypeOK
    BY <1>1, <1>2 DEF Init, StreamsTypeOK, StreamStates, ProcStates, NoTask
  <1> QED
    BY <1>1, <1>3 DEF Init, StreamsInv, NoProcessForgotten, TasksHaveRequests,
       ProcessFollows, OverlapIsReuse, LiveIsTracked, TeardownLeavesReused,
       EndedIsQuiet, Live

(* A table with fewer entries stays within the limit.                      *)
LEMMA TableShrinks ==
  ASSUME StreamsTypeOK, IsFiniteSet(Tracked), Tracked' \subseteq Tracked
  PROVE  IsFiniteSet(Tracked') /\ Cardinality(Tracked') <= MaxStreams
  <1>1. /\ IsFiniteSet(Tracked') /\ Cardinality(Tracked') <= Cardinality(Tracked)
        /\ Cardinality(Tracked') \in Nat /\ Cardinality(Tracked) \in Nat
    BY FS_Subset, FS_CardinalityType
  <1> QED
    BY <1>1 DEF StreamsTypeOK

--------------------------------------------------------------------------------
(* The control frames.                                                     *)

LEMMA RefusedKeeps ==
  ASSUME StreamsInv, NEW r \in Requests, StartRefused(r)
  PROVE  StreamsInv'
  <1> USE DEF StreamsInv, StartRefused, connVars
  <1>1. StreamsTypeOK' /\ IsFiniteSet(Tracked')
    BY DEF StreamsTypeOK, Tracked
  <1>2. EndedIsQuiet'
    <2> SUFFICES ASSUME NEW t \in Tasks, Live(t), req[t] = r
                 PROVE  req[t] \in reused
      BY DEF EndedIsQuiet, Live
    <2>1. table[r] = NoTask /\ t # NoTask
      BY DEF LimitReached, Tracked, Tasks, NoTask
    <2> QED
      BY <2>1 DEF LiveIsTracked
  <1> QED
    BY <1>1, <1>2 DEF NoProcessForgotten, TasksHaveRequests, ProcessFollows,
       OverlapIsReuse, LiveIsTracked, TeardownLeavesReused, Live

LEMMA StartKeeps ==
  ASSUME StreamsInv, NEW r \in Requests, StartStream(r)
  PROVE  StreamsInv'
  <1> USE DEF StreamsInv, connVars
  <1> DEFINE t == Len(req) + 1
  <1>1. /\ Len(req) \in Nat /\ t \in Tasks /\ t # NoTask /\ state[t] = "unused"
        /\ Len(req') = t /\ req'[t] = r /\ req' \in Seq(Requests)
        /\ \A i \in 1 .. Len(req) : req'[i] = req[i]
    BY DEF StartStream, StreamsTypeOK, TasksHaveRequests, Tasks, NoTask
  <1>2. /\ conn = "open" /\ r \notin Tracked /\ ~LimitReached(r)
        /\ state' = [state EXCEPT ![t] = "created"]
        /\ table' = [table EXCEPT ![r] = t]
        /\ ended' = ended \ {r}
        /\ UNCHANGED <<conn, up, losses, gathering, proc, cancelling>>
    BY DEF StartStream
  <1>3. /\ reused \subseteq reused' /\ reused' \subseteq Requests
        /\ (\E o \in 1 .. Len(req) : req[o] = r /\ state[o] # "gone") => r \in reused'
    BY DEF StartStream, StreamsTypeOK
  <1> HIDE DEF t
  <1>4. Tracked' = Tracked \cup {r}
    BY <1>1, <1>2 DEF Tracked, StreamsTypeOK
  <1>5. IsFiniteSet(Tracked') /\ Cardinality(Tracked') <= MaxStreams
    <2>1. /\ IsFiniteSet(Tracked') /\ Cardinality(Tracked') = Cardinality(Tracked) + 1
          /\ Cardinality(Tracked) \in Nat
      BY <1>2, <1>4, FS_AddElement, FS_CardinalityType
    <2> QED
      BY <2>1, <1>2 DEF LimitReached
  <1>6. StreamsTypeOK'
    BY <1>1, <1>2, <1>3, <1>5 DEF StreamsTypeOK, StreamStates, t, Tasks
  <1>7. \A u \in Tasks : u # t => state'[u] = state[u] /\ (Live(u)' <=> Live(u))
    BY <1>2 DEF Live, StreamsTypeOK
  <1>8. \A u \in Tasks : state[u] # "unused" => u # t /\ u \in 1 .. Len(req) /\ req'[u] = req[u]
    BY <1>1 DEF TasksHaveRequests
  <1>9. OverlapIsReuse'
    <2> SUFFICES ASSUME NEW o \in 1 .. t, NEW u \in 1 .. t, o < u,
                        req'[o] = req'[u], state'[o] # "gone"
                 PROVE  req'[u] \in reused'
      BY <1>1 DEF OverlapIsReuse
    <2>1. o \in 1 .. Len(req) /\ o \in Tasks /\ o # t
      BY <1>1 DEF t, Tasks
    <2>2. CASE u = t
      BY <2>1, <2>2, <1>1, <1>3, <1>7
    <2>3. CASE u # t
      BY <2>1, <2>3, <1>1, <1>3, <1>7 DEF OverlapIsReuse, t
    <2> QED
      BY <2>2, <2>3
  <1>10. LiveIsTracked'
    <2> SUFFICES ASSUME NEW u \in Tasks, Live(u)'
                 PROVE  table'[req'[u]] = u \/ req'[u] \in reused'
      BY DEF LiveIsTracked
    <2>1. CASE u = t
      BY <2>1, <1>1, <1>2 DEF StreamsTypeOK
    <2>2. CASE u # t
      <3>1. Live(u) /\ req'[u] = req[u] /\ req[u] \in Requests
        BY <2>2, <1>7, <1>8 DEF Live, StreamsTypeOK
      <3>2. req[u] = r => req[u] \in reused
        BY <3>1, <1>2 DEF LiveIsTracked, Tracked, Tasks, NoTask
      <3> QED
        BY <3>1, <3>2, <1>2, <1>3 DEF LiveIsTracked, StreamsTypeOK
    <2> QED
      BY <2>1, <2>2
  <1>11. EndedIsQuiet'
    <2> SUFFICES ASSUME NEW u \in Tasks, Live(u)', req'[u] \in ended'
                 PROVE  req'[u] \in reused'
      BY DEF EndedIsQuiet
    <2>1. u # t
      BY <1>1, <1>2
    <2>2. Live(u) /\ req'[u] = req[u]
      BY <2>1, <1>7, <1>8 DEF Live
    <2> QED
      BY <2>2, <1>2, <1>3 DEF EndedIsQuiet
  <1>12. NoProcessForgotten' /\ ProcessFollows' /\ TasksHaveRequests'
    BY <1>1, <1>2, <1>7, <1>8 DEF NoProcessForgotten, ProcessFollows, TasksHaveRequests,
       StreamsTypeOK, t
  <1> QED
    BY <1>2, <1>5, <1>6, <1>9, <1>10, <1>11, <1>12 DEF TeardownLeavesReused

LEMMA StopKeeps ==
  ASSUME StreamsInv, NEW r \in Requests, StopStream(r)
  PROVE  StreamsInv'
  <1> USE DEF StreamsInv, connVars, StopStream
  <1>1. table[r] \in Tasks
    BY DEF StreamsTypeOK, Tracked, Tasks, NoTask
  <1>2. /\ table' \in [Requests -> 0 .. Len(req)]
        /\ Tracked' \subseteq Tracked
    BY DEF StreamsTypeOK, Tracked, NoTask
  <1>3. IsFiniteSet(Tracked') /\ Cardinality(Tracked') <= MaxStreams
    BY <1>2, TableShrinks
  <1>4. StreamsTypeOK'
    BY <1>1, <1>2, <1>3 DEF StreamsTypeOK
  <1>5. \A u \in Tasks : Live(u)' => Live(u) /\ u # table[r]
    BY DEF Live
  <1>6. LiveIsTracked'
    <2> SUFFICES ASSUME NEW u \in Tasks, Live(u)'
                 PROVE  table'[req[u]] = u \/ req[u] \in reused
      BY DEF LiveIsTracked
    <2>1. Live(u) /\ u # table[r]
      BY <1>5
    <2>2. CASE req[u] = r
      BY <2>1, <2>2 DEF LiveIsTracked
    <2>3. CASE req[u] # r
      BY <2>1, <2>3 DEF LiveIsTracked, StreamsTypeOK
    <2> QED
      BY <2>2, <2>3
  <1> QED
    BY <1>3, <1>4, <1>5, <1>6 DEF NoProcessForgotten, TasksHaveRequests, ProcessFollows,
       OverlapIsReuse, TeardownLeavesReused, EndedIsQuiet
--------------------------------------------------------------------------------
(* The tasks.  A move of a task changes what may be sent only for the      *)
(* worse: nothing becomes live, and what is said of its request is said    *)
(* when the task is not live any more.                                     *)
Move(t, s) ==
    /\ state[t] \in {"created", "spawning", "unspawning", "reading", "winding"}
    /\ s \in {"spawning", "reading"} => Live(t) /\ cancelling' = cancelling
    /\ s = "winding" => proc'[t] = "over"
    /\ s = "done" => proc'[t] # "running"
    /\ proc' \in [Tasks -> ProcStates] /\ \A u \in Tasks \ {t} : proc'[u] = proc[u]
    /\ cancelling' = cancelling \/ cancelling' = cancelling \ {t}
    /\ ended' = ended \/ (s = "done" /\ ended' = ended \cup {req[t]})
    /\ Becomes(t, s) /\ StreamFrame

LEMMA MoveKeeps ==
  ASSUME StreamsInv, NEW t \in Tasks,
         NEW s \in {"spawning", "unspawning", "reading", "winding", "done"}, Move(t, s)
  PROVE  StreamsInv'
  <1> USE DEF StreamsInv, Move
  <1>1. /\ state' = [state EXCEPT ![t] = s]
        /\ UNCHANGED <<conn, up, losses, gathering, table, req, reused>>
    BY DEF Becomes, StreamFrame, connVars
  <1>2. t \in 1 .. Len(req) /\ req[t] \in Requests
    BY DEF TasksHaveRequests, StreamsTypeOK
  <1>3. Tracked' = Tracked
    BY <1>1 DEF Tracked
  <1>4. StreamsTypeOK'
    BY <1>1, <1>2, <1>3 DEF StreamsTypeOK, StreamStates
  <1>5. \A u \in Tasks : Live(u)' => Live(u) /\ (u = t => s # "done")
    BY <1>1 DEF Live, StreamsTypeOK
  <1>6. OverlapIsReuse'
    <2> SUFFICES ASSUME NEW o \in 1 .. Len(req), NEW u \in 1 .. Len(req), o < u,
                        req[o] = req[u], state'[o] # "gone"
                 PROVE  req[u] \in reused
      BY <1>1 DEF OverlapIsReuse
    <2>1. o \in Tasks /\ state[o] # "gone"
      BY <1>1 DEF StreamsTypeOK, Tasks
    <2> QED
      BY <2>1 DEF OverlapIsReuse
  <1>7. EndedIsQuiet'
    <2> SUFFICES ASSUME NEW u \in Tasks, Live(u)', req[u] \in ended'
                 PROVE  req[u] \in reused
      BY <1>1 DEF EndedIsQuiet
    <2>1. Live(u) /\ u \in 1 .. Len(req)
      BY <1>5 DEF Live, TasksHaveRequests
    <2>2. CASE req[u] \in ended
      BY <2>1, <2>2 DEF EndedIsQuiet
    <2>3. CASE s = "done" /\ req[u] = req[t]
      <3>1. u # t /\ state[u] # "gone" /\ state[t] # "gone"
        BY <2>1, <2>3, <1>5 DEF Live
      <3>2. u < t \/ t < u
        BY <3>1, <2>1, <1>2
      <3> QED
        BY <3>1, <3>2, <2>1, <2>3, <1>2 DEF OverlapIsReuse
    <2> QED
      BY <2>2, <2>3
  <1>8. NoProcessForgotten' /\ ProcessFollows' /\ TasksHaveRequests'
    BY <1>1, <1>2 DEF NoProcessForgotten, ProcessFollows, TasksHaveRequests, StreamsTypeOK
  <1>9. LiveIsTracked' /\ TeardownLeavesReused'
    BY <1>1, <1>5 DEF LiveIsTracked, TeardownLeavesReused
  <1> QED
    BY <1>3, <1>4, <1>6, <1>7, <1>8, <1>9

LEMMA StreamStartsKeeps ==
  ASSUME StreamsInv, NEW t \in Tasks, StreamStarts(t)
  PROVE  StreamsInv'
  <1>1. state[t] = "created" /\ t \notin cancelling /\ cancelling' = cancelling /\ StreamFrame
    BY DEF StreamStarts
  <1>2. proc \in [Tasks -> ProcStates] /\ proc[t] = "none"
    BY <1>1 DEF StreamsInv, StreamsTypeOK, ProcessFollows
  <1>3. CASE Becomes(t, "spawning") /\ proc' = [proc EXCEPT ![t] = "running"] /\ ended' = ended
    <2>1. Move(t, "spawning")
      BY <1>1, <1>2, <1>3 DEF Move, Live, ProcStates
    <2> QED
      BY <2>1, MoveKeeps
  <1>4. CASE Becomes(t, "done") /\ SayEnded(t) /\ proc' = proc
    <2>1. ended' = ended \/ ended' = ended \cup {req[t]}
      BY <1>4 DEF SayEnded
    <2>2. Move(t, "done")
      BY <1>1, <1>2, <1>4, <2>1 DEF Move
    <2> QED
      BY <2>2, MoveKeeps
  <1> QED
    BY <1>3, <1>4 DEF StreamStarts

(* The spawn returns, or is cancelled.                                     *)
LEMMA SpawningKeeps ==
  ASSUME StreamsInv, NEW t \in Tasks, Spawned(t) \/ SpawnCancelled(t)
  PROVE  StreamsInv'
  <1>1. state[t] = "spawning" /\ StreamFrame /\ proc \in [Tasks -> ProcStates]
    BY DEF Spawned, SpawnCancelled, StreamsInv, StreamsTypeOK
  <1>2. CASE Spawned(t)
    <2>1. Move(t, "reading")
      BY <1>1, <1>2 DEF Spawned, Move, Live
    <2> QED
      BY <2>1, MoveKeeps
  <1>3. CASE SpawnCancelled(t)
    <2>1. /\ cancelling' = cancelling \ {t}
          /\ SpawnKilled(t) \/ SpawnKillDenied(t)
      BY <1>3 DEF SpawnCancelled
    <2>2. CASE SpawnKilled(t)
      <3>1. Move(t, "unspawning")
        BY <1>1, <2>1, <2>2 DEF SpawnKilled, Move, ProcStates
      <3> QED
        BY <3>1, MoveKeeps
    <2>3. CASE SpawnKillDenied(t)
      <3>1. proc' = [proc EXCEPT ![t] = "refused"]
        BY <2>3 DEF SpawnKillDenied
      <3>2. CASE Becomes(t, "unspawning") /\ UNCHANGED ended
        <4>1. Move(t, "unspawning")
          BY <1>1, <2>1, <3>1, <3>2 DEF Move, ProcStates
        <4> QED
          BY <4>1, MoveKeeps
      <3>3. CASE Becomes(t, "done") /\ SayEnded(t)
        <4>1. Move(t, "done")
          BY <1>1, <2>1, <3>1, <3>3 DEF Move, SayEnded, ProcStates
        <4> QED
          BY <4>1, MoveKeeps
      <3> QED
        BY <2>3, <3>2, <3>3 DEF SpawnKillDenied
    <2> QED
      BY <2>1, <2>2, <2>3
  <1> QED
    BY <1>2, <1>3

(* ReadingEnds and ReadingCancelled: `finally` is entered.                 *)
LEMMA ReadingKeeps ==
  ASSUME StreamsInv, NEW t \in Tasks, ReadingEnds(t) \/ ReadingCancelled(t)
  PROVE  StreamsInv'
  <1>1. /\ state[t] = "reading" /\ StreamFrame
        /\ cancelling' = cancelling \/ cancelling' = cancelling \ {t}
        /\ Terminates(t) \/ TerminateDenied(t)
    BY DEF ReadingEnds, ReadingCancelled
  <1>2. proc \in [Tasks -> ProcStates]
    BY DEF StreamsInv, StreamsTypeOK
  <1>3. CASE Terminates(t)
    <2>1. Becomes(t, "winding") /\ proc' = [proc EXCEPT ![t] = "over"] /\ ended' = ended
      BY <1>3 DEF Terminates
    <2>2. Move(t, "winding")
      BY <1>1, <1>2, <2>1 DEF Move, ProcStates
    <2> QED
      BY <2>2, MoveKeeps
  <1>4. CASE TerminateDenied(t)
    <2>1. Becomes(t, "done") /\ proc' = [proc EXCEPT ![t] = "refused"] /\ ended' = ended
      BY <1>4 DEF TerminateDenied
    <2>2. Move(t, "done")
      BY <1>1, <1>2, <2>1 DEF Move, ProcStates
    <2> QED
      BY <2>2, MoveKeeps
  <1> QED
    BY <1>1, <1>3, <1>4

(* WindingEnds, UnspawnEnds and CutShort: the task is done.                *)
LEMMA DoneKeeps ==
  ASSUME StreamsInv, NEW t \in Tasks, WindingEnds(t) \/ UnspawnEnds(t) \/ CutShort(t)
  PROVE  StreamsInv'
  <1>1. /\ \/ state[t] \in {"created", "winding"}
           \/ state[t] = "unspawning" /\ proc[t] = "over"
        /\ StreamFrame /\ Becomes(t, "done") /\ proc' = proc
        /\ cancelling' = cancelling \/ cancelling' = cancelling \ {t}
        /\ ended' = ended \/ ended' = ended \cup {req[t]}
    BY DEF WindingEnds, UnspawnEnds, CutShort, SayEnded
  <1>2. proc \in [Tasks -> ProcStates] /\ proc[t] \in {"none", "over"}
    BY <1>1 DEF StreamsInv, StreamsTypeOK, ProcessFollows
  <1>3. Move(t, "done")
    BY <1>1, <1>2 DEF Move
  <1> QED
    BY <1>3, MoveKeeps

(* The callback may pop the entry of a later task of the same id: the id   *)
(* was reused then.                                                        *)
LEMMA CallbackKeeps ==
  ASSUME StreamsInv, NEW t \in Tasks, Callback(t)
  PROVE  StreamsInv'
  <1> USE DEF StreamsInv
  <1>1. /\ state[t] = "done" /\ state' = [state EXCEPT ![t] = "gone"]
        /\ table' = [table EXCEPT ![req[t]] = NoTask]
        /\ UNCHANGED <<conn, up, losses, gathering, req, proc, cancelling, ended, reused>>
    BY DEF Callback, Becomes, connVars
  <1>2. t \in 1 .. Len(req) /\ req[t] \in Requests
    BY <1>1 DEF TasksHaveRequests, StreamsTypeOK
  <1>3. Tracked' \subseteq Tracked /\ table' \in [Requests -> 0 .. Len(req)]
    BY <1>1, <1>2 DEF Tracked, StreamsTypeOK, NoTask
  <1>4. IsFiniteSet(Tracked') /\ Cardinality(Tracked') <= MaxStreams
    BY <1>3, TableShrinks
  <1>5. StreamsTypeOK'
    BY <1>1, <1>3, <1>4 DEF StreamsTypeOK, StreamStates
  <1>6. \A u \in Tasks : Live(u)' => Live(u) /\ u # t
    BY <1>1 DEF Live, StreamsTypeOK
  <1>7. LiveIsTracked'
    <2> SUFFICES ASSUME NEW u \in Tasks, Live(u)'
                 PROVE  table'[req[u]] = u \/ req[u] \in reused
      BY <1>1 DEF LiveIsTracked
    <2>1. Live(u) /\ u # t /\ u \in 1 .. Len(req)
      BY <1>6 DEF Live, TasksHaveRequests
    <2>2. CASE req[u] = req[t]
      <3>1. state[u] # "gone" /\ state[t] # "gone" /\ (u < t \/ t < u)
        BY <2>1, <1>1, <1>2 DEF Live
      <3> QED
        BY <3>1, <2>1, <2>2, <1>2 DEF OverlapIsReuse
    <2>3. CASE req[u] # req[t]
      BY <2>1, <2>3, <1>1 DEF LiveIsTracked, StreamsTypeOK
    <2> QED
      BY <2>2, <2>3
  <1>8. OverlapIsReuse'
    <2> SUFFICES ASSUME NEW o \in 1 .. Len(req), NEW u \in 1 .. Len(req), o < u,
                        req[o] = req[u], state'[o] # "gone"
                 PROVE  req[u] \in reused
      BY <1>1 DEF OverlapIsReuse
    <2>1. o \in Tasks /\ state[o] # "gone"
      BY <1>1 DEF StreamsTypeOK, Tasks
    <2> QED
      BY <2>1 DEF OverlapIsReuse
  <1>9. EndedIsQuiet' /\ TeardownLeavesReused'
    BY <1>1, <1>6 DEF EndedIsQuiet, TeardownLeavesReused
  <1>10. NoProcessForgotten' /\ ProcessFollows' /\ TasksHaveRequests'
    BY <1>1, <1>2 DEF NoProcessForgotten, ProcessFollows, TasksHaveRequests, StreamsTypeOK
  <1> QED
    BY <1>4, <1>5, <1>7, <1>8, <1>9, <1>10

LEMMA ExitKeeps ==
  ASSUME StreamsInv, NEW t \in Tasks, ProcessExits(t)
  PROVE  StreamsInv'
  <1> USE DEF StreamsInv
  <1>1. /\ proc[t] \in {"running", "refused"} /\ proc' = [proc EXCEPT ![t] = "over"]
        /\ UNCHANGED <<connVars, table, req, state, cancelling, ended, reused>>
    BY DEF ProcessExits, StreamFrame
  <1>2. StreamsTypeOK' /\ IsFiniteSet(Tracked')
    BY <1>1 DEF StreamsTypeOK, Tracked, connVars, ProcStates
  <1>3. NoProcessForgotten' /\ ProcessFollows'
    BY <1>1 DEF NoProcessForgotten, ProcessFollows, StreamsTypeOK
  <1> QED
    BY <1>1, <1>2, <1>3 DEF TasksHaveRequests, OverlapIsReuse, LiveIsTracked,
       TeardownLeavesReused, EndedIsQuiet, Live, connVars

--------------------------------------------------------------------------------
(* The connection.                                                         *)

(* CancelStreams: a live task that it does not cancel is not in the table. *)
LEMMA CancelKeeps ==
  ASSUME StreamsInv, CancelStreams
  PROVE  StreamsInv'
  <1> USE DEF StreamsInv
  <1>1. /\ conn' = "gather" /\ gathering' = {table[r] : r \in Tracked}
        /\ cancelling' = cancelling \cup {t \in gathering' : state[t] # "done"}
        /\ UNCHANGED <<up, losses, table, req, state, proc, ended, reused>>
    BY DEF CancelStreams
  <1>2. gathering' \subseteq Tasks
    BY <1>1 DEF StreamsTypeOK, Tracked, Tasks, NoTask
  <1>3. StreamsTypeOK' /\ IsFiniteSet(Tracked')
    BY <1>1, <1>2 DEF StreamsTypeOK, Tracked
  <1>4. \A u \in Tasks : Live(u)' => Live(u)
    BY <1>1 DEF Live
  <1>5. TeardownLeavesReused'
    <2> SUFFICES ASSUME NEW u \in Tasks, Live(u)' PROVE req[u] \in reused
      BY <1>1 DEF TeardownLeavesReused
    <2>1. Live(u) /\ u \notin gathering' /\ u # NoTask /\ req[u] \in Requests
      BY <1>1 DEF Live, Tasks, NoTask, TasksHaveRequests, StreamsTypeOK
    <2>2. table[req[u]] # u
      BY <2>1, <1>1 DEF Tracked
    <2> QED
      BY <2>1, <2>2 DEF LiveIsTracked
  <1> QED
    BY <1>1, <1>3, <1>4, <1>5 DEF NoProcessForgotten, TasksHaveRequests, ProcessFollows,
       OverlapIsReuse, LiveIsTracked, EndedIsQuiet

(* Reconnect: the new table is empty, but so is the old one of live tasks. *)
LEMMA ConnectionKeeps ==
  ASSUME StreamsInv, StreamsGathered \/ SocketDies \/ LeaveConnection \/ Reconnect
  PROVE  StreamsInv'
  <1> USE DEF StreamsInv
  <1>1. /\ UNCHANGED <<req, state, proc, cancelling, ended, reused>>
        /\ conn' \in {"gather", "down"} => conn \in {"gather", "down"}
        /\ conn' \in {"open", "closing", "down"}
        /\ up' \in BOOLEAN /\ losses' \in 0 .. MaxLosses /\ gathering' \subseteq Tasks
    <2>1. up \in BOOLEAN
      BY DEF StreamsTypeOK
    <2>2. up' = up \/ up' = FALSE \/ up' = TRUE
      BY Zenon DEF StreamsGathered, SocketDies, LeaveConnection, Reconnect
    <2>3. up' \in BOOLEAN
      BY <2>1, <2>2
    <2> QED
      BY <2>3 DEF StreamsGathered, SocketDies, LeaveConnection, Reconnect, StreamsTypeOK
  <1>2. table' = table \/ (conn = "down" /\ table' = [r \in Requests |-> NoTask])
    BY DEF StreamsGathered, SocketDies, LeaveConnection, Reconnect
  <1>3. table' \in [Requests -> 0 .. Len(req)] /\ Tracked' \subseteq Tracked
    BY <1>2 DEF StreamsTypeOK, Tracked, NoTask
  <1>4. IsFiniteSet(Tracked') /\ Cardinality(Tracked') <= MaxStreams
    BY <1>3, TableShrinks
  <1>5. StreamsTypeOK'
    BY <1>1, <1>3, <1>4 DEF StreamsTypeOK
  <1>6. LiveIsTracked' /\ TeardownLeavesReused'
    BY <1>1, <1>2 DEF LiveIsTracked, TeardownLeavesReused, Live
  <1> QED
    BY <1>1, <1>4, <1>5, <1>6 DEF NoProcessForgotten, TasksHaveRequests, ProcessFollows,
       OverlapIsReuse, EndedIsQuiet, Live

LEMMA StutterKeeps ==
  ASSUME StreamsInv, UNCHANGED vars
  PROVE  StreamsInv'
  BY DEF vars, connVars, StreamsInv, StreamsTypeOK, Tracked, NoProcessForgotten,
     TasksHaveRequests, ProcessFollows, OverlapIsReuse, LiveIsTracked,
     TeardownLeavesReused, EndedIsQuiet, Live

--------------------------------------------------------------------------------
LEMMA StreamsInvariant == Spec => []StreamsInv
  <1>1. StreamsInv /\ [Next]_vars => StreamsInv'
    <2> SUFFICES ASSUME StreamsInv, [Next]_vars PROVE StreamsInv'
      OBVIOUS
    <2>1. CASE \E r \in Requests : StartRefused(r) \/ StartStream(r) \/ StopStream(r)
      BY <2>1, RefusedKeeps, StartKeeps, StopKeeps
    <2>2. CASE \E t \in Tasks : StreamStep(t) \/ ReadingEnds(t) \/ ProcessExits(t)
      BY <2>2, StreamStartsKeeps, SpawningKeeps, ReadingKeeps, DoneKeeps, CallbackKeeps,
         ExitKeeps DEF StreamStep
    <2>3. CASE TeardownStep \/ SocketDies \/ LeaveConnection \/ Reconnect
      BY <2>3, CancelKeeps, ConnectionKeeps DEF TeardownStep
    <2>4. CASE UNCHANGED vars
      BY <2>4, StutterKeeps
    <2> QED
      BY <2>1, <2>2, <2>3, <2>4 DEF Next, NothingToDo
  <1> QED
    BY <1>1, InitStreams, PTL DEF Spec

(* Every reachable state of the log streams has the types of the model,    *)
(* and log_tasks holds at most MaxStreams entries (realtime.py:246).       *)
THEOREM StreamsTypeCorrect == Spec => []StreamsTypeOK
  <1>1. StreamsInv => StreamsTypeOK
    BY DEF StreamsInv
  <1> QED
    BY <1>1, StreamsInvariant, PTL

(* Whatever way stream_logs ends, its process has exited, was told to, or  *)
(* refused the signal.                                                     *)
THEOREM ProcessesAccounted == Spec => []NoProcessForgotten
  <1>1. StreamsInv => NoProcessForgotten
    BY DEF StreamsInv
  <1> QED
    BY <1>1, StreamsInvariant, PTL

(* A stream that sends is in log_tasks, unless its id was reused before    *)
(* the done callback of an earlier task had run.                           *)
THEOREM ActiveStaysTracked == Spec => []ActiveIsTracked
  <1>1. StreamsInv => ActiveIsTracked
    BY DEF StreamsInv, LiveIsTracked, Live, ActiveIsTracked, Active
  <1> QED
    BY <1>1, StreamsInvariant, PTL

(* Without reuse, no more than MaxStreams streams send at a time: each has *)
(* an entry of its own, those left over from earlier connections included. *)
THEOREM ActiveIsLimited == Spec => []ActiveWithinLimit
  <1>1. StreamsInv => ActiveWithinLimit
    <2> SUFFICES ASSUME StreamsInv, reused = {} PROVE Cardinality(Active) <= MaxStreams
      BY DEF ActiveWithinLimit
    <2> USE DEF StreamsInv
    <2> DEFINE f == [t \in Active |-> req[t]]
    <2>1. \A t \in Active : t \in Tasks /\ req[t] \in Requests /\ table[req[t]] = t
      BY DEF Active, Live, LiveIsTracked, TasksHaveRequests, StreamsTypeOK
    <2>2. f \in Injection(Active, Tracked)
      BY <2>1 DEF Injection, IsInjective, Tracked, Tasks, NoTask
    <2> HIDE DEF f
    <2>3. IsFiniteSet(Active) /\ Cardinality(Active) <= Cardinality(Tracked)
      BY <2>2, FS_Injection
    <2>4. Cardinality(Active) \in Nat /\ Cardinality(Tracked) \in Nat
      BY <2>3, FS_CardinalityType
    <2> QED
      BY <2>3, <2>4 DEF StreamsTypeOK
  <1> QED
    BY <1>1, StreamsInvariant, PTL

(* After LOGS_ENDED nobody sends chunks for the id, unless it is started   *)
(* again or was reused.                                                    *)
THEOREM EndedStaysFinal == Spec => []EndedIsFinal
  <1>1. StreamsInv => EndedIsFinal
    BY DEF StreamsInv, EndedIsQuiet, Live, EndedIsFinal, Active
  <1> QED
    BY <1>1, StreamsInvariant, PTL

===============================================================================
