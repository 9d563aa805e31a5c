---------------------- MODULE CommandRelayRegistryProofs ----------------------
(* The registry of commands agrees with the tasks, and its records are     *)
(* whole lives.  Neither is inductive: a task that ends must find its id   *)
(* in flight and nowhere else, a task may lose its way only by a           *)
(* cancellation, and cancellations come with the stop request only.  With  *)
(* that invariant, CommandRelay implements CommandLifecycle, and a command *)
(* is executed again only when the registry had to forget it.              *)
EXTENDS CommandRelayRefinement, CommandRelayProofs, FiniteSetTheorems, FunctionTheorems

StopsOnly ==
    /\ pc \in {"drain", "gather", "ended", "aborted", "interrupted"} => stopping
    /\ cancelling # {} => stopping

RecordsBegin ==
    \A c \in Commands :
        /\ task[c] = "created" => events[c] = <<>>
        /\ Begun(c) => events[c] = Opening(c)

RegistryInv == StopsOnly /\ RecordsBegin /\ RegistryMatchesTasks /\ WholeRecords

--------------------------------------------------------------------------------
(* Lemmas on the registry.                                                 *)

(* Appending a new element keeps a sequence without repetitions.           *)
LEMMA InjectiveAppend ==
  ASSUME NEW s \in Seq(Commands), NEW c \in Commands, IsInjective(s), c \notin ToSet(s)
  PROVE  /\ IsInjective(Append(s, c))
         /\ ToSet(Append(s, c)) = ToSet(s) \cup {c}
  <1> DEFINE t == Append(s, c)
  <1>1. /\ DOMAIN s = 1 .. Len(s) /\ DOMAIN t = 1 .. Len(s) + 1 /\ Len(s) \in Nat
        /\ t[Len(s) + 1] = c /\ \A i \in 1 .. Len(s) : t[i] = s[i]
    BY AppendProperties, LenProperties
  <1> HIDE DEF t
  <1>2. \A i \in 1 .. Len(s) : t[i] \in ToSet(s)
    BY <1>1 DEF ToSet
  <1>3. ASSUME NEW a \in DOMAIN t, NEW b \in DOMAIN t, t[a] = t[b]
        PROVE  a = b
    <2>1. CASE a \in DOMAIN s /\ b \in DOMAIN s
      BY <1>1, <1>3, <2>1 DEF IsInjective
    <2>2. CASE a = Len(s) + 1 \/ b = Len(s) + 1
      BY <1>1, <1>2, <1>3, <2>2
    <2> QED
      BY <1>1, <2>1, <2>2
  <1>4. IsInjective(t)
    BY <1>3 DEF IsInjective
  <1>5. ToSet(t) = ToSet(s) \cup {c}
    <2>1. \A i \in DOMAIN t : t[i] \in ToSet(s) \cup {c}
      BY <1>1, <1>2
    <2>2. \A i \in DOMAIN s : i \in DOMAIN t /\ s[i] = t[i]
      BY <1>1
    <2>3. Len(s) + 1 \in DOMAIN t
      BY <1>1
    <2> QED
      BY <1>1, <2>1, <2>2, <2>3 DEF ToSet
  <1> QED
    BY <1>4, <1>5 DEF t

(* The oldest entry falls out.                                             *)
LEMMA InjectiveTail ==
  ASSUME NEW s \in Seq(Commands), s # <<>>, IsInjective(s)
  PROVE  /\ IsInjective(Tail(s)) /\ ToSet(Tail(s)) \subseteq ToSet(s)
         /\ Tail(s) \in Seq(Commands)
  <1>1. /\ Tail(s) \in Seq(Commands) /\ Len(Tail(s)) = Len(s) - 1
        /\ \A i \in 1 .. Len(Tail(s)) : Tail(s)[i] = s[i + 1]
    BY HeadTailProperties
  <1>2. DOMAIN s = 1 .. Len(s) /\ DOMAIN Tail(s) = 1 .. Len(s) - 1 /\ Len(s) \in Nat
    BY <1>1, LenProperties
  <1>3. \A i \in DOMAIN Tail(s) : i + 1 \in DOMAIN s /\ Tail(s)[i] = s[i + 1]
    BY <1>1, <1>2
  <1>4. IsInjective(Tail(s))
    <2>1. ASSUME NEW a \in DOMAIN Tail(s), NEW b \in DOMAIN Tail(s),
                 Tail(s)[a] = Tail(s)[b]
          PROVE  a = b
      <3>1. a + 1 = b + 1
        BY <1>3, <2>1 DEF IsInjective
      <3> QED
        BY <1>2, <3>1
    <2> QED
      BY <2>1 DEF IsInjective
  <1>5. ToSet(Tail(s)) \subseteq ToSet(s)
    BY <1>3 DEF ToSet
  <1> QED
    BY <1>1, <1>4, <1>5

(* complete: c becomes a record and leaves the ids in flight.              *)
LEMMA RememberKeeps ==
  ASSUME TypeOK, NEW c \in Commands, IsInjective(completed), c \notin ToSet(completed),
         Remember(c)
  PROVE  /\ IsInjective(completed')
         /\ ToSet(completed') \subseteq ToSet(completed) \cup {c}
         /\ c \in ToSet(completed') /\ inflight' = inflight \ {c}
  <1>1. CASE Len(completed) < MaxCompleted
    BY <1>1, InjectiveAppend DEF Remember, TypeOK
  <1>2. CASE ~(Len(completed) < MaxCompleted)
    <2>1. completed # <<>> /\ completed \in Seq(Commands)
      BY <1>2, MaxCompletedAssumption DEF TypeOK
    <2> DEFINE t == Tail(completed)
    <2>2. IsInjective(t) /\ ToSet(t) \subseteq ToSet(completed) /\ t \in Seq(Commands)
      BY <2>1, InjectiveTail
    <2> HIDE DEF t
    <2>3. IsInjective(Append(t, c)) /\ ToSet(Append(t, c)) = ToSet(t) \cup {c}
      BY <2>2, InjectiveAppend
    <2>4. completed' = Append(t, c) /\ inflight' = inflight \ {c}
      BY <1>2 DEF Remember, t
    <2> QED
      BY <2>2, <2>3, <2>4
  <1> QED
    BY <1>1, <1>2

--------------------------------------------------------------------------------
(* The steps.                                                              *)

LEMMA InitRegistry == Init => RegistryInv
  <1> SUFFICES ASSUME Init PROVE RegistryInv
    OBVIOUS
  <1>1. ToSet(completed) = {} /\ IsInjective(completed) /\ Live = {}
    BY DEF Init, ToSet, IsInjective, Live
  <1> QED
    BY <1>1 DEF Init, RegistryInv, StopsOnly, RecordsBegin, Begun, RegistryMatchesTasks,
       WholeRecords

(* The invariant speaks of nothing but these variables, and a stop request *)
(* weakens it.                                                             *)
LEMMA RegistryUntouched ==
  ASSUME RegistryInv, UNCHANGED <<inflight, completed, events, task>>,
         stopping => stopping', StopsOnly'
  PROVE  RegistryInv'
  BY DEF RegistryInv, RecordsBegin, Begun, RegistryMatchesTasks, WholeRecords, Live

LEMMA RegistryDispatch ==
  ASSUME TypeOK, RegistryInv, NEW c \in Commands, Dispatch(c)
  PROVE  RegistryInv'
  <1>1. pc' \notin {"drain", "gather", "ended", "aborted", "interrupted"}
        /\ UNCHANGED <<stopping, cancelling, completed>>
    BY DEF Dispatch, DispatchReplay, DispatchClaim, DispatchIgnore, Received
  <1>2. StopsOnly'
    BY <1>1 DEF StopsOnly, RegistryInv
  <1>3. CASE DispatchReplay(c) \/ DispatchIgnore(c)
    BY <1>1, <1>2, <1>3, RegistryUntouched DEF DispatchReplay, DispatchIgnore
  <1>4. CASE DispatchClaim(c)
    <2>1. /\ inflight' = inflight \cup {c} /\ c \notin inflight /\ c \notin ToSet(completed)
          /\ task' = [task EXCEPT ![c] = "created"]
          /\ events' = [events EXCEPT ![c] = <<>>]
      BY <1>4 DEF DispatchClaim
    <2>2. /\ \A d \in Commands \ {c} : task'[d] = task[d] /\ events'[d] = events[d]
          /\ task'[c] = "created" /\ events'[c] = <<>>
      BY <2>1 DEF TypeOK
    <2>3. RecordsBegin'
      BY <2>2 DEF RegistryInv, RecordsBegin, Begun
    <2>4. Live' = Live \cup {c}
      BY <2>2 DEF Live
    <2>5. RegistryMatchesTasks'
      BY <1>1, <2>1, <2>4 DEF RegistryInv, RegistryMatchesTasks
    <2>6. ToSet(completed) \subseteq Commands
      BY DEF TypeOK, ToSet
    <2>7. WholeRecords'
      BY <1>1, <2>1, <2>2, <2>6 DEF RegistryInv, WholeRecords
    <2> QED
      BY <1>2, <2>3, <2>5, <2>7 DEF RegistryInv
  <1> QED
    BY <1>3, <1>4 DEF Dispatch

LEMMA RegistryLoop ==
  ASSUME TypeOK, RegistryInv, LoopStep
  PROVE  RegistryInv'
  <1> USE DEF registryVars, taskVars
  <1>1. CASE \/ Connect \/ BackoffOver \/ PauseOver \/ TelemetrySent \/ FlushHead
             \/ FlushDone \/ RecvTimesOut \/ SocketClosed \/ ReplayNext \/ ReplayDone
             \/ Close \/ Gathered
    <2>1. UNCHANGED <<inflight, completed, events, task, stopping, cancelling>>
      BY <1>1 DEF Connect, BackoffOver, PauseOver, TelemetrySent, FlushHead, FlushDone,
         RecvTimesOut, SocketClosed, ReplayNext, ReplayDone, Close, Gathered, Goto
    <2>2. pc' \in {"drain", "gather", "ended", "aborted", "interrupted"} => stopping
      BY <1>1 DEF Connect, BackoffOver, PauseOver, TelemetrySent, FlushHead, FlushDone,
         RecvTimesOut, SocketClosed, ReplayNext, ReplayDone, Close, Gathered, Goto,
         loopVars, RegistryInv, StopsOnly
    <2>3. StopsOnly'
      BY <2>1, <2>2 DEF RegistryInv, StopsOnly
    <2> QED
      BY <2>1, <2>3, RegistryUntouched
  <1>2. CASE CancelTasks
    BY <1>2, RegistryUntouched DEF CancelTasks, RegistryInv, StopsOnly
  <1>3. CASE \E c \in Commands : Dispatch(c)
    BY <1>3, RegistryDispatch
  <1> QED
    BY <1>1, <1>2, <1>3 DEF LoopStep

LEMMA RegistryEnvironment ==
  ASSUME TypeOK, RegistryInv, Environment
  PROVE  RegistryInv'
  <1> USE DEF registryVars, taskVars
  <1>1. UNCHANGED <<inflight, completed, events, task>>
    BY DEF Environment, LinkDies, LinkNoticed, ConnectFails, TelemetryFails, FlushBreaks,
       ReplayBreaks, Stop, Abort, Request, HelperExits
  <1>2. (stopping => stopping') /\ StopsOnly'
    BY DEF Environment, LinkDies, LinkNoticed, ConnectFails, TelemetryFails, FlushBreaks,
       ReplayBreaks, Stop, Abort, Request, HelperExits, loopVars, RegistryInv, StopsOnly
  <1> QED
    BY <1>1, <1>2, RegistryUntouched

(* A task that ends and is completed.  Its record is whole, or the agent   *)
(* stops.                                                                  *)
LEMMA RegistryEnds ==
  ASSUME TypeOK, RegistryInv, NEW c \in Commands, task[c] # "none", Remember(c), Ends(c),
         \A d \in Commands \ {c} : events'[d] = events[d],
         \/ stopping
         \/ \E k \in FinalKinds : events'[c] = Append(Opening(c), Frame(c, k)),
         UNCHANGED <<pc, stopping>>, cancelling' \subseteq cancelling
  PROVE  RegistryInv'
  <1>1. IsInjective(completed) /\ c \in inflight /\ c \notin ToSet(completed)
    BY DEF RegistryInv, RegistryMatchesTasks, Live
  <1>2. /\ IsInjective(completed') /\ ToSet(completed') \subseteq ToSet(completed) \cup {c}
        /\ inflight' = inflight \ {c}
    BY <1>1, RememberKeeps
  <1>3. task'[c] = "none" /\ \A d \in Commands \ {c} : task'[d] = task[d]
    BY DEF Ends, TypeOK
  <1>4. Live' = Live \ {c}
    BY <1>3 DEF Live
  <1>5. RegistryMatchesTasks'
    BY <1>2, <1>4 DEF RegistryInv, RegistryMatchesTasks
  <1>6. RecordsBegin'
    BY <1>3 DEF RegistryInv, RecordsBegin, Begun
  <1>7. WholeRecords'
    <2>1. ToSet(completed) \subseteq Commands
      BY DEF TypeOK, ToSet
    <2> QED
      BY <1>2, <2>1 DEF RegistryInv, WholeRecords
  <1>8. StopsOnly'
    BY DEF RegistryInv, StopsOnly
  <1> QED
    BY <1>5, <1>6, <1>7, <1>8 DEF RegistryInv

(* A task that goes on, before or after its opening frames.                *)
LEMMA RegistryGoesOn ==
  ASSUME TypeOK, RegistryInv, NEW c \in Commands,
         NEW s \in {"spawning", "unspawning", "waiting", "reaping", "stopping"},
         task[c] # "none", task' = [task EXCEPT ![c] = s],
         events' = [events EXCEPT ![c] = Opening(c)],
         UNCHANGED <<pc, stopping, inflight, completed>>, cancelling' \subseteq cancelling
  PROVE  RegistryInv'
  <1>1. /\ task'[c] = s /\ events'[c] = Opening(c)
        /\ \A d \in Commands \ {c} : task'[d] = task[d] /\ events'[d] = events[d]
    BY DEF TypeOK
  <1>2. Live' = Live
    BY <1>1 DEF Live
  <1>3. c \in inflight /\ c \notin ToSet(completed)
    BY DEF RegistryInv, RegistryMatchesTasks, Live
  <1>4. ToSet(completed) \subseteq Commands
    BY DEF TypeOK, ToSet
  <1>5. RegistryMatchesTasks' /\ StopsOnly'
    BY <1>2 DEF RegistryInv, RegistryMatchesTasks, StopsOnly
  <1>6. RecordsBegin'
    BY <1>1 DEF RegistryInv, RecordsBegin, Begun
  <1>7. WholeRecords'
    BY <1>1, <1>3, <1>4 DEF RegistryInv, WholeRecords
  <1> QED
    BY <1>5, <1>6, <1>7 DEF RegistryInv

LEMMA RegistryTask ==
  ASSUME TypeOK, RegistryInv, NEW c \in Commands, TaskStep(c)
  PROVE  RegistryInv'
  <1> USE DEF registryVars
  <1>1. UNCHANGED <<pc, stopping>> /\ cancelling' \subseteq cancelling /\ task[c] # "none"
    BY DEF TaskStep, Start, StartFails, Finish, TimesOut, TimesOutKillFails,
       ReapTimedOut, CancelUnstarted, CancelKills, Spawned, CancelSpawn,
       CancelKillFails, CancelAfterExit, ReapStopped, CancelSpawnKillFails,
       CancelSpawnAgain, CancelAgain, Runs, Interrupted, TaskFrame, loopVars
  <1>2. CASE Start(c)
    BY <1>1, <1>2, RegistryGoesOn DEF Start
  <1>3. CASE StartFails(c)
    <2>1. events' = [events EXCEPT ![c] = Append(Opening(c), Frame(c, "NOT_STARTED"))]
          /\ Remember(c) /\ Ends(c)
      BY <1>3 DEF StartFails
    <2>2. /\ events'[c] = Append(Opening(c), Frame(c, "NOT_STARTED"))
          /\ \A d \in Commands \ {c} : events'[d] = events[d]
      BY <2>1 DEF TypeOK
    <2>3. "NOT_STARTED" \in FinalKinds
      BY DEF FinalKinds
    <2> QED
      BY <1>1, <2>1, <2>2, <2>3, RegistryEnds
  <1>4. CASE TimesOut(c) \/ CancelKills(c) \/ Spawned(c) \/ CancelSpawn(c)
    <2>1. PICK s \in {"spawning", "unspawning", "waiting", "reaping", "stopping"} :
            task' = [task EXCEPT ![c] = s]
      BY <1>4 DEF TimesOut, CancelKills, Spawned, CancelSpawn
    <2>2. events' = events /\ UNCHANGED <<inflight, completed>> /\ Begun(c)
      BY <1>4 DEF TimesOut, CancelKills, Spawned, CancelSpawn, Runs, Interrupted, Begun
    <2>3. events' = [events EXCEPT ![c] = Opening(c)]
      BY <2>2 DEF RegistryInv, RecordsBegin, TypeOK
    <2> QED
      BY <1>1, <2>1, <2>2, <2>3, RegistryGoesOn
  <1>5. CASE Finish(c) \/ TimesOutKillFails(c) \/ ReapTimedOut(c)
             \/ CancelAfterExit(c) \/ ReapStopped(c)
             \/ CancelSpawnKillFails(c) \/ CancelSpawnAgain(c)
    <2>1. PICK k \in FinalKinds : EndsWith(c, k)
      BY <1>5 DEF Finish, TimesOutKillFails, ReapTimedOut, CancelAfterExit, ReapStopped,
         CancelSpawnKillFails, CancelSpawnAgain, FinalKinds
    <2>2. events[c] = Opening(c)
      BY <1>5 DEF Finish, TimesOutKillFails, ReapTimedOut, CancelAfterExit, ReapStopped,
         CancelSpawnKillFails, CancelSpawnAgain, Runs, Interrupted, RegistryInv,
         RecordsBegin, Begun
    <2>3. /\ events'[c] = Append(Opening(c), Frame(c, k))
          /\ \A d \in Commands \ {c} : events'[d] = events[d]
      BY <2>1, <2>2 DEF EndsWith, TypeOK
    <2> QED
      BY <1>1, <2>1, <2>3, RegistryEnds DEF EndsWith
  <1>6. CASE CancelKillFails(c) \/ CancelAgain(c)
    <2>1. stopping /\ EndsSilently(c)
      BY <1>6 DEF CancelKillFails, CancelAgain, Interrupted, RegistryInv, StopsOnly
    <2> QED
      BY <1>1, <2>1, RegistryEnds DEF EndsSilently
  <1>7. CASE CancelUnstarted(c)
    <2>1. stopping /\ UNCHANGED <<inflight, completed, events>> /\ Ends(c)
      BY <1>7 DEF CancelUnstarted, Interrupted, RegistryInv, StopsOnly
    <2>2. task'[c] = "none" /\ \A d \in Commands \ {c} : task'[d] = task[d]
      BY <2>1 DEF Ends, TypeOK
    <2>3. Live' = Live \ {c}
      BY <2>2 DEF Live
    <2> QED
      BY <1>1, <2>1, <2>2, <2>3 DEF RegistryInv, StopsOnly, RecordsBegin, Begun,
         RegistryMatchesTasks, WholeRecords
  <1> QED
    BY <1>2, <1>3, <1>4, <1>5, <1>6, <1>7 DEF TaskStep

LEMMA RegistryInvariant == Spec => []RegistryInv
  <1>1. TypeOK /\ RegistryInv /\ [Next]_vars => RegistryInv'
    <2> SUFFICES ASSUME TypeOK, RegistryInv, [Next]_vars PROVE RegistryInv'
      OBVIOUS
    <2>1. CASE UNCHANGED vars \/ Terminated
      BY <2>1, RegistryUntouched DEF vars, Terminated, RegistryInv, StopsOnly
    <2> QED
      BY <2>1, RegistryLoop, RegistryTask, RegistryEnvironment DEF Next
  <1> QED
    BY <1>1, InitRegistry, TypeCorrect, PTL DEF Spec

--------------------------------------------------------------------------------
(* The registry never forgets a running task and, until the agent is told  *)
(* to stop, never keeps an id in flight that no task will complete.        *)
THEOREM RegistryAgrees == Spec => []RegistryMatchesTasks
  <1>1. RegistryInv => RegistryMatchesTasks
    BY DEF RegistryInv
  <1> QED
    BY <1>1, RegistryInvariant, PTL

(* A duplicate of a completed command is answered with a whole life of it, *)
(* as long as the agent is not told to stop.                               *)
THEOREM RecordsAreWhole == Spec => []WholeRecords
  <1>1. RegistryInv => WholeRecords
    BY DEF RegistryInv
  <1> QED
    BY <1>1, RegistryInvariant, PTL

--------------------------------------------------------------------------------
(* What the final results say of the helper.  A task that is cancelled in  *)
(* the spawn says "stopped" of a helper that runs only if it is cancelled  *)
(* again, and that is for a shutdown to do that has cancelled it before.   *)

(* All commands have been cancelled, those without a first step included.  *)
Leaving == pc \in {"gather", "ended", "aborted", "interrupted"}

Abandoned(c) == task[c] = "unspawning"

SpawnsInv ==
    /\ cancelling # {} => Leaving
    /\ \A c \in Commands : Abandoned(c) => Leaving
    /\ \A c \in cancelling : Abandoned(c) => pc = "interrupted"

LEMMA SpawnsTask ==
  ASSUME TypeOK, SpawnsInv, NEW c \in Commands, TaskStep(c)
  PROVE  SpawnsInv' /\ UNCHANGED pc
  <1>1. UNCHANGED pc /\ cancelling' \subseteq cancelling
    BY DEF TaskStep, Start, StartFails, Finish, TimesOut, TimesOutKillFails,
       ReapTimedOut, CancelUnstarted, CancelKills, Spawned, CancelSpawn,
       CancelKillFails, CancelAfterExit, ReapStopped, CancelSpawnKillFails,
       CancelSpawnAgain, CancelAgain, Runs, Interrupted, TaskFrame, loopVars
  <1>2. CASE CancelSpawn(c)
    <2>1. c \in cancelling /\ c \notin cancelling' /\ task' = [task EXCEPT ![c] = "unspawning"]
      BY <1>2 DEF CancelSpawn, Interrupted
    <2>2. \A d \in Commands \ {c} : task'[d] = task[d]
      BY <2>1 DEF TypeOK
    <2> QED
      BY <1>1, <2>1, <2>2 DEF SpawnsInv, Leaving, Abandoned, TypeOK
  <1>3. CASE ~CancelSpawn(c)
    <2>1. \A d \in Commands : Abandoned(d)' => Abandoned(d)
      BY <1>3 DEF TaskStep, Start, StartFails, Finish, TimesOut, TimesOutKillFails,
         ReapTimedOut, CancelUnstarted, CancelKills, Spawned, CancelKillFails,
         CancelAfterExit, ReapStopped, CancelSpawnKillFails, CancelSpawnAgain, CancelAgain,
         EndsWith, EndsSilently, Ends, Abandoned, TypeOK
    <2> QED
      BY <1>1, <2>1 DEF SpawnsInv, Leaving, TypeOK
  <1> QED
    BY <1>1, <1>2, <1>3

LEMMA SpawnsOthers ==
  ASSUME TypeOK, SpawnsInv, LoopStep \/ Environment
  PROVE  SpawnsInv' /\ (pc = "interrupted" => pc' = "interrupted")
  <1> USE DEF taskVars, loopVars
  <1>1. CASE CancelTasks \/ Abort
    <2>1. /\ cancelling' = Live /\ UNCHANGED task /\ pc # "interrupted" /\ Leaving'
          /\ (Leaving /\ pc' # "interrupted" => pc \in {"ended", "aborted"})
          /\ pc \notin {"ended", "aborted"}
      BY <1>1 DEF CancelTasks, Abort, Finished, Leaving
    <2> QED
      BY <2>1 DEF SpawnsInv, Live, Abandoned
  <1>2. ASSUME NEW c \in Commands, Dispatch(c)
        PROVE  SpawnsInv' /\ pc # "interrupted"
    <2>1. /\ pc = "recv" /\ UNCHANGED cancelling
          /\ UNCHANGED task \/ task' = [task EXCEPT ![c] = "created"]
      BY <1>2 DEF Dispatch, DispatchReplay, DispatchClaim, DispatchIgnore, Received
    <2>2. \A d \in Commands : Abandoned(d)' => Abandoned(d)
      BY <2>1 DEF Abandoned, TypeOK
    <2> QED
      BY <2>1, <2>2 DEF SpawnsInv, Leaving
  <1>3. CASE Gathered
    BY <1>3 DEF Gathered, Goto, SpawnsInv, Leaving, Live, Abandoned, TypeOK
  <1>4. CASE UNCHANGED <<task, cancelling>> /\ (Leaving => UNCHANGED pc)
    BY <1>4 DEF SpawnsInv, Leaving, Abandoned
  <1> QED
    BY <1>1, <1>2, <1>3, <1>4 DEF LoopStep, Environment, Connect, BackoffOver, PauseOver,
       TelemetrySent, FlushHead, FlushDone, RecvTimesOut, SocketClosed, ReplayNext,
       ReplayDone, Close, Goto, LinkDies, LinkNoticed, ConnectFails, TelemetryFails,
       FlushBreaks, ReplayBreaks, Stop, Request, HelperExits, Leaving

Truth(kind, h, p) ==
    /\ kind = "SUCCESS" => h = "ok"
    /\ kind = "FAILED" => h = "bad"
    /\ kind = "TIMED_OUT" => h # "running"
    /\ kind = "STOPPED" /\ h = "running" => p = "interrupted"

(* The last frame of a record that has just been closed, or broken off.    *)
LEMMA LastOfRecord ==
  ASSUME NEW c \in Commands, NEW k \in Kinds
  PROVE  /\ Last(Append(Opening(c), Frame(c, k))).kind = k
         /\ Last(Opening(c)).kind = "RUNNING"
  <1>1. Opening(c) \in Seq(Frames) /\ Frame(c, k) \in Frames
    BY OpeningType, FrameType
  <1>2. Last(Append(Opening(c), Frame(c, k))) = Frame(c, k)
    BY <1>1, AppendProperties DEF Last
  <1>3. Last(Opening(c)) = Frame(c, "RUNNING")
    BY DEF Last, Opening
  <1> QED
    BY <1>2, <1>3 DEF Frame

(* One command changes, and its record is true if the registry holds it.   *)
LEMMA TruthKept ==
  ASSUME TypeOK, ResultsAreTrue, NEW c \in Commands,
         pc = "interrupted" => pc' = "interrupted",
         ToSet(completed') \subseteq ToSet(completed) \cup {c},
         \A d \in Commands \ {c} : events'[d] = events[d] /\ helper'[d] = helper[d],
         c \in ToSet(completed') => Truth(Last(events'[c]).kind, helper'[c], pc')
  PROVE  ResultsAreTrue'
  <1>1. ToSet(completed) \subseteq Commands
    BY DEF TypeOK, ToSet
  <1>2. ASSUME NEW d \in ToSet(completed'), events'[d] # <<>>
        PROVE  Truth(Last(events'[d]).kind, helper'[d], pc')
    <2>1. CASE d = c
      BY <1>2, <2>1
    <2>2. CASE d # c
      <3>1. d \in ToSet(completed) /\ events'[d] = events[d] /\ helper'[d] = helper[d]
        BY <1>1, <1>2, <2>2
      <3> QED
        BY <1>2, <3>1 DEF ResultsAreTrue, Truth
    <2> QED
      BY <2>1, <2>2
  <1> QED
    BY <1>2 DEF ResultsAreTrue, Truth

(* The status of a helper that has exited does not change again.           *)
LEMMA TruthHelperExits ==
  ASSUME TypeOK, ResultsAreTrue, NEW c \in Commands, HelperExits(c)
  PROVE  ResultsAreTrue'
  <1>1. /\ UNCHANGED <<pc, completed, events>>
        /\ helper[c] = "running" /\ helper'[c] # "running"
        /\ \A d \in Commands \ {c} : helper'[d] = helper[d]
    BY DEF HelperExits, TypeOK, registryVars, loopVars
  <1>2. ToSet(completed) \subseteq Commands
    BY DEF TypeOK, ToSet
  <1> QED
    BY <1>1, <1>2 DEF ResultsAreTrue

LEMMA TruthEndsWith ==
  ASSUME TypeOK, RegistryInv, ResultsAreTrue, NEW c \in Commands, NEW k \in FinalKinds,
         Begun(c), EndsWith(c, k), UNCHANGED <<helper, pc>>, Truth(k, helper[c], pc)
  PROVE  ResultsAreTrue'
  <1>1. IsInjective(completed) /\ c \notin ToSet(completed)
    BY DEF RegistryInv, RegistryMatchesTasks, Live, Begun
  <1>2. ToSet(completed') \subseteq ToSet(completed) \cup {c}
    BY <1>1, RememberKeeps DEF EndsWith
  <1>3. events'[c] = Append(Opening(c), Frame(c, k))
        /\ \A d \in Commands \ {c} : events'[d] = events[d]
    BY DEF EndsWith, TypeOK, RegistryInv, RecordsBegin
  <1>4. Last(events'[c]).kind = k
    BY <1>3, LastOfRecord, FinalIsKind
  <1> QED
    BY <1>2, <1>3, <1>4, TruthKept

LEMMA TruthTask ==
  ASSUME TypeOK, RegistryInv, SpawnsInv, ResultsAreTrue, NEW c \in Commands, TaskStep(c)
  PROVE  ResultsAreTrue'
  <1> USE DEF registryVars
  <1>0. IsInjective(completed) /\ (task[c] # "none" => c \notin ToSet(completed))
        /\ UNCHANGED pc
    BY SpawnsTask DEF RegistryInv, RegistryMatchesTasks, Live
  <1>1. CASE Start(c) \/ TimesOut(c) \/ CancelKills(c) \/ Spawned(c) \/ CancelSpawn(c)
             \/ CancelUnstarted(c)
    <2>1. task[c] # "none" /\ UNCHANGED completed
      BY <1>1 DEF Start, TimesOut, CancelKills, Spawned, CancelSpawn, CancelUnstarted,
         Runs, Interrupted
    <2>2. \A d \in Commands \ {c} : events'[d] = events[d] /\ helper'[d] = helper[d]
      BY <1>1 DEF Start, TimesOut, CancelKills, Spawned, CancelSpawn, CancelUnstarted,
         Kill, TypeOK
    <2> QED
      BY <1>0, <2>1, <2>2, TruthKept
  <1>2. CASE StartFails(c)
    <2>1. task[c] # "none" /\ Remember(c)
          /\ events' = [events EXCEPT ![c] = Append(Opening(c), Frame(c, "NOT_STARTED"))]
          /\ helper' = [helper EXCEPT ![c] = "none"]
      BY <1>2 DEF StartFails, Runs
    <2>2. /\ events'[c] = Append(Opening(c), Frame(c, "NOT_STARTED"))
          /\ \A d \in Commands \ {c} : events'[d] = events[d] /\ helper'[d] = helper[d]
      BY <2>1 DEF TypeOK
    <2>3. Last(events'[c]).kind = "NOT_STARTED"
      BY <2>2, LastOfRecord DEF Kinds, FinalKinds
    <2>4. ToSet(completed') \subseteq ToSet(completed) \cup {c}
      BY <1>0, <2>1, RememberKeeps
    <2> QED
      BY <1>0, <2>2, <2>3, <2>4, TruthKept DEF Truth
  <1>3. CASE Finish(c)
    <2> DEFINE k == IF helper[c] = "ok" THEN "SUCCESS" ELSE "FAILED"
    <2>1. k \in FinalKinds /\ EndsWith(c, k) /\ UNCHANGED helper /\ Begun(c)
      BY <1>3 DEF Finish, Runs, Begun, FinalKinds
    <2>2. Truth(k, helper[c], pc)
      BY <1>3 DEF Finish, Truth
    <2> QED
      BY <1>0, <2>1, <2>2, TruthEndsWith
  <1>4. CASE ReapTimedOut(c) \/ CancelAfterExit(c) \/ ReapStopped(c) \/ TimesOutKillFails(c)
             \/ CancelSpawnKillFails(c) \/ CancelSpawnAgain(c)
    <2>0. CancelSpawnAgain(c) => pc = "interrupted"
      BY DEF CancelSpawnAgain, Interrupted, SpawnsInv, Abandoned
    <2>1. PICK k \in FinalKinds : EndsWith(c, k) /\ Truth(k, helper[c], pc)
      BY <1>4, <2>0 DEF ReapTimedOut, CancelAfterExit, ReapStopped, CancelSpawnKillFails,
         CancelSpawnAgain, TimesOutKillFails, Truth, FinalKinds
    <2>2. Begun(c) /\ UNCHANGED helper
      BY <1>4 DEF ReapTimedOut, CancelAfterExit, ReapStopped, CancelSpawnKillFails,
         CancelSpawnAgain, TimesOutKillFails, Runs, Interrupted, Begun
    <2> QED
      BY <1>0, <2>1, <2>2, TruthEndsWith
  <1>5. CASE CancelKillFails(c) \/ CancelAgain(c)
    <2>1. Begun(c) /\ Remember(c) /\ UNCHANGED <<events, helper>>
      BY <1>5 DEF CancelKillFails, CancelAgain, EndsSilently, Interrupted, Begun
    <2>2. events'[c] = Opening(c)
      BY <2>1 DEF RegistryInv, RecordsBegin
    <2>3. Last(events'[c]).kind = "RUNNING"
      BY <2>2, LastOfRecord DEF Kinds
    <2>4. ToSet(completed') \subseteq ToSet(completed) \cup {c}
      BY <1>0, <2>1, RememberKeeps DEF Begun
    <2> QED
      BY <1>0, <2>1, <2>3, <2>4, TruthKept DEF Truth
  <1> QED
    BY <1>1, <1>2, <1>3, <1>4, <1>5 DEF TaskStep

(* The loop and the environment leave records and helpers alone, but for a *)
(* new task, whose id the registry does not hold, and for exits.           *)
LEMMA TruthOthers ==
  ASSUME TypeOK, SpawnsInv, ResultsAreTrue, LoopStep \/ Environment
  PROVE  ResultsAreTrue'
  <1> USE DEF registryVars, taskVars
  <1>0. pc = "interrupted" => pc' = "interrupted"
    BY SpawnsOthers
  <1>1. ASSUME NEW c \in Commands, Dispatch(c)
        PROVE  ResultsAreTrue'
    <2>1. UNCHANGED <<completed, helper>>
      BY <1>1 DEF Dispatch, DispatchReplay, DispatchClaim, DispatchIgnore, Received
    <2>2. UNCHANGED events \/ (c \notin ToSet(completed) /\ events' = [events EXCEPT ![c] = <<>>])
      BY <1>1 DEF Dispatch, DispatchReplay, DispatchClaim, DispatchIgnore
    <2>3. CASE UNCHANGED events
      BY <1>0, <2>1, <2>3 DEF ResultsAreTrue
    <2>4. CASE c \notin ToSet(completed) /\ events' = [events EXCEPT ![c] = <<>>]
      <3>1. \A d \in Commands \ {c} : events'[d] = events[d] /\ helper'[d] = helper[d]
        BY <2>1, <2>4 DEF TypeOK
      <3> QED
        BY <1>0, <2>1, <2>4, <3>1, TruthKept
    <2> QED
      BY <2>2, <2>3, <2>4
  <1>2. CASE \E c \in Commands : HelperExits(c)
    BY <1>2, TruthHelperExits
  <1>3. CASE UNCHANGED <<completed, events, helper>>
    BY <1>0, <1>3 DEF ResultsAreTrue
  <1> QED
    BY <1>1, <1>2, <1>3 DEF LoopStep, Environment, Connect, BackoffOver, PauseOver,
       TelemetrySent, FlushHead, FlushDone, RecvTimesOut, SocketClosed, ReplayNext,
       ReplayDone, Close, CancelTasks, Gathered, Goto, LinkDies, LinkNoticed,
       ConnectFails, TelemetryFails, FlushBreaks, ReplayBreaks, Stop, Abort, Request

(* A recorded SUCCESS or FAILED agrees with the status of the helper; a    *)
(* time-out, or a stop unless the shutdown was cut short, means that it no *)
(* longer runs.                                                            *)
THEOREM ResultsStayTrue == Spec => []ResultsAreTrue
  <1>1. Init => ResultsAreTrue /\ SpawnsInv
    BY DEF Init, ResultsAreTrue, SpawnsInv, Abandoned, ToSet
  <1>2. TypeOK /\ RegistryInv /\ ResultsAreTrue /\ SpawnsInv /\ [Next]_vars
            => ResultsAreTrue' /\ SpawnsInv'
    <2> SUFFICES ASSUME TypeOK, RegistryInv, ResultsAreTrue, SpawnsInv, [Next]_vars
                 PROVE  ResultsAreTrue' /\ SpawnsInv'
      OBVIOUS
    <2>1. CASE UNCHANGED vars \/ Terminated
      BY <2>1 DEF vars, Terminated, ResultsAreTrue, SpawnsInv, Leaving, Abandoned
    <2> QED
      BY <2>1, TruthOthers, TruthTask, SpawnsOthers, SpawnsTask DEF Next
  <1> QED
    BY <1>1, <1>2, TypeCorrect, RegistryInvariant, PTL DEF Spec

--------------------------------------------------------------------------------
(* CommandRelay implements CommandLifecycle: under the mapping of          *)
(* CommandRelayRefinement every step of the agent is a step of the         *)
(* lifecycle or leaves it alone.                                           *)


(* What the registry invariant says of a task that runs.                   *)
LEMMA LiveStage ==
  ASSUME RegistryInv, NEW c \in Commands, task[c] # "none"
  PROVE  c \in inflight /\ c \notin ToSet(completed)
  BY DEF RegistryInv, RegistryMatchesTasks, Live

LEMMA BegunIsOpen ==
  ASSUME RegistryInv, NEW c \in Commands, Begun(c)
  PROVE  stageOf[c] = "open"
  <1>1. events[c] # <<>>
    BY DEF RegistryInv, RecordsBegin, Opening
  <1>2. c \in inflight /\ c \notin ToSet(completed)
    BY LiveStage DEF Begun
  <1> QED
    BY <1>1, <1>2 DEF stageOf

LEMMA CreatedIsAccepted ==
  ASSUME RegistryInv, NEW c \in Commands, task[c] = "created"
  PROVE  stageOf[c] = "accepted"
  <1>1. events[c] = <<>>
    BY DEF RegistryInv, RecordsBegin
  <1>2. c \in inflight /\ c \notin ToSet(completed)
    BY LiveStage
  <1> QED
    BY <1>1, <1>2 DEF stageOf

(* complete closes the life of c and forgets what falls out.               *)
LEMMA RememberCloses ==
  ASSUME TypeOK, RegistryInv, NEW c \in Commands, task[c] # "none", Remember(c),
         \A d \in Commands \ {c} : events'[d] = events[d]
  PROVE  Lifecycle!Closed(c)
  <1> DEFINE forgotten == ToSet(completed) \ ToSet(completed')
  <1>1. c \in inflight /\ c \notin ToSet(completed)
    BY LiveStage
  <1>2. /\ ToSet(completed') \subseteq ToSet(completed) \cup {c}
        /\ c \in ToSet(completed') /\ inflight' = inflight \ {c}
    BY <1>1, RememberKeeps DEF RegistryInv, RegistryMatchesTasks
  <1>3. inflight \cap ToSet(completed) = {} /\ ToSet(completed) \subseteq Commands
    BY DEF RegistryInv, RegistryMatchesTasks, TypeOK, ToSet
  <1>4. forgotten \in SUBSET {d \in Commands : stageOf[d] = "closed"}
    BY <1>3 DEF stageOf
  <1>5. ASSUME NEW d \in Commands
        PROVE  stageOf'[d] = IF d = c THEN "closed"
                             ELSE IF d \in forgotten THEN "unknown" ELSE stageOf[d]
    <2>1. CASE d = c
      BY <1>2, <2>1 DEF stageOf
    <2>2. CASE d # c /\ d \in forgotten
      <3>1. d \notin ToSet(completed') /\ d \notin inflight'
        BY <1>2, <1>3, <2>2
      <3> QED
        BY <2>2, <3>1 DEF stageOf
    <2>3. CASE d # c /\ d \notin forgotten
      <3>1. /\ d \in ToSet(completed') <=> d \in ToSet(completed)
            /\ d \in inflight' <=> d \in inflight
            /\ events'[d] = events[d]
        BY <1>2, <2>3
      <3> QED
        BY <2>3, <3>1 DEF stageOf
    <2> QED
      BY <2>1, <2>2, <2>3
  <1>6. stageOf' = [d \in Commands |-> IF d = c THEN "closed"
                                       ELSE IF d \in forgotten THEN "unknown" ELSE stageOf[d]]
    BY <1>5 DEF stageOf
  <1> QED
    BY <1>4, <1>6 DEF Lifecycle!Closed

--------------------------------------------------------------------------------
(* The steps.                                                              *)

(* What leaves the registry, the records and the queues alone.             *)
LEMMA LifecycleUntouched ==
  ASSUME UNCHANGED <<inflight, completed, events, log, flushed, stopping>>
  PROVE  UNCHANGED Lifecycle!vars
  BY DEF Lifecycle!vars, stageOf

LEMMA FlushHands ==
  ASSUME TypeOK, NoFrameLost, FlushHead
  PROVE  Lifecycle!Hand
  <1>1. outbox # <<>> /\ flushed' = Append(flushed, Head(outbox))
        /\ UNCHANGED <<inflight, completed, events, log, stopping>>
    BY DEF FlushHead, registryVars, taskVars
  <1>2. Len(log) = Len(flushed) + Len(outbox) /\ Len(outbox) \in Nat \ {0}
        /\ Len(flushed) \in Nat
    BY <1>1, ConcatProperties, EmptySeq, LenProperties DEF NoFrameLost, TypeOK
  <1>3. Len(flushed') = Len(flushed) + 1
    BY <1>1, AppendProperties, HeadTailProperties DEF TypeOK
  <1>4. UNCHANGED stageOf
    BY <1>1 DEF stageOf
  <1> QED
    BY <1>1, <1>2, <1>3, <1>4 DEF Lifecycle!Hand

LEMMA ClaimAccepts ==
  ASSUME TypeOK, NEW c \in Commands, DispatchClaim(c)
  PROVE  Lifecycle!Accept(c)
  <1>1. /\ inflight' = inflight \cup {c} /\ c \notin inflight /\ c \notin ToSet(completed)
        /\ events' = [events EXCEPT ![c] = <<>>]
        /\ UNCHANGED <<completed, log, flushed, stopping>>
    BY DEF DispatchClaim, Received, queueVars
  <1>2. events'[c] = <<>> /\ \A d \in Commands \ {c} : events'[d] = events[d]
    BY <1>1 DEF TypeOK
  <1>3. stageOf[c] = "unknown"
    BY <1>1 DEF stageOf
  <1>4. stageOf' = [stageOf EXCEPT ![c] = "accepted"]
    BY <1>1, <1>2 DEF stageOf
  <1> QED
    BY <1>1, <1>3, <1>4 DEF Lifecycle!Accept

LEMMA StartBegins ==
  ASSUME TypeOK, RegistryInv, NEW c \in Commands, Start(c)
  PROVE  Lifecycle!Begin(c)
  <1>1. /\ task[c] = "created" /\ log' = log \o Opening(c)
        /\ events' = [events EXCEPT ![c] = Opening(c)]
        /\ UNCHANGED <<inflight, completed, flushed, stopping>>
    BY DEF Start, Runs, EmitAll, registryVars, TaskFrame
  <1>2. stageOf[c] = "accepted" /\ c \in inflight /\ c \notin ToSet(completed)
    BY <1>1, CreatedIsAccepted, LiveStage
  <1>3. events'[c] # <<>> /\ \A d \in Commands \ {c} : events'[d] = events[d]
    BY <1>1 DEF TypeOK, Opening
  <1>4. stageOf' = [stageOf EXCEPT ![c] = "open"]
    BY <1>1, <1>2, <1>3 DEF stageOf
  <1> QED
    BY <1>1, <1>2, <1>4 DEF Lifecycle!Begin, Lifecycle!Opening, Opening, Lifecycle!Frame, Frame

LEMMA StartFailsBeginsAndEnds ==
  ASSUME TypeOK, RegistryInv, NEW c \in Commands, StartFails(c)
  PROVE  Lifecycle!BeginAndEnd(c)
  <1> DEFINE fs == Append(Opening(c), Frame(c, "NOT_STARTED"))
  <1>1. /\ task[c] = "created" /\ log' = log \o fs
        /\ events' = [events EXCEPT ![c] = fs]
        /\ Remember(c) /\ UNCHANGED <<flushed, stopping>>
    BY DEF StartFails, Runs, EmitAll, TaskFrame
  <1>2. \A d \in Commands \ {c} : events'[d] = events[d]
    BY <1>1 DEF TypeOK
  <1>3. stageOf[c] = "accepted" /\ Lifecycle!Closed(c)
    BY <1>1, <1>2, CreatedIsAccepted, RememberCloses
  <1>4. "NOT_STARTED" \in Lifecycle!FinalKinds
    BY DEF Lifecycle!FinalKinds
  <1> QED
    BY <1>1, <1>3, <1>4 DEF Lifecycle!BeginAndEnd, Lifecycle!Opening, Opening,
       Lifecycle!Frame, Frame

LEMMA EndsWithEnds ==
  ASSUME TypeOK, RegistryInv, NEW c \in Commands, NEW k \in FinalKinds, Begun(c),
         EndsWith(c, k), UNCHANGED stopping
  PROVE  Lifecycle!End(c)
  <1>1. /\ log' = log \o <<Frame(c, k)>> /\ UNCHANGED flushed
        /\ events' = [events EXCEPT ![c] = Append(@, Frame(c, k))] /\ Remember(c)
    BY DEF EndsWith, EmitAll
  <1>2. \A d \in Commands \ {c} : events'[d] = events[d]
    BY <1>1 DEF TypeOK
  <1>3. stageOf[c] = "open" /\ Lifecycle!Closed(c)
    BY <1>1, <1>2, BegunIsOpen, RememberCloses DEF Begun
  <1>4. log' = Append(log, Frame(c, k))
    BY <1>1, FrameType, FinalIsKind, AppendIsConcat DEF TypeOK
  <1>5. k \in Lifecycle!FinalKinds
    BY DEF Lifecycle!FinalKinds, FinalKinds
  <1> QED
    BY <1>1, <1>3, <1>4, <1>5 DEF Lifecycle!End, Lifecycle!Frame, Frame

LEMMA EndsSilentlyBreaksOff ==
  ASSUME TypeOK, RegistryInv, NEW c \in Commands, Begun(c), EndsSilently(c), stopping,
         UNCHANGED stopping
  PROVE  Lifecycle!BreakOff(c)
  <1>1. UNCHANGED <<log, flushed, events>> /\ Remember(c)
    BY DEF EndsSilently, queueVars
  <1>2. stageOf[c] = "open" /\ Lifecycle!Closed(c)
    BY <1>1, BegunIsOpen, RememberCloses DEF Begun
  <1> QED
    BY <1>1, <1>2 DEF Lifecycle!BreakOff

LEMMA TaskLives ==
  ASSUME TypeOK, RegistryInv, NEW c \in Commands, TaskStep(c)
  PROVE  [Lifecycle!Next]_(Lifecycle!vars)
  <1>0. UNCHANGED stopping
    BY DEF TaskStep, Start, StartFails, Finish, TimesOut, TimesOutKillFails,
       ReapTimedOut, CancelUnstarted, CancelKills, Spawned, CancelSpawn,
       CancelKillFails, CancelAfterExit, ReapStopped, CancelSpawnKillFails,
       CancelSpawnAgain, CancelAgain, TaskFrame
  <1>1. CASE Start(c)
    BY <1>1, StartBegins DEF Lifecycle!Next
  <1>2. CASE StartFails(c)
    BY <1>2, StartFailsBeginsAndEnds DEF Lifecycle!Next
  <1>3. CASE Finish(c) \/ TimesOutKillFails(c) \/ ReapTimedOut(c)
             \/ CancelAfterExit(c) \/ ReapStopped(c)
             \/ CancelSpawnKillFails(c) \/ CancelSpawnAgain(c)
    <2>1. PICK k \in FinalKinds : EndsWith(c, k)
      BY <1>3 DEF Finish, TimesOutKillFails, ReapTimedOut, CancelAfterExit, ReapStopped,
         CancelSpawnKillFails, CancelSpawnAgain, FinalKinds
    <2>2. Begun(c)
      BY <1>3 DEF Finish, TimesOutKillFails, ReapTimedOut, CancelAfterExit, ReapStopped,
         CancelSpawnKillFails, CancelSpawnAgain, Runs, Interrupted, Begun
    <2> QED
      BY <1>0, <2>1, <2>2, EndsWithEnds DEF Lifecycle!Next
  <1>4. CASE CancelKillFails(c) \/ CancelAgain(c)
    <2>1. Begun(c) /\ EndsSilently(c) /\ stopping
      BY <1>4 DEF CancelKillFails, CancelAgain, Interrupted, Begun, RegistryInv, StopsOnly
    <2> QED
      BY <1>0, <2>1, EndsSilentlyBreaksOff DEF Lifecycle!Next
  <1>5. CASE TimesOut(c) \/ CancelKills(c) \/ Spawned(c) \/ CancelSpawn(c)
             \/ CancelUnstarted(c)
    BY <1>0, <1>5, LifecycleUntouched DEF TimesOut, CancelKills, Spawned, CancelSpawn,
       CancelUnstarted, registryVars, queueVars
  <1> QED
    BY <1>1, <1>2, <1>3, <1>4, <1>5 DEF TaskStep

LEMMA OthersLive ==
  ASSUME TypeOK, NoFrameLost, LoopStep \/ Environment
  PROVE  [Lifecycle!Next]_(Lifecycle!vars)
  <1> USE DEF registryVars, taskVars, queueVars
  <1>1. CASE FlushHead
    BY <1>1, FlushHands DEF Lifecycle!Next
  <1>2. ASSUME NEW c \in Commands, Dispatch(c)
        PROVE  [Lifecycle!Next]_(Lifecycle!vars)
    <2>1. CASE DispatchClaim(c)
      BY <2>1, ClaimAccepts DEF Lifecycle!Next
    <2>2. CASE DispatchReplay(c) \/ DispatchIgnore(c)
      BY <2>2, LifecycleUntouched DEF DispatchReplay, DispatchIgnore, Received
    <2> QED
      BY <1>2, <2>1, <2>2 DEF Dispatch
  <1>3. CASE Stop
    <2>1. Lifecycle!EndOrdered
      BY <1>3 DEF Stop, Lifecycle!EndOrdered, stageOf
    <2> QED
      BY <2>1 DEF Lifecycle!Next
  <1>4. CASE UNCHANGED <<inflight, completed, events, log, flushed, stopping>>
    BY <1>4, LifecycleUntouched
  <1> QED
    BY <1>1, <1>2, <1>3, <1>4 DEF LoopStep, Environment, Connect, BackoffOver, PauseOver,
       TelemetrySent, FlushDone, RecvTimesOut, SocketClosed, ReplayNext, ReplayDone,
       Close, CancelTasks, Gathered, Goto, LinkDies, LinkNoticed, ConnectFails,
       TelemetryFails, FlushBreaks, ReplayBreaks, Abort, Request, HelperExits

LEMMA InitLives == Init => Lifecycle!Init
  BY DEF Init, Lifecycle!Init, stageOf, ToSet

(* The agent keeps the promise of CommandLifecycle, for any set of         *)
(* commands, any size of the registry and any number of faults.            *)
THEOREM LifecycleImplemented == Spec => ImplementsLifecycle
  <1>1. TypeOK /\ RegistryInv /\ NoFrameLost /\ [Next]_vars => [Lifecycle!Next]_(Lifecycle!vars)
    <2> SUFFICES ASSUME TypeOK, RegistryInv, NoFrameLost, [Next]_vars
                 PROVE  [Lifecycle!Next]_(Lifecycle!vars)
      OBVIOUS
    <2>1. CASE UNCHANGED vars \/ Terminated
      BY <2>1, LifecycleUntouched DEF vars, Terminated
    <2> QED
      BY <2>1, OthersLive, TaskLives DEF Next
  <1> QED
    BY <1>1, InitLives, TypeCorrect, RegistryInvariant, OutboxLosesNothing, PTL
    DEF Spec, ImplementsLifecycle, Lifecycle!Spec

--------------------------------------------------------------------------------
(* What the registry forgets, and when: a command is executed again only   *)
(* after MaxCompleted others have finished.  The property counts between   *)
(* two positions of the log; the invariant says of every ACK in the log    *)
(* what has finished since, as long as its command may be claimed again.   *)

(* The other commands that finished between two positions of a log.        *)
FinishedIn(s, i, j) ==
    {s[k].cmd : k \in {k \in i .. j : s[k].kind \in FinalKinds /\ s[k].cmd # s[i].cmd}}

CancelledOnce ==
    /\ cancelling # {} => Leaving
    /\ Leaving => \A c \in Commands : task[c] = "created" => c \in cancelling

(* Whatever the registry took up after a command finished after its ACK.   *)
NewerFinished ==
    \A i \in DOMAIN log, p, q \in DOMAIN completed :
        log[i].kind = "ACK" /\ completed[p] = log[i].cmd /\ p < q =>
            completed[q] \in FinishedIn(log, i, Len(log))

(* A command the registry would take for a new one, or already has.        *)
Claimable(c) == c \notin ToSet(completed) /\ (c \notin inflight \/ task[c] = "created")

ForgottenLate ==
    \A i \in DOMAIN log :
        log[i].kind = "ACK" /\ Claimable(log[i].cmd) =>
            Cardinality(FinishedIn(log, i, Len(log))) >= MaxCompleted

ForgetInv ==
    /\ ReexecutedOnlyWhenForgotten
    /\ CancelledOnce
    /\ Leaving \/ (NewerFinished /\ ForgottenLate)

--------------------------------------------------------------------------------
(* Lemmas on logs and on the registry.                                     *)

LEMMA FinishedFinite ==
  ASSUME NEW s, NEW i \in Nat, NEW j \in Nat
  PROVE  IsFiniteSet(FinishedIn(s, i, j))
  <1> DEFINE K == {k \in i .. j : s[k].kind \in FinalKinds /\ s[k].cmd # s[i].cmd}
             f == [k \in K |-> s[k].cmd]
  <1>1. IsFiniteSet(K)
    <2>1. IsFiniteSet(i .. j)
      BY FS_Interval
    <2> QED
      BY <2>1, FS_Subset
  <1>2. f \in Surjection(K, FinishedIn(s, i, j))
    BY DEF Surjection, FinishedIn
  <1> QED
    BY <1>1, <1>2, FS_Surjection

(* A larger finite set has no fewer elements.                              *)
LEMMA AtLeast ==
  ASSUME NEW T, IsFiniteSet(T), NEW S \in SUBSET T, NEW n \in Nat, Cardinality(S) >= n
  PROVE  Cardinality(T) >= n
  <1>1. IsFiniteSet(S) /\ Cardinality(S) <= Cardinality(T)
    BY FS_Subset
  <1>2. Cardinality(S) \in Nat /\ Cardinality(T) \in Nat
    BY <1>1, FS_CardinalityType
  <1> QED
    BY <1>1, <1>2

(* A sequence without repetitions has as many elements as positions.       *)
LEMMA InjectiveCardinality ==
  ASSUME NEW s \in Seq(Commands), IsInjective(s)
  PROVE  IsFiniteSet(ToSet(s)) /\ Cardinality(ToSet(s)) = Len(s)
  <1>1. DOMAIN s = 1 .. Len(s) /\ Len(s) \in Nat
    BY LenProperties
  <1>2. s \in Bijection(1 .. Len(s), ToSet(s))
    <2>1. s \in Surjection(1 .. Len(s), ToSet(s))
      BY <1>1 DEF Surjection, ToSet
    <2>2. s \in Injection(1 .. Len(s), ToSet(s))
      BY <1>1, <2>1 DEF Injection, Surjection, IsInjective
    <2> QED
      BY <2>1, <2>2 DEF Bijection
  <1>3. IsFiniteSet(1 .. Len(s)) /\ Cardinality(1 .. Len(s)) = Len(s)
    BY <1>1, FS_Interval
  <1> QED
    BY <1>2, <1>3, FS_Bijection DEF ExistsBijection

(* What has finished stays so while the log grows.                         *)
LEMMA LogGrows ==
  ASSUME TypeOK, NEW fs \in Seq(Frames), log' = log \o fs
  PROVE  /\ log' \in Seq(Frames) /\ Len(log) \in Nat /\ Len(fs) \in Nat /\ Len(log') = Len(log) + Len(fs)
         /\ DOMAIN log = 1 .. Len(log) /\ DOMAIN log' = 1 .. Len(log') /\ DOMAIN fs = 1 .. Len(fs)
         /\ \A i \in DOMAIN log : log[i] \in Frames
         /\ \A i \in DOMAIN log : log'[i] = log[i]
         /\ \A m \in DOMAIN fs : log'[Len(log) + m] = fs[m] /\ Len(log) + m \in DOMAIN log'
         /\ \A i \in DOMAIN log, j \in DOMAIN log : FinishedIn(log', i, j) = FinishedIn(log, i, j)
         /\ \A i \in DOMAIN log, j \in DOMAIN log' :
                j >= Len(log) => FinishedIn(log, i, Len(log)) \subseteq FinishedIn(log', i, j)
         /\ \A i \in DOMAIN log, m \in DOMAIN fs :
                fs[m].kind \in FinalKinds /\ fs[m].cmd # log[i].cmd =>
                    fs[m].cmd \in FinishedIn(log', i, Len(log'))
  <1>0. log \in Seq(Frames)
    BY DEF TypeOK
  <1>1. /\ log' \in Seq(Frames) /\ Len(log') = Len(log) + Len(fs)
        /\ DOMAIN log = 1 .. Len(log) /\ DOMAIN log' = 1 .. Len(log') /\ DOMAIN fs = 1 .. Len(fs)
        /\ Len(log) \in Nat /\ Len(fs) \in Nat
    BY LenProperties, ConcatProperties, <1>0
  <1>2. \A i \in DOMAIN log : log'[i] = log[i] /\ i \in DOMAIN log'
    BY <1>0, <1>1, ConcatProperties
  <1>3. \A m \in DOMAIN fs : log'[Len(log) + m] = fs[m] /\ Len(log) + m \in DOMAIN log'
    <2> TAKE m \in DOMAIN fs
    <2>1. Len(log) + m \in 1 .. Len(log') /\ Len(log) + m > Len(log) /\ (Len(log) + m) - Len(log) = m
      BY <1>1
    <2> QED
      BY <1>1, <2>1, <1>0, ConcatProperties
  <1>4. ASSUME NEW i \in DOMAIN log, NEW j \in DOMAIN log
        PROVE  FinishedIn(log', i, j) = FinishedIn(log, i, j)
    <2>1. \A k \in i .. j : k \in DOMAIN log /\ log'[k] = log[k]
      BY <1>1, <1>2, <1>4
    <2> QED
      BY <1>2, <1>4, <2>1 DEF FinishedIn
  <1>5. ASSUME NEW i \in DOMAIN log, NEW j \in DOMAIN log', j >= Len(log)
        PROVE  FinishedIn(log, i, Len(log)) \subseteq FinishedIn(log', i, j)
    <2>1. \A k \in i .. Len(log) : k \in i .. j /\ log'[k] = log[k]
      BY <1>1, <1>2, <1>5
    <2> QED
      BY <1>2, <1>5, <2>1 DEF FinishedIn
  <1>6. ASSUME NEW i \in DOMAIN log, NEW m \in DOMAIN fs,
               fs[m].kind \in FinalKinds, fs[m].cmd # log[i].cmd
        PROVE  fs[m].cmd \in FinishedIn(log', i, Len(log'))
    <2>1. Len(log) + m \in i .. Len(log') /\ log'[Len(log) + m] = fs[m] /\ log'[i] = log[i]
      BY <1>1, <1>2, <1>3, <1>6
    <2> QED
      BY <1>6, <2>1 DEF FinishedIn
  <1>7. \A i \in DOMAIN log : log[i] \in Frames
    BY <1>0
  <1> QED
    BY <1>1, <1>2, <1>3, <1>4, <1>5, <1>6, <1>7

(* complete keeps the order of the records, and what it forgets was the    *)
(* oldest of a full registry.                                              *)
LEMMA RememberOrders ==
  ASSUME TypeOK, NEW c \in Commands, IsInjective(completed), c \notin ToSet(completed),
         Remember(c)
  PROVE  /\ \A p, q \in DOMAIN completed' : p < q =>
                \E r \in DOMAIN completed :
                    /\ completed'[p] = completed[r]
                    /\ \/ completed'[q] = c
                       \/ \E u \in DOMAIN completed : r < u /\ completed'[q] = completed[u]
         /\ \A d \in ToSet(completed) : d \notin ToSet(completed') =>
                /\ Cardinality(ToSet(completed')) = MaxCompleted
                /\ \E r \in DOMAIN completed :
                       /\ completed[r] = d
                       /\ \A e \in ToSet(completed') :
                              \/ e = c
                              \/ \E u \in DOMAIN completed : r < u /\ e = completed[u]
  <1>1. /\ completed \in Seq(Commands) /\ DOMAIN completed = 1 .. Len(completed)
        /\ Len(completed) \in Nat /\ Len(completed) <= MaxCompleted
    BY LenProperties DEF TypeOK
  <1>2. CASE Len(completed) < MaxCompleted
    <2> DEFINE t == Append(completed, c)
    <2>1. /\ DOMAIN t = 1 .. Len(completed) + 1 /\ t[Len(completed) + 1] = c
          /\ \A i \in 1 .. Len(completed) : t[i] = completed[i]
      BY <1>1, AppendProperties, LenProperties
    <2>2. ToSet(t) = ToSet(completed) \cup {c}
      BY <1>1, InjectiveAppend
    <2> HIDE DEF t
    <2>3. completed' = t
      BY <1>2 DEF Remember, t
    <2>4. ASSUME NEW p \in DOMAIN t, NEW q \in DOMAIN t, p < q
          PROVE  \E r \in DOMAIN completed :
                    /\ t[p] = completed[r]
                    /\ \/ t[q] = c
                       \/ \E u \in DOMAIN completed : r < u /\ t[q] = completed[u]
      <3>1. p \in DOMAIN completed /\ t[p] = completed[p]
        BY <1>1, <2>1, <2>4
      <3>2. t[q] = c \/ (q \in DOMAIN completed /\ t[q] = completed[q])
        BY <1>1, <2>1, <2>4
      <3> QED
        BY <2>4, <3>1, <3>2
    <2> QED
      BY <2>2, <2>3, <2>4
  <1>3. CASE ~(Len(completed) < MaxCompleted)
    <2> DEFINE l == Tail(completed)
               t == Append(l, c)
    <2>0. Len(completed) = MaxCompleted /\ MaxCompleted \in Nat \ {0}
      <3>1. MaxCompleted \in Nat \ {0}
        BY MaxCompletedAssumption
      <3>2. \A m, n \in Nat : m <= n /\ ~(m < n) => m = n
        OBVIOUS
      <3> QED
        BY <1>1, <1>3, <3>1, <3>2
    <2>1. completed # <<>>
      BY <2>0
    <2>2. /\ l \in Seq(Commands) /\ Len(l) = Len(completed) - 1
          /\ \A i \in 1 .. Len(l) : l[i] = completed[i + 1]
      BY <1>1, <2>1, HeadTailProperties
    <2>3. IsInjective(l) /\ ToSet(l) \subseteq ToSet(completed)
      BY <1>1, <2>1, InjectiveTail
    <2> HIDE DEF l
    <2>4. /\ DOMAIN t = 1 .. Len(l) + 1 /\ t[Len(l) + 1] = c /\ Len(t) = Len(l) + 1
          /\ \A i \in 1 .. Len(l) : t[i] = l[i]
          /\ t \in Seq(Commands)
      BY <2>2, AppendProperties, LenProperties
    <2>5. IsInjective(t) /\ ToSet(t) = ToSet(l) \cup {c}
      BY <2>2, <2>3, InjectiveAppend
    <2> HIDE DEF t
    <2>6. completed' = t
      BY <1>3 DEF Remember, t, l
    <2>7. \A i \in DOMAIN t : t[i] = c \/ (i + 1 \in DOMAIN completed /\ t[i] = completed[i + 1])
      BY <1>1, <2>2, <2>4
    <2>8. ASSUME NEW p \in DOMAIN t, NEW q \in DOMAIN t, p < q
          PROVE  \E r \in DOMAIN completed :
                    /\ t[p] = completed[r]
                    /\ \/ t[q] = c
                       \/ \E u \in DOMAIN completed : r < u /\ t[q] = completed[u]
      <3>1. p + 1 \in DOMAIN completed /\ t[p] = completed[p + 1]
        BY <1>1, <2>2, <2>4, <2>8
      <3>2. p + 1 < q + 1
        BY <2>4, <2>8
      <3> QED
        BY <2>7, <3>1, <3>2
    <2>9. Cardinality(ToSet(t)) = MaxCompleted
      <3>1. Cardinality(ToSet(t)) = Len(t)
        BY <2>4, <2>5, InjectiveCardinality
      <3> QED
        BY <2>0, <2>2, <2>4, <3>1
    <2>10. ASSUME NEW d \in ToSet(completed), d \notin ToSet(t)
           PROVE  \E r \in DOMAIN completed :
                       /\ completed[r] = d
                       /\ \A e \in ToSet(t) :
                              \/ e = c
                              \/ \E u \in DOMAIN completed : r < u /\ e = completed[u]
      <3>1. 1 \in DOMAIN completed
        BY <1>1, <2>0
      <3>2. completed[1] = d
        <4>1. PICK r \in DOMAIN completed : completed[r] = d
          BY <2>10 DEF ToSet
        <4>2. ASSUME r # 1 PROVE FALSE
          <5>1. r - 1 \in 1 .. Len(l) /\ (r - 1) + 1 = r
            BY <1>1, <2>2, <4>2
          <5>2. l[r - 1] = d /\ r - 1 \in DOMAIN l
            BY <2>2, <4>1, <5>1, LenProperties
          <5>3. d \in ToSet(l)
            BY <5>2 DEF ToSet
          <5> QED
            BY <2>5, <2>10, <5>3
        <4> QED
          BY <4>1, <4>2
      <3>3. ASSUME NEW e \in ToSet(t), e # c
            PROVE  \E u \in DOMAIN completed : 1 < u /\ e = completed[u]
        <4>1. PICK i \in DOMAIN t : t[i] = e
          BY DEF ToSet
        <4>2. i + 1 \in DOMAIN completed /\ e = completed[i + 1]
          BY <2>7, <3>3, <4>1
        <4>3. 1 < i + 1
          BY <2>2, <2>4
        <4> QED
          BY <4>2, <4>3
      <3> QED
        BY <3>1, <3>2, <3>3
    <2> QED
      BY <2>6, <2>8, <2>9, <2>10
  <1> QED
    BY <1>2, <1>3

--------------------------------------------------------------------------------
(* The steps.                                                              *)

LEMMA ForgetInit == Init => ForgetInv
  BY DEF Init, ForgetInv, ReexecutedOnlyWhenForgotten, CancelledOnce, NewerFinished,
     ForgottenLate

(* A step that emits nothing and completes nothing.                        *)
LEMMA ForgetUntouched ==
  ASSUME ForgetInv, UNCHANGED <<log, completed>>, CancelledOnce', Leaving => Leaving',
         \A c \in Commands : Claimable(c)' => Claimable(c), TypeOK
  PROVE  ForgetInv'
  <1>0. \A i \in DOMAIN log : log[i] \in Frames
    BY DEF TypeOK
  <1>1. \A i \in DOMAIN log : log[i].cmd \in Commands
    BY <1>0 DEF Frames
  <1>2. ReexecutedOnlyWhenForgotten'
    BY DEF ForgetInv, ReexecutedOnlyWhenForgotten
  <1>3. NewerFinished => NewerFinished'
    BY DEF NewerFinished
  <1>4. ForgottenLate => ForgottenLate'
    BY <1>1 DEF ForgottenLate
  <1> QED
    BY <1>2, <1>3, <1>4 DEF ForgetInv

(* After the cancellation nothing but final results is emitted.            *)
LEMMA ForgetLeft ==
  ASSUME TypeOK, ForgetInv, Leaving', CancelledOnce', NEW fs \in Seq(Frames),
         \A m \in DOMAIN fs : fs[m].kind # "ACK", log' = log \o fs
  PROVE  ForgetInv'
  <1>2. /\ DOMAIN log = 1 .. Len(log) /\ DOMAIN log' = 1 .. Len(log')
        /\ Len(log') = Len(log) + Len(fs) /\ DOMAIN fs = 1 .. Len(fs)
        /\ Len(log) \in Nat /\ Len(fs) \in Nat
        /\ \A i \in DOMAIN log : log'[i] = log[i]
        /\ \A m \in DOMAIN fs : log'[Len(log) + m] = fs[m]
        /\ \A i \in DOMAIN log, j \in DOMAIN log : FinishedIn(log', i, j) = FinishedIn(log, i, j)
    BY LogGrows
  <1>3. ASSUME NEW j \in DOMAIN log', log'[j].kind = "ACK"
        PROVE  j \in DOMAIN log
    <2>1. CASE j > Len(log)
      <3>1. j - Len(log) \in DOMAIN fs /\ Len(log) + (j - Len(log)) = j
        BY <1>2, <2>1
      <3> QED
        BY <1>2, <1>3, <3>1
    <2> QED
      BY <1>2, <2>1
  <1>4. ASSUME NEW i \in DOMAIN log', NEW j \in DOMAIN log',
               i < j, log'[i].kind = "ACK", log'[j] = log'[i]
        PROVE  Cardinality(FinishedIn(log', i, j)) >= MaxCompleted
    <2>1. i \in DOMAIN log /\ j \in DOMAIN log /\ log[i].kind = "ACK" /\ log[j] = log[i]
      BY <1>2, <1>3, <1>4
    <2>2. Cardinality(FinishedIn(log, i, j)) >= MaxCompleted
      BY <1>4, <2>1 DEF ForgetInv, ReexecutedOnlyWhenForgotten, FinishedIn
    <2> QED
      BY <1>2, <2>1, <2>2
  <1>5. ReexecutedOnlyWhenForgotten'
    BY <1>4 DEF ReexecutedOnlyWhenForgotten, FinishedIn
  <1> QED
    BY <1>5 DEF ForgetInv

(* The only ACK a step emits comes first, of a command whose lives so far  *)
(* the registry has forgotten late enough.                                 *)
LEMMA ForgetPairs ==
  ASSUME TypeOK, ForgetInv, NEW fs \in Seq(Frames), log' = log \o fs,
         \A m \in DOMAIN fs : fs[m].kind = "ACK" => m = 1,
         \A i \in DOMAIN log : log[i].kind = "ACK" /\ log[i] = fs[1] =>
             Cardinality(FinishedIn(log, i, Len(log))) >= MaxCompleted
  PROVE  ReexecutedOnlyWhenForgotten'
  <1>1. /\ DOMAIN log = 1 .. Len(log) /\ DOMAIN log' = 1 .. Len(log')
        /\ Len(log') = Len(log) + Len(fs) /\ DOMAIN fs = 1 .. Len(fs)
        /\ Len(log) \in Nat /\ Len(fs) \in Nat
        /\ \A i \in DOMAIN log : log'[i] = log[i]
        /\ \A m \in DOMAIN fs : log'[Len(log) + m] = fs[m]
        /\ \A i \in DOMAIN log, j \in DOMAIN log : FinishedIn(log', i, j) = FinishedIn(log, i, j)
        /\ \A i \in DOMAIN log, j \in DOMAIN log' :
               j >= Len(log) => FinishedIn(log, i, Len(log)) \subseteq FinishedIn(log', i, j)
    BY LogGrows
  <1>2. ASSUME NEW i \in DOMAIN log', NEW j \in DOMAIN log',
               i < j, log'[i].kind = "ACK", log'[j] = log'[i]
        PROVE  Cardinality(FinishedIn(log', i, j)) >= MaxCompleted
    <2>1. CASE j <= Len(log)
      <3>1. /\ i \in DOMAIN log /\ j \in DOMAIN log
            /\ log[i].kind = "ACK" /\ log[j] = log[i]
        BY <1>1, <1>2, <2>1
      <3>2. Cardinality(FinishedIn(log, i, j)) >= MaxCompleted
        BY <1>2, <3>1 DEF ForgetInv, ReexecutedOnlyWhenForgotten, FinishedIn
      <3> QED
        BY <1>1, <3>1, <3>2
    <2>2. CASE j > Len(log)
      <3>1. PICK m \in DOMAIN fs : j = Len(log) + m
        <4>1. j - Len(log) \in DOMAIN fs /\ Len(log) + (j - Len(log)) = j
          BY <1>1, <2>2
        <4> QED
          BY <4>1
      <3>2. log'[j] = fs[m] /\ fs[m].kind = "ACK"
        BY <1>1, <1>2, <3>1
      <3>3. m = 1
        BY <3>2
      <3>4. i \in DOMAIN log /\ log[i] = fs[1] /\ log[i].kind = "ACK"
        <4>1. i <= Len(log)
          BY <1>1, <1>2, <3>1, <3>3
        <4>2. i \in DOMAIN log /\ log'[i] = log[i]
          BY <1>1, <4>1
        <4> QED
          BY <1>2, <3>2, <3>3, <4>2
      <3>5. Cardinality(FinishedIn(log, i, Len(log))) >= MaxCompleted
        BY <3>4
      <3>6. FinishedIn(log, i, Len(log)) \subseteq FinishedIn(log', i, j)
        BY <1>1, <2>2, <3>4
      <3>7. IsFiniteSet(FinishedIn(log', i, j))
        BY <1>1, FinishedFinite
      <3> QED
        BY <3>5, <3>6, <3>7, AtLeast, MaxCompletedAssumption
    <2> QED
      BY <1>1, <2>1, <2>2
  <1> QED
    BY <1>2 DEF ReexecutedOnlyWhenForgotten, FinishedIn

(* What had finished after an ACK has done so for ever.                    *)
LEMMA FinishedGrows ==
  ASSUME TypeOK, NEW fs \in Seq(Frames), log' = log \o fs, NEW i \in DOMAIN log
  PROVE  /\ FinishedIn(log, i, Len(log)) \subseteq FinishedIn(log', i, Len(log'))
         /\ IsFiniteSet(FinishedIn(log', i, Len(log')))
  <1>1. /\ Len(log) \in Nat /\ Len(fs) \in Nat /\ Len(log') = Len(log) + Len(fs)
        /\ DOMAIN log = 1 .. Len(log) /\ DOMAIN log' = 1 .. Len(log')
    BY LogGrows
  <1>2. Len(log') \in DOMAIN log' /\ Len(log') >= Len(log) /\ i \in Nat /\ Len(log') \in Nat
    BY <1>1
  <1> QED
    BY <1>2, LogGrows, FinishedFinite

LEMMA StillAtLeast ==
  ASSUME TypeOK, NEW fs \in Seq(Frames), log' = log \o fs, NEW i \in DOMAIN log,
         Cardinality(FinishedIn(log, i, Len(log))) >= MaxCompleted
  PROVE  Cardinality(FinishedIn(log', i, Len(log'))) >= MaxCompleted
  BY FinishedGrows, AtLeast, MaxCompletedAssumption

(* The first step of a task: ACK and RUNNING.                              *)
LEMMA ForgetStart ==
  ASSUME TypeOK, RegistryInv, ForgetInv, NEW c \in Commands, Start(c)
  PROVE  ForgetInv'
  <1>1. /\ task[c] = "created" /\ c \notin cancelling /\ log' = log \o Opening(c)
        /\ task' = [task EXCEPT ![c] = "spawning"]
        /\ UNCHANGED <<pc, cancelling, completed, inflight>>
    BY DEF Start, Runs, EmitAll, registryVars, TaskFrame, loopVars
  <1>2. ~Leaving /\ NewerFinished /\ ForgottenLate
    BY <1>1 DEF ForgetInv, CancelledOnce
  <1>3. c \in inflight /\ c \notin ToSet(completed)
    BY <1>1 DEF RegistryInv, RegistryMatchesTasks, Live
  <1>4. task'[c] = "spawning" /\ \A d \in Commands \ {c} : task'[d] = task[d]
    BY <1>1 DEF TypeOK
  <1>5. CancelledOnce'
    BY <1>1, <1>2, <1>4 DEF ForgetInv, CancelledOnce, Leaving
  <1> DEFINE fs == Opening(c)
  <1>6. /\ fs \in Seq(Frames) /\ DOMAIN fs = 1 .. 2
        /\ fs[1] = Frame(c, "ACK") /\ fs[2] = Frame(c, "RUNNING")
    BY OpeningType DEF Opening
  <1>7. \A m \in DOMAIN fs : fs[m].cmd = c /\ (fs[m].kind = "ACK" => m = 1)
    BY <1>6 DEF Frame
  <1> HIDE DEF fs
  <1>8. ReexecutedOnlyWhenForgotten'
    <2>1. ASSUME NEW i \in DOMAIN log, log[i] = fs[1]
          PROVE  Cardinality(FinishedIn(log, i, Len(log))) >= MaxCompleted
      <3>1. log[i].kind = "ACK" /\ log[i].cmd = c
        BY <1>6, <2>1 DEF Frame
      <3> QED
        BY <1>1, <1>2, <1>3, <3>1 DEF ForgottenLate, Claimable
    <2> QED
      BY <1>1, <1>6, <1>7, <2>1, ForgetPairs DEF fs
  <1>9. ASSUME NEW i \in DOMAIN log', log'[i].cmd # c
        PROVE  i \in DOMAIN log /\ log'[i] = log[i] /\ log[i].cmd \in Commands
    <2>1. log' = log \o fs
      BY <1>1 DEF fs
    <2>2. /\ DOMAIN log = 1 .. Len(log) /\ DOMAIN log' = 1 .. Len(log) + Len(fs)
          /\ DOMAIN fs = 1 .. Len(fs) /\ Len(log) \in Nat /\ Len(fs) \in Nat
          /\ \A k \in DOMAIN log : log'[k] = log[k] /\ log[k] \in Frames
          /\ \A m \in DOMAIN fs : log'[Len(log) + m] = fs[m]
      BY <1>6, <2>1, LogGrows
    <2>3. ASSUME i > Len(log) PROVE FALSE
      <3>1. i - Len(log) \in DOMAIN fs /\ Len(log) + (i - Len(log)) = i
        BY <2>2, <2>3
      <3> QED
        BY <1>7, <1>9, <2>2, <3>1
    <2> QED
      BY <2>2, <2>3 DEF Frames
  <1>10. NewerFinished'
    <2>1. ASSUME NEW i \in DOMAIN log', NEW p \in DOMAIN completed, NEW q \in DOMAIN completed,
                 log'[i].kind = "ACK", completed[p] = log'[i].cmd, p < q
          PROVE  completed[q] \in FinishedIn(log', i, Len(log'))
      <3>1. log'[i].cmd # c
        BY <1>3, <2>1 DEF ToSet
      <3>2. completed[q] \in FinishedIn(log, i, Len(log)) /\ i \in DOMAIN log
        BY <1>2, <1>9, <2>1, <3>1 DEF NewerFinished
      <3>3. log' = log \o fs
        BY <1>1 DEF fs
      <3>4. FinishedIn(log, i, Len(log)) \subseteq FinishedIn(log', i, Len(log'))
        BY <1>6, <3>2, <3>3, FinishedGrows
      <3> QED
        BY <3>2, <3>4
    <2> QED
      BY <1>1, <2>1 DEF NewerFinished
  <1>11. ForgottenLate'
    <2>1. ASSUME NEW i \in DOMAIN log', log'[i].kind = "ACK",
                 log'[i].cmd \notin ToSet(completed'),
                 log'[i].cmd \notin inflight' \/ task'[log'[i].cmd] = "created"
          PROVE  Cardinality(FinishedIn(log', i, Len(log'))) >= MaxCompleted
      <3>1. log'[i].cmd # c
        BY <1>1, <1>3, <1>4, <2>1
      <3>2. i \in DOMAIN log /\ log'[i] = log[i] /\ log[i].cmd \in Commands
        BY <1>9, <3>1
      <3>3. Claimable(log[i].cmd)
        BY <1>1, <1>4, <2>1, <3>1, <3>2 DEF Claimable
      <3>4. Cardinality(FinishedIn(log, i, Len(log))) >= MaxCompleted
        BY <1>2, <2>1, <3>2, <3>3 DEF ForgottenLate
      <3> QED
        BY <1>1, <1>6, <3>2, <3>4, StillAtLeast DEF fs
    <2> QED
      BY <2>1 DEF ForgottenLate, Claimable
  <1> QED
    BY <1>5, <1>8, <1>10, <1>11 DEF ForgetInv

(* A task that ends with a final result.                                   *)
LEMMA ForgetEnds ==
  ASSUME TypeOK, RegistryInv, ForgetInv, ~Leaving, NEW c \in Commands, task[c] # "none",
         Remember(c), Ends(c), UNCHANGED pc, CancelledOnce',
         NEW fs \in Seq(Frames), log' = log \o fs, ReexecutedOnlyWhenForgotten',
         \A m \in DOMAIN fs : fs[m].cmd = c,
         \E m \in DOMAIN fs : fs[m].kind \in FinalKinds
  PROVE  ForgetInv'
  <1>1. c \in inflight /\ c \notin ToSet(completed) /\ IsInjective(completed)
    BY DEF RegistryInv, RegistryMatchesTasks, Live
  <1>2. NewerFinished /\ ForgottenLate
    BY DEF ForgetInv
  <1>3. c \in ToSet(completed') /\ inflight' = inflight \ {c}
    BY <1>1, RememberKeeps
  <1>4. \A d \in Commands \ {c} : task'[d] = task[d]
    BY DEF Ends, TypeOK
  <1>5. /\ DOMAIN log = 1 .. Len(log) /\ DOMAIN log' = 1 .. Len(log')
        /\ Len(log') = Len(log) + Len(fs)
        /\ DOMAIN fs = 1 .. Len(fs) /\ Len(log) \in Nat /\ Len(fs) \in Nat
        /\ \A k \in DOMAIN log : log'[k] = log[k] /\ log[k] \in Frames
        /\ \A m \in DOMAIN fs : log'[Len(log) + m] = fs[m]
        /\ \A i \in DOMAIN log, m \in DOMAIN fs :
               fs[m].kind \in FinalKinds /\ fs[m].cmd # log[i].cmd =>
                   fs[m].cmd \in FinishedIn(log', i, Len(log'))
    BY LogGrows
  <1>6. ASSUME NEW i \in DOMAIN log', log'[i].cmd # c
        PROVE  i \in DOMAIN log /\ log'[i] = log[i] /\ log[i].cmd \in Commands
    <2>1. ASSUME i > Len(log) PROVE FALSE
      <3>1. i - Len(log) \in DOMAIN fs /\ Len(log) + (i - Len(log)) = i
        BY <1>5, <2>1
      <3> QED
        BY <1>5, <1>6, <3>1
    <2> QED
      BY <1>5, <2>1 DEF Frames
  <1>7. \A i \in DOMAIN log : log[i].cmd # c => c \in FinishedIn(log', i, Len(log'))
    BY <1>5
  <1>8. \A i \in DOMAIN log, r, u \in DOMAIN completed :
            log[i].kind = "ACK" /\ completed[r] = log[i].cmd /\ r < u =>
                completed[u] \in FinishedIn(log', i, Len(log'))
    BY <1>2, FinishedGrows DEF NewerFinished
  <1>9. NewerFinished'
    <2>1. ASSUME NEW i \in DOMAIN log', NEW p \in DOMAIN completed', NEW q \in DOMAIN completed',
                 log'[i].kind = "ACK", completed'[p] = log'[i].cmd, p < q
          PROVE  completed'[q] \in FinishedIn(log', i, Len(log'))
      <3>1. PICK r \in DOMAIN completed :
                /\ completed'[p] = completed[r]
                /\ \/ completed'[q] = c
                   \/ \E u \in DOMAIN completed : r < u /\ completed'[q] = completed[u]
        BY <1>1, <2>1, RememberOrders
      <3>2. log'[i].cmd # c
        BY <1>1, <2>1, <3>1 DEF ToSet
      <3>3. i \in DOMAIN log /\ log'[i] = log[i]
        BY <1>6, <3>2
      <3> QED
        BY <1>7, <1>8, <2>1, <3>1, <3>2, <3>3
    <2> QED
      BY <2>1 DEF NewerFinished
  <1>10. ForgottenLate'
    <2>1. ASSUME NEW i \in DOMAIN log', log'[i].kind = "ACK",
                 log'[i].cmd \notin ToSet(completed'),
                 log'[i].cmd \notin inflight' \/ task'[log'[i].cmd] = "created"
          PROVE  Cardinality(FinishedIn(log', i, Len(log'))) >= MaxCompleted
      <3> DEFINE d == log'[i].cmd
      <3>1. d # c
        BY <1>3, <2>1
      <3>2. i \in DOMAIN log /\ log'[i] = log[i] /\ d = log[i].cmd /\ d \in Commands
        BY <1>6, <3>1
      <3>3. d \notin ToSet(completed') /\ (d \notin inflight' \/ task'[d] = "created")
        BY <2>1
      <3> HIDE DEF d
      <3>4. CASE d \in ToSet(completed)
        <4>1. Cardinality(ToSet(completed')) = MaxCompleted
          BY <1>1, <3>3, <3>4, RememberOrders
        <4>2. PICK r \in DOMAIN completed :
                /\ completed[r] = d
                /\ \A e \in ToSet(completed') :
                       \/ e = c
                       \/ \E u \in DOMAIN completed : r < u /\ e = completed[u]
          BY <1>1, <3>3, <3>4, RememberOrders
        <4>3. ToSet(completed') \subseteq FinishedIn(log', i, Len(log'))
          BY <1>7, <1>8, <2>1, <3>1, <3>2, <4>2
        <4>4. IsFiniteSet(FinishedIn(log', i, Len(log')))
          BY <1>5, FinishedFinite
        <4>5. MaxCompleted \in Nat /\ Cardinality(ToSet(completed')) >= MaxCompleted
          BY <4>1, MaxCompletedAssumption
        <4> QED
          BY <4>3, <4>4, <4>5, AtLeast
      <3>5. CASE d \notin ToSet(completed)
        <4>1. Claimable(d)
          BY <1>3, <1>4, <3>1, <3>2, <3>3, <3>5 DEF Claimable
        <4>2. Cardinality(FinishedIn(log, i, Len(log))) >= MaxCompleted
          BY <1>2, <2>1, <3>2, <4>1 DEF ForgottenLate
        <4> QED
          BY <3>2, <4>2, StillAtLeast
      <3> QED
        BY <3>4, <3>5
    <2> QED
      BY <2>1 DEF ForgottenLate, Claimable
  <1> QED
    BY <1>9, <1>10 DEF ForgetInv

LEMMA ForgetTask ==
  ASSUME TypeOK, RegistryInv, ForgetInv, NEW c \in Commands, TaskStep(c)
  PROVE  ForgetInv'
  <1> USE DEF registryVars
  <1>1. /\ UNCHANGED pc /\ task[c] # "none"
        /\ task[c] = "created" => cancelling' = cancelling \/ task'[c] = "none"
        /\ cancelling' \subseteq cancelling /\ cancelling \ {c} \subseteq cancelling'
        /\ task'[c] # "created" /\ \A d \in Commands \ {c} : task'[d] = task[d]
    BY DEF TypeOK, TaskStep, Start, StartFails, Finish, TimesOut, TimesOutKillFails,
       ReapTimedOut, CancelUnstarted, CancelKills, Spawned, CancelSpawn,
       CancelKillFails, CancelAfterExit, ReapStopped, CancelSpawnKillFails,
       CancelSpawnAgain, CancelAgain, Runs, Interrupted, TaskFrame, loopVars, EndsWith,
       EndsSilently, Ends
  <1>2. CancelledOnce'
    BY <1>1 DEF ForgetInv, CancelledOnce, Leaving
  <1>3. Leaving' = Leaving
    BY <1>1 DEF Leaving
  <1>4. CASE Start(c)
    BY <1>4, ForgetStart
  <1>5. CASE StartFails(c)
    <2> DEFINE fs == Append(Opening(c), Frame(c, "NOT_STARTED"))
    <2>1. task[c] = "created" /\ c \notin cancelling /\ log' = log \o fs
          /\ Remember(c) /\ Ends(c)
      BY <1>5 DEF StartFails, Runs, EmitAll
    <2>2. Opening(c) \in Seq(Frames) /\ Frame(c, "NOT_STARTED") \in Frames
      BY OpeningType, FrameType DEF Kinds, FinalKinds
    <2>3. /\ fs \in Seq(Frames) /\ DOMAIN fs = 1 .. 3 /\ fs[1] = Frame(c, "ACK")
          /\ fs[2] = Frame(c, "RUNNING") /\ fs[3] = Frame(c, "NOT_STARTED")
      <3>1. Len(Opening(c)) = 2 /\ Opening(c)[1] = Frame(c, "ACK")
            /\ Opening(c)[2] = Frame(c, "RUNNING")
        BY DEF Opening
      <3> HIDE DEF Opening
      <3>2. fs \in Seq(Frames) /\ Len(fs) = Len(Opening(c)) + 1
        BY <2>2, AppendProperties DEF fs
      <3>3. fs[Len(Opening(c)) + 1] = Frame(c, "NOT_STARTED")
        BY <2>2, AppendProperties DEF fs
      <3>4. \A m \in 1 .. Len(Opening(c)) : fs[m] = Opening(c)[m]
        BY <2>2, AppendProperties DEF fs
      <3> QED
        BY <3>1, <3>2, <3>3, <3>4, LenProperties
    <2>4. /\ \A m \in DOMAIN fs : fs[m].cmd = c /\ (fs[m].kind = "ACK" => m = 1)
          /\ fs[1] = Frame(c, "ACK")
          /\ \E m \in DOMAIN fs : fs[m].kind \in FinalKinds
      BY <2>3 DEF Frame, FinalKinds
    <2>5. ~Leaving
      BY <2>1 DEF ForgetInv, CancelledOnce
    <2>6. ASSUME NEW i \in DOMAIN log, log[i] = fs[1]
          PROVE  Cardinality(FinishedIn(log, i, Len(log))) >= MaxCompleted
      <3>1. log[i].kind = "ACK" /\ log[i].cmd = c
        BY <2>4, <2>6 DEF Frame
      <3>2. c \notin ToSet(completed)
        BY <2>1 DEF RegistryInv, RegistryMatchesTasks, Live
      <3> QED
        BY <2>1, <2>5, <3>1, <3>2 DEF ForgetInv, ForgottenLate, Claimable
    <2>7. ReexecutedOnlyWhenForgotten'
      BY <2>1, <2>3, <2>4, <2>6, ForgetPairs
    <2> QED
      BY <1>1, <1>2, <2>1, <2>3, <2>4, <2>5, <2>7, ForgetEnds
  <1>6. CASE Finish(c) \/ TimesOutKillFails(c) \/ ReapTimedOut(c)
             \/ CancelAfterExit(c) \/ ReapStopped(c)
             \/ CancelSpawnKillFails(c) \/ CancelSpawnAgain(c)
    <2>1. PICK k \in FinalKinds : EndsWith(c, k)
      BY <1>6 DEF Finish, TimesOutKillFails, ReapTimedOut, CancelAfterExit, ReapStopped,
         CancelSpawnKillFails, CancelSpawnAgain, FinalKinds
    <2> DEFINE fs == <<Frame(c, k)>>
    <2>2. log' = log \o fs /\ Remember(c) /\ Ends(c)
      BY <2>1 DEF EndsWith, EmitAll
    <2>3. /\ fs \in Seq(Frames) /\ DOMAIN fs = {1} /\ fs[1] = Frame(c, k)
      BY FrameType, FinalIsKind
    <2> HIDE DEF fs
    <2>4. /\ \A m \in DOMAIN fs : fs[m].cmd = c /\ fs[m].kind # "ACK"
          /\ \E m \in DOMAIN fs : fs[m].kind \in FinalKinds
      BY <2>3 DEF Frame, FinalKinds
    <2>5. CASE Leaving
      BY <1>2, <1>3, <2>2, <2>3, <2>4, <2>5, ForgetLeft
    <2>6. CASE ~Leaving
      <3>1. ReexecutedOnlyWhenForgotten'
        BY <2>2, <2>3, <2>4, ForgetPairs
      <3> QED
        BY <1>1, <1>2, <2>2, <2>3, <2>4, <2>6, <3>1, ForgetEnds
    <2> QED
      BY <2>5, <2>6
  <1>7. CASE CancelKillFails(c) \/ CancelAgain(c) \/ CancelUnstarted(c)
    <2>1. Leaving /\ log' = log
      BY <1>7 DEF CancelKillFails, CancelAgain, CancelUnstarted, EndsSilently, Interrupted,
         ForgetInv, CancelledOnce, queueVars
    <2> QED
      BY <1>2, <1>3, <2>1 DEF ForgetInv, ReexecutedOnlyWhenForgotten
  <1>8. CASE TimesOut(c) \/ CancelKills(c) \/ Spawned(c) \/ CancelSpawn(c)
    <2>1. UNCHANGED <<log, completed, inflight>>
      BY <1>8 DEF TimesOut, CancelKills, Spawned, CancelSpawn, queueVars
    <2>2. \A d \in Commands : Claimable(d)' => Claimable(d)
      BY <1>1, <2>1 DEF Claimable
    <2> QED
      BY <1>2, <1>3, <2>1, <2>2, ForgetUntouched
  <1> QED
    BY <1>4, <1>5, <1>6, <1>7, <1>8 DEF TaskStep

(* The loop and the environment emit nothing and complete nothing.  A      *)
(* claim takes what was claimable; no command is claimed once they have    *)
(* been cancelled.                                                         *)
LEMMA ForgetOthers ==
  ASSUME TypeOK, ForgetInv, LoopStep \/ Environment
  PROVE  ForgetInv'
  <1> USE DEF registryVars, taskVars, queueVars, loopVars
  <1>1. UNCHANGED <<log, completed>>
    BY DEF LoopStep, Environment, Connect, BackoffOver, PauseOver, TelemetrySent, FlushHead,
       FlushDone, RecvTimesOut, SocketClosed, ReplayNext, ReplayDone, Close, CancelTasks,
       Gathered, Goto, LinkDies, LinkNoticed, ConnectFails, TelemetryFails, FlushBreaks,
       ReplayBreaks, Stop, Abort, Request, HelperExits, Dispatch, DispatchReplay,
       DispatchClaim, DispatchIgnore, Received
  <1>2. CASE \E c \in Commands : DispatchClaim(c)
    <2>1. PICK c \in Commands : DispatchClaim(c)
      BY <1>2
    <2>2. /\ pc = "recv" /\ pc' = "pause" /\ UNCHANGED cancelling
          /\ c \notin ToSet(completed) /\ c \notin inflight
          /\ inflight' = inflight \cup {c} /\ task' = [task EXCEPT ![c] = "created"]
      BY <2>1 DEF DispatchClaim, Received
    <2>3. \A d \in Commands \ {c} : task'[d] = task[d]
      BY <2>2 DEF TypeOK
    <2>4. \A d \in Commands : Claimable(d)' => Claimable(d)
      BY <1>1, <2>2, <2>3 DEF Claimable
    <2>5. ~Leaving /\ CancelledOnce'
      BY <2>2 DEF Leaving, ForgetInv, CancelledOnce
    <2> QED
      BY <1>1, <2>4, <2>5, ForgetUntouched
  <1>3. CASE CancelTasks \/ Abort
    <2>1. Leaving' /\ cancelling' = Live /\ UNCHANGED <<inflight, task>>
      BY <1>3 DEF CancelTasks, Abort, Leaving
    <2>2. CancelledOnce'
      BY <2>1 DEF CancelledOnce, Live
    <2>3. \A d \in Commands : Claimable(d)' => Claimable(d)
      BY <1>1, <2>1 DEF Claimable
    <2> QED
      BY <1>1, <2>1, <2>2, <2>3, ForgetUntouched
  <1>4. CASE /\ UNCHANGED <<inflight, task, cancelling>>
             /\ Leaving' = Leaving
    <2>1. CancelledOnce'
      BY <1>4 DEF ForgetInv, CancelledOnce
    <2>2. \A d \in Commands : Claimable(d)' => Claimable(d)
      BY <1>1, <1>4 DEF Claimable
    <2> QED
      BY <1>1, <1>4, <2>1, <2>2, ForgetUntouched
  <1> QED
    BY <1>2, <1>3, <1>4
       DEF LoopStep, Environment, Connect, BackoffOver, PauseOver, TelemetrySent, FlushHead,
       FlushDone, RecvTimesOut, SocketClosed, ReplayNext, ReplayDone, Close,
       Gathered, Goto, LinkDies, LinkNoticed, ConnectFails, TelemetryFails, FlushBreaks,
       ReplayBreaks, Stop, Request, HelperExits, Dispatch, DispatchReplay,
       DispatchIgnore, Received, Leaving

(* A command is executed again only after MaxCompleted others finished     *)
(* since its last execution began, for any number of commands and however  *)
(* their tasks overlap: the registry forgets the oldest, and an id in      *)
(* flight is not claimed again.                                            *)
THEOREM ReexecutionIsLate == Spec => []ReexecutedOnlyWhenForgotten
  <1>1. TypeOK /\ RegistryInv /\ ForgetInv /\ [Next]_vars => ForgetInv'
    <2> SUFFICES ASSUME TypeOK, RegistryInv, ForgetInv, [Next]_vars
                 PROVE  ForgetInv'
      OBVIOUS
    <2>1. CASE UNCHANGED vars \/ Terminated
      <3>1. UNCHANGED <<pc, log, completed, inflight, task, cancelling>>
        BY <2>1 DEF vars, Terminated
      <3>2. CancelledOnce' /\ Leaving' = Leaving /\ \A d \in Commands : Claimable(d)' => Claimable(d)
        BY <3>1 DEF ForgetInv, CancelledOnce, Leaving, Claimable
      <3> QED
        BY <3>1, <3>2, ForgetUntouched
    <2> QED
      BY <2>1, ForgetOthers, ForgetTask DEF Next
  <1>2. ForgetInv => ReexecutedOnlyWhenForgotten
    BY DEF ForgetInv
  <1> QED
    BY <1>1, <1>2, ForgetInit, TypeCorrect, RegistryInvariant, PTL DEF Spec

================================================================================
