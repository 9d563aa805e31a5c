-------------------------- MODULE CommandRelayProofs --------------------------
(* Theorems about CommandRelay, for any set of commands, any size of the   *)
(* registry and any number of requests and faults.                         *)
EXTENDS CommandRelay, TLAPS, SequenceTheorems

USE MaxCompletedAssumption, BoundsAssumption

--------------------------------------------------------------------------------
(* Lemmas on frames and sequences.                                         *)

(* A frame built from a command and a kind is a frame.                     *)
LEMMA FrameType == \A c \in Commands, k \in Kinds : Frame(c, k) \in Frames
  BY DEF Frame, Frames

(* The two frames every execution starts with.                             *)
LEMMA OpeningType == \A c \in Commands : Opening(c) \in Seq(Frames)
  <1> TAKE c \in Commands
  <1>1. Frame(c, "ACK") \in Frames /\ Frame(c, "RUNNING") \in Frames
    BY FrameType DEF Kinds
  <1> QED
    BY <1>1 DEF Opening

(* Every final kind is a kind.                                             *)
LEMMA FinalIsKind == FinalKinds \subseteq Kinds
  BY DEF Kinds

--------------------------------------------------------------------------------
(* Type correctness.                                                       *)

(* Z3 reads `x = FALSE` as `x # TRUE`: that x is then a Boolean is Zenon's. *)
LEMMA InitType == Init => TypeOK
  <1> SUFFICES ASSUME Init PROVE TypeOK
    OBVIOUS
  <1>1. up \in BOOLEAN /\ link \in BOOLEAN /\ stopping \in BOOLEAN
    BY Zenon DEF Init
  <1>2. events \in [Commands -> Seq(Frames)]
    BY DEF Init
  <1>3. task \in [Commands -> TaskStates] /\ helper \in [Commands -> HelperStates]
    BY DEF Init, TaskStates, HelperStates
  <1>4. completed \in Seq(Commands) /\ Len(completed) <= MaxCompleted
    BY DEF Init
  <1> QED
    BY <1>1, <1>2, <1>3, <1>4 DEF Init, TypeOK, LoopStates

(* Steps that only move the loop.                                          *)
LEMMA GotoType ==
  ASSUME TypeOK, NEW from \in LoopStates, NEW to \in LoopStates, Goto(from, to)
  PROVE  TypeOK'
  BY DEF TypeOK, Goto, netVars, registryVars, taskVars, queueVars, wireVars

LEMMA EnvironmentType ==
  ASSUME TypeOK, Environment
  PROVE  TypeOK'
  <1> USE DEF TypeOK, loopVars, netVars, registryVars, taskVars, queueVars, wireVars, Fault
  <1>1. CASE LinkDies
    <2>1. link' \in BOOLEAN
      BY <1>1, Zenon DEF LinkDies
    <2> QED
      BY <1>1, <2>1 DEF LinkDies
  <1>2. CASE LinkNoticed
    BY <1>2 DEF LinkNoticed
  <1>3. CASE ConnectFails
    BY <1>3 DEF ConnectFails, LoopStates
  <1>4. CASE TelemetryFails
    BY <1>4 DEF TelemetryFails, LoopStates
  <1>5. CASE FlushBreaks
    <2>1. up' \in BOOLEAN /\ link' \in BOOLEAN
      BY <1>5, Zenon DEF FlushBreaks
    <2> QED
      BY <1>5, <2>1 DEF FlushBreaks, Write, LoopStates
  <1>6. CASE ReplayBreaks
    <2>1. up' \in BOOLEAN /\ link' \in BOOLEAN
      BY <1>6, Zenon DEF ReplayBreaks
    <2> QED
      BY <1>6, <2>1 DEF ReplayBreaks, Write, LoopStates
  <1>7. CASE Stop
    BY <1>7 DEF Stop
  <1>8. CASE Abort
    <2>1. up' \in BOOLEAN /\ link' \in BOOLEAN
      BY <1>8, Zenon DEF Abort
    <2> QED
      BY <1>8, <2>1 DEF Abort, LoopStates, Live
  <1>9. CASE \E c \in Commands : Request(c)
    BY <1>9 DEF Request
  <1>10. CASE \E c \in Commands : HelperExits(c)
    BY <1>10 DEF HelperExits, HelperStates
  <1> QED
    BY <1>1, <1>2, <1>3, <1>4, <1>5, <1>6, <1>7, <1>8, <1>9, <1>10 DEF Environment

LEMMA LoopType ==
  ASSUME TypeOK, LoopStep
  PROVE  TypeOK'
  <1> USE DEF TypeOK, loopVars, netVars, registryVars, taskVars, queueVars, wireVars
  <1>1. CASE Connect
    BY <1>1 DEF Connect, LoopStates
  <1>2. CASE \/ BackoffOver \/ PauseOver \/ TelemetrySent \/ FlushDone \/ RecvTimesOut
             \/ SocketClosed \/ ReplayDone \/ Gathered
    BY <1>2, GotoType DEF BackoffOver, PauseOver, TelemetrySent, FlushDone,
       RecvTimesOut, SocketClosed, ReplayDone, Gathered, LoopStates
  <1>3. CASE FlushHead
    BY <1>3 DEF FlushHead, Write
  <1>4. CASE ReplayNext
    BY <1>4 DEF ReplayNext, Write
  <1>5. CASE Close
    <2>1. up' \in BOOLEAN /\ link' \in BOOLEAN
      BY <1>5, Zenon DEF Close
    <2> QED
      BY <1>5, <2>1 DEF Close, LoopStates
  <1>6. CASE CancelTasks
    BY <1>6 DEF CancelTasks, LoopStates, Live
  <1>7. ASSUME NEW c \in Commands, Dispatch(c)
        PROVE  TypeOK'
    <2>1. inbox # <<>> /\ inbox' = Tail(inbox)
      BY <1>7 DEF Dispatch, DispatchReplay, DispatchClaim, DispatchIgnore, Received
    <2>2. CASE DispatchReplay(c)
      BY <2>1, <2>2 DEF DispatchReplay, Received, LoopStates
    <2>3. CASE DispatchClaim(c)
      BY <2>1, <2>3 DEF DispatchClaim, Received, LoopStates, TaskStates
    <2>4. CASE DispatchIgnore(c)
      BY <2>1, <2>4 DEF DispatchIgnore, Received, LoopStates
    <2> QED
      BY <1>7, <2>2, <2>3, <2>4 DEF Dispatch
  <1> QED
    BY <1>1, <1>2, <1>3, <1>4, <1>5, <1>6, <1>7 DEF LoopStep

(* The pieces execute_command is made of.                                  *)
LEMMA EmitType ==
  ASSUME TypeOK, NEW fs \in Seq(Frames), EmitAll(fs)
  PROVE  outbox' \in Seq(Frames) /\ log' \in Seq(Frames) /\ flushed' \in Seq(Frames)
  BY DEF TypeOK, EmitAll

LEMMA RememberType ==
  ASSUME TypeOK, NEW c \in Commands, Remember(c)
  PROVE  /\ inflight' \subseteq Commands
         /\ completed' \in Seq(Commands) /\ Len(completed') <= MaxCompleted
  <1>1. CASE Len(completed) < MaxCompleted
    BY <1>1 DEF TypeOK, Remember
  <1>2. CASE ~(Len(completed) < MaxCompleted)
    <2>1. completed # <<>>
      BY <1>2 DEF TypeOK
    <2> QED
      BY <1>2, <2>1 DEF TypeOK, Remember
  <1> QED
    BY <1>1, <1>2

LEMMA EndsType ==
  ASSUME TypeOK, NEW c \in Commands, Ends(c)
  PROVE  task' \in [Commands -> TaskStates]
  BY DEF TypeOK, Ends, TaskStates

LEMMA KillType ==
  ASSUME TypeOK, NEW c \in Commands, Kill(c)
  PROVE  helper' \in [Commands -> HelperStates]
  BY DEF TypeOK, Kill, HelperStates

LEMMA EndsWithType ==
  ASSUME TypeOK, NEW c \in Commands, NEW k \in FinalKinds, EndsWith(c, k), TaskFrame,
         cancelling' \subseteq Commands, UNCHANGED helper
  PROVE  TypeOK'
  <1>1. Frame(c, k) \in Frames
    BY FrameType, FinalIsKind
  <1>2. /\ inflight' \subseteq Commands
        /\ completed' \in Seq(Commands) /\ Len(completed') <= MaxCompleted
    BY RememberType DEF EndsWith
  <1>3. task' \in [Commands -> TaskStates]
    BY EndsType DEF EndsWith
  <1>4. outbox' \in Seq(Frames) /\ log' \in Seq(Frames) /\ flushed' \in Seq(Frames)
    <2>1. <<Frame(c, k)>> \in Seq(Frames)
      BY <1>1
    <2> QED
      BY <2>1, EmitType DEF EndsWith
  <1>5. events' \in [Commands -> Seq(Frames)]
    BY <1>1 DEF EndsWith, TypeOK
  <1> QED
    BY <1>2, <1>3, <1>4, <1>5 DEF TypeOK, TaskFrame, loopVars, netVars, wireVars

LEMMA EndsSilentlyType ==
  ASSUME TypeOK, NEW c \in Commands, EndsSilently(c), TaskFrame,
         cancelling' \subseteq Commands, UNCHANGED helper
  PROVE  TypeOK'
  <1>1. /\ inflight' \subseteq Commands
        /\ completed' \in Seq(Commands) /\ Len(completed') <= MaxCompleted
    BY RememberType DEF EndsSilently
  <1>2. task' \in [Commands -> TaskStates]
    BY EndsType DEF EndsSilently
  <1> QED
    BY <1>1, <1>2 DEF EndsSilently, TypeOK, TaskFrame, loopVars, netVars, queueVars,
       wireVars

LEMMA TaskType ==
  ASSUME TypeOK, NEW c \in Commands, TaskStep(c)
  PROVE  TypeOK'
  <1> USE DEF TypeOK, TaskFrame, loopVars, netVars, registryVars, queueVars, wireVars
  <1>0. cancelling' \subseteq Commands
    BY DEF TaskStep, Start, StartFails, Finish, TimesOut, TimesOutKillFails,
       ReapTimedOut, CancelUnstarted, CancelKills, Spawned, CancelSpawn,
       CancelKillFails, CancelAfterExit, ReapStopped, CancelSpawnKillFails,
       CancelSpawnAgain, CancelAgain, Runs, Interrupted
  <1>1. CASE Start(c)
    <2>1. outbox' \in Seq(Frames) /\ log' \in Seq(Frames) /\ flushed' \in Seq(Frames)
      BY <1>1, OpeningType, EmitType DEF Start
    <2> QED
      BY <1>0, <1>1, <2>1, OpeningType DEF Start, TaskStates, HelperStates
  <1>2. CASE StartFails(c)
    <2> DEFINE fs == Append(Opening(c), Frame(c, "NOT_STARTED"))
    <2>1. fs \in Seq(Frames)
      BY OpeningType, FrameType, FinalIsKind DEF FinalKinds
    <2>2. outbox' \in Seq(Frames) /\ log' \in Seq(Frames) /\ flushed' \in Seq(Frames)
      BY <1>2, <2>1, EmitType DEF StartFails
    <2>3. /\ inflight' \subseteq Commands
          /\ completed' \in Seq(Commands) /\ Len(completed') <= MaxCompleted
      BY <1>2, RememberType DEF StartFails
    <2>4. task' \in [Commands -> TaskStates]
      BY <1>2, EndsType DEF StartFails
    <2> QED
      BY <1>0, <1>2, <2>1, <2>2, <2>3, <2>4 DEF StartFails, HelperStates
  <1>3. CASE TimesOut(c) \/ CancelKills(c) \/ Spawned(c) \/ CancelSpawn(c)
    <2>1. helper' \in [Commands -> HelperStates]
      BY <1>3, KillType DEF TimesOut, CancelKills, Spawned, CancelSpawn
    <2> QED
      BY <1>0, <1>3, <2>1 DEF TimesOut, CancelKills, Spawned, CancelSpawn, TaskStates
  <1>4. CASE Finish(c) \/ TimesOutKillFails(c) \/ ReapTimedOut(c)
             \/ CancelAfterExit(c) \/ ReapStopped(c)
             \/ CancelSpawnKillFails(c) \/ CancelSpawnAgain(c)
    <2>1. PICK k \in FinalKinds : EndsWith(c, k)
      BY <1>4 DEF Finish, TimesOutKillFails, ReapTimedOut, CancelAfterExit, ReapStopped,
         CancelSpawnKillFails, CancelSpawnAgain, FinalKinds
    <2>2. TaskFrame /\ UNCHANGED helper
      BY <1>4 DEF Finish, TimesOutKillFails, ReapTimedOut, CancelAfterExit, ReapStopped,
         CancelSpawnKillFails, CancelSpawnAgain
    <2> QED
      BY <1>0, <2>1, <2>2, EndsWithType
  <1>5. CASE CancelKillFails(c) \/ CancelAgain(c)
    BY <1>0, <1>5, EndsSilentlyType DEF CancelKillFails, CancelAgain
  <1>6. CASE CancelUnstarted(c)
    <2>1. task' \in [Commands -> TaskStates]
      BY <1>6, EndsType DEF CancelUnstarted
    <2> QED
      BY <1>0, <1>6, <2>1 DEF CancelUnstarted
  <1> QED
    BY <1>1, <1>2, <1>3, <1>4, <1>5, <1>6 DEF TaskStep

LEMMA StutterType ==
  ASSUME TypeOK, UNCHANGED vars
  PROVE  TypeOK'
  BY DEF TypeOK, vars

(* Every variable of run_realtime and its tasks keeps its type, and the    *)
(* registry its limit, whatever the commands, requests and faults.         *)
THEOREM TypeCorrect == Spec => []TypeOK
  <1>1. TypeOK /\ [Next]_vars => TypeOK'
    BY EnvironmentType, LoopType, TaskType, StutterType DEF Next, Terminated
  <1> QED
    BY <1>1, InitType, PTL DEF Spec

--------------------------------------------------------------------------------
(* The outbox.                                                             *)

(* A step emits frames, hands over the head, or leaves the queue alone.    *)
LEMMA QueueSteps ==
  ASSUME TypeOK, [Next]_vars
  PROVE  \/ UNCHANGED queueVars
         \/ FlushHead
         \/ \E fs \in Seq(Frames) : EmitAll(fs)
  <1> USE DEF queueVars
  <1>1. CASE LoopStep
    <2>1. CASE FlushHead
      BY <2>1
    <2>2. ASSUME NEW c \in Commands, Dispatch(c)
          PROVE  UNCHANGED queueVars
      BY <2>2 DEF Dispatch, DispatchReplay, DispatchClaim, DispatchIgnore, Received
    <2> QED
      BY <1>1, <2>1, <2>2 DEF LoopStep, Connect, BackoffOver, PauseOver, TelemetrySent,
         FlushDone, RecvTimesOut, SocketClosed, ReplayNext, ReplayDone, Close, CancelTasks,
         Gathered, Goto
  <1>2. ASSUME NEW c \in Commands, TaskStep(c)
        PROVE  UNCHANGED queueVars \/ \E fs \in Seq(Frames) : EmitAll(fs)
    <2>1. CASE Start(c)
      BY <2>1, OpeningType DEF Start
    <2>2. CASE StartFails(c)
      <3>1. Append(Opening(c), Frame(c, "NOT_STARTED")) \in Seq(Frames)
        BY OpeningType, FrameType, FinalIsKind DEF FinalKinds
      <3> QED
        BY <2>2, <3>1 DEF StartFails
    <2>3. CASE Finish(c) \/ TimesOutKillFails(c) \/ ReapTimedOut(c)
               \/ CancelAfterExit(c) \/ ReapStopped(c)
               \/ CancelSpawnKillFails(c) \/ CancelSpawnAgain(c)
      <3>1. PICK k \in FinalKinds : EndsWith(c, k)
        BY <2>3 DEF Finish, TimesOutKillFails, ReapTimedOut, CancelAfterExit,
           ReapStopped, CancelSpawnKillFails, CancelSpawnAgain, FinalKinds
      <3>2. Frame(c, k) \in Frames
        BY FrameType, FinalIsKind
      <3>3. <<Frame(c, k)>> \in Seq(Frames)
        BY <3>2
      <3> QED
        BY <3>1, <3>3 DEF EndsWith
    <2>4. CASE CancelKillFails(c) \/ CancelAgain(c) \/ CancelUnstarted(c)
               \/ TimesOut(c) \/ CancelKills(c) \/ Spawned(c) \/ CancelSpawn(c)
      BY <2>4 DEF CancelKillFails, CancelAgain, CancelUnstarted, TimesOut, CancelKills,
         Spawned, CancelSpawn, EndsSilently
    <2> QED
      BY <1>2, <2>1, <2>2, <2>3, <2>4 DEF TaskStep
  <1>3. CASE Environment
    BY <1>3 DEF Environment, LinkDies, LinkNoticed, ConnectFails, TelemetryFails,
       FlushBreaks, ReplayBreaks, Stop, Abort, Request, HelperExits
  <1>4. CASE UNCHANGED vars \/ Terminated
    BY <1>4 DEF vars, Terminated
  <1> QED
    BY <1>1, <1>2, <1>3, <1>4 DEF Next

(* Moving the head of a queue to the end of what precedes it keeps both    *)
(* together the same.                                                      *)
LEMMA ShiftHead ==
  ASSUME NEW S, NEW s \in Seq(S), NEW t \in Seq(S), t # <<>>
  PROVE  Append(s, Head(t)) \o Tail(t) = s \o t
  <1> DEFINE u == Append(s, Head(t))
  <1>1. Head(t) \in S /\ Tail(t) \in Seq(S) /\ Len(Tail(t)) = Len(t) - 1
        /\ \A i \in 1 .. Len(Tail(t)) : Tail(t)[i] = t[i + 1]
    BY HeadTailProperties
  <1>2. u \in Seq(S) /\ Len(u) = Len(s) + 1 /\ u[Len(s) + 1] = t[1]
        /\ \A i \in 1 .. Len(s) : u[i] = s[i]
    BY <1>1, AppendProperties
  <1> HIDE DEF u
  <1>3. Len(u \o Tail(t)) = Len(s \o t)
    <2>1. Len(u \o Tail(t)) = Len(u) + Len(Tail(t)) /\ Len(s \o t) = Len(s) + Len(t)
      BY <1>1, <1>2, ConcatProperties
    <2> QED
      BY <1>1, <1>2, <2>1, LenProperties
  <1>4. ASSUME NEW i \in 1 .. Len(s \o t)
        PROVE  (u \o Tail(t))[i] = (s \o t)[i]
    BY <1>1, <1>2, ConcatProperties
  <1>5. u \o Tail(t) \in Seq(S) /\ s \o t \in Seq(S)
    BY <1>1, <1>2, ConcatProperties
  <1>6. u \o Tail(t) = s \o t
    BY <1>3, <1>4, <1>5, SeqEqual
  <1> QED
    BY <1>6 DEF u

(* Each frame a task emits is handed to a socket once, in the order of     *)
(* emission, or still waits in the outbox, across all reconnections.       *)
THEOREM OutboxLosesNothing == Spec => []NoFrameLost
  <1>1. Init => NoFrameLost
    BY DEF Init, NoFrameLost
  <1>2. TypeOK /\ NoFrameLost /\ [Next]_vars => NoFrameLost'
    <2> SUFFICES ASSUME TypeOK, NoFrameLost, [Next]_vars PROVE NoFrameLost'
      OBVIOUS
    <2>1. CASE UNCHANGED queueVars
      BY <2>1 DEF NoFrameLost, queueVars
    <2>2. CASE FlushHead
      BY <2>2, ShiftHead DEF FlushHead, NoFrameLost, TypeOK
    <2>3. CASE \E fs \in Seq(Frames) : EmitAll(fs)
      <3>1. PICK fs \in Seq(Frames) : EmitAll(fs)
        BY <2>3
      <3>2. log' = (flushed \o outbox) \o fs /\ outbox' = outbox \o fs /\ flushed' = flushed
        BY <3>1 DEF EmitAll, NoFrameLost
      <3>3. flushed \in Seq(Frames) /\ outbox \in Seq(Frames)
        BY DEF TypeOK
      <3>4. (flushed \o outbox) \o fs = flushed \o (outbox \o fs)
        BY <3>1, <3>3, ConcatAssociative
      <3> QED
        BY <3>2, <3>4 DEF NoFrameLost
    <2> QED
      BY <2>1, <2>2, <2>3, QueueSteps
  <1> QED
    BY <1>1, <1>2, TypeCorrect, PTL DEF Spec

--------------------------------------------------------------------------------
(* No socket is ever given a result before the ACK of its command.  The    *)
(* property is not inductive: a frame is written from the outbox, which a  *)
(* replay may overtake, or from a record of the registry.  OrderInv says   *)
(* of each of these sequences that it respects the order given what has    *)
(* been written before, and of a suspended task that its RUNNING frame is  *)
(* written or queued.                                                      *)


(* Each frame of s finds its prior frames in S or earlier in s.            *)
OrderedAfter(S, s) ==
    \A i \in 1 .. Len(s) : Prior(s[i]) \subseteq S \cup {s[j] : j \in 1 .. i - 1}

Begun(c) == task[c] \in {"spawning", "unspawning", "waiting", "reaping", "stopping"}

OrderInv ==
    /\ WrittenInOrder
    /\ OrderedAfter(sent, outbox)
    /\ OrderedAfter(sent, replayq)
    /\ \A c \in Commands : OrderedAfter({}, events[c])
    /\ \A c \in Commands : Begun(c) =>
            /\ Frame(c, "RUNNING") \in sent \cup ToSet(outbox)
            /\ Frame(c, "RUNNING") \in ToSet(events[c])

--------------------------------------------------------------------------------
(* Lemmas on OrderedAfter.                                                 *)

(* More frames before a sequence never disturb it.                         *)
LEMMA OrderedMonotone ==
  ASSUME NEW S, NEW T, NEW s, OrderedAfter(S, s), S \subseteq T
  PROVE  OrderedAfter(T, s)
  BY DEF OrderedAfter

LEMMA OrderedEmpty == ASSUME NEW S PROVE OrderedAfter(S, <<>>)
  BY DEF OrderedAfter

(* The head may be written, and the rest comes after it.                   *)
LEMMA OrderedHead ==
  ASSUME NEW S, NEW s \in Seq(Frames), s # <<>>, OrderedAfter(S, s)
  PROVE  /\ Prior(Head(s)) \subseteq S
         /\ OrderedAfter(S \cup {Head(s)}, Tail(s))
  <1>0. Len(s) \in Nat \ {0} /\ Head(s) = s[1]
    BY EmptySeq
  <1>1. Prior(Head(s)) \subseteq S
    <2>1. Prior(s[1]) \subseteq S \cup {s[j] : j \in 1 .. 1 - 1}
      BY <1>0 DEF OrderedAfter
    <2> QED
      BY <1>0, <2>1
  <1>2. ASSUME NEW i \in 1 .. Len(Tail(s)), NEW f \in Prior(Tail(s)[i])
        PROVE  f \in S \cup {Head(s)} \cup {Tail(s)[j] : j \in 1 .. i - 1}
    <2>1. Len(Tail(s)) = Len(s) - 1 /\ \A j \in 1 .. Len(Tail(s)) : Tail(s)[j] = s[j + 1]
      BY HeadTailProperties
    <2>2. i + 1 \in 1 .. Len(s) /\ Tail(s)[i] = s[i + 1]
      BY <1>0, <2>1
    <2>3. f \in S \cup {s[j] : j \in 1 .. i}
      <3>1. f \in S \cup {s[j] : j \in 1 .. (i + 1) - 1}
        BY <2>2 DEF OrderedAfter
      <3>2. (i + 1) - 1 = i
        OBVIOUS
      <3> QED
        BY <3>1, <3>2
    <2>4. ASSUME NEW j \in 1 .. i, f = s[j], j # 1
          PROVE  f \in {Tail(s)[k] : k \in 1 .. i - 1}
      <3>1. j - 1 \in 1 .. i - 1 /\ j - 1 \in 1 .. Len(Tail(s)) /\ s[j] = Tail(s)[j - 1]
        BY <1>0, <2>1, <2>4
      <3> QED
        BY <2>4, <3>1
    <2> QED
      BY <1>0, <2>3, <2>4
  <1> QED
    BY <1>1, <1>2 DEF OrderedAfter

(* What is appended may rest on the whole of what is already queued.       *)
LEMMA OrderedConcat ==
  ASSUME NEW S, NEW s \in Seq(Frames), NEW t \in Seq(Frames),
         OrderedAfter(S, s), OrderedAfter(S \cup ToSet(s), t)
  PROVE  OrderedAfter(S, s \o t)
  <1> DEFINE u == s \o t
  <1>1. /\ Len(s) \in Nat /\ Len(t) \in Nat /\ Len(u) = Len(s) + Len(t)
        /\ \A i \in 1 .. Len(s) : u[i] = s[i]
        /\ \A i \in 1 .. Len(t) : u[Len(s) + i] = t[i]
    BY ConcatProperties, LenProperties
  <1>2. DOMAIN s = 1 .. Len(s)
    BY LenProperties
  <1> HIDE DEF u
  <1>3. ASSUME NEW i \in 1 .. Len(u), NEW f \in Prior(u[i])
        PROVE  f \in S \cup {u[j] : j \in 1 .. i - 1}
    <2>1. CASE i <= Len(s)
      <3>1. i \in 1 .. Len(s) /\ u[i] = s[i]
        BY <1>1, <2>1
      <3>2. f \in S \/ \E j \in 1 .. i - 1 : f = s[j]
        BY <1>3, <3>1 DEF OrderedAfter
      <3>3. \A j \in 1 .. i - 1 : u[j] = s[j]
        BY <1>1, <3>1
      <3> QED
        BY <3>2, <3>3
    <2>2. CASE ~(i <= Len(s))
      <3> DEFINE k == i - Len(s)
      <3>1. k \in 1 .. Len(t) /\ u[i] = t[k]
        <4>1. k \in 1 .. Len(t) /\ Len(s) + k = i
          BY <1>1, <2>2
        <4> QED
          BY <1>1, <4>1
      <3>2. f \in S \cup ToSet(s) \/ \E j \in 1 .. k - 1 : f = t[j]
        BY <1>3, <3>1 DEF OrderedAfter
      <3>3. \A j \in 1 .. k - 1 : Len(s) + j \in 1 .. i - 1 /\ u[Len(s) + j] = t[j]
        BY <1>1, <3>1
      <3>4. \A j \in DOMAIN s : j \in 1 .. i - 1 /\ u[j] = s[j]
        BY <1>1, <1>2, <2>2
      <3>5. f \in ToSet(s) => \E j \in DOMAIN s : f = s[j]
        BY DEF ToSet
      <3> QED
        BY <3>2, <3>3, <3>4, <3>5
    <2> QED
      BY <2>1, <2>2
  <1>4. OrderedAfter(S, u)
    BY <1>3 DEF OrderedAfter
  <1> QED
    BY <1>4 DEF u

(* What comes before each kind of frame.                                   *)
LEMMA PriorOf ==
  ASSUME NEW c
  PROVE  /\ Prior(Frame(c, "ACK")) = {}
         /\ Prior(Frame(c, "RUNNING")) = {Frame(c, "ACK")}
         /\ \A k \in FinalKinds : Prior(Frame(c, k)) = {Frame(c, "RUNNING")}
  BY DEF Prior, Frame, FinalKinds

LEMMA OrderedOpening ==
  ASSUME NEW S, NEW c \in Commands
  PROVE  OrderedAfter(S, Opening(c))
  <1>1. Len(Opening(c)) = 2 /\ Opening(c)[1] = Frame(c, "ACK")
        /\ Opening(c)[2] = Frame(c, "RUNNING")
    BY DEF Opening
  <1>2. ASSUME NEW i \in 1 .. 2
        PROVE  Prior(Opening(c)[i]) \subseteq S \cup {Opening(c)[j] : j \in 1 .. i - 1}
    <2>1. CASE i = 1
      BY <1>1, <2>1, PriorOf
    <2>2. CASE i = 2
      <3>1. 1 \in 1 .. i - 1
        BY <2>2
      <3>2. Frame(c, "ACK") \in {Opening(c)[j] : j \in 1 .. i - 1}
        BY <1>1, <3>1
      <3> QED
        BY <1>1, <2>2, <3>2, PriorOf
    <2> QED
      BY <2>1, <2>2
  <1> QED
    BY <1>1, <1>2 DEF OrderedAfter

LEMMA OrderedFinal ==
  ASSUME NEW S, NEW c \in Commands, NEW k \in FinalKinds, Frame(c, "RUNNING") \in S
  PROVE  OrderedAfter(S, <<Frame(c, k)>>)
  <1> DEFINE s == <<Frame(c, k)>>
  <1>1. Len(s) = 1 /\ s[1] = Frame(c, k)
    OBVIOUS
  <1> HIDE DEF s
  <1>2. OrderedAfter(S, s)
    BY <1>1, PriorOf DEF OrderedAfter
  <1> QED
    BY <1>2 DEF s

LEMMA ToSetConcat ==
  ASSUME NEW S, NEW s \in Seq(S), NEW t \in Seq(S)
  PROVE  ToSet(s \o t) = ToSet(s) \cup ToSet(t)
  <1>1. \A u : ToSet(u) = Range(u)
    BY DEF ToSet, Range
  <1>2. Range(s \o t) = Range(s) \cup Range(t)
    BY RangeConcatenation
  <1> QED
    BY <1>1, <1>2

LEMMA ToSetHead ==
  ASSUME NEW S, NEW s \in Seq(S), s # <<>>
  PROVE  ToSet(s) = {Head(s)} \cup ToSet(Tail(s))
  <1>1. /\ Len(s) \in Nat \ {0} /\ Head(s) = s[1] /\ DOMAIN s = 1 .. Len(s)
        /\ Len(Tail(s)) = Len(s) - 1 /\ DOMAIN Tail(s) = 1 .. Len(Tail(s))
        /\ \A j \in 1 .. Len(Tail(s)) : Tail(s)[j] = s[j + 1]
    BY EmptySeq, HeadTailProperties, LenProperties
  <1>2. ASSUME NEW i \in DOMAIN s, i # 1
        PROVE  i - 1 \in DOMAIN Tail(s) /\ s[i] = Tail(s)[i - 1]
    BY <1>1, <1>2
  <1>3. ASSUME NEW i \in DOMAIN Tail(s)
        PROVE  i + 1 \in DOMAIN s /\ Tail(s)[i] = s[i + 1]
    BY <1>1, <1>3
  <1>4. 1 \in DOMAIN s
    BY <1>1
  <1>5. ToSet(s) \subseteq {Head(s)} \cup ToSet(Tail(s))
    <2>1. ASSUME NEW i \in DOMAIN s
          PROVE  s[i] = Head(s) \/ \E j \in DOMAIN Tail(s) : s[i] = Tail(s)[j]
      BY <1>1, <1>2
    <2> QED
      BY <2>1 DEF ToSet
  <1>6. ToSet(Tail(s)) \subseteq ToSet(s)
    BY <1>3 DEF ToSet
  <1>7. Head(s) \in ToSet(s)
    BY <1>1, <1>4 DEF ToSet
  <1> QED
    BY <1>5, <1>6, <1>7

LEMMA ToSetOpening ==
  ASSUME NEW c
  PROVE  Frame(c, "RUNNING") \in ToSet(Opening(c))
  <1>1. 2 \in DOMAIN Opening(c) /\ Opening(c)[2] = Frame(c, "RUNNING")
    BY DEF Opening
  <1> QED
    BY <1>1 DEF ToSet

--------------------------------------------------------------------------------
(* The steps.                                                              *)

(* Steps that touch none of the sequences the invariant is about.          *)
LEMMA OrderUntouched ==
  ASSUME OrderInv, UNCHANGED <<sent, outbox, replayq, events, task>>
  PROVE  OrderInv'
  BY DEF OrderInv, WrittenInOrder, Begun

(* A frame that has all its prior frames on the wire may be written.       *)
LEMMA OrderWrite ==
  ASSUME OrderInv, NEW f, Write(f), Prior(f) \subseteq sent
  PROVE  WrittenInOrder'
  BY DEF OrderInv, WrittenInOrder, Write

LEMMA OrderFlush ==
  ASSUME TypeOK, OrderInv, outbox # <<>>, Write(Head(outbox)),
         outbox' \in {outbox, Tail(outbox)}, UNCHANGED <<replayq, events, task>>
  PROVE  OrderInv'
  <1>1. /\ Prior(Head(outbox)) \subseteq sent
        /\ OrderedAfter(sent \cup {Head(outbox)}, Tail(outbox))
    BY OrderedHead DEF TypeOK, OrderInv
  <1>2. sent' = sent \cup {Head(outbox)}
    BY DEF Write
  <1>3. WrittenInOrder'
    BY <1>1, OrderWrite
  <1>4. OrderedAfter(sent', outbox')
    <2>1. OrderedAfter(sent', outbox)
      BY <1>2, OrderedMonotone DEF OrderInv
    <2> QED
      BY <1>1, <1>2, <2>1
  <1>5. OrderedAfter(sent', replayq')
    BY <1>2, OrderedMonotone DEF OrderInv
  <1>6. sent \cup ToSet(outbox) \subseteq sent' \cup ToSet(outbox')
    BY <1>2, ToSetHead DEF TypeOK
  <1> QED
    BY <1>3, <1>4, <1>5, <1>6 DEF OrderInv, Begun

LEMMA OrderReplay ==
  ASSUME TypeOK, OrderInv, replayq # <<>>, Write(Head(replayq)),
         replayq' \in {replayq, Tail(replayq)}, UNCHANGED <<outbox, events, task>>
  PROVE  OrderInv'
  <1>1. /\ Prior(Head(replayq)) \subseteq sent
        /\ OrderedAfter(sent \cup {Head(replayq)}, Tail(replayq))
    BY OrderedHead DEF TypeOK, OrderInv
  <1>2. sent' = sent \cup {Head(replayq)}
    BY DEF Write
  <1>3. WrittenInOrder'
    BY <1>1, OrderWrite
  <1>4. OrderedAfter(sent', replayq')
    <2>1. OrderedAfter(sent', replayq)
      BY <1>2, OrderedMonotone DEF OrderInv
    <2> QED
      BY <1>1, <1>2, <2>1
  <1>5. OrderedAfter(sent', outbox')
    BY <1>2, OrderedMonotone DEF OrderInv
  <1> QED
    BY <1>2, <1>3, <1>4, <1>5 DEF OrderInv, Begun

LEMMA OrderLoop ==
  ASSUME TypeOK, OrderInv, LoopStep
  PROVE  OrderInv'
  <1>1. CASE FlushHead
    BY <1>1, OrderFlush DEF FlushHead, loopVars, taskVars
  <1>2. CASE ReplayNext
    BY <1>2, OrderReplay DEF ReplayNext, taskVars, queueVars
  <1>3. CASE Close
    BY <1>3, OrderedEmpty DEF Close, taskVars, queueVars, wireVars, OrderInv,
       WrittenInOrder, Begun
  <1>4. CASE \/ Connect \/ BackoffOver \/ PauseOver \/ TelemetrySent \/ FlushDone
             \/ RecvTimesOut \/ SocketClosed \/ ReplayDone \/ CancelTasks \/ Gathered
    BY <1>4, OrderUntouched DEF Connect, BackoffOver, PauseOver, TelemetrySent, FlushDone,
       RecvTimesOut, SocketClosed, ReplayDone, CancelTasks, Gathered, Goto, taskVars,
       queueVars, wireVars
  <1>5. ASSUME NEW c \in Commands, DispatchReplay(c)
        PROVE  OrderInv'
    <2>1. UNCHANGED <<sent, outbox, events, task>> /\ replayq' = events[c]
      BY <1>5 DEF DispatchReplay, Received, queueVars, wireVars
    <2>2. OrderedAfter(sent, events[c])
      BY OrderedMonotone DEF OrderInv
    <2> QED
      BY <2>1, <2>2 DEF OrderInv, WrittenInOrder, Begun
  <1>6. ASSUME NEW c \in Commands, DispatchClaim(c)
        PROVE  OrderInv'
    <2>1. /\ UNCHANGED <<sent, outbox, replayq>>
          /\ events' = [events EXCEPT ![c] = <<>>]
          /\ task' = [task EXCEPT ![c] = "created"]
      BY <1>6 DEF DispatchClaim, Received, queueVars, wireVars
    <2>2. \A d \in Commands : OrderedAfter({}, events'[d])
      BY <2>1, OrderedEmpty DEF OrderInv, TypeOK
    <2>3. \A d \in Commands : Begun(d)' => d # c /\ Begun(d)
      BY <2>1 DEF Begun, TypeOK
    <2> QED
      BY <2>1, <2>2, <2>3 DEF OrderInv, WrittenInOrder, TypeOK
  <1>7. ASSUME NEW c \in Commands, DispatchIgnore(c)
        PROVE  OrderInv'
    BY <1>7, OrderUntouched DEF DispatchIgnore, Received, queueVars, wireVars
  <1> QED
    BY <1>1, <1>2, <1>3, <1>4, <1>5, <1>6, <1>7 DEF LoopStep, Dispatch

LEMMA OrderEnvironment ==
  ASSUME TypeOK, OrderInv, Environment
  PROVE  OrderInv'
  <1>1. CASE FlushBreaks
    BY <1>1, OrderFlush DEF FlushBreaks, taskVars, queueVars
  <1>2. CASE ReplayBreaks
    BY <1>2, OrderReplay DEF ReplayBreaks, taskVars, queueVars
  <1>3. CASE Abort
    BY <1>3, OrderedEmpty DEF Abort, taskVars, queueVars, wireVars, OrderInv,
       WrittenInOrder, Begun
  <1>4. CASE \/ LinkDies \/ LinkNoticed \/ ConnectFails \/ TelemetryFails \/ Stop
             \/ \E c \in Commands : Request(c) \/ HelperExits(c)
    BY <1>4, OrderUntouched DEF LinkDies, LinkNoticed, ConnectFails, TelemetryFails, Stop,
       Request, HelperExits, loopVars, taskVars, queueVars, wireVars
  <1> QED
    BY <1>1, <1>2, <1>3, <1>4 DEF Environment

(* A task emits fs, each frame resting on what is written or queued.       *)
LEMMA OrderEmit ==
  ASSUME TypeOK, OrderInv, NEW fs \in Seq(Frames), EmitAll(fs), UNCHANGED sent,
         OrderedAfter(sent \cup ToSet(outbox), fs)
  PROVE  /\ OrderedAfter(sent', outbox')
         /\ sent' \cup ToSet(outbox') = sent \cup ToSet(outbox) \cup ToSet(fs)
  <1>1. outbox' = outbox \o fs /\ outbox \in Seq(Frames)
    BY DEF EmitAll, TypeOK
  <1>2. OrderedAfter(sent, outbox \o fs)
    BY <1>1, OrderedConcat DEF OrderInv
  <1>3. ToSet(outbox \o fs) = ToSet(outbox) \cup ToSet(fs)
    BY <1>1, ToSetConcat
  <1> QED
    BY <1>1, <1>2, <1>3

LEMMA OrderEndsWith ==
  ASSUME TypeOK, OrderInv, NEW c \in Commands, NEW k \in FinalKinds, Begun(c),
         EndsWith(c, k), UNCHANGED <<sent, replayq>>
  PROVE  OrderInv'
  <1> DEFINE fs == <<Frame(c, k)>>
  <1>1. Frame(c, k) \in Frames
    BY FrameType, FinalIsKind
  <1>2. fs \in Seq(Frames)
    BY <1>1
  <1>3. /\ Frame(c, "RUNNING") \in sent \cup ToSet(outbox)
        /\ Frame(c, "RUNNING") \in ToSet(events[c])
    BY DEF OrderInv
  <1>4. OrderedAfter(sent \cup ToSet(outbox), fs)
    BY <1>3, OrderedFinal
  <1>5. /\ OrderedAfter(sent', outbox')
        /\ sent' \cup ToSet(outbox') = sent \cup ToSet(outbox) \cup ToSet(fs)
    <2>1. EmitAll(fs)
      BY DEF EndsWith
    <2> HIDE DEF fs
    <2> QED
      BY <1>2, <1>4, <2>1, OrderEmit
  <1>6. \A d \in Commands : OrderedAfter({}, events'[d])
    <2>1. OrderedAfter({}, events[c]) /\ events[c] \in Seq(Frames)
      BY DEF OrderInv, TypeOK
    <2>2. OrderedAfter({} \cup ToSet(events[c]), fs)
      BY <1>3, OrderedFinal
    <2>3. OrderedAfter({}, events[c] \o fs)
      BY <1>2, <2>1, <2>2, OrderedConcat
    <2>4. Append(events[c], Frame(c, k)) = events[c] \o fs
      BY <1>1, <2>1, AppendIsConcat
    <2>5. events' = [events EXCEPT ![c] = events[c] \o fs]
      BY <2>4 DEF EndsWith
    <2> HIDE DEF fs
    <2> QED
      BY <2>3, <2>5 DEF OrderInv, TypeOK
  <1>7. task' = [task EXCEPT ![c] = "none"]
        /\ events' = [events EXCEPT ![c] = Append(@, Frame(c, k))]
    BY DEF EndsWith, Ends
  <1>8. \A d \in Commands : Begun(d)' => d # c /\ Begun(d) /\ events'[d] = events[d]
    BY <1>7 DEF Begun, TypeOK
  <1> HIDE DEF fs
  <1> QED
    BY <1>5, <1>6, <1>8 DEF OrderInv, WrittenInOrder

LEMMA OrderTask ==
  ASSUME TypeOK, OrderInv, NEW c \in Commands, TaskStep(c)
  PROVE  OrderInv'
  <1>0. UNCHANGED <<sent, replayq>>
    BY DEF TaskStep, Start, StartFails, Finish, TimesOut, TimesOutKillFails,
       ReapTimedOut, CancelUnstarted, CancelKills, Spawned, CancelSpawn,
       CancelKillFails, CancelAfterExit, ReapStopped, CancelSpawnKillFails,
       CancelSpawnAgain, CancelAgain, TaskFrame, loopVars, wireVars
  <1>1. CASE Start(c)
    <2>1. /\ EmitAll(Opening(c)) /\ events' = [events EXCEPT ![c] = Opening(c)]
          /\ task' = [task EXCEPT ![c] = "spawning"]
      BY <1>1 DEF Start
    <2>2. /\ OrderedAfter(sent', outbox')
          /\ sent' \cup ToSet(outbox') = sent \cup ToSet(outbox) \cup ToSet(Opening(c))
      BY <1>0, <2>1, OpeningType, OrderedOpening, OrderEmit
    <2>3. \A d \in Commands : OrderedAfter({}, events'[d])
      BY <2>1, OrderedOpening DEF OrderInv, TypeOK
    <2>4. \A d \in Commands : Begun(d)' =>
            d = c \/ (d # c /\ Begun(d) /\ events'[d] = events[d])
      BY <2>1 DEF Begun, TypeOK
    <2>5. events'[c] = Opening(c)
      BY <2>1 DEF TypeOK
    <2> QED
      BY <1>0, <2>2, <2>3, <2>4, <2>5, ToSetOpening DEF OrderInv, WrittenInOrder
  <1>2. CASE StartFails(c)
    <2> DEFINE last == Frame(c, "NOT_STARTED")
               fs == Append(Opening(c), last)
    <2>1. last \in Frames /\ "NOT_STARTED" \in FinalKinds
      BY FrameType, FinalIsKind DEF FinalKinds
    <2>2. /\ EmitAll(fs) /\ events' = [events EXCEPT ![c] = fs]
          /\ task' = [task EXCEPT ![c] = "none"]
      BY <1>2 DEF StartFails, Ends
    <2>3. \A S : OrderedAfter(S, fs)
      <3> TAKE S
      <3>1. Opening(c) \in Seq(Frames) /\ <<last>> \in Seq(Frames)
        BY <2>1, OpeningType
      <3>2. OrderedAfter(S \cup ToSet(Opening(c)), <<last>>)
        BY <2>1, ToSetOpening, OrderedFinal
      <3>3. OrderedAfter(S, Opening(c) \o <<last>>)
        BY <3>1, <3>2, OrderedOpening, OrderedConcat
      <3>4. fs = Opening(c) \o <<last>>
        BY <2>1, <3>1, AppendIsConcat
      <3> QED
        BY <3>3, <3>4
    <2>4. fs \in Seq(Frames)
      BY <2>1, OpeningType
    <2> HIDE DEF fs
    <2>5. /\ OrderedAfter(sent', outbox')
          /\ sent' \cup ToSet(outbox') = sent \cup ToSet(outbox) \cup ToSet(fs)
      BY <1>0, <2>2, <2>3, <2>4, OrderEmit
    <2>6. \A d \in Commands : OrderedAfter({}, events'[d])
      BY <2>2, <2>3 DEF OrderInv, TypeOK
    <2>7. \A d \in Commands : Begun(d)' => d # c /\ Begun(d) /\ events'[d] = events[d]
      BY <2>2 DEF Begun, TypeOK
    <2> QED
      BY <1>0, <2>5, <2>6, <2>7 DEF OrderInv, WrittenInOrder
  <1>3. CASE Finish(c) \/ TimesOutKillFails(c) \/ ReapTimedOut(c)
             \/ CancelAfterExit(c) \/ ReapStopped(c)
             \/ CancelSpawnKillFails(c) \/ CancelSpawnAgain(c)
    <2>1. PICK k \in FinalKinds : EndsWith(c, k)
      BY <1>3 DEF Finish, TimesOutKillFails, ReapTimedOut, CancelAfterExit, ReapStopped,
         CancelSpawnKillFails, CancelSpawnAgain, FinalKinds
    <2>2. Begun(c)
      BY <1>3 DEF Finish, TimesOutKillFails, ReapTimedOut, CancelAfterExit, ReapStopped,
         CancelSpawnKillFails, CancelSpawnAgain, Runs, Interrupted, Begun
    <2> QED
      BY <1>0, <2>1, <2>2, OrderEndsWith
  <1>4. CASE TimesOut(c) \/ CancelKills(c) \/ Spawned(c) \/ CancelSpawn(c)
    <2>1. UNCHANGED <<events, outbox>> /\ \A d \in Commands : Begun(d)' => Begun(d)
      BY <1>4 DEF TimesOut, CancelKills, Spawned, CancelSpawn, Runs, Interrupted, Begun,
         queueVars, TypeOK
    <2> QED
      BY <1>0, <2>1 DEF OrderInv, WrittenInOrder
  <1>5. CASE CancelKillFails(c) \/ CancelAgain(c) \/ CancelUnstarted(c)
    <2>1. UNCHANGED <<events, outbox>> /\ \A d \in Commands : Begun(d)' => Begun(d)
      BY <1>5 DEF CancelKillFails, CancelAgain, CancelUnstarted, EndsSilently, Ends, Begun,
         queueVars, TypeOK
    <2> QED
      BY <1>0, <2>1 DEF OrderInv, WrittenInOrder
  <1> QED
    BY <1>1, <1>2, <1>3, <1>4, <1>5 DEF TaskStep

(* No socket is ever given a result of a command before its ACK, nor a     *)
(* final result before RUNNING: not from the outbox, not after any number  *)
(* of reconnections, not in a replay.                                      *)
THEOREM OrderKept == Spec => []WrittenInOrder
  <1>1. Init => OrderInv
    <2> SUFFICES ASSUME Init PROVE OrderInv
      OBVIOUS
    <2>1. \A c \in Commands : OrderedAfter({}, events[c])
      BY OrderedEmpty DEF Init
    <2> QED
      BY <2>1, OrderedEmpty DEF Init, OrderInv, WrittenInOrder, Begun
  <1>2. TypeOK /\ OrderInv /\ [Next]_vars => OrderInv'
    BY OrderLoop, OrderTask, OrderEnvironment, OrderUntouched DEF Next, Terminated, vars
  <1>3. OrderInv => WrittenInOrder
    BY DEF OrderInv
  <1> QED
    BY <1>1, <1>2, <1>3, TypeCorrect, PTL DEF Spec

================================================================================
