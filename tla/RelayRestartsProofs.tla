-------------------------- MODULE RelayRestartsProofs --------------------------
(* The answers of several lives of the agent do not contradict each other. *)
(* OneVerdict is not inductive: what a life may still say is in its log,   *)
(* which holds one final result of a command at most, because a command    *)
(* that the registry remembers is not claimed again; and a result told by  *)
(* an earlier life is safe because nobody asks for that command any more.  *)
EXTENDS RelayRestarts, CommandRelayRegistryProofs

Finals == {f \in Frames : f.kind \in FinalKinds}

(* Whatever a life can hand to a socket, it has emitted.                   *)
SaysWhatItEmitted ==
    /\ ToSet(outbox) \subseteq ToSet(log)
    /\ ToSet(replayq) \subseteq ToSet(log)
    /\ \A c \in Commands : ToSet(events[c]) \subseteq ToSet(log)

EndedIsRecorded == \A f \in ToSet(log) \cap Finals : f.cmd \in ToSet(completed)

EndsOnce == \A f, g \in ToSet(log) \cap Finals : f.cmd = g.cmd => f = g

(* This life has nothing to do with c.                                     *)
Unaware(c) ==
    /\ c \notin ToSet(inbox) /\ c \notin inflight
    /\ \A g \in ToSet(log) \cap Finals : g.cmd # c

ToldByThisLifeOrEarlier == \A f \in seen \cap Finals : f \in ToSet(log) \/ Unaware(f.cmd)

VerdictInv ==
    /\ TypeOK /\ RegistryInv
    /\ SaysWhatItEmitted /\ EndedIsRecorded /\ EndsOnce
    /\ ToldByThisLifeOrEarlier /\ OneVerdict

--------------------------------------------------------------------------------
(* The steps of one life are steps of CommandRelay.                        *)

LEMMA LifeTypes ==
  ASSUME TypeOK, RegistryInv, NextRestarts
  PROVE  TypeOK' /\ RegistryInv'
  <1>1. CASE \/ LoopStep \/ (\E c \in Commands : TaskStep(c))
             \/ Environment
    BY <1>1, LoopType, TaskType, EnvironmentType, RegistryLoop, RegistryTask,
       RegistryEnvironment
  <1>2. CASE AgentStep \/ OperatorStops
    BY <1>1, <1>2 DEF AgentStep, OperatorStops, Environment
  <1>3. CASE NewLife
    <2>1. TypeOK'
      <3>1. up' \in BOOLEAN /\ link' \in BOOLEAN /\ stopping' \in BOOLEAN
        BY <1>3, Zenon DEF NewLife
      <3>2. /\ events' \in [Commands -> Seq(Frames)] /\ task' \in [Commands -> TaskStates]
            /\ helper' \in [Commands -> HelperStates]
        BY <1>3 DEF NewLife, TaskStates, HelperStates
      <3>3. Len(completed') <= MaxCompleted
        BY <1>3, MaxCompletedAssumption DEF NewLife
      <3> QED
        BY <1>3, <3>1, <3>2, <3>3 DEF NewLife, TypeOK, LoopStates
    <2>2. ToSet(completed') = {} /\ IsInjective(completed') /\ Live' = {}
      BY <1>3 DEF NewLife, ToSet, IsInjective, Live
    <2>3. RegistryInv'
      BY <1>3, <2>2 DEF NewLife, RegistryInv, StopsOnly, RecordsBegin, Begun,
         RegistryMatchesTasks, WholeRecords
    <2> QED
      BY <2>1, <2>3
  <1>4. CASE \E c \in Commands : Ask(c)
    <2>1. PICK c \in Commands : Ask(c)
      BY <1>4
    <2>2. /\ UNCHANGED <<pc, up, link, stopping, inflight, completed, events, task,
                          cancelling, helper, outbox, replayq, requests, faults, log,
                          flushed, sent, seen>>
          /\ inbox' = Append(inbox, c)
      BY <2>1 DEF Ask, loopVars, netVars, registryVars, taskVars, queueVars, wireVars
    <2>3. TypeOK'
      BY <2>2 DEF TypeOK
    <2>4. StopsOnly'
      BY <2>2 DEF RegistryInv, StopsOnly
    <2> QED
      BY <2>2, <2>3, <2>4, RegistryUntouched
  <1> QED
    BY <1>2, <1>3, <1>4 DEF NextRestarts

--------------------------------------------------------------------------------
(* Lemmas on sequences as sets.                                            *)

LEMMA SetOfAppend ==
  ASSUME NEW S, NEW s \in Seq(S), NEW t \in Seq(S)
  PROVE  ToSet(s \o t) = ToSet(s) \cup ToSet(t)
  <1>1. /\ DOMAIN s = 1 .. Len(s) /\ DOMAIN t = 1 .. Len(t)
        /\ DOMAIN (s \o t) = 1 .. Len(s) + Len(t)
        /\ Len(s) \in Nat /\ Len(t) \in Nat
        /\ \A i \in 1 .. Len(s) : (s \o t)[i] = s[i]
    BY LenProperties, ConcatProperties
  <1>2. \A j \in 1 .. Len(t) : (s \o t)[Len(s) + j] = t[j] /\ Len(s) + j \in DOMAIN (s \o t)
    <2> TAKE j \in 1 .. Len(t)
    <2>1. Len(s) + j \in 1 .. Len(s) + Len(t) /\ Len(s) + j > Len(s) /\ Len(s) + j - Len(s) = j
      BY <1>1
    <2> QED
      BY <1>1, <2>1, ConcatProperties
  <1>3. ASSUME NEW i \in DOMAIN (s \o t) PROVE (s \o t)[i] \in ToSet(s) \cup ToSet(t)
    <2>1. CASE i <= Len(s)
      BY <1>1, <1>3, <2>1 DEF ToSet
    <2>2. CASE i > Len(s)
      <3>1. i - Len(s) \in 1 .. Len(t) /\ Len(s) + (i - Len(s)) = i
        BY <1>1, <1>3, <2>2
      <3> QED
        BY <1>1, <1>2, <3>1 DEF ToSet
    <2> QED
      BY <1>1, <2>1, <2>2
  <1>4. \A i \in DOMAIN s : s[i] \in ToSet(s \o t)
    BY <1>1 DEF ToSet
  <1>5. \A j \in DOMAIN t : t[j] \in ToSet(s \o t)
    BY <1>1, <1>2 DEF ToSet
  <1> QED
    BY <1>3, <1>4, <1>5 DEF ToSet

LEMMA SetOfNone == ToSet(<<>>) = {}
  BY DEF ToSet

LEMMA SetOfOneMore ==
  ASSUME NEW S, NEW s \in Seq(S), NEW x \in S
  PROVE  ToSet(Append(s, x)) = ToSet(s) \cup {x}
  <1>1. <<x>> \in Seq(S) /\ Len(<<x>>) = 1 /\ <<x>>[1] = x /\ DOMAIN <<x>> = {1}
    OBVIOUS
  <1>2. ToSet(<<x>>) = {x}
    BY <1>1 DEF ToSet
  <1>3. Append(s, x) = s \o <<x>>
    OBVIOUS
  <1>4. \A t \in Seq(S) : ToSet(s \o t) = ToSet(s) \cup ToSet(t)
    BY SetOfAppend
  <1> QED
    BY <1>1, <1>2, <1>3, <1>4

LEMMA SetOfTail ==
  ASSUME NEW S, NEW s \in Seq(S), s # <<>>
  PROVE  ToSet(Tail(s)) \subseteq ToSet(s) /\ Head(s) \in ToSet(s)
  <1>1. /\ Len(Tail(s)) = Len(s) - 1 /\ Tail(s) \in Seq(S) /\ Head(s) = s[1]
        /\ \A i \in 1 .. Len(Tail(s)) : Tail(s)[i] = s[i + 1]
    BY HeadTailProperties
  <1>2. DOMAIN s = 1 .. Len(s) /\ DOMAIN Tail(s) = 1 .. Len(s) - 1 /\ Len(s) \in Nat /\ Len(s) # 0
    BY <1>1, LenProperties, EmptySeq
  <1>3. \A i \in DOMAIN Tail(s) : i + 1 \in DOMAIN s /\ Tail(s)[i] = s[i + 1]
    BY <1>1, <1>2
  <1>4. 1 \in DOMAIN s
    BY <1>2
  <1> QED
    BY <1>1, <1>3, <1>4 DEF ToSet

(* For frames and for commands, so that the provers need not guess a set.  *)
LEMMA FrameSequences ==
  /\ \A s, t \in Seq(Frames) : ToSet(s \o t) = ToSet(s) \cup ToSet(t)
  /\ \A s \in Seq(Frames) : s # <<>> =>
         ToSet(Tail(s)) \subseteq ToSet(s) /\ Head(s) \in ToSet(s)
  /\ \A s \in Seq(Frames), f \in Frames : ToSet(Append(s, f)) = ToSet(s) \cup {f}
  /\ \A f \in Frames : <<f>> \in Seq(Frames) /\ ToSet(<<f>>) = {f}
  <1>2. \A s, t \in Seq(Frames) : ToSet(s \o t) = ToSet(s) \cup ToSet(t)
    BY SetOfAppend
  <1>3. \A s \in Seq(Frames) : s # <<>> =>
            ToSet(Tail(s)) \subseteq ToSet(s) /\ Head(s) \in ToSet(s)
    BY SetOfTail
  <1>4. \A s \in Seq(Frames), f \in Frames : ToSet(Append(s, f)) = ToSet(s) \cup {f}
    BY SetOfOneMore
  <1>5. \A f \in Frames : <<f>> \in Seq(Frames) /\ ToSet(<<f>>) = {f}
    BY DEF ToSet
  <1> QED
    BY <1>2, <1>3, <1>4, <1>5

LEMMA CommandSequences ==
  /\ \A s \in Seq(Commands) : s # <<>> =>
         ToSet(Tail(s)) \subseteq ToSet(s) /\ Head(s) \in ToSet(s)
  /\ \A s \in Seq(Commands), c \in Commands : ToSet(Append(s, c)) = ToSet(s) \cup {c}
  <1>1. \A s \in Seq(Commands) : s # <<>> =>
            ToSet(Tail(s)) \subseteq ToSet(s) /\ Head(s) \in ToSet(s)
    BY SetOfTail
  <1>2. \A s \in Seq(Commands), c \in Commands : ToSet(Append(s, c)) = ToSet(s) \cup {c}
    BY SetOfOneMore
  <1> QED
    BY <1>1, <1>2

(* A registry as large as the set of commands never forgets one.           *)
LEMMA NothingForgotten ==
  ASSUME TypeOK, IsFiniteSet(Commands), Cardinality(Commands) <= MaxCompleted,
         NEW c \in Commands, IsInjective(completed), c \notin ToSet(completed), Remember(c)
  PROVE  ToSet(completed') = ToSet(completed) \cup {c}
  <1>1. completed \in Seq(Commands) /\ Len(completed) \in Nat
    BY LenProperties DEF TypeOK
  <1>2. ToSet(completed) \subseteq Commands \ {c}
    BY <1>1 DEF ToSet
  <1>3. Cardinality(ToSet(completed)) = Len(completed)
    BY <1>1, InjectiveCardinality
  <1>4. IsFiniteSet(Commands \ {c}) /\ Cardinality(Commands \ {c}) = Cardinality(Commands) - 1
    BY FS_RemoveElement
  <1>5. Cardinality(ToSet(completed)) <= Cardinality(Commands \ {c})
    BY <1>2, <1>4, FS_Subset
  <1>6. Cardinality(Commands) \in Nat
    BY FS_CardinalityType
  <1>7. Len(completed) < MaxCompleted
    BY <1>1, <1>3, <1>4, <1>5, <1>6, MaxCompletedAssumption
  <1> QED
    BY <1>1, <1>7, InjectiveAppend DEF Remember

--------------------------------------------------------------------------------
(* The steps.                                                              *)

LEMMA VerdictInit ==
  ASSUME TypeOK, RegistryInv, log = <<>>, outbox = <<>>, replayq = <<>>, inbox = <<>>,
         \A c \in Commands : events[c] = <<>>, inflight = {}, OneVerdict
  PROVE  VerdictInv
  <1>1. ToSet(<<>>) = {}
    BY DEF ToSet
  <1> QED
    BY <1>1 DEF VerdictInv, SaysWhatItEmitted, EndedIsRecorded, EndsOnce,
       ToldByThisLifeOrEarlier, Unaware

(* A step that emits nothing: what reaches the dashboard was emitted, and  *)
(* only what was asked for is taken on.                                    *)
LEMMA VerdictQuiet ==
  ASSUME VerdictInv, TypeOK', RegistryInv', UNCHANGED log,
         ToSet(completed) \subseteq ToSet(completed'),
         ToSet(outbox') \subseteq ToSet(log), ToSet(replayq') \subseteq ToSet(log),
         \A c \in Commands : ToSet(events'[c]) \subseteq ToSet(log),
         ToSet(inbox') \subseteq ToSet(inbox), inflight' \subseteq inflight \cup ToSet(inbox),
         seen' \subseteq seen \cup ToSet(log)
  PROVE  VerdictInv'
  <1>1. SaysWhatItEmitted' /\ EndedIsRecorded' /\ EndsOnce'
    BY DEF VerdictInv, SaysWhatItEmitted, EndedIsRecorded, EndsOnce
  <1>2. \A c : Unaware(c) => Unaware(c)'
    BY DEF Unaware
  <1>3. ToldByThisLifeOrEarlier'
    BY <1>2 DEF VerdictInv, ToldByThisLifeOrEarlier
  <1>4. ASSUME NEW f \in seen', NEW g \in seen',
               f.cmd = g.cmd, {f.kind, g.kind} \subseteq FinalKinds
        PROVE  f = g
    <2>1. f \in Finals /\ g \in Finals
      BY <1>4 DEF Finals, TypeOK
    <2>2. CASE f \in ToSet(log) /\ g \in ToSet(log)
      BY <1>4, <2>1, <2>2 DEF VerdictInv, EndsOnce
    <2>3. CASE f \in seen /\ g \in seen
      BY <1>4, <2>3 DEF VerdictInv, OneVerdict
    <2>4. CASE f \in seen /\ g \in ToSet(log)
      <3>1. ~Unaware(f.cmd)
        BY <1>4, <2>1, <2>4 DEF Unaware
      <3> QED
        BY <2>1, <2>2, <2>4, <3>1 DEF VerdictInv, ToldByThisLifeOrEarlier
    <2>5. CASE f \in ToSet(log) /\ g \in seen
      <3>1. ~Unaware(g.cmd)
        BY <1>4, <2>1, <2>5 DEF Unaware
      <3> QED
        BY <2>1, <2>2, <2>5, <3>1 DEF VerdictInv, ToldByThisLifeOrEarlier
    <2> QED
      BY <2>2, <2>3, <2>4, <2>5
  <1>5. OneVerdict'
    BY <1>4 DEF OneVerdict
  <1> QED
    BY <1>1, <1>3, <1>5 DEF VerdictInv

(* A step of a running task that emits fs, with a record of the end.       *)
LEMMA VerdictEmits ==
  ASSUME VerdictInv, TypeOK', RegistryInv', NEW c \in Commands, task[c] # "none",
         NEW fs \in Seq(Frames), EmitAll(fs), UNCHANGED <<replayq, inbox, seen>>,
         \A f \in ToSet(fs) : f.cmd = c,
         \A f, g \in ToSet(fs) \cap Finals : f = g,
         ToSet(fs) \cap Finals # {} => c \in ToSet(completed'),
         ToSet(completed) \subseteq ToSet(completed'), inflight' \subseteq inflight,
         \A d \in Commands \ {c} : events'[d] = events[d],
         ToSet(events'[c]) \subseteq ToSet(events[c]) \cup ToSet(fs)
  PROVE  VerdictInv'
  <1>1. c \in inflight /\ c \notin ToSet(completed)
    BY DEF VerdictInv, RegistryInv, RegistryMatchesTasks, Live
  <1>2. /\ ToSet(log') = ToSet(log) \cup ToSet(fs)
        /\ ToSet(outbox') = ToSet(outbox) \cup ToSet(fs)
    BY FrameSequences DEF EmitAll, VerdictInv, TypeOK
  <1>3. SaysWhatItEmitted'
    BY <1>2 DEF VerdictInv, SaysWhatItEmitted
  <1>4. EndedIsRecorded'
    BY <1>2 DEF VerdictInv, EndedIsRecorded
  <1>5. EndsOnce'
    BY <1>1, <1>2 DEF VerdictInv, EndsOnce, EndedIsRecorded
  <1>6. \A d : Unaware(d) => Unaware(d)'
    BY <1>1, <1>2 DEF Unaware
  <1>7. ToldByThisLifeOrEarlier'
    BY <1>2, <1>6 DEF VerdictInv, ToldByThisLifeOrEarlier
  <1>8. OneVerdict'
    BY DEF VerdictInv, OneVerdict
  <1> QED
    BY <1>3, <1>4, <1>5, <1>7, <1>8 DEF VerdictInv

(* What happens to one life of the agent, requests excepted.               *)
LifeEvent ==
    \/ LinkDies \/ LinkNoticed \/ ConnectFails \/ TelemetryFails \/ FlushBreaks
    \/ ReplayBreaks \/ Stop \/ Abort \/ \E c \in Commands : HelperExits(c)

LEMMA VerdictLoop ==
  ASSUME VerdictInv, TypeOK', RegistryInv', LoopStep \/ LifeEvent
  PROVE  VerdictInv'
  <1> USE DEF registryVars, taskVars, queueVars, wireVars, loopVars, netVars
  <1>0. /\ outbox \in Seq(Frames) /\ replayq \in Seq(Frames) /\ inbox \in Seq(Commands)
        /\ ToSet(outbox) \subseteq ToSet(log) /\ ToSet(replayq) \subseteq ToSet(log)
        /\ \A c \in Commands : ToSet(events[c]) \subseteq ToSet(log)
        /\ ToSet(<<>>) = {}
    BY SetOfNone DEF VerdictInv, TypeOK, SaysWhatItEmitted
  <1>1. CASE FlushHead \/ FlushBreaks
    <2>1. ToSet(outbox') \subseteq ToSet(outbox) /\ Head(outbox) \in ToSet(outbox)
      BY <1>0, <1>1, FrameSequences DEF FlushHead, FlushBreaks
    <2>2. /\ UNCHANGED <<log, completed, replayq, events, inbox, inflight>>
          /\ seen' \subseteq seen \cup {Head(outbox)}
      BY <1>1 DEF FlushHead, FlushBreaks, Write
    <2> QED
      BY <1>0, <2>1, <2>2, VerdictQuiet
  <1>2. CASE ReplayNext \/ ReplayBreaks
    <2>1. ToSet(replayq') \subseteq ToSet(replayq) /\ Head(replayq) \in ToSet(replayq)
      BY <1>0, <1>2, FrameSequences DEF ReplayNext, ReplayBreaks
    <2>2. /\ UNCHANGED <<log, completed, outbox, events, inbox, inflight>>
          /\ seen' \subseteq seen \cup {Head(replayq)}
      BY <1>2 DEF ReplayNext, ReplayBreaks, Write
    <2> QED
      BY <1>0, <2>1, <2>2, VerdictQuiet
  <1>3. ASSUME NEW c \in Commands, Dispatch(c)
        PROVE  VerdictInv'
    <2>0. inbox # <<>> /\ inbox' = Tail(inbox) /\ c = Head(inbox)
      BY <1>3 DEF Dispatch, DispatchReplay, DispatchClaim, DispatchIgnore, Received
    <2>1. ToSet(inbox') \subseteq ToSet(inbox) /\ c \in ToSet(inbox)
      BY <1>0, <2>0, CommandSequences
    <2>2. UNCHANGED <<log, completed, outbox, seen>>
      BY <1>3 DEF Dispatch, DispatchReplay, DispatchClaim, DispatchIgnore, Received
    <2>3. inflight' \subseteq inflight \cup {c}
      BY <1>3 DEF Dispatch, DispatchReplay, DispatchClaim, DispatchIgnore
    <2>4. ToSet(replayq') \subseteq ToSet(log)
      BY <1>0, <1>3 DEF Dispatch, DispatchReplay, DispatchClaim, DispatchIgnore
    <2>5. \A d \in Commands : events'[d] \in {events[d], <<>>}
      BY <1>3 DEF Dispatch, DispatchReplay, DispatchClaim, DispatchIgnore, VerdictInv, TypeOK
    <2>6. \A d \in Commands : ToSet(events'[d]) \subseteq ToSet(log)
      BY <1>0, <2>5
    <2> QED
      BY <1>0, <2>1, <2>2, <2>3, <2>4, <2>6, VerdictQuiet
  <1>4. CASE /\ UNCHANGED <<log, completed, outbox, events, inflight, seen>>
             /\ replayq' \in {replayq, <<>>} /\ inbox' \in {inbox, <<>>}
    <2>1. ToSet(replayq') \subseteq ToSet(log) /\ ToSet(inbox') \subseteq ToSet(inbox)
      BY <1>0, <1>4
    <2> QED
      BY <1>0, <1>4, <2>1, VerdictQuiet
  <1> QED
    BY <1>1, <1>2, <1>3, <1>4
       DEF LoopStep, LifeEvent, Connect, BackoffOver, PauseOver, TelemetrySent,
       FlushDone, RecvTimesOut, SocketClosed, ReplayDone, Close, CancelTasks,
       Gathered, Goto, LinkDies, LinkNoticed, ConnectFails, TelemetryFails,
       Stop, Abort, HelperExits

LEMMA VerdictTask ==
  ASSUME VerdictInv, TypeOK', RegistryInv', NEW c \in Commands, TaskStep(c),
         IsFiniteSet(Commands), Cardinality(Commands) <= MaxCompleted
  PROVE  VerdictInv'
  <1> USE DEF registryVars, queueVars, wireVars, loopVars
  <1>1. /\ task[c] # "none" /\ UNCHANGED <<replayq, inbox, seen>>
        /\ \A d \in Commands \ {c} : events'[d] = events[d]
    BY DEF VerdictInv, TypeOK, TaskStep, Start, StartFails, Finish, TimesOut,
       TimesOutKillFails, ReapTimedOut, CancelUnstarted, CancelKills, Spawned,
       CancelSpawn, CancelKillFails, CancelAfterExit, ReapStopped, CancelSpawnKillFails,
       CancelSpawnAgain, CancelAgain, Runs, Interrupted, TaskFrame, EndsWith,
       EndsSilently
  <1>2. c \notin ToSet(completed) /\ IsInjective(completed) /\ TypeOK
    BY <1>1 DEF VerdictInv, RegistryInv, RegistryMatchesTasks, Live
  <1>3. Remember(c) => ToSet(completed') = ToSet(completed) \cup {c} /\ inflight' \subseteq inflight
    BY <1>2, NothingForgotten DEF Remember
  <1>4. /\ ToSet(outbox) \subseteq ToSet(log) /\ ToSet(replayq) \subseteq ToSet(log)
        /\ \A d \in Commands : ToSet(events[d]) \subseteq ToSet(log)
    BY DEF VerdictInv, SaysWhatItEmitted
  <1>5. \A k \in Kinds : Frame(c, k) \in Frames /\ Frame(c, k).cmd = c /\ Frame(c, k).kind = k
    BY FrameType DEF Frame
  <1>6. ToSet(Opening(c)) = {Frame(c, "ACK"), Frame(c, "RUNNING")}
    BY DEF ToSet, Opening
  <1>7. \A f \in ToSet(Opening(c)) : f.cmd = c /\ f \notin Finals
    BY <1>5, <1>6 DEF Finals, Kinds, FinalKinds
  <1>8. Opening(c) \in Seq(Frames)
    BY OpeningType
  <1>9. CASE Start(c)
    <2>1. /\ EmitAll(Opening(c)) /\ UNCHANGED <<inflight, completed>>
          /\ events'[c] = Opening(c)
      BY <1>2, <1>9 DEF Start, TypeOK
    <2> QED
      BY <1>1, <1>7, <1>8, <2>1, VerdictEmits
  <1>10. CASE StartFails(c)
    <2> DEFINE f == Frame(c, "NOT_STARTED")
               fs == Append(Opening(c), f)
    <2>1. EmitAll(fs) /\ Remember(c) /\ events'[c] = fs
      BY <1>2, <1>10 DEF StartFails, TypeOK
    <2>2. f \in Frames /\ f.cmd = c
      BY <1>5 DEF Kinds, FinalKinds
    <2> HIDE DEF f
    <2>3. fs \in Seq(Frames) /\ ToSet(fs) = ToSet(Opening(c)) \cup {f}
      <3>1. ToSet(fs) = ToSet(Opening(c)) \cup {f}
        BY <1>8, <2>2, FrameSequences
      <3> QED
        BY <1>8, <2>2, <3>1, AppendProperties
    <2> HIDE DEF fs
    <2>4. (\A g \in ToSet(fs) : g.cmd = c) /\ \A g, h \in ToSet(fs) \cap Finals : g = h
      BY <1>7, <2>2, <2>3
    <2> QED
      BY <1>1, <1>3, <2>1, <2>3, <2>4, VerdictEmits
  <1>11. CASE Finish(c) \/ TimesOutKillFails(c) \/ ReapTimedOut(c)
             \/ CancelAfterExit(c) \/ ReapStopped(c)
             \/ CancelSpawnKillFails(c) \/ CancelSpawnAgain(c)
    <2>1. PICK k \in FinalKinds : EndsWith(c, k)
      BY <1>11 DEF Finish, TimesOutKillFails, ReapTimedOut, CancelAfterExit,
         ReapStopped, CancelSpawnKillFails, CancelSpawnAgain, FinalKinds
    <2> DEFINE f == Frame(c, k)
    <2>2. EmitAll(<<f>>) /\ Remember(c) /\ events'[c] = Append(events[c], f)
      BY <1>2, <2>1 DEF EndsWith, TypeOK
    <2>3. f \in Frames /\ f.cmd = c /\ events[c] \in Seq(Frames)
      BY <1>2, <1>5, FinalIsKind DEF TypeOK
    <2> HIDE DEF f
    <2>4. <<f>> \in Seq(Frames) /\ ToSet(<<f>>) = {f}
      BY <2>3, FrameSequences
    <2>5. ToSet(events'[c]) = ToSet(events[c]) \cup {f}
      BY <2>2, <2>3, FrameSequences
    <2> QED
      BY <1>1, <1>3, <2>2, <2>3, <2>4, <2>5, VerdictEmits
  <1>12. CASE CancelKillFails(c) \/ CancelAgain(c)
    <2>1. Remember(c) /\ UNCHANGED <<log, outbox, events>>
      BY <1>12 DEF CancelKillFails, CancelAgain, EndsSilently
    <2> QED
      BY <1>1, <1>3, <1>4, <2>1, VerdictQuiet
  <1>13. CASE TimesOut(c) \/ CancelKills(c) \/ Spawned(c) \/ CancelSpawn(c)
              \/ CancelUnstarted(c)
    <2>1. UNCHANGED <<log, outbox, events, completed, inflight>>
      BY <1>13 DEF TimesOut, CancelKills, Spawned, CancelSpawn, CancelUnstarted
    <2> QED
      BY <1>1, <1>4, <2>1, VerdictQuiet
  <1> QED
    BY <1>9, <1>10, <1>11, <1>12, <1>13 DEF TaskStep

LEMMA VerdictStep ==
  ASSUME VerdictInv, [NextRestarts]_restartVars,
         IsFiniteSet(Commands), Cardinality(Commands) <= MaxCompleted
  PROVE  VerdictInv'
  <1>1. CASE NextRestarts
    <2>1. TypeOK' /\ RegistryInv'
      BY <1>1, LifeTypes DEF VerdictInv
    <2>2. CASE AgentStep \/ OperatorStops
      <3>1. CASE \E c \in Commands : TaskStep(c)
        BY <2>1, <3>1, VerdictTask
      <3>2. CASE LoopStep \/ LifeEvent
        BY <2>1, <3>2, VerdictLoop
      <3> QED
        BY <2>2, <3>1, <3>2 DEF AgentStep, OperatorStops, LifeEvent
    <2>3. CASE NewLife
      <3>1. OneVerdict' /\ inbox' = <<>> /\ inflight' = {} /\ log' = <<>> /\ outbox' = <<>>
            /\ replayq' = <<>> /\ \A c \in Commands : events'[c] = <<>>
        BY <2>3 DEF NewLife, VerdictInv, OneVerdict
      <3>2. SaysWhatItEmitted'
        BY <3>1, SetOfNone DEF SaysWhatItEmitted
      <3>3. EndedIsRecorded' /\ EndsOnce' /\ ToldByThisLifeOrEarlier'
        BY <3>1, SetOfNone DEF EndedIsRecorded, EndsOnce, ToldByThisLifeOrEarlier, Unaware
      <3> QED
        BY <2>1, <3>1, <3>2, <3>3 DEF VerdictInv
    <2>4. CASE \E c \in Commands : Ask(c)
      <3>1. PICK c \in Commands : Ask(c)
        BY <2>4
      <3>2. /\ ~Told(c) /\ inbox' = Append(inbox, c)
            /\ UNCHANGED <<inflight, completed, events, outbox, replayq, log, seen>>
        BY <3>1 DEF Ask, loopVars, registryVars, taskVars, queueVars, wireVars
      <3>3. ToSet(inbox') = ToSet(inbox) \cup {c}
        BY <3>2, CommandSequences DEF VerdictInv, TypeOK
      <3>4. \A f \in seen \cap Finals : f.cmd # c
        <4>1. \A f \in Finals : f = Frame(f.cmd, f.kind) /\ f.kind \in FinalKinds
          BY DEF Finals, Frames, Frame
        <4> QED
          BY <3>2, <4>1 DEF Told
      <3>5. \A d : d # c /\ Unaware(d) => Unaware(d)'
        BY <3>2, <3>3 DEF Unaware
      <3>6. ToldByThisLifeOrEarlier'
        BY <3>2, <3>4, <3>5 DEF VerdictInv, ToldByThisLifeOrEarlier
      <3>7. SaysWhatItEmitted' /\ EndedIsRecorded' /\ EndsOnce' /\ OneVerdict'
        BY <3>2 DEF VerdictInv, SaysWhatItEmitted, EndedIsRecorded, EndsOnce, OneVerdict
      <3> QED
        BY <2>1, <3>6, <3>7 DEF VerdictInv
    <2> QED
      BY <1>1, <2>2, <2>3, <2>4 DEF NextRestarts
  <1>2. CASE UNCHANGED restartVars
    <2>1. UNCHANGED vars
      BY <1>2 DEF restartVars
    <2>2. TypeOK' /\ RegistryInv'
      BY <2>1, StutterType, RegistryUntouched DEF vars, VerdictInv, RegistryInv, StopsOnly
    <2>3. UNCHANGED <<log, completed, outbox, replayq, events, inbox, inflight, seen>>
      BY <2>1 DEF vars
    <2> QED
      BY <2>2, <2>3, VerdictQuiet DEF VerdictInv, SaysWhatItEmitted
  <1> QED
    BY <1>1, <1>2

(* The dashboard is never told of two different ends of one command, by    *)
(* however many lives of the agent, as long as the registry has room for   *)
(* every command: it then forgets nothing but with its process.            *)
THEOREM OneVerdictOnly ==
  ASSUME IsFiniteSet(Commands), Cardinality(Commands) <= MaxCompleted
  PROVE  SpecRestarts => []OneVerdict
  <1>1. InitRestarts => VerdictInv
    <2> SUFFICES ASSUME InitRestarts PROVE VerdictInv
      OBVIOUS
    <2>1. Init
      BY DEF InitRestarts
    <2>2. TypeOK /\ RegistryInv
      BY <2>1, InitType, InitRegistry
    <2>3. OneVerdict /\ \A c \in Commands : events[c] = <<>>
      BY <2>1 DEF Init, OneVerdict
    <2> QED
      BY <2>1, <2>2, <2>3, VerdictInit DEF Init
  <1>2. VerdictInv /\ [NextRestarts]_restartVars => VerdictInv'
    BY VerdictStep
  <1>3. VerdictInv => OneVerdict
    BY DEF VerdictInv
  <1> QED
    BY <1>1, <1>2, <1>3, PTL DEF SpecRestarts

================================================================================
