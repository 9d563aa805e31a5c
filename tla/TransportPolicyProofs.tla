------------------------- MODULE TransportPolicyProofs -------------------------
(* Theorems about TransportPolicy, for any delays and any number of        *)
(* attempts.                                                               *)
EXTENDS TransportPolicy, FiniteSets, FiniteSetTheorems, FunctionTheorems, TLAPS

(* The back-off.  The provers take 2 ^ n for an unknown function; what is  *)
(* known of it is the number of subsets of a set of n elements.            *)
LEMMA CardPow ==
  ASSUME NEW n \in Nat
  PROVE  IsFiniteSet(SUBSET (1 .. n)) /\ Cardinality(SUBSET (1 .. n)) = 2 ^ n
  <1>1. IsFiniteSet(1 .. n) /\ Cardinality(1 .. n) = n
    BY FS_Interval
  <1> QED BY <1>1, FS_SUBSET

LEMMA PowerNat ==
  ASSUME NEW n \in Nat
  PROVE  2 ^ n \in Nat
  BY CardPow, FS_CardinalityType

LEMMA PowerZero == 2 ^ 0 = 1
  <1>1. 1 .. 0 = {}
    OBVIOUS
  <1>2. SUBSET (1 .. 0) = {{}}
    BY <1>1
  <1>3. Cardinality({{}}) = 1
    BY FS_Singleton
  <1> QED BY <1>2, <1>3, CardPow

LEMMA PowerDoubles ==
  ASSUME NEW n \in Nat
  PROVE  2 ^ (n + 1) = 2 * 2 ^ n
  <1> DEFINE Old == SUBSET (1 .. n)
             New == {T \cup {n + 1} : T \in Old}
             f == [T \in Old |-> T \cup {n + 1}]
  <1>1. IsFiniteSet(Old) /\ Cardinality(Old) = 2 ^ n
    BY CardPow
  <1>2. f \in Bijection(Old, New)
    <2>1. \A T, U \in Old : f[T] = f[U] => T = U
      <3> TAKE T, U \in Old
      <3>1. n + 1 \notin T /\ n + 1 \notin U
        OBVIOUS
      <3>2. T \cup {n + 1} = U \cup {n + 1} => T = U
        BY <3>1
      <3> QED BY <3>2
    <2>2. f \in Surjection(Old, New)
      <3>1. f \in [Old -> New]
        OBVIOUS
      <3>2. \A t \in New : \E s \in Old : f[s] = t
        OBVIOUS
      <3> QED BY <3>1, <3>2 DEF Surjection
    <2> QED BY <2>1, <2>2 DEF Bijection, Injection, Surjection, IsInjective
  <1>3. IsFiniteSet(New) /\ Cardinality(New) = 2 ^ n
    BY <1>1, <1>2, FS_Bijection DEF ExistsBijection
  <1>4. Old \cap New = {}
    <2>1. \A T \in Old : n + 1 \notin T
      OBVIOUS
    <2> QED BY <2>1
  <1>5. SUBSET (1 .. n + 1) = Old \cup New
    <2>1. 1 .. n + 1 = (1 .. n) \cup {n + 1}
      OBVIOUS
    <2>2. ASSUME NEW T \in SUBSET ((1 .. n) \cup {n + 1}) PROVE T \in Old \cup New
      <3>1. CASE n + 1 \in T
        <4>1. T \ {n + 1} \in Old /\ T = (T \ {n + 1}) \cup {n + 1}
          BY <3>1
        <4> QED BY <4>1
      <3>2. CASE n + 1 \notin T
        BY <3>2
      <3> QED BY <3>1, <3>2
    <2>3. Old \cup New \subseteq SUBSET ((1 .. n) \cup {n + 1})
      OBVIOUS
    <2> QED BY <2>1, <2>2, <2>3
  <1> HIDE DEF Old, New
  <1>6. Cardinality(Old \cup New) = 2 ^ n + 2 ^ n - 0
    BY <1>1, <1>3, <1>4, FS_Union, FS_EmptySet
  <1>7. Cardinality(SUBSET (1 .. n + 1)) = 2 ^ (n + 1)
    BY CardPow
  <1>8. 2 ^ n \in Nat
    BY PowerNat
  <1>9. 2 ^ (n + 1) = 2 ^ n + 2 ^ n - 0
    BY <1>5, <1>6, <1>7
  <1>10. \A p \in Nat : p + p - 0 = 2 * p
    OBVIOUS
  <1> QED BY <1>8, <1>9, <1>10

(* Two numbers that a cap makes equal.                                     *)
LEMMA CapsAgree ==
  ASSUME NEW m \in Nat, NEW d \in Nat, NEW n \in Nat,
         (IF m <= d THEN m ELSE d) = (IF m <= n THEN m ELSE n)
  PROVE  /\ m <= n => m <= d /\ m <= 2 * d /\ m <= 2 * n
         /\ ~(m <= n) => d = n
  OBVIOUS

--------------------------------------------------------------------------------
USE DelayAssumption, AttemptsAssumption, BackoffsAssumption

(* The bounds are not inductive.  A heartbeat that is in progress beside a *)
(* connection started before it: it has added no more posts to the history *)
(* than it has made attempts, and none while its payload is collected.     *)
(* After the heartbeat, a set flag and a stop request forbid another one.  *)
PolicyInv ==
    /\ PolicyTypeOK /\ OverlapBounded /\ LateBounded
    /\ fb \in {"post", "retry"} => attempt >= 1
    /\ fb = "retry" => attempt < MaxAttempts
    /\ connected /\ fb = "collect" => overlap = 0
    /\ connected /\ fb \in {"post", "retry"} => overlap <= attempt
    /\ ~stopping => late = 0
    /\ fb \in {"first", "collect"} => late = 0
    /\ fb \in {"post", "retry"} => late <= attempt

(* Lesser is the minimum of two numbers.                                   *)
LEMMA LesserIs ==
  ASSUME NEW m \in Nat, NEW n \in Nat
  PROVE  Lesser(m, n) = IF m <= n THEN m ELSE n
  <1>1. CASE m <= n
    <2>1. \A x \in {m, n} : (\A y \in {m, n} : x <= y) <=> x = m
      BY <1>1
    <2> QED
      BY <1>1, <2>1 DEF Lesser, Min
  <1>2. CASE ~(m <= n)
    <2>1. \A x \in {m, n} : (\A y \in {m, n} : x <= y) <=> x = n
      BY <1>2
    <2> QED
      BY <1>2, <2>1 DEF Lesser, Min
  <1> QED
    BY <1>1, <1>2

--------------------------------------------------------------------------------
LEMMA InitPolicy == Init => PolicyInv
  <1> SUFFICES ASSUME Init PROVE PolicyInv
    OBVIOUS
  <1>1. stopping \in BOOLEAN /\ connected \in BOOLEAN
    BY Zenon DEF Init
  <1> QED
    BY <1>1 DEF Init, PolicyInv, PolicyTypeOK, OverlapBounded, LateBounded

LEMMA RealtimeKeeps ==
  ASSUME PolicyInv, RtStep \/ Stop
  PROVE  PolicyInv'
  <1> USE DEF PolicyInv, PolicyTypeOK, OverlapBounded, LateBounded, rtVars, fbVars
  <1>1. CASE Connects
    <2>1. connected' \in BOOLEAN
      BY <1>1, Zenon DEF Connects
    <2> QED
      BY <1>1, <2>1 DEF Connects
  <1>2. CASE Leaves
    BY <1>2 DEF Leaves
  <1>3. CASE TearsDown
    <2>1. connected' \in BOOLEAN
      BY <1>3, Zenon DEF TearsDown
    <2> QED
      BY <1>3, <2>1 DEF TearsDown
  <1>4. CASE BacksOff
    <2>1. delay' \in 1 .. MaxDelay
      BY <1>4, LesserIs DEF BacksOff
    <2>2. backoffs' \in 0 .. MaxBackoffs
      BY <1>4, LesserIs DEF BacksOff
    <2> QED
      BY <1>4, <2>1, <2>2 DEF BacksOff
  <1>5. CASE Stop
    <2>1. stopping' \in BOOLEAN
      BY <1>5, Zenon DEF Stop
    <2> QED
      BY <1>5, <2>1 DEF Stop
  <1> QED
    BY <1>1, <1>2, <1>3, <1>4, <1>5 DEF RtStep

(* A post adds one to each history that counts it.                         *)
LEMMA PostsKeeps ==
  ASSUME PolicyInv, NEW n \in 1 .. MaxAttempts, Posts(n),
         connected => overlap <= n - 1, late <= n - 1
  PROVE  PolicyInv'
  <1> USE DEF PolicyInv, PolicyTypeOK, OverlapBounded, LateBounded
  <1>1. /\ overlap' = IF connected THEN overlap + 1 ELSE overlap
        /\ late' = IF stopping THEN late + 1 ELSE late
    BY LesserIs DEF Posts
  <1> QED
    BY <1>1 DEF Posts, rtVars

LEMMA FallbackKeeps ==
  ASSUME PolicyInv, FbStep
  PROVE  PolicyInv'
  <1>1. CASE Collected
    BY <1>1, PostsKeeps DEF Collected, PolicyInv
  <1>2. CASE Retries
    <2>1. attempt + 1 \in 1 .. MaxAttempts /\ Posts(attempt + 1)
          /\ (connected => overlap <= attempt) /\ late <= attempt
      BY <1>2 DEF Retries, PolicyInv, PolicyTypeOK
    <2> QED
      BY <2>1, PostsKeeps DEF PolicyInv, PolicyTypeOK
  <1> USE DEF PolicyInv, PolicyTypeOK, OverlapBounded, LateBounded, rtVars, FbGoto
  <1>3. CASE FirstWaitOver \/ CollectFails \/ Settled \/ SleepOver
    BY <1>3 DEF FirstWaitOver, CollectFails, Settled, SleepOver
  <1>4. CASE Check
    BY <1>4 DEF Check
  <1>5. CASE Transient
    BY <1>5 DEF Transient
  <1>6. CASE Cancels
    <2>1. connected' \in BOOLEAN
      BY <1>6, Zenon DEF Cancels
    <2> QED
      BY <1>6, <2>1 DEF Cancels
  <1> QED
    BY <1>1, <1>2, <1>3, <1>4, <1>5, <1>6 DEF FbStep

LEMMA PolicyInvariant == Spec => []PolicyInv
  <1>1. PolicyInv /\ [Next]_vars => PolicyInv'
    <2> SUFFICES ASSUME PolicyInv, [Next]_vars PROVE PolicyInv'
      OBVIOUS
    <2>1. CASE UNCHANGED vars \/ Terminated
      BY <2>1 DEF vars, Terminated, rtVars, fbVars, PolicyInv, PolicyTypeOK,
         OverlapBounded, LateBounded
    <2> QED
      BY <2>1, RealtimeKeeps, FallbackKeeps DEF Next
  <1> QED
    BY <1>1, InitPolicy, PTL DEF Spec

(* Both loops keep their types: the delay, in particular, never exceeds    *)
(* what the settings allow.                                                *)
THEOREM PolicyTypeCorrect == Spec => []PolicyTypeOK
  <1>1. PolicyInv => PolicyTypeOK
    BY DEF PolicyInv
  <1> QED
    BY <1>1, PolicyInvariant, PTL

(* While one connection lives, the attempts of one heartbeat at most are   *)
(* sent beside it.                                                         *)
THEOREM OverlapIsBounded == Spec => []OverlapBounded
  <1>1. PolicyInv => OverlapBounded
    BY DEF PolicyInv
  <1> QED
    BY <1>1, PolicyInvariant, PTL

(* After a stop request one heartbeat at most is tried.                    *)
THEOREM LateIsBounded == Spec => []LateBounded
  <1>1. PolicyInv => LateBounded
    BY DEF PolicyInv
  <1> QED
    BY <1>1, PolicyInvariant, PTL

--------------------------------------------------------------------------------
(* The delay after b back-offs, before it is capped.                       *)
Doubled(b) == InitialDelay * 2 ^ b

LEMMA DoubledDoubles ==
  ASSUME NEW b \in Nat
  PROVE  Doubled(b) \in Nat /\ Doubled(b + 1) = 2 * Doubled(b)
  <1>1. 2 ^ b \in Nat
    BY PowerNat
  <1>2. 2 ^ (b + 1) = 2 * 2 ^ b
    BY PowerDoubles
  <1>3. \A i, p \in Nat : i * p \in Nat
    OBVIOUS
  <1>4. \A i, p \in Nat : i * (2 * p) = 2 * (i * p)
    OBVIOUS
  <1>5. InitialDelay \in Nat
    OBVIOUS
  <1>6. InitialDelay * 2 ^ b \in Nat
    BY <1>1, <1>3, <1>5
  <1>7. InitialDelay * 2 ^ (b + 1) = 2 * (InitialDelay * 2 ^ b)
    BY <1>1, <1>2, <1>4, <1>5
  <1> QED
    BY <1>6, <1>7 DEF Doubled

(* Doubling commutes with the cap.                                         *)
LEMMA CapDoubles ==
  ASSUME NEW d \in Nat, NEW n \in Nat, Lesser(MaxDelay, d) = Lesser(MaxDelay, n)
  PROVE  Lesser(MaxDelay, Lesser(MaxDelay, 2 * d)) = Lesser(MaxDelay, 2 * n)
  <1>0. (IF MaxDelay <= d THEN MaxDelay ELSE d) = (IF MaxDelay <= n THEN MaxDelay ELSE n)
    BY LesserIs
  <1>1. /\ Lesser(MaxDelay, 2 * n) = IF MaxDelay <= 2 * n THEN MaxDelay ELSE 2 * n
        /\ Lesser(MaxDelay, 2 * d) = IF MaxDelay <= 2 * d THEN MaxDelay ELSE 2 * d
        /\ Lesser(MaxDelay, 2 * d) \in Nat
    BY LesserIs
  <1>2. Lesser(MaxDelay, Lesser(MaxDelay, 2 * d)) =
          IF MaxDelay <= Lesser(MaxDelay, 2 * d) THEN MaxDelay ELSE Lesser(MaxDelay, 2 * d)
    BY <1>1, LesserIs
  <1>3. CASE MaxDelay <= n
    <2>1. MaxDelay <= d /\ MaxDelay <= 2 * d /\ MaxDelay <= 2 * n
      BY <1>0, <1>3, CapsAgree
    <2> QED
      BY <1>1, <1>2, <2>1
  <1>4. CASE ~(MaxDelay <= n)
    <2>1. d = n
      BY <1>0, <1>4, CapsAgree
    <2> QED
      BY <1>1, <1>2, <2>1
  <1> QED
    BY <1>3, <1>4

LEMMA BackoffInit == Init => BackoffDoubles
  <1>1. InitialDelay * 2 ^ 0 = InitialDelay
    BY PowerZero
  <1> QED
    BY <1>1 DEF Init, BackoffDoubles, SleepFor

LEMMA BackoffStep ==
  ASSUME PolicyInv, BackoffDoubles, BacksOff
  PROVE  BackoffDoubles'
  <1>1. delay \in Nat /\ backoffs \in Nat /\ backoffs <= MaxBackoffs
    BY DEF PolicyInv, PolicyTypeOK
  <1>2. Lesser(MaxDelay, delay) = Lesser(MaxDelay, Doubled(backoffs))
    BY DEF BackoffDoubles, SleepFor, Doubled
  <1>3. Lesser(MaxDelay, delay') = Lesser(MaxDelay, Doubled(backoffs + 1))
    BY <1>1, <1>2, CapDoubles, DoubledDoubles DEF BacksOff
  <1>4. CASE backoffs < MaxBackoffs
    <2>1. backoffs' = backoffs + 1
      BY <1>1, <1>4, LesserIs DEF BacksOff
    <2> QED
      BY <1>3, <2>1 DEF BackoffDoubles, SleepFor, Doubled
  <1>5. CASE backoffs = MaxBackoffs
    <2>1. backoffs' = backoffs
      BY <1>1, <1>5, LesserIs DEF BacksOff
    <2>2. Doubled(backoffs) >= MaxDelay
      BY <1>5 DEF Doubled
    <2>3. /\ Doubled(backoffs) \in Nat /\ Doubled(backoffs + 1) \in Nat
          /\ Doubled(backoffs + 1) >= MaxDelay
      BY <1>1, <2>2, DoubledDoubles
    <2>4. Lesser(MaxDelay, Doubled(backoffs + 1)) = Lesser(MaxDelay, Doubled(backoffs))
      BY <2>2, <2>3, LesserIs
    <2> QED
      BY <1>3, <2>1, <2>4 DEF BackoffDoubles, SleepFor, Doubled
  <1> QED
    BY <1>1, <1>4, <1>5

(* The n-th wait in a row is twice as long as the one before it, up to the *)
(* maximum, for any delays: the cap never falls back, and a connection     *)
(* starts the count and the delay again together.                          *)
THEOREM BackoffIsDoubled == Spec => []BackoffDoubles
  <1>1. PolicyInv /\ BackoffDoubles /\ [Next]_vars => BackoffDoubles'
    <2> SUFFICES ASSUME PolicyInv, BackoffDoubles, [Next]_vars PROVE BackoffDoubles'
      OBVIOUS
    <2>1. CASE Connects
      <3>1. delay' = InitialDelay /\ backoffs' = 0
        BY <2>1 DEF Connects
      <3> QED
        BY <3>1, PowerZero DEF BackoffDoubles, SleepFor
    <2>2. CASE BacksOff
      BY <2>2, BackoffStep
    <2>3. CASE UNCHANGED <<delay, backoffs>>
      BY <2>3 DEF BackoffDoubles, SleepFor
    <2> QED
      BY <2>1, <2>2, <2>3 DEF Next, RtStep, FbStep, Stop, Leaves, TearsDown, FirstWaitOver,
         Check, Collected, CollectFails, Settled, Transient, Retries, SleepOver, Cancels,
         FbGoto, Posts, Terminated, vars, rtVars
  <1> QED
    BY <1>1, BackoffInit, PolicyInvariant, PTL DEF Spec

================================================================================
