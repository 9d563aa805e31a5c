---------------------------- MODULE TransportPolicy ----------------------------
(***************************************************************************)
(* Which transport carries telemetry: the reconnect loop of run_realtime   *)
(* and its RealtimeState, the HTTP fallback loop of run_forever and the    *)
(* retries of post_heartbeat (src/agent/main.py, src/agent/client).        *)
(*                                                                         *)
(* Two coroutines share the event `connected`; each action runs from one   *)
(* await to the next.  What a connection carries is abstracted here.       *)
(***************************************************************************)
EXTENDS Naturals, FiniteSetsExt

CONSTANTS
    InitialDelay,   \* ws_reconnect_initial_seconds
    MaxDelay,       \* ws_reconnect_max_seconds
    MaxAttempts,    \* heartbeat_max_attempts
    MaxBackoffs     \* bound: where the history `backoffs` saturates

ASSUME DelayAssumption == InitialDelay \in Nat \ {0} /\ MaxDelay \in Nat \ {0}
ASSUME AttemptsAssumption == MaxAttempts \in Nat \ {0}
(* The history counts at least until the delay has reached its maximum.    *)
ASSUME BackoffsAssumption == MaxBackoffs \in Nat /\ InitialDelay * 2 ^ MaxBackoffs >= MaxDelay

VARIABLES
    stopping,       \* stop_event
    rt,             \* run_realtime: connecting, open, closing, backoff, stopped
    connected,      \* RealtimeState.connected
    delay,          \* run_realtime's delay before the next attempt, in seconds
    fb,             \* run_forever: first, check, collect, post, retry, sleep, leaving, done
    attempt,        \* post_heartbeat's attempt
    backoffs,       \* history: back-offs since the last connection
    overlap,        \* history: heartbeats sent over the present connection's time
    late            \* history: heartbeats sent after stop_event was set

rtVars == <<rt, connected, delay, backoffs>>
fbVars == <<fb, attempt, late>>
vars == <<stopping, rtVars, fbVars, overlap>>

Lesser(m, n) == Min({m, n})

Init ==
    /\ stopping = FALSE
    /\ rt = "connecting" /\ connected = FALSE /\ delay = InitialDelay /\ backoffs = 0
    /\ fb = "first" /\ attempt = 0 /\ late = 0 /\ overlap = 0

Stop ==
    /\ ~stopping /\ stopping' = TRUE
    /\ UNCHANGED <<rtVars, fbVars, overlap>>

--------------------------------------------------------------------------------
(* run_realtime.                                                           *)

(* Slip: the delay is not reset by a connection.                           *)
ConnectsNoReset ==
    /\ rt = "connecting" /\ rt' = "open"
    /\ connected' = TRUE /\ backoffs' = 0 /\ overlap' = 0
    /\ UNCHANGED <<stopping, fbVars, delay>>

Connects ==
    /\ rt = "connecting" /\ rt' = "open"
    /\ connected' = TRUE /\ delay' = InitialDelay /\ backoffs' = 0 /\ overlap' = 0
    /\ UNCHANGED <<stopping, fbVars>>

(* The connection is refused, breaks, or its loop sees stop_event.  The    *)
(* flag stays set until the log streams have been gathered.                *)
Leaves ==
    /\ rt \in {"connecting", "open"} /\ rt' = "closing"
    /\ UNCHANGED <<stopping, connected, delay, backoffs, fbVars, overlap>>

(* Slip: the finally block does not clear the flag.                        *)
TearsDownStale ==
    /\ rt = "closing" /\ rt' = IF stopping THEN "stopped" ELSE "backoff"
    /\ UNCHANGED <<stopping, connected, delay, backoffs, fbVars, overlap>>

TearsDown ==
    /\ rt = "closing" /\ rt' = IF stopping THEN "stopped" ELSE "backoff"
    /\ connected' = FALSE
    /\ UNCHANGED <<stopping, delay, backoffs, fbVars, overlap>>

(* The seconds slept, before jitter: min(max, delay).                      *)
SleepFor == Lesser(MaxDelay, delay)

(* Slip: the doubled delay is not capped.                                  *)
BacksOffUncapped ==
    /\ rt = "backoff" /\ rt' = IF stopping THEN "stopped" ELSE "connecting"
    /\ delay' = 2 * delay
    /\ backoffs' = Lesser(MaxBackoffs, backoffs + 1)
    /\ UNCHANGED <<stopping, connected, fbVars, overlap>>

(* The sleep ends, by the clock or by stop_event, and the delay doubles.   *)
BacksOff ==
    /\ rt = "backoff" /\ rt' = IF stopping THEN "stopped" ELSE "connecting"
    /\ delay' = Lesser(MaxDelay, 2 * delay)
    /\ backoffs' = Lesser(MaxBackoffs, backoffs + 1)
    /\ UNCHANGED <<stopping, connected, fbVars, overlap>>

--------------------------------------------------------------------------------
(* run_forever and post_heartbeat.                                         *)

FbGoto(from, to) ==
    /\ fb = from /\ fb' = to
    /\ UNCHANGED <<stopping, rtVars, attempt, late, overlap>>

(* connected.wait() returns or times out; stop_event is not looked at.     *)
FirstWaitOver == FbGoto("first", "check")

(* Slips: no health check; no stop check.                                  *)
CheckAlways ==
    /\ fb = "check"
    /\ fb' = IF stopping THEN "leaving" ELSE "collect"
    /\ UNCHANGED <<stopping, rtVars, attempt, late, overlap>>

CheckUnstoppable ==
    /\ fb = "check"
    /\ fb' = IF connected THEN "sleep" ELSE "collect"
    /\ UNCHANGED <<stopping, rtVars, attempt, late, overlap>>

Check ==
    /\ fb = "check"
    /\ fb' = IF stopping THEN "leaving" ELSE IF connected THEN "sleep" ELSE "collect"
    /\ UNCHANGED <<stopping, rtVars, attempt, late, overlap>>

(* client.post is called for the nth time.                                 *)
Posts(n) ==
    /\ fb' = "post" /\ attempt' = n
    /\ overlap' = IF connected THEN Lesser(overlap + 1, MaxAttempts + 1) ELSE overlap
    /\ late' = IF stopping THEN Lesser(late + 1, MaxAttempts + 1) ELSE late
    /\ UNCHANGED <<stopping, rtVars>>

Collected == fb = "collect" /\ Posts(1)

(* collect_payload raises: contained, the next interval tries again.       *)
CollectFails == FbGoto("collect", "sleep")

(* {'ok': true}, or HTTP 4xx, which is not retried.                        *)
Settled == FbGoto("post", "sleep")

(* Slip: attempts are never exhausted.                                     *)
TransientForever == FbGoto("post", "retry")

(* Any other status, a bad body or a transport error.                      *)
Transient == FbGoto("post", IF attempt = MaxAttempts THEN "sleep" ELSE "retry")

(* asyncio.sleep(min(2 ** (attempt - 1), 8)), deaf to stop_event.          *)
Retries == fb = "retry" /\ Posts(attempt + 1)

SleepOver == FbGoto("sleep", "check")

(* The finally block: run_realtime is cancelled where it stands, and       *)
(* awaited; its own finally block clears the flag.                         *)
Cancels ==
    /\ fb = "leaving" /\ fb' = "done" /\ rt' = "stopped" /\ connected' = FALSE
    /\ UNCHANGED <<stopping, delay, backoffs, attempt, late, overlap>>

--------------------------------------------------------------------------------
RtStep == Connects \/ Leaves \/ TearsDown \/ BacksOff

FbStep ==
    \/ FirstWaitOver \/ Check \/ Collected \/ CollectFails \/ Settled \/ Transient
    \/ Retries \/ SleepOver \/ Cancels

Terminated == fb = "done" /\ UNCHANGED vars

Next == RtStep \/ FbStep \/ Stop \/ Terminated

Spec == Init /\ [][Next]_vars

(* Every wait is bounded: connect and close time out, the HTTP client and  *)
(* the helpers have timeouts, sleeps end.  An open connection may stay     *)
(* open until stop_event is set, which its loop looks at in every cycle.   *)
(* Connects may always fail; collect_payload does not fail every time.     *)
FairSpec ==
    /\ Spec
    /\ WF_vars(rt = "connecting" /\ RtStep) /\ WF_vars(TearsDown) /\ WF_vars(BacksOff)
    /\ WF_vars(stopping /\ Leaves)
    /\ WF_vars(FbStep) /\ SF_vars(Collected)

--------------------------------------------------------------------------------
(* Properties.                                                             *)

(* Type invariant.                                                         *)
PolicyTypeOK ==
    /\ stopping \in BOOLEAN /\ connected \in BOOLEAN
    /\ rt \in {"connecting", "open", "closing", "backoff", "stopped"}
    /\ fb \in {"first", "check", "collect", "post", "retry", "sleep", "leaving", "done"}
    /\ delay \in 1 .. (InitialDelay + MaxDelay) /\ attempt \in 0 .. MaxAttempts
    /\ backoffs \in 0 .. MaxBackoffs
    /\ overlap \in 0 .. MaxAttempts + 1 /\ late \in 0 .. MaxAttempts + 1

(* The fallback looks at the flag once per heartbeat and then collects,    *)
(* posts and retries across awaits: while one connection lives, at most    *)
(* the attempts of one heartbeat are sent beside it (main.py:98-107).      *)
OverlapBounded == overlap <= MaxAttempts

(* After SIGTERM at most one heartbeat is still tried, with its retries    *)
(* (main.py:96, dashboard.py:27-49).                                       *)
LateBounded == late <= MaxAttempts

(* The agent waits min(max, initial * 2^n) before its next attempt after n *)
(* back-offs since it was last connected (realtime.py:174, 299, 305).      *)
BackoffDoubles == SleepFor = Lesser(MaxDelay, InitialDelay * 2 ^ backoffs)

(* While nothing else keeps it from it the agent is never silent for ever: *)
(* again and again a socket is open or a heartbeat is sent.                *)
NeverSilent == []<>(stopping \/ rt = "open" \/ fb = "post")

(* A stop request ends both loops, whatever the dashboard answers.         *)
StopCompletes == stopping ~> (fb = "done" /\ rt = "stopped")

(* README.md:29 and test_main.py:54: a heartbeat is sent over HTTPS "only  *)
(* when WebSocket reconciliation is unavailable".                          *)
HeartbeatsOnlyWhenDown == overlap = 0

================================================================================
