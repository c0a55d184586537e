-------------------------- MODULE SupervisorMethods --------------------------
(***************************************************************************)
(* The methods the supervisor's goroutines share, as operators: what one   *)
(* critical section of s.mu (or of the watchdog's own mutex) makes of the  *)
(* record it is given, and the answers the app-server may give a request.  *)
(***************************************************************************)
EXTENDS SupervisorState

-----------------------------------------------------------------------------
(* Provider recovery: cancelRecovery, setAttention, startRecovery.         *)

\* Mutant: the queued failure outlives the cancelled recovery.
CancelKeepsQueue(st) == [st EXCEPT !.recovery = None]

CancelRecovery(st) ==
    [st EXCEPT !.recovery = None, !.pendingRecovery = None]

SetAttention(st) == [CancelRecovery(st) EXCEPT !.phase = "needs-attention"]

\* startRecovery spawns a goroutine ...
StartsRecovery(st) ==
    /\ ~st.manualPaused
    /\ st.autoResumes < MaxAutoResumes
    /\ st.recovery = None

\* ... or is suppressed, gives up at the limit, or queues the failure.
StartRecovery(st, t) ==
    IF st.manualPaused THEN st
    ELSE IF st.autoResumes >= MaxAutoResumes THEN SetAttention(st)
    ELSE IF st.recovery # None THEN [st EXCEPT !.pendingRecovery = t]
    ELSE [st EXCEPT !.recovery = t, !.phase = "provider-down"]

RecoveryStarted == [NoRecovery EXCEPT !.pc = "top"]

\* The goroutines after startRecovery(t) ran on st.
SpawnRecovery(st, t) ==
    IF StartsRecovery(st) THEN [rec EXCEPT ![t] = RecoveryStarted] ELSE rec

-----------------------------------------------------------------------------
(* Pending terminal errors.                                                *)

HasPending(st) == \E t \in Turn : st.pending[t].generation # 0

DropPending(st, T) ==
    [st EXCEPT !.pending =
        [t \in Turn |-> IF t \in T THEN NoPending ELSE st.pending[t]]]

\* armPendingTerminalErrorLocked. The code's generation is unbounded; here it
\* wraps above MaxGeneration, which only adds matches between generations.
Arm(p) ==
    [generation |-> (p.generation % MaxGeneration) + 1, timer |-> "running",
     interrupting |-> p.interrupting]

ArmPending(st, t) == [st EXCEPT !.pending[t] = Arm(@)]

\* deferPendingTerminalError for a message about the turns in T.
DeferPending(st, T) ==
    IF st.manualPaused \/ st.phase \in {"needs-attention", "stopped"}
    THEN st
    ELSE [st EXCEPT !.pending =
            [t \in Turn |->
                IF /\ t \in T
                   /\ st.pending[t].generation # 0
                   /\ ~st.pending[t].interrupting
                THEN Arm(st.pending[t]) ELSE st.pending[t]]]

\* cancelPendingTerminalError: phase "confirming-error" ends with the last one.
CancelPending(st, t) ==
    LET dropped == DropPending(st, {t})
    IN IF ~HasPending(dropped) /\ st.phase = "confirming-error"
       THEN [dropped EXCEPT !.phase = "running"] ELSE dropped

\* schedulePendingTerminalError
SchedulePending(st, t) ==
    IF st.shuttingDown \/ st.manualPaused \/ t \in st.handledTurns THEN st
    ELSE LET p == st.pending[t]
         IN [st EXCEPT
              !.pending[t] = IF p.interrupting \/ p.timer # "none"
                             THEN p ELSE Arm(p),
              !.phase = IF st.phase \in {"needs-attention", "stopped"}
                        THEN @ ELSE "confirming-error"]

\* failPendingTerminalError; generation 0 matches every entry.
FailPending(st, t, generation) ==
    IF /\ st.pending[t].generation # 0
       /\ generation \in {0, st.pending[t].generation}
       /\ ~st.shuttingDown
    THEN SetAttention(st) ELSE st

-----------------------------------------------------------------------------
(* Turns that start while the supervisor is paused.                        *)

RequestsPauseInterrupt(st, t) ==
    /\ st.manualPaused
    /\ t \notin st.pauseInterrupting \cup st.handledTurns

\* What handleTurnStarted and recordStartedTurnFromRequest have in common.
TurnRunning(st, t) ==
    [st EXCEPT
        !.phase = IF st.manualPaused THEN "paused" ELSE "running",
        !.activeTurn = t,
        !.pauseInterrupting =
            IF RequestsPauseInterrupt(st, t) THEN @ \cup {t} ELSE @]

SpawnPauseInterrupt(st, t) ==
    IF RequestsPauseInterrupt(st, t)
    THEN [pz EXCEPT ![t] = [NoPause EXCEPT !.pc = "request"]] ELSE pz

-----------------------------------------------------------------------------
(* Waiters for terminal turns: whoever takes a waiter out of the map sends *)
(* on its channel, which holds one value.                                  *)

TakeWaiters(st, T) ==
    [st EXCEPT !.waiters =
        [t \in Turn |-> IF t \in T THEN "none" ELSE st.waiters[t]]]

NotifyStall(st, T, status) ==
    IF \E t \in T : st.waiters[t] = "stall"
    THEN [sg EXCEPT !.inbox = status] ELSE sg

NotifyChecks(st, T, status) ==
    [t \in Turn |-> IF t \in T /\ st.waiters[t] = "check"
                    THEN [chk[t] EXCEPT !.inbox = status] ELSE chk[t]]

-----------------------------------------------------------------------------
(* The stall watchdog's methods.                                           *)

WatchTurn(t) == [NoWatch EXCEPT !.turn = t]

CompleteWatch(wd, t) == IF wd.turn = t THEN NoWatch ELSE wd

CancelWatch(wd) ==
    IF wd.turn = None THEN wd
    ELSE [wd EXCEPT !.recovering = FALSE, !.suspected = FALSE]

Observes(wd, e) ==
    /\ wd.turn # None
    /\ e.turn \in {wd.turn, None}

Observe(wd, e) ==
    IF ~Observes(wd, e) THEN wd
    ELSE [wd EXCEPT !.suspected = FALSE, !.unchanged = FALSE,
                    !.waiting = IF e.kind = "thread/status/changed"
                                THEN e.detail = "waiting" ELSE @]

\* SetWaitingFlags
WaitForUser(wd) ==
    IF wd.turn = None THEN wd
    ELSE [wd EXCEPT !.waiting = TRUE, !.suspected = FALSE,
                    !.unchanged = FALSE, !.recovering = FALSE]

-----------------------------------------------------------------------------
(* The app-server as the supervisor's requests see it (external). A        *)
(* request fails when the proxy is closed; with "requestError" it may also *)
(* be refused or time out after taking effect.                             *)

MayFail == s.shuttingDown \/ "requestError" \in Inputs
MaySucceed == ~s.shuttingDown

TurnStarted(t) == [kind |-> "turn/started", turn |-> t, detail |-> ""]

CanStartTurn == srv.active = None /\ srv.next < MaxTurns

StartedServer ==
    [srv EXCEPT !.active = srv.next + 1, !.next = srv.next + 1,
                !.waiting = FALSE, !.interrupted = FALSE, !.errored = FALSE,
                !.activity = 0]

\* What turn/start may do: start a turn and return it, start it and lose the
\* answer, or fail.
StartOutcomes ==
    LET accepted == [started |-> srv.next + 1, srv |-> StartedServer,
                     events |-> Append(events, TurnStarted(srv.next + 1))]
        refused == [started |-> None, srv |-> srv, events |-> events]
        accepts == CanStartTurn /\ MaySucceed /\ Len(events) < MaxEvents
    IN (IF accepts THEN {accepted} ELSE {})
       \cup (IF MayFail \/ ~CanStartTurn THEN {refused} ELSE {})
       \cup (IF accepts /\ MayFail
             THEN {[accepted EXCEPT !.started = None]} ELSE {})

\* turn/interrupt on turn t
InterruptOutcomes(t) ==
    LET interrupted == [srv EXCEPT !.interrupted = TRUE]
        accepts == srv.active = t /\ MaySucceed
    IN (IF accepts THEN {[answer |-> "ok", srv |-> interrupted]} ELSE {})
       \cup (IF MayFail \/ srv.active # t
             THEN {[answer |-> "error", srv |-> srv]} ELSE {})
       \cup (IF accepts /\ MayFail
             THEN {[answer |-> "timeout", srv |-> interrupted]} ELSE {})

\* thread/read: the thread's status when the app-server reads it
ReadOutcomes ==
    (IF ~MaySucceed THEN {}
     ELSE IF srv.active = None
     THEN {"idle"} \cup (IF srv.errored THEN {"systemError"} ELSE {})
     ELSE IF srv.waiting THEN {"waiting"} ELSE {"active"})
    \cup (IF MayFail THEN {"error"} ELSE {})

=============================================================================
