------------------------------- MODULE Watchdog -------------------------------
(***************************************************************************)
(* The stall watchdog in time: what it takes from the messages of the      *)
(* active turn, when it suspects and confirms a stall, and the goroutine   *)
(* that checks, interrupts and continues the stalled turn. Codex and the   *)
(* requests to it are external.                                            *)
(***************************************************************************)
EXTENDS Integers, Sequences, FiniteSets

CONSTANTS
    MaxTurns,          \* bound: how many turns the app-server starts
    MaxMessages,       \* bound: messages Codex sends in one turn
    MaxQueue,          \* capacity of the events channel (1024 in the code)
    MaxTime,           \* bound: the clock stops here
    StallTimeout,      \* options.StallTimeout, not zero: the watchdog runs
    ConfirmTimeout,    \* options.ConfirmTimeout
    ToolStallTimeout,  \* options.ToolStallTimeout, zero: tools never stall
    InterruptTimeout,  \* options.StallInterruptTimeout
    HookTimeout,       \* interruptHookWaitTimeout
    Interval,          \* of the ticker that evaluates
    Jobs,              \* what a turn starts and completes: items and hooks
    AsyncHooks,        \* jobs that do not block
    InterruptHooks,    \* hooks of the event "interrupt"
    Inputs             \* which inputs of the environment happen

ASSUME WatchdogAssumption ==
    /\ MaxTurns \in Nat \ {0} /\ MaxMessages \in Nat
    /\ MaxQueue \in Nat \ {0} /\ MaxTime \in Nat
    /\ StallTimeout \in Nat \ {0} /\ ConfirmTimeout \in Nat \ {0}
    /\ ToolStallTimeout \in Nat /\ InterruptTimeout \in Nat \ {0}
    /\ HookTimeout \in Nat \ {0} /\ Interval \in Nat \ {0}
    /\ IsFiniteSet(Jobs)
    /\ AsyncHooks \subseteq Jobs /\ InterruptHooks \subseteq Jobs
    /\ Inputs \subseteq {"waiting", "buffering", "verification", "activity",
                         "esc", "requestError", "limit", "lateAnswer"}

Turn == 1 .. MaxTurns
None == 0
TurnOrNone == 0 .. MaxTurns
Never == -1
Blocking == Jobs \ AsyncHooks

VARIABLES
    active,    \* the watchdog's active turn, NoTurn for nil
    attention, \* the supervisor's phase is needs-attention
    stall,     \* the goroutine of a confirmed stall
    answer,    \* its turn/start, until the answer is recorded
    now,       \* the clock
    ticked,    \* when the ticker last evaluated
    messages,  \* the events channel
    codex,     \* the app-server (external)
    hist       \* history: what the event loop has heard

vars ==
    <<active, attention, stall, answer, now, ticked, messages, codex, hist>>

NoTurn == [turn |-> None, lastActivityAt |-> 0, sequence |-> 0,
           blocking |-> {}, waiting |-> FALSE, buffering |-> FALSE,
           verification |-> FALSE, interruptHooks |-> 0,
           suspectedAt |-> Never, recovering |-> FALSE]
NoStall == [pc |-> "off", turn |-> None, sequence |-> 0, since |-> 0,
            extended |-> FALSE]

Message(kind, turn, job, on) ==
    [kind |-> kind, turn |-> turn, job |-> job, on |-> on]
About(kind, on) == Message(kind, codex.turn, {}, on)

-----------------------------------------------------------------------------
(* The watchdog's methods, as operators on its active turn.                *)

StartTurn(t) == [NoTurn EXCEPT !.turn = t, !.lastActivityAt = now]

CompleteTurn(a, t) == IF a.turn = t THEN NoTurn ELSE a

\* Mutant: a cancelled recovery leaves the suspicion it came from.
CancelKeepsSuspicion(a) ==
    IF a.turn = None THEN a ELSE [a EXCEPT !.recovering = FALSE]

CancelRecovery(a) ==
    IF a.turn = None THEN a
    ELSE [a EXCEPT !.recovering = FALSE, !.suspectedAt = Never]

\* Mutant: activity does not lift the suspicion.
KeepsSuspicion(a) ==
    [a EXCEPT !.lastActivityAt = now, !.sequence = @ + 1]

recordActivity(a) ==
    [a EXCEPT !.lastActivityAt = now, !.sequence = @ + 1,
              !.suspectedAt = Never]

SetWaitingFlags(a) ==
    IF a.turn = None THEN a
    ELSE [recordActivity(a) EXCEPT !.waiting = TRUE, !.recovering = FALSE]

matchesActiveTurn(a, m) == a.turn # None /\ m.turn \in {a.turn, None}

\* The counter of running interrupt hooks after m; it never falls below zero.
HooksAfter(a, m) ==
    IF m.job \cap InterruptHooks = {} THEN a.interruptHooks
    ELSE IF m.kind = "started" THEN a.interruptHooks + 1
    ELSE IF a.interruptHooks > 0 THEN a.interruptHooks - 1
    ELSE 0

\* Observe
Observe(a, m) ==
    IF ~matchesActiveTurn(a, m) THEN a
    ELSE recordActivity(
        [a EXCEPT
            !.waiting = IF m.kind = "status" THEN m.on ELSE @,
            !.buffering = IF m.kind = "buffering" THEN m.on ELSE @,
            !.verification = @ \/ m.kind = "verification",
            !.blocking = IF m.kind = "started" THEN @ \cup (m.job \cap Blocking)
                         ELSE IF m.kind = "completed" THEN @ \ m.job ELSE @,
            !.interruptHooks = IF m.kind \in {"started", "completed"}
                               THEN HooksAfter(a, m) ELSE @])

\* pauseReason, where there is one
Paused(a) ==
    \/ a.waiting \/ a.verification \/ a.buffering
    \/ a.blocking # {} /\ ToolStallTimeout = 0

Timeout(a) == IF a.blocking = {} THEN StallTimeout ELSE ToolStallTimeout

IsCurrent ==
    /\ active.recovering
    /\ active.turn = stall.turn /\ active.sequence = stall.sequence

InterruptHookActive == active.turn = stall.turn /\ active.interruptHooks > 0

-----------------------------------------------------------------------------
(* Codex and its user (external): the turn that runs, what it starts and   *)
(* completes, and every message it sends.                                  *)

Sends(m) ==
    /\ Len(messages) < MaxQueue
    /\ messages' = Append(messages, m)

StartsTurn ==
    /\ codex.turn = None /\ codex.next < MaxTurns
    /\ codex' = [turn |-> codex.next + 1, next |-> codex.next + 1,
                 running |-> {}, waiting |-> FALSE, sent |-> 0,
                 interrupted |-> FALSE]
    /\ Sends(Message("turn/started", codex.next + 1, {}, FALSE))

UserStartsTurn ==
    /\ StartsTurn
    /\ UNCHANGED <<active, attention, stall, answer, now, ticked, hist>>

\* A message of the running turn.
Runs ==
    /\ codex.turn # None /\ codex.sent < MaxMessages
    /\ UNCHANGED <<active, attention, stall, answer, now, ticked, hist>>

\* item/started and hook/started
JobStarts ==
    /\ Runs
    /\ \E j \in Jobs \ codex.running :
        /\ Sends(Message("started", codex.turn, {j}, FALSE))
        /\ codex' = [codex EXCEPT !.running = @ \cup {j}, !.sent = @ + 1]

\* item/completed and hook/completed; a job that started always completes.
JobCompletes ==
    /\ codex.turn # None
    /\ \E j \in codex.running :
        /\ Sends(Message("completed", codex.turn, {j}, FALSE))
        /\ codex' = [codex EXCEPT !.running = @ \ {j}]
    /\ UNCHANGED <<active, attention, stall, answer, now, ticked, hist>>

\* thread/status/changed, about the thread
CodexWaits ==
    /\ Runs /\ "waiting" \in Inputs
    /\ Sends(Message("status", None, {}, ~codex.waiting))
    /\ codex' = [codex EXCEPT !.waiting = ~@, !.sent = @ + 1]

\* model/safetyBuffering/updated, model/verification, and any other message
CodexProgresses ==
    /\ Runs
    /\ \/ "activity" \in Inputs /\ Sends(About("activity", FALSE))
       \/ "verification" \in Inputs /\ Sends(About("verification", FALSE))
       \/ /\ "buffering" \in Inputs
          /\ \E on \in BOOLEAN : Sends(About("buffering", on))
    /\ codex' = [codex EXCEPT !.sent = @ + 1]

TurnCompletes ==
    /\ codex.turn # None
    /\ Sends(About("turn/completed", codex.interrupted))
    /\ codex' = [codex EXCEPT !.turn = None, !.running = {}, !.waiting = FALSE]
    /\ UNCHANGED <<active, attention, stall, answer, now, ticked, hist>>

Codex ==
    \/ UserStartsTurn
    \/ JobStarts
    \/ JobCompletes
    \/ CodexWaits
    \/ CodexProgresses
    \/ TurnCompletes

-----------------------------------------------------------------------------
(* The event loop: every message is observed before its handler runs.      *)

\* Without "lateAnswer", a turn's messages are handled after the answer to
\* the turn/start that created it is recorded.
InOrder(m) == m.turn = answer /\ answer # None => "lateAnswer" \in Inputs

\* History: the jobs the event loop has heard to run, each with its turn, and
\* when it heard of a turn last (of the thread: of the turn that is watched).
HeardAfter(m) ==
    LET jobs == {m.turn} \X m.job
    IN [running |->
            IF m.kind = "started" THEN hist.running \cup jobs
            ELSE IF m.kind = "completed" THEN hist.running \ jobs
            ELSE IF m.kind \in {"turn/started", "turn/completed"}
            THEN {r \in hist.running : r[1] # m.turn}
            ELSE hist.running,
        heardAt |->
            [t \in Turn |-> IF t = m.turn \/ (m.turn = None /\ t = active.turn)
                            THEN now ELSE hist.heardAt[t]],
        restartedAt |-> now]

\* A stallGeneration that is raised leaves the recovery behind, unless it has
\* compared it for the last time.
LeftBehind ==
    IF stall.pc = "off" THEN {stall}
    ELSE {[stall EXCEPT !.pc = "cancelled"]}
         \cup (IF stall.pc = "resume" THEN {stall} ELSE {})

\* handleTurnCompleted: the recovery that waits for the turn gets its status,
\* any other is left behind when the turn was not interrupted.
StallAfter(m) ==
    IF m.kind # "turn/completed" THEN {stall}
    ELSE IF stall.pc = "wait" /\ stall.turn = m.turn
    THEN IF m.on THEN {[stall EXCEPT !.pc = "resume"]} ELSE {NoStall}
    ELSE IF m.on THEN {stall} ELSE LeftBehind

\* Turns that start and end set the phase; a turn that is interrupted for a
\* recovery that waits no longer needs attention, one of the user's does not.
AttentionAfter(m) ==
    IF m.kind = "turn/completed" /\ m.on
       /\ ~(stall.pc = "wait" /\ stall.turn = m.turn) THEN BOOLEAN
    ELSE IF m.kind \in {"turn/started", "turn/completed"} THEN {FALSE}
    ELSE {attention}

Handle ==
    /\ messages # <<>>
    /\ LET m == Head(messages)
       IN /\ InOrder(m) \/ m.kind = "turn/started"
          /\ active' = IF m.kind = "turn/started" THEN StartTurn(m.turn)
                       ELSE IF m.kind = "turn/completed"
                       THEN CompleteTurn(Observe(active, m), m.turn)
                       ELSE Observe(active, m)
          /\ stall' \in StallAfter(m)
          /\ attention' \in AttentionAfter(m)
          /\ hist' = HeardAfter(m)
    /\ messages' = Tail(messages)
    /\ UNCHANGED <<answer, now, ticked, codex>>

\* The user's turn/interrupt; a recovery that is under way ends later.
HandleClientInterrupt ==
    /\ "esc" \in Inputs /\ codex.turn # None /\ ~codex.interrupted
    /\ active' = CancelRecovery(active)
    /\ stall' \in LeftBehind
    /\ hist' = [hist EXCEPT !.restartedAt = now]
    /\ codex' = [codex EXCEPT !.interrupted = TRUE]
    /\ UNCHANGED <<attention, answer, now, ticked, messages>>

-----------------------------------------------------------------------------
(* The ticker.                                                             *)

\* Evaluate: nothing to decide, a suspicion or a confirmed stall.
MayDecide == active.turn # None /\ ~active.recovering /\ ~Paused(active)
Silent == now - active.lastActivityAt >= Timeout(active)

Awake ==
    /\ MayDecide /\ ~Silent
    /\ active' = [active EXCEPT !.suspectedAt = Never]
    /\ UNCHANGED stall

\* Mutant: every tick of a silent turn is a new suspicion.
SuspectedAgain ==
    /\ MayDecide /\ Silent
    /\ active' = [active EXCEPT !.suspectedAt = now]
    /\ UNCHANGED stall

Suspected ==
    /\ MayDecide /\ Silent /\ active.suspectedAt = Never
    /\ active' = [active EXCEPT !.suspectedAt = now]
    /\ UNCHANGED stall

Elapsed == now - active.suspectedAt >= ConfirmTimeout

Waits ==
    /\ MayDecide /\ Silent /\ active.suspectedAt # Never /\ ~Elapsed
    /\ UNCHANGED <<active, stall>>

Confirmed ==
    /\ MayDecide /\ Silent /\ active.suspectedAt # Never /\ Elapsed
    /\ active' = [active EXCEPT !.recovering = TRUE]
    /\ stall' = [NoStall EXCEPT !.pc = "read", !.turn = active.turn,
                                !.sequence = active.sequence]

\* evaluateStall does nothing while stallCheckInFlight or needs-attention.
MayEvaluate == stall.pc = "off" /\ answer = None /\ ~attention

Undecided ==
    /\ ~MayEvaluate \/ ~MayDecide
    /\ UNCHANGED <<active, stall>>

TickDue == now >= ticked + Interval

Tick ==
    /\ TickDue
    /\ \/ MayEvaluate /\ (Awake \/ Suspected \/ Waits \/ Confirmed)
       \/ Undecided
    /\ ticked' = now
    /\ UNCHANGED <<attention, answer, now, messages, codex, hist>>

-----------------------------------------------------------------------------
(* confirmAndRecoverStall.                                                 *)

stallUnchanged == <<now, ticked, messages>>

\* The recovery is given up: the turn is watched from now on again.
GivesUp ==
    /\ active' = CancelRecovery(active)
    /\ stall' = NoStall
    /\ hist' = [hist EXCEPT !.restartedAt = now]
    /\ UNCHANGED <<answer, stallUnchanged>>

\* A request fails or times out; a turn/interrupt may have arrived.
StallFails ==
    /\ "requestError" \in Inputs /\ stall.pc \in {"read", "interrupt", "resume"}
    /\ GivesUp
    /\ attention' = TRUE
    /\ \/ UNCHANGED codex
       \/ /\ stall.pc = "interrupt" /\ codex.turn = stall.turn
          /\ codex' = [codex EXCEPT !.interrupted = TRUE]

\* A limit of resumes is reached: the turn keeps the recovery it is given to.
StallLimited ==
    /\ "limit" \in Inputs /\ stall.pc = "read"
    /\ stall' = NoStall
    /\ attention' = TRUE
    /\ UNCHANGED <<active, answer, codex, hist, stallUnchanged>>

StallOutdated ==
    /\ stall.pc = "read" /\ ~IsCurrent
    /\ GivesUp
    /\ UNCHANGED <<attention, codex>>

\* A cancelled recovery ends; before its interrupt it also cancels once more.
StallCancelled ==
    /\ stall.pc = "cancelled"
    /\ active' \in {active, CancelRecovery(active)}
    /\ stall' = NoStall
    /\ hist' = [hist EXCEPT !.restartedAt = now]
    /\ UNCHANGED <<attention, answer, codex, stallUnchanged>>

\* The thread is idle, or in a state that needs attention.
StallIdle ==
    /\ stall.pc = "read" /\ IsCurrent /\ codex.turn = None
    /\ active' = CompleteTurn(active, stall.turn)
    /\ stall' = NoStall
    /\ attention' \in BOOLEAN
    /\ UNCHANGED <<answer, codex, hist, stallUnchanged>>

StallWaiting ==
    /\ stall.pc = "read" /\ IsCurrent /\ codex.turn # None /\ codex.waiting
    /\ active' = SetWaitingFlags(active)
    /\ stall' = NoStall
    /\ attention' = FALSE
    /\ hist' = [hist EXCEPT !.restartedAt = now]
    /\ UNCHANGED <<answer, codex, stallUnchanged>>

StallInterrupt ==
    /\ stall.pc = "read" /\ IsCurrent /\ codex.turn # None /\ ~codex.waiting
    /\ stall' = [stall EXCEPT !.pc = "interrupt"]
    /\ attention' = FALSE
    /\ UNCHANGED <<active, answer, codex, hist, stallUnchanged>>

\* turn/interrupt reaches the turn that was stalled, if it still runs.
StallInterrupted ==
    /\ stall.pc = "interrupt"
    /\ IF codex.turn = stall.turn
       THEN /\ codex' = [codex EXCEPT !.interrupted = TRUE]
            /\ stall' = [stall EXCEPT !.pc = "wait", !.since = now]
            /\ UNCHANGED <<active, attention, hist>>
       ELSE /\ active' = CancelRecovery(active)
            /\ attention' = TRUE
            /\ stall' = NoStall
            /\ hist' = [hist EXCEPT !.restartedAt = now]
            /\ UNCHANGED codex
    /\ UNCHANGED <<answer, stallUnchanged>>

-----------------------------------------------------------------------------
(* waitForInterruptedTurn.                                                 *)

\* Mutant: a running interrupt hook does not extend the deadline.
ExtendsNever == FALSE

Extends == ~stall.extended /\ InterruptHookActive

Deadline ==
    stall.since + (IF stall.extended THEN HookTimeout ELSE InterruptTimeout)

WaitExtended ==
    /\ stall.pc = "wait" /\ now >= Deadline /\ Extends
    /\ stall' = [stall EXCEPT !.extended = TRUE, !.since = now]
    /\ UNCHANGED <<active, attention, answer, codex, hist, stallUnchanged>>

WaitExpires ==
    /\ stall.pc = "wait" /\ now >= Deadline /\ ~Extends
    /\ GivesUp
    /\ attention' = TRUE
    /\ UNCHANGED codex

\* resumeStalledThread: turn/start, whose answer is recorded later.
StallResumes ==
    /\ stall.pc = "resume"
    /\ IF codex.turn = None /\ codex.next < MaxTurns
       THEN /\ StartsTurn
            /\ answer' = codex.next + 1
            /\ attention' = FALSE
            /\ UNCHANGED active
       ELSE /\ active' = CancelRecovery(active)
            /\ attention' = TRUE
            /\ UNCHANGED <<answer, codex, messages>>
    /\ stall' = NoStall
    /\ hist' = [hist EXCEPT !.restartedAt = now]
    /\ UNCHANGED <<now, ticked>>

\* recordStartedTurnFromRequest
RecordStartedTurn ==
    /\ answer # None
    /\ active' = StartTurn(answer)
    /\ attention' = FALSE
    /\ answer' = None
    /\ hist' = [hist EXCEPT !.restartedAt = now]
    /\ UNCHANGED <<stall, codex, stallUnchanged>>

Recovery ==
    \/ StallFails
    \/ StallLimited
    \/ StallOutdated
    \/ StallCancelled
    \/ StallIdle
    \/ StallWaiting
    \/ StallInterrupt
    \/ StallInterrupted
    \/ WaitExtended
    \/ WaitExpires
    \/ StallResumes
    \/ RecordStartedTurn

-----------------------------------------------------------------------------
(* The system. Time does not pass a tick that is due: the ticker is        *)
(* punctual, everything else may be late.                                  *)

Elapse ==
    /\ now < MaxTime /\ ~TickDue
    /\ now' = now + 1
    /\ UNCHANGED <<active, attention, stall, answer, ticked, messages, codex, hist>>

\* The end of the bounded clock.
Over == now = MaxTime /\ UNCHANGED vars

Init ==
    /\ active = NoTurn
    /\ attention = FALSE
    /\ stall = NoStall
    /\ answer = None
    /\ now = 0
    /\ ticked = 0
    /\ messages = <<>>
    /\ codex = [turn |-> None, next |-> 0, running |-> {}, waiting |-> FALSE,
                sent |-> 0, interrupted |-> FALSE]
    /\ hist = [running |-> {}, heardAt |-> [t \in Turn |-> 0],
               restartedAt |-> 0]

Next ==
    \/ Codex
    \/ Handle
    \/ HandleClientInterrupt
    \/ Tick
    \/ Recovery
    \/ Elapse
    \/ Over

Spec == Init /\ [][Next]_vars

-----------------------------------------------------------------------------
(* Properties.                                                             *)

HeardRunning(t) == {j \in Jobs : <<t, j>> \in hist.running}

\* A stall is confirmed only when the event loop has heard nothing of the turn
\* for the timeout and then, suspected, for the confirmation time; while a
\* tool or synchronous hook that it heard to start has not completed, only
\* after ToolStallTimeout, and never when that is zero.
SilentLongEnough ==
    [][Confirmed =>
        LET t == active.turn
        IN IF HeardRunning(t) \cap Blocking = {}
           THEN now >= hist.heardAt[t] + StallTimeout + ConfirmTimeout
           ELSE /\ ToolStallTimeout # 0
                /\ now >= hist.heardAt[t] + ToolStallTimeout
                              + ConfirmTimeout]_vars

\* The watchdog sees every stall: a turn it may decide about is recovered or
\* moves on within the timeouts and two ticks.
DecidesInTime ==
    MayDecide /\ MayEvaluate =>
        now <= hist.restartedAt + Timeout(active) + ConfirmTimeout + 2 * Interval

\* The wait for an interrupted turn is not given up while an interrupt hook of
\* the turn is heard to run, unless the long deadline is over as well.
HookAwaited ==
    [][WaitExpires => \/ HeardRunning(stall.turn) \cap InterruptHooks = {}
                      \/ active.turn # stall.turn
                      \/ stall.extended]_vars

\* The watchdog as the rest of the supervisor knows it.
Suspicion == active.suspectedAt # Never
Current == stall.pc # "off" /\ IsCurrent

Contract == INSTANCE WatchdogContract WITH
    turn <- active.turn,
    waiting <- Paused(active),
    suspected <- Suspicion,
    recovering <- active.recovering,
    current <- Current

\* The watchdog keeps what WatchdogContract promises to the supervisor: time,
\* messages, blocking jobs and the recovery goroutine add no other step.
KeepsContract == Contract!Spec

=============================================================================
