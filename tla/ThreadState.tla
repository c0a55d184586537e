---------------------------- MODULE ThreadState ----------------------------
(***************************************************************************)
(* Which thread the supervisor takes for the user's, and the usage it      *)
(* shows of it (supervisor.go, usage.go).  The event loop handles one      *)
(* message after the other; recoveries, the remote commands, the timer of  *)
(* the usage refresh and the refresh itself run beside it.  The app-server *)
(* (external) has threads of the user and threads of agents, which it      *)
(* starts for a turn of another thread and declares in one of two ways.    *)
(***************************************************************************)
EXTENDS Naturals, FiniteSets

CONSTANTS
    Own,            \* the user's threads
    Agents,         \* threads that agents run in
    None,           \* no thread
    MaxMessages,    \* bound: messages that the event loop handles
    MaxRefreshes    \* bound: usage refreshes asked for outside the event loop's messages

ThreadsAssumption ==
    Own \cap Agents = {} /\ None \notin Own \cup Agents /\ MaxMessages \in Nat /\ MaxRefreshes \in Nat

VARIABLES
    started,        \* threads the app-server has announced or the user has used
    directInput,    \* supervisor.threadDirectInput
    current,        \* state.CurrentThreadID
    tokenUsage,     \* thread of state.TokenUsage
    estimate,       \* thread of state.UsageEstimate
    resuming,       \* threads that a recovery or a command continues
    refreshTimer,   \* usageRefreshTimer
    callers,        \* goroutines about to enter refreshUsageSnapshot
    refresh,        \* the goroutine that holds usageRefreshInFlight
    owes,           \* the event loop is about to call scheduleUsageRefresh
    shuttingDown,
    messages, asked \* count what the bounds limit

threads == <<started, directInput, current, tokenUsage, estimate, resuming>>
refreshes == <<refreshTimer, callers, refresh>>
vars == <<threads, refreshes, owes, shuttingDown, messages, asked>>

Threads == Own \cup Agents
ThreadOrNone == Threads \cup {None}

Flags == owes \in BOOLEAN /\ shuttingDown \in BOOLEAN

TypeOK ==
    /\ started \subseteq Threads /\ resuming \subseteq Threads
    /\ directInput \in [Threads -> {"unknown", "accepts", "agent"}]
    /\ current \in ThreadOrNone /\ tokenUsage \in ThreadOrNone /\ estimate \in ThreadOrNone
    /\ refreshTimer \in {"none", "armed", "fired"} /\ callers \in Nat
    /\ refresh \in [at : {"idle", "asking", "leaving"}, thread : ThreadOrNone]
    /\ Flags
    /\ messages \in 0..MaxMessages /\ asked \in 0..MaxRefreshes

Init ==
    /\ started = {} /\ directInput = [t \in Threads |-> "unknown"]
    /\ current = None /\ tokenUsage = None /\ estimate = None /\ resuming = {}
    /\ refreshTimer = "none" /\ callers = 0 /\ refresh = [at |-> "idle", thread |-> None]
    /\ owes = FALSE /\ shuttingDown = FALSE /\ messages = 0 /\ asked = 0

threadAcceptsDirectInput(t) == directInput[t] # "agent"

\* setCurrentThread; the usage of another thread is forgotten unless new is its usage.
SetsCurrent(t, usage, guess) ==
    /\ current' = t
    /\ tokenUsage' = usage
    /\ estimate' = guess
SwitchKeepsEstimate(t) == SetsCurrent(t, IF t = current THEN tokenUsage ELSE None, estimate)
SetCurrentThread(t) ==
    IF t = current THEN SetsCurrent(t, tokenUsage, estimate) ELSE SetsCurrent(t, None, None)
keepsCurrent == UNCHANGED <<current, tokenUsage, estimate>>

\* The event loop takes its next message and, at its end, may schedule a refresh.
Message(schedules) ==
    /\ ~shuttingDown /\ ~owes /\ messages < MaxMessages
    /\ messages' = messages + 1
    /\ owes' = schedules
    /\ UNCHANGED <<refreshes, shuttingDown, asked>>

-----------------------------------------------------------------------------
(* The event loop *)

\* handleClientMessage: the user's turn/start.
ClientTurnStart(t) ==
    /\ t \in Own \/ t \in started
    /\ Message(FALSE)
    /\ started' = started \cup {t}
    /\ SetCurrentThread(t)
    /\ UNCHANGED <<directInput, resuming>>

\* threadDirectInputCapability: what thread/started says of its thread.
CapabilityFlagOnly(declares) ==
    CASE declares = "accepts" -> "accepts" [] declares = "refuses" -> "agent" [] OTHER -> "unknown"
Capability(declares) ==
    CASE declares = "accepts" -> "accepts"
      [] declares \in {"refuses", "parent"} -> "agent"
      [] OTHER -> "unknown"

\* External: how the app-server may declare a thread when it announces it.
Declarations(t) == IF t \in Own THEN {"accepts", "silent"} ELSE {"refuses", "parent"}

\* handleThreadStarted.
ThreadStarted(t) == \E declares \in Declarations(t) :
    LET known == Capability(declares) IN
    /\ t \in Agents => current # None
    /\ Message(known # "agent")
    /\ started' = started \cup {t}
    /\ directInput' = IF known = "unknown" THEN directInput ELSE [directInput EXCEPT ![t] = known]
    /\ IF known = "agent" THEN keepsCurrent ELSE SetCurrentThread(t)
    /\ UNCHANGED resuming

\* recordAgentManagedCollabThreads: t reports a tool call that sends to another thread.
CollabItem(t, receiver) ==
    /\ t \in started /\ receiver \in started \ {t}
    /\ Message(FALSE)
    /\ directInput' = [directInput EXCEPT ![receiver] = "agent"]
    /\ keepsCurrent /\ UNCHANGED <<started, resuming>>

\* handleTokenUsageUpdated.
TokenUsageOfAny(t) ==
    /\ t \in started
    /\ Message(TRUE)
    /\ SetsCurrent(t, t, IF t = current THEN estimate ELSE None)
    /\ UNCHANGED <<started, directInput, resuming>>
TokenUsageUpdated(t) ==
    /\ t \in started
    /\ Message(current \in {None, t})
    /\ IF current \in {None, t}
         THEN SetsCurrent(t, t, IF t = current THEN estimate ELSE None)
         ELSE keepsCurrent
    /\ UNCHANGED <<started, directInput, resuming>>

\* handleThreadSettingsUpdated.
SettingsUpdated(t) ==
    /\ t \in started
    /\ Message(FALSE)
    /\ IF threadAcceptsDirectInput(t) /\ current \in {None, t} THEN SetCurrentThread(t) ELSE keepsCurrent
    /\ UNCHANGED <<started, directInput, resuming>>

\* turn/started and turn/completed of t; a failed turn may start a recovery.
TurnMessage(t) == \E fails \in BOOLEAN :
    /\ t \in started
    /\ Message(threadAcceptsDirectInput(t))
    /\ IF threadAcceptsDirectInput(t)
         THEN SetCurrentThread(t) /\ resuming' = IF fails THEN resuming \cup {t} ELSE resuming
         ELSE keepsCurrent /\ UNCHANGED resuming
    /\ UNCHANGED <<started, directInput>>

\* account/rateLimits/updated.
RateLimitsUpdated ==
    /\ Message(TRUE)
    /\ UNCHANGED threads

ScheduleUsageRefresh ==
    /\ owes /\ owes' = FALSE
    /\ refreshTimer' = IF refreshTimer = "none" /\ ~shuttingDown THEN "armed" ELSE refreshTimer
    /\ UNCHANGED <<threads, callers, refresh, shuttingDown, messages, asked>>

-----------------------------------------------------------------------------
(* Recoveries, the usage refresh and the shutdown *)

\* resumeThread asks once more before its requests; a goal or a turn makes t current.
Resume(t) ==
    /\ t \in resuming /\ resuming' = resuming \ {t}
    /\ \/ SetCurrentThread(t) /\ threadAcceptsDirectInput(t)
       \/ keepsCurrent
    /\ UNCHANGED <<started, directInput, refreshes, owes, shuttingDown, messages, asked>>

TimerFires ==
    /\ refreshTimer = "armed" /\ refreshTimer' = "fired"
    /\ UNCHANGED <<threads, callers, refresh, owes, shuttingDown, messages, asked>>

TimerCallback ==
    /\ refreshTimer = "fired" /\ refreshTimer' = "none"
    /\ callers' = IF shuttingDown THEN callers ELSE callers + 1
    /\ UNCHANGED <<threads, refresh, owes, shuttingDown, messages, asked>>

\* The command /status asks for a refresh.
RemoteStatus ==
    /\ asked < MaxRefreshes /\ asked' = asked + 1
    /\ callers' = callers + 1
    /\ UNCHANGED <<threads, refreshTimer, refresh, owes, shuttingDown, messages>>

\* refreshUsageSnapshot: a caller starts the refresh, or finds one in flight.
RefreshBegins ==
    /\ callers > 0 /\ callers' = callers - 1
    /\ refresh' = IF shuttingDown \/ refresh.at # "idle" THEN refresh
                  ELSE [at |-> "asking", thread |-> current]
    /\ UNCHANGED <<threads, refreshTimer, owes, shuttingDown, messages, asked>>

\* The estimate that an answer for t leaves.
EstimateOfAsked(t) == t
NewEstimate(t) == IF t \in {None, current} THEN t ELSE estimate

\* Both requests are answered, or the one for the usage fails or has no estimate.
RefreshAnswered ==
    /\ refresh.at = "asking"
    /\ refresh' = [refresh EXCEPT !.at = "leaving"]
    /\ estimate' \in {NewEstimate(refresh.thread), NewEstimate(None), estimate}
    /\ UNCHANGED <<started, directInput, current, tokenUsage, resuming, refreshTimer, callers, owes,
                   shuttingDown, messages, asked>>

\* The deferred reset of usageRefreshInFlight.
RefreshLeaves ==
    /\ refresh.at = "leaving"
    /\ refresh' = [at |-> "idle", thread |-> None]
    /\ UNCHANGED <<threads, refreshTimer, callers, owes, shuttingDown, messages, asked>>

\* shutdown; a callback of the timer that has begun goes on.
Shutdown ==
    /\ ~shuttingDown /\ shuttingDown' = TRUE
    /\ refreshTimer' = IF refreshTimer = "armed" THEN "none" ELSE refreshTimer
    /\ UNCHANGED <<threads, callers, refresh, owes, messages, asked>>

UserStep == \E t \in Threads : ClientTurnStart(t)
Next ==
    \/ UserStep \/ RateLimitsUpdated \/ ScheduleUsageRefresh
    \/ \E t \in Threads : \/ ThreadStarted(t) \/ TokenUsageUpdated(t) \/ SettingsUpdated(t)
                          \/ TurnMessage(t) \/ Resume(t)
                          \/ \E receiver \in Threads : CollabItem(t, receiver)
    \/ TimerFires \/ TimerCallback \/ RemoteStatus
    \/ RefreshBegins \/ RefreshAnswered \/ RefreshLeaves \/ Shutdown

Spec == Init /\ [][Next]_vars

-----------------------------------------------------------------------------
\* The usage in the state belongs to the current thread, even if its request was sent
\* for a thread that the user has left (usage.go:425, setCurrentThread).
UsageOfCurrentThread == {tokenUsage, estimate} \subseteq {None, current}

\* No message about an agent's thread and no recovery makes it the current one: only a
\* turn that the user starts in it does (threadDirectInputCapability and its callers).
AgentsAreObserved == [][current' \in Agents \ {current} => UserStep]_vars
=============================================================================
