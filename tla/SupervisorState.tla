--------------------------- MODULE SupervisorState ---------------------------
(***************************************************************************)
(* The state of codexdog's supervisor and of everything that acts on it,   *)
(* and the supervisor's mutex-protected methods as operators from one      *)
(* supervisor record to the next.                                          *)
(*                                                                         *)
(* The goroutines are indexed by the turn they work for: a Codex turn has  *)
(* at most one provider-recovery goroutine, one cyber-policy goroutine,    *)
(* one reconciliation of its terminal error and one paused-turn interrupt. *)
(* One thread accepts direct input; turn identifiers are given by the      *)
(* app-server in increasing order and never reused.                        *)
(***************************************************************************)
EXTENDS Integers, Sequences, FiniteSets

CONSTANTS
    MaxTurns,          \* bound: how many turns the app-server starts
    MaxAutoResumes,    \* options.MaxAutoResumes
    MaxStallResumes,   \* options.MaxStallResumes
    ProbeSuccesses,    \* options.ProbeSuccesses
    MaxEvents,         \* capacity of the events channel (1024 in the code)
    MaxGeneration,     \* bound: generations of a pending error wrap above it
    MaxActivity,       \* bound: messages of activity per turn
    Inputs             \* which inputs of the environment happen

InputKinds ==
    {"failure", "cyber", "retryError", "finalError", "errorAgain",
     "silentEnd", "activity", "waiting", "stall", "esc", "pause", "resume",
     "prompt", "savedGoal", "activeGoal", "requestError", "stop"}

ASSUME ConstantsAssumption ==
    /\ MaxTurns \in Nat \ {0}
    /\ MaxAutoResumes \in Nat \ {0}
    /\ MaxStallResumes \in Nat
    /\ ProbeSuccesses \in Nat \ {0}
    /\ MaxEvents \in Nat /\ MaxEvents >= 2
    /\ MaxGeneration \in Nat /\ MaxGeneration >= 2
    /\ MaxActivity \in Nat
    /\ Inputs \subseteq InputKinds

Turn == 1 .. MaxTurns
None == 0
TurnOrNone == 0 .. MaxTurns

VARIABLES
    s,        \* the fields of struct supervisor that s.mu protects
    w,        \* the stall watchdog's active turn
    rec,      \* provider-recovery goroutine of each failed turn
    cyb,      \* cyber-policy goroutine of each failed turn
    chk,      \* reconciliation of each turn's pending terminal error
    pz,       \* interrupt of each turn that started while paused
    sg,       \* the stall-recovery goroutine
    rc,       \* the remote command that holds remoteMu
    ev,       \* the event loop: the rest of a turn/completed handler
    events,   \* the events channel
    srv,      \* the Codex app-server (external)
    hist      \* history: what was done for each turn, for the properties

vars == <<s, w, rec, cyb, chk, pz, sg, rc, ev, events, srv, hist>>

-----------------------------------------------------------------------------
(* Types.                                                                  *)

Phases ==
    {"idle", "running", "paused", "provider-down", "probing", "resuming",
     "confirming-error", "interrupting-error", "suspected-stall",
     "interrupting-stall", "waiting-for-user", "needs-attention", "stopped"}

\* An entry of pendingTerminalErrors; generation 0 stands for no entry.
PendingError ==
    [generation : 0 .. MaxGeneration,
     timer : {"none", "running", "fired"},   \* pending.Timer
     interrupting : BOOLEAN]
NoPending == [generation |-> 0, timer |-> "none", interrupting |-> FALSE]

SupervisorType ==
    [phase : Phases,
     manualPaused : BOOLEAN,
     activeTurn : TurnOrNone,            \* state.ActiveTurnID
     autoResumes : Nat,                  \* state.AutomaticResumeCount
     stallResumes : Nat,                 \* state.StallRecoveryCount
     resumeRequestedFor : TurnOrNone,    \* state.ResumeRequestedForTurnID
     recovery : TurnOrNone,   \* recoveryCancel, by the turn of its goroutine
     pendingRecovery : TurnOrNone,
     submittingResume : BOOLEAN,
     stallCheckInFlight : BOOLEAN,
     stallCurrent : BOOLEAN,  \* stallGeneration is the goroutine's own
     shuttingDown : BOOLEAN,
     handledTurns : SUBSET Turn,
     pending : [Turn -> PendingError],   \* pendingTerminalErrors
     watchdogInterrupted : SUBSET Turn,
     pauseInterrupting : SUBSET Turn,
     waiters : [Turn -> {"none", "stall", "check"}],
     cyberAttempts : 0 .. 3]

WatchdogType ==
    [turn : TurnOrNone, suspected : BOOLEAN, recovering : BOOLEAN,
     unchanged : BOOLEAN,     \* no activity since the confirmed decision
     waiting : BOOLEAN]       \* pauseReason: Codex waits for its user

Answers == {"none", "ok", "error", "timeout"}
ThreadStatuses ==
    {"none", "active", "waiting", "idle", "systemError", "error"}
TerminalStatuses == {"none", "cancelled", "completed", "interrupted", "failed"}

RecoveryType ==
    [pc : {"off", "top", "announce", "wait", "probing", "probe", "resume",
           "mark", "goal", "goalset", "submit", "record", "finish", "done"},
     successes : 0 .. ProbeSuccesses,
     started : TurnOrNone]
CyberType ==
    [pc : {"off", "start", "request", "submit", "record", "done"},
     started : TurnOrNone]
CheckType ==
    [pc : {"off", "read", "status", "interrupt", "wait", "reread",
           "restatus"},
     generation : 0 .. MaxGeneration,
     answer : Answers, status : ThreadStatuses, inbox : TerminalStatuses]
PauseType == [pc : {"off", "request", "answer"}, answer : Answers]
StallType ==
    [pc : {"off", "confirm", "read", "status", "announce", "register", "ask",
           "interrupt", "wait", "mark", "submit", "record"},
     turn : TurnOrNone, started : TurnOrNone,
     answer : Answers, status : ThreadStatuses, inbox : TerminalStatuses]
RemoteType ==
    [pc : {"idle", "pausing", "goal", "goalset", "submit", "record",
           "steering", "prompt"},
     turn : TurnOrNone, started : TurnOrNone, answer : Answers]
LoopType ==
    [pc : {"ready", "completed", "interrupted", "failed", "stopped"},
     turn : TurnOrNone, cyber : BOOLEAN, paused : BOOLEAN,
     watchdog : BOOLEAN, waiter : BOOLEAN, errorInterrupt : BOOLEAN]

\* Messages about a turn carry it; those about the thread carry None.
TurnMessages ==
    {"client turn/interrupt", "turn/started", "activity", "error"}
ThreadMessages == {"client turn/start", "thread/status/changed"}
EndDetails == {"completed", "interrupted", "provider", "cyberPolicy"}
Event ==
    [kind : TurnMessages, turn : Turn, detail : {"", "retry", "final"}]
    \cup [kind : {"turn/completed"}, turn : Turn, detail : EndDetails]
    \cup [kind : ThreadMessages, turn : {None},
          detail : {"", "waiting", "active"}]

ServerType ==
    [active : TurnOrNone, next : TurnOrNone, waiting : BOOLEAN,
     interrupted : BOOLEAN, errored : BOOLEAN, activity : 0 .. MaxActivity,
     goal : {"none", "saved", "active"}]

HistoryType ==
    [resumes : [Turn -> Nat],   \* automatic continuations sent for a turn
     escaped : SUBSET Turn,      \* interrupted by the user, not ended as failed
     \* when the user's interrupt of the turn of the latest stall recovery was
     \* handled: not, or before or after the recovery's last check
     esc : {"none", "before", "after"}]

NoRecovery == [pc |-> "off", successes |-> 0, started |-> None]
NoCyber == [pc |-> "off", started |-> None]
NoCheck == [pc |-> "off", generation |-> 0, answer |-> "none",
            status |-> "none", inbox |-> "none"]
NoPause == [pc |-> "off", answer |-> "none"]
NoStall == [pc |-> "off", turn |-> None, started |-> None,
            answer |-> "none", status |-> "none", inbox |-> "none"]
NoCommand == [pc |-> "idle", turn |-> None, started |-> None,
              answer |-> "none"]
LoopReady == [pc |-> "ready", turn |-> None, cyber |-> FALSE,
              paused |-> FALSE, watchdog |-> FALSE, waiter |-> FALSE,
              errorInterrupt |-> FALSE]
NoWatch == [turn |-> None, suspected |-> FALSE, recovering |-> FALSE,
            unchanged |-> FALSE, waiting |-> FALSE]

=============================================================================
