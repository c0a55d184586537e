----------------------------- MODULE Supervisor -----------------------------
(***************************************************************************)
(* The supervisor: its event loop, its goroutines, its remote commands and *)
(* their environment, interleaved one critical section at a time.          *)
(***************************************************************************)
EXTENDS TurnEvents, ProviderRecovery, CyberRecovery, StallRecovery,
        TerminalErrors, RemoteControl

Init ==
    /\ s = [phase |-> "idle", manualPaused |-> FALSE, activeTurn |-> None,
            autoResumes |-> 0, stallResumes |-> 0,
            resumeRequestedFor |-> None, recovery |-> None,
            pendingRecovery |-> None, submittingResume |-> FALSE,
            stallCheckInFlight |-> FALSE, stallCurrent |-> FALSE,
            shuttingDown |-> FALSE, handledTurns |-> {},
            pending |-> [t \in Turn |-> NoPending],
            watchdogInterrupted |-> {}, pauseInterrupting |-> {},
            waiters |-> [t \in Turn |-> "none"], cyberAttempts |-> 0]
    /\ w = NoWatch
    /\ rec = [t \in Turn |-> NoRecovery]
    /\ cyb = [t \in Turn |-> NoCyber]
    /\ chk = [t \in Turn |-> NoCheck]
    /\ pz = [t \in Turn |-> NoPause]
    /\ sg = NoStall
    /\ rc = NoCommand
    /\ ev = LoopReady
    /\ events = <<>>
    /\ srv \in [active : {None}, next : {0}, waiting : {FALSE},
                interrupted : {FALSE}, errored : {FALSE}, activity : {0},
                goal : {"none"}
                       \cup (IF "savedGoal" \in Inputs THEN {"saved"} ELSE {})
                       \cup (IF "activeGoal" \in Inputs THEN {"active"} ELSE {})]
    /\ hist = [resumes |-> [t \in Turn |-> 0], escaped |-> {},
               esc |-> "none"]

Goroutine(t) ==
    \/ Recovery(t)
    \/ Cyber(t)
    \/ Check(t)
    \/ PausedInterrupt(t)

\* Nothing is under way: the supervisor waits for its next input.
Quiescent ==
    /\ ev.pc \in {"ready", "stopped"}
    /\ ev.pc = "ready" => events = <<>>
    /\ sg.pc = "off" /\ rc.pc = "idle"
    /\ \A t \in Turn :
        /\ rec[t].pc \in {"off", "done"}
        /\ cyb[t].pc \in {"off", "done"}
        /\ chk[t].pc = "off" /\ pz[t].pc = "off"
    /\ UNCHANGED vars

Next ==
    \/ Environment
    \/ EventLoop
    \/ \E t \in Turn : Goroutine(t)
    \/ StallTick
    \/ StallStep
    \/ Remote
    \/ Shutdown
    \/ Quiescent

Spec == Init /\ [][Next]_vars

TypeOK ==
    /\ s \in SupervisorType
    /\ w \in WatchdogType
    /\ rec \in [Turn -> RecoveryType]
    /\ cyb \in [Turn -> CyberType]
    /\ chk \in [Turn -> CheckType]
    /\ pz \in [Turn -> PauseType]
    /\ sg \in StallType
    /\ rc \in RemoteType
    /\ ev \in LoopType
    /\ events \in Seq(Event)
    /\ srv \in ServerType
    /\ hist \in HistoryType

\* What TypeOK needs to be inductive: a goroutine that acts on a turn has one,
\* and a recovery that still probes has not seen enough successes.
Located ==
    /\ \A t \in Turn :
        rec[t].pc \in {"top", "announce", "wait", "probing", "probe"} =>
            rec[t].successes < ProbeSuccesses
    /\ sg.pc # "off" => sg.turn # None
    /\ rc.pc = "pausing" => rc.turn # None
    /\ ev.pc \in {"completed", "interrupted", "failed"} => ev.turn # None

-----------------------------------------------------------------------------
(* Fairness. The Go scheduler runs every goroutine that can take a step,   *)
(* timers fire and every request is answered or times out; the user, the   *)
(* app-server, the chat commands and the stall ticker owe nothing. The     *)
(* provider recovers in the end: a recovery that keeps probing finds it    *)
(* healthy.                                                                *)

Fairness ==
    /\ WF_vars(EventLoop)
    /\ \A t \in Turn :
        /\ WF_vars(Recovery(t)) /\ SF_vars(RecoveryProbeHealthy(t))
        /\ WF_vars(Cyber(t))
        /\ WF_vars(Check(t))
        /\ WF_vars(PausedInterrupt(t))
    /\ WF_vars(StallStep)
    /\ WF_vars(Command)

FairSpec == Spec /\ Fairness

-----------------------------------------------------------------------------
(* What the goroutines share, and who answers for it.                      *)

\* The goroutine of turn t has set submittingResume and not cleared it yet.
Submitting(t) ==
    \/ rec[t].pc \in {"goal", "goalset", "submit", "record"}
    \/ cyb[t].pc \in {"request", "submit", "record"}
    \/ sg.turn = t /\ sg.pc \in {"submit", "record"}

\* A failed turn is continued at most once, whichever of the provider
\* recovery, the cyber-policy retries, the reconciliation of its terminal
\* error and the stall watchdog see its failure, and in whatever order they
\* do (handledTurns and ResumeRequestedForTurnID are what prevents more). It
\* holds where the app-server says a turn's final error once: after a second one
\* (the input errorAgain) a new entry starts from generation 1, and a check of the
\* former entry that is still under way takes it for its own.
OneResumePerFailure == \A t \in Turn : hist.resumes[t] <= 1

\* recoveryCancel belongs to a goroutine that still runs and will clear it,
\* and a failure waits in pendingRecovery only behind such a goroutine: no
\* sequence of cancellations and restarts leaves the supervisor claiming a
\* recovery that nobody performs.
RecoveryOwned ==
    /\ s.recovery # None => rec[s.recovery].pc \notin {"off", "done"}
    /\ s.pendingRecovery # None => s.recovery # None

\* submittingResume and stallCheckInFlight, which hold back the watchdog and
\* the reconciliation of terminal errors, are set only while a goroutine that
\* will clear them is at work.
BusyOwned ==
    /\ s.submittingResume => \E t \in Turn : Submitting(t)
    /\ s.stallCheckInFlight <=> sg.pc # "off"

\* Whoever takes a waiter out of turnTerminalWaiters finds its goroutine
\* still there and its one-place channel empty, so that the send of the event
\* loop, which is not in a select, never blocks the loop.
WaitersOwned ==
    \A t \in Turn :
        /\ s.waiters[t] = "stall" =>
            /\ sg.turn = t /\ sg.pc \in {"ask", "interrupt", "wait"}
            /\ sg.inbox = "none"
        /\ s.waiters[t] = "check" =>
            /\ chk[t].pc \in {"interrupt", "wait"} /\ chk[t].inbox = "none"

\* The watchdog never continues more turns in a row than its limit, although
\* the count is compared with it long before it is raised.
StallLimit == s.stallResumes <= MaxStallResumes

-----------------------------------------------------------------------------
(* What a step may never do.                                               *)

\* A stall recovery never sends its continuation when the user's interrupt of
\* its turn was handled before the turn's end was, or later but before the
\* goroutine's last check of its generation (stallGeneration, the cancelled
\* waiter).
EscCancelsStall == [][StallSubmit => hist.esc # "before"]_vars

\* A terminal error is interrupted or recovered only when its latest grace
\* period is over, however late the answer about the thread's status comes
\* (the generation of the pending entry).
GraceRespected ==
    [][\A t \in Turn :
        CheckInactive(t) \/ CheckInterrupt(t) =>
            s.pending[t].timer # "running"]_vars

-----------------------------------------------------------------------------
(* What must happen.                                                       *)

\* The failure of turn t was answered, or is no longer the supervisor's.
Answered(t) ==
    \/ hist.resumes[t] = 1
    \/ s.manualPaused
    \/ s.phase = "needs-attention"
    \/ s.shuttingDown
    \/ srv.next > t

\* Every failed turn is continued or reported, unless a user, a pause or the
\* shutdown takes over: no failure is forgotten in the queue behind a
\* recovery that ends.
FailureAnswered ==
    \A t \in Turn : (ev.pc = "failed" /\ ev.turn = t) ~> Answered(t)

\* A recovery does not hold recoveryCancel, and with it the watchdog and the
\* reconciliation of errors, for ever.
RecoveryEnds == \A t \in Turn : (s.recovery = t) ~> (s.recovery # t)

\* The grace period of a terminal error ends in its removal (it was recovered
\* or overtaken) or in a report, however often activity restarts it.
GraceEnds ==
    \A t \in Turn :
        (s.pending[t].timer = "running") ~>
            \/ s.pending[t].generation = 0
            \/ s.phase = "needs-attention"

-----------------------------------------------------------------------------
(* What the documentation says of the program and the code does not do.    *)

Continues(t) == hist'.resumes[t] > hist.resumes[t]

\* README.md: "Stop after five automatic resumptions".
AutoLimit == s.autoResumes <= MaxAutoResumes

\* remotePause: "Paused automatic recovery and future turns."
PauseHolds == [][\A t \in Turn : Continues(t) => ~s.manualPaused]_vars

\* README.md: "User Esc/Ctrl+C interruptions remain manual and are never
\* automatically continued."
UserInterruptIsManual ==
    [][\A t \in Turn : Continues(t) => t \notin hist.escaped]_vars

\* The same of a stall recovery that was under way when the user pressed Esc:
\* it does not continue the thread. The proxy queues the end of the stalled
\* turn before it shows it to the user, whose Esc may thus come after the last
\* check of the generation and before turn/start.
EscStopsStall == [][StallSubmit => hist.esc = "none"]_vars

=============================================================================
