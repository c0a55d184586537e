---------------------------- MODULE RemoteControl ----------------------------
(***************************************************************************)
(* The commands of the control server and the chat controllers, which run  *)
(* one at a time under remoteMu: pause, resume, prompt and stop; the       *)
(* interrupts of turns that start while paused; and the shutdown. The      *)
(* thread exists: a command without a current thread changes nothing.      *)
(***************************************************************************)
EXTENDS SupervisorMethods

CommandAt(pc) == rc.pc = pc
CommandGoto(pc) == rc' = [rc EXCEPT !.pc = pc]
CommandEnds == rc' = NoCommand
MayCommand(kind) == kind \in Inputs /\ CommandAt("idle") /\ ~s.shuttingDown

rcUnchanged == <<rec, cyb, ev>>

-----------------------------------------------------------------------------
(* remotePause                                                             *)

PauseAccepted(st) ==
    [CancelRecovery(TakeWaiters(DropPending(st, Turn), Turn)) EXCEPT
        !.manualPaused = TRUE, !.phase = "paused", !.stallCurrent = FALSE]

RemotePause ==
    /\ MayCommand("pause")
    /\ ~(s.manualPaused /\ s.activeTurn = None)
    /\ s' = PauseAccepted(s)
    /\ w' = CancelWatch(w)
    /\ sg' = NotifyStall(s, Turn, "cancelled")
    /\ chk' = NotifyChecks(s, Turn, "cancelled")
    /\ IF s.activeTurn = None
       THEN UNCHANGED <<rc, srv>>
       ELSE \E o \in InterruptOutcomes(s.activeTurn) :
                /\ srv' = o.srv
                /\ rc' = [NoCommand EXCEPT !.pc = "pausing",
                            !.turn = s.activeTurn, !.answer = o.answer]
    /\ UNCHANGED <<pz, events, hist, rcUnchanged>>

RemotePauseAnswered ==
    /\ CommandAt("pausing")
    /\ \/ /\ rc.answer # "ok"
          /\ UNCHANGED <<s, w>>
       \/ /\ rc.answer = "ok"
          /\ s' = [s EXCEPT !.activeTurn = None, !.phase = "paused",
                            !.manualPaused = TRUE,
                            !.handledTurns = @ \cup {rc.turn}]
          /\ w' = CompleteWatch(w, rc.turn)
    /\ CommandEnds
    /\ UNCHANGED <<chk, sg, pz, events, srv, hist, rcUnchanged>>

-----------------------------------------------------------------------------
(* requestPausedTurnInterrupt's goroutine: interruptPausedTurn             *)

PausedInterruptRequest(t) ==
    /\ pz[t].pc = "request"
    /\ \E o \in InterruptOutcomes(t) :
        /\ srv' = o.srv
        /\ pz' = [pz EXCEPT ![t] = [pc |-> "answer", answer |-> o.answer]]
    /\ UNCHANGED <<s, w, chk, sg, rc, events, hist, rcUnchanged>>

PausedInterruptAnswered(t) ==
    /\ pz[t].pc = "answer"
    /\ pz' = [pz EXCEPT ![t] = NoPause]
    /\ LET st == [s EXCEPT !.pauseInterrupting = @ \ {t}]
       IN \/ /\ pz[t].answer # "ok"
             /\ s' = st
             /\ UNCHANGED w
          \/ /\ pz[t].answer = "ok"
             /\ s' = [st EXCEPT
                        !.handledTurns = @ \cup {t},
                        !.activeTurn = IF @ = t THEN None ELSE @,
                        !.manualPaused = TRUE, !.phase = "paused"]
             /\ w' = CompleteWatch(w, t)
    /\ UNCHANGED <<chk, sg, rc, events, srv, hist, rcUnchanged>>

-----------------------------------------------------------------------------
(* remoteResume, remotePrompt and the startContinuation they share         *)

FreshAttempt(st) ==
    [CancelRecovery(st) EXCEPT
        !.manualPaused = FALSE, !.phase = "resuming", !.autoResumes = 0,
        !.stallResumes = 0, !.resumeRequestedFor = None]

RemoteResume ==
    /\ MayCommand("resume")
    /\ s.activeTurn = None
    /\ \/ /\ s.recovery # None
          /\ s' = [s EXCEPT !.manualPaused = FALSE]
          /\ UNCHANGED rc
       \/ /\ s.recovery = None
          /\ s' = FreshAttempt(s)
          /\ CommandGoto("goal")
    /\ UNCHANGED <<w, chk, sg, pz, events, srv, hist, rcUnchanged>>

InTransition ==
    {"provider-down", "probing", "resuming", "interrupting-error",
     "suspected-stall", "interrupting-stall"}

\* remotePrompt acts on the state it read: an active turn is steered, ...
RemotePromptSteers ==
    /\ MayCommand("prompt")
    /\ s.phase \notin InTransition
    /\ s.activeTurn # None /\ ~s.manualPaused
    /\ rc' = [NoCommand EXCEPT !.pc = "steering", !.turn = s.activeTurn]
    /\ UNCHANGED <<s, w, chk, sg, pz, events, srv, hist, rcUnchanged>>

RemoteSteerAnswered ==
    /\ CommandAt("steering")
    /\ \/ /\ srv.active = rc.turn /\ MaySucceed
          /\ s' = [s EXCEPT !.manualPaused = FALSE, !.phase = "running"]
       \/ /\ srv.active # rc.turn \/ MayFail
          /\ UNCHANGED s
    /\ CommandEnds
    /\ UNCHANGED <<w, chk, sg, pz, events, srv, hist, rcUnchanged>>

\* ... otherwise a turn is started.
RemotePromptStarts ==
    /\ MayCommand("prompt")
    /\ s.phase \notin InTransition
    /\ s.activeTurn = None
    /\ CommandGoto("prompt")
    /\ UNCHANGED <<s, w, chk, sg, pz, events, srv, hist, rcUnchanged>>

RemotePrompt ==
    /\ CommandAt("prompt")
    /\ s' = FreshAttempt(s)
    /\ CommandGoto("submit")
    /\ UNCHANGED <<w, chk, sg, pz, events, srv, hist, rcUnchanged>>

ContinuationGoal ==
    /\ CommandAt("goal")
    /\ \/ srv.goal # "none" /\ MaySucceed /\ CommandGoto("goalset")
       \/ (srv.goal = "none" \/ MayFail) /\ CommandGoto("submit")
    /\ UNCHANGED <<s, w, chk, sg, pz, events, srv, hist, rcUnchanged>>

ContinuationGoalSet ==
    /\ CommandAt("goalset") /\ MaySucceed
    /\ srv' = [srv EXCEPT !.goal = "active"]
    /\ s' = [s EXCEPT !.phase = "running", !.activeTurn = None]
    /\ CommandEnds
    /\ UNCHANGED <<w, chk, sg, pz, events, hist, rcUnchanged>>

ContinuationSubmit ==
    /\ CommandAt("submit") /\ MaySucceed
    /\ \E o \in StartOutcomes :
        /\ srv' = o.srv
        /\ events' = o.events
        /\ rc' = [rc EXCEPT !.pc = "record", !.started = o.started]
    /\ UNCHANGED <<s, w, chk, sg, pz, hist, rcUnchanged>>

\* The command's own error state, without setAttention.
ContinuationFails ==
    /\ \/ (CommandAt("goalset") \/ CommandAt("submit")) /\ MayFail
       \/ CommandAt("record") /\ rc.started = None
    /\ s' = [s EXCEPT !.phase = "needs-attention"]
    /\ CommandEnds
    /\ UNCHANGED <<w, chk, sg, pz, events, srv, hist, rcUnchanged>>

\* A turn recorded while paused is interrupted and fails the command.
ContinuationStarted ==
    /\ CommandAt("record") /\ rc.started # None
    /\ LET n == rc.started
       IN /\ s' = [TurnRunning(s, n) EXCEPT
                    !.phase = IF s.manualPaused THEN "needs-attention" ELSE @]
          /\ pz' = SpawnPauseInterrupt(s, n)
          /\ w' = WatchTurn(n)
    /\ CommandEnds
    /\ UNCHANGED <<chk, sg, events, srv, hist, rcUnchanged>>

-----------------------------------------------------------------------------
(* shutdown: the TUI exited, a signal, a stop request.                     *)

Shutdown ==
    /\ "stop" \in Inputs /\ ~s.shuttingDown
    /\ s' = [CancelRecovery(TakeWaiters(DropPending(s, Turn), Turn)) EXCEPT
                !.shuttingDown = TRUE, !.stallCurrent = FALSE,
                !.watchdogInterrupted = {}, !.phase = "stopped"]
    /\ sg' = NotifyStall(s, Turn, "cancelled")
    /\ chk' = NotifyChecks(s, Turn, "cancelled")
    /\ UNCHANGED <<w, pz, rc, events, srv, hist, rcUnchanged>>

Command ==
    \/ RemotePauseAnswered
    \/ RemoteSteerAnswered
    \/ RemotePrompt
    \/ ContinuationGoal
    \/ ContinuationGoalSet
    \/ ContinuationSubmit
    \/ ContinuationFails
    \/ ContinuationStarted

Remote ==
    \/ RemotePause
    \/ RemoteResume
    \/ RemotePromptSteers
    \/ RemotePromptStarts
    \/ Command

PausedInterrupt(t) == PausedInterruptRequest(t) \/ PausedInterruptAnswered(t)

=============================================================================
