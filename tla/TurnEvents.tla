----------------------------- MODULE TurnEvents -----------------------------
(***************************************************************************)
(* The inputs of the supervisor (the TUI's user, the app-server) and the   *)
(* event loop that handles the messages the proxy observes, in order.      *)
(***************************************************************************)
EXTENDS SupervisorMethods

Room(n) == Len(events) + n <= MaxEvents
Message(kind, turn, detail) == [kind |-> kind, turn |-> turn, detail |-> detail]

loopVars == <<ev, events>>
goroutines == <<rec, cyb, chk, pz, sg, rc>>

-----------------------------------------------------------------------------
(* External: the user's TUI and the app-server.                            *)

\* The user submits a prompt; the app-server starts a turn.
UserStartsTurn ==
    /\ CanStartTurn /\ ~s.shuttingDown /\ Room(2)
    /\ srv' = StartedServer
    /\ events' = events \o <<Message("client turn/start", None, ""),
                             TurnStarted(srv.next + 1)>>
    /\ UNCHANGED <<s, w, goroutines, ev, hist>>

\* The user presses Esc on the thread's latest turn, once. The turn may have
\* ended: the proxy queues its end before the TUI learns of it.
\* Bound: no Esc reaches the loop for a turn before the latest.
Escaped(t) ==
    \/ t \in hist.escaped
    \/ \E i \in DOMAIN events : events[i].kind = "client turn/interrupt"

UserInterrupts ==
    /\ "esc" \in Inputs
    /\ srv.next # None /\ ~Escaped(srv.next)
    /\ ~s.shuttingDown /\ Room(1)
    /\ srv' = [srv EXCEPT !.interrupted = @ \/ srv.active # None]
    /\ events' = Append(events,
                        Message("client turn/interrupt", srv.next, ""))
    /\ UNCHANGED <<s, w, goroutines, ev, hist>>

ServerRuns == srv.active # None /\ ~s.shuttingDown

ServerActivity ==
    /\ "activity" \in Inputs
    /\ ServerRuns /\ Room(1) /\ srv.activity < MaxActivity
    /\ events' = Append(events, Message("activity", srv.active, ""))
    /\ srv' = [srv EXCEPT !.activity = @ + 1]
    /\ UNCHANGED <<s, w, goroutines, ev, hist>>

\* Codex starts or stops waiting for an approval or for user input.
ServerWaits ==
    /\ "waiting" \in Inputs
    /\ ServerRuns /\ Room(1) /\ srv.activity < MaxActivity
    /\ srv' = [srv EXCEPT !.waiting = ~srv.waiting, !.activity = @ + 1]
    /\ events' = Append(events,
                    Message("thread/status/changed", None,
                            IF srv.waiting THEN "active" ELSE "waiting"))
    /\ UNCHANGED <<s, w, goroutines, ev, hist>>

\* An error notification, with willRetry or without.
ServerError ==
    /\ ServerRuns /\ Room(1)
    /\ \E detail \in {"retry", "final"} :
        /\ detail = "retry" => "retryError" \in Inputs
        /\ detail = "final" =>
            IF srv.errored THEN "errorAgain" \in Inputs
            ELSE "finalError" \in Inputs
        /\ events' = Append(events, Message("error", srv.active, detail))
        /\ srv' = [srv EXCEPT !.errored = @ \/ detail = "final"]
    /\ UNCHANGED <<s, w, goroutines, ev, hist>>

\* The turn ends: completed, failed or, once asked to, interrupted.
ServerCompletes ==
    /\ ServerRuns /\ Room(1)
    /\ \E detail \in EndDetails :
        /\ detail = "interrupted" => srv.interrupted
        /\ detail = "cyberPolicy" => "cyber" \in Inputs
        /\ detail = "provider" => srv.errored \/ "failure" \in Inputs
        /\ events' = Append(events,
                            Message("turn/completed", srv.active, detail))
        /\ srv' = [srv EXCEPT !.active = None, !.waiting = FALSE,
                              !.errored = @ \/ detail \in {"provider",
                                                           "cyberPolicy"}]
    /\ UNCHANGED <<s, w, goroutines, ev, hist>>

\* An errored or interrupted turn ends without turn/completed.
ServerEndsSilently ==
    /\ "silentEnd" \in Inputs
    /\ ServerRuns /\ (srv.errored \/ srv.interrupted)
    /\ srv' = [srv EXCEPT !.active = None, !.waiting = FALSE]
    /\ UNCHANGED <<s, w, goroutines, ev, events, hist>>

\* Codex continues an active goal by itself.
ServerContinuesGoal ==
    /\ srv.goal = "active" /\ CanStartTurn /\ ~s.shuttingDown /\ Room(1)
    /\ srv' = StartedServer
    /\ events' = Append(events, TurnStarted(srv.next + 1))
    /\ UNCHANGED <<s, w, goroutines, ev, hist>>

Environment ==
    \/ UserStartsTurn
    \/ UserInterrupts
    \/ ServerActivity
    \/ ServerWaits
    \/ ServerError
    \/ ServerCompletes
    \/ ServerEndsSilently
    \/ ServerContinuesGoal

-----------------------------------------------------------------------------
(* The event loop.                                                         *)

Receives(kind) ==
    /\ ev.pc = "ready"
    /\ events # <<>>
    /\ Head(events).kind = kind
    /\ events' = Tail(events)

\* The turns a message about turn t (None: about the thread) concerns.
Concerned(t) == IF t = None THEN Turn ELSE {t}

\* handleServerMessage before its dispatch, for all but error and
\* turn/completed: the watchdog sees activity, pending errors are deferred.
SuspicionCleared(st, wd, e) ==
    IF Observes(wd, e) /\ wd.suspected /\ st.phase = "suspected-stall"
    THEN [st EXCEPT !.phase = IF Observe(wd, e).waiting
                              THEN "waiting-for-user" ELSE "running"]
    ELSE st

Noticed(e) == DeferPending(SuspicionCleared(s, w, e), Concerned(e.turn))

\* handleClientMessage, turn/start
ClientStarted(st) ==
    LET taken == IF st.submittingResume THEN st
                 ELSE [DropPending(st, Turn) EXCEPT
                        !.cyberAttempts = 0, !.stallCurrent = FALSE,
                        !.stallResumes = 0]
        running == [taken EXCEPT !.phase = "running", !.manualPaused = FALSE]
    IN IF st.recovery # None /\ ~st.submittingResume
       THEN [CancelRecovery(running) EXCEPT !.autoResumes = 0] ELSE running

HandleClientTurnStart ==
    /\ Receives("client turn/start")
    /\ s' = ClientStarted(s)
    /\ UNCHANGED <<w, goroutines, ev, srv, hist>>

\* What hist.esc says once the user's interrupt of turn t is handled.
EscOfStall(t) ==
    IF sg.turn # t \/ hist.esc = "before" THEN hist.esc
    ELSE IF t \in s.handledTurns /\ sg.pc \in {"mark", "submit"} THEN "after" ELSE "before"

\* Mutant: a user interrupt leaves the stall recovery under way.
InterruptKeepsStall ==
    /\ Receives("client turn/interrupt")
    /\ s' = DropPending(s, {Head(events).turn})
    /\ hist' = [hist EXCEPT !.esc = EscOfStall(Head(events).turn)]
    /\ UNCHANGED <<w, goroutines, ev, srv>>

\* handleClientMessage, turn/interrupt
HandleClientInterrupt ==
    /\ Receives("client turn/interrupt")
    /\ LET t == Head(events).turn
       IN /\ s' = [TakeWaiters(DropPending(s, {t}), {t}) EXCEPT
                    !.stallCurrent = FALSE,
                    !.watchdogInterrupted = @ \ {t}]
          /\ sg' = NotifyStall(s, {t}, "cancelled")
          /\ chk' = NotifyChecks(s, {t}, "cancelled")
          /\ hist' = [hist EXCEPT !.escaped = @ \cup {t},
                                  !.esc = EscOfStall(t)]
    /\ w' = CancelWatch(w)
    /\ UNCHANGED <<rec, cyb, pz, rc, ev, srv>>

\* handleTurnStarted, with requestPausedTurnInterrupt
HandleTurnStarted ==
    /\ Receives("turn/started")
    /\ LET e == Head(events)
           st == DropPending(Noticed(e), Turn \ {e.turn})
       IN /\ s' = TurnRunning(st, e.turn)
          /\ pz' = SpawnPauseInterrupt(st, e.turn)
          /\ w' = WatchTurn(e.turn)
    /\ UNCHANGED <<rec, cyb, chk, sg, rc, ev, srv, hist>>

HandleActivity ==
    /\ Receives("activity")
    /\ s' = Noticed(Head(events))
    /\ w' = Observe(w, Head(events))
    /\ UNCHANGED <<goroutines, ev, srv, hist>>

\* handleThreadStatus
ThreadStatusPhase(st, detail) ==
    IF st.manualPaused THEN "paused"
    ELSE IF detail = "waiting" THEN "waiting-for-user"
    ELSE IF st.phase = "waiting-for-user" THEN "running" ELSE st.phase

HandleThreadStatus ==
    /\ Receives("thread/status/changed")
    /\ LET e == Head(events)
       IN /\ s' = [Noticed(e) EXCEPT
                    !.phase = ThreadStatusPhase(Noticed(e), e.detail)]
          /\ w' = Observe(w, e)
    /\ UNCHANGED <<goroutines, ev, srv, hist>>

\* handleTurnError
TurnError(st, e) ==
    IF e.turn \in st.handledTurns \/ st.manualPaused THEN st
    ELSE IF e.detail = "retry" THEN CancelPending(st, e.turn)
    ELSE SchedulePending(st, e.turn)

HandleTurnError ==
    /\ Receives("error")
    /\ s' = TurnError(SuspicionCleared(s, w, Head(events)), Head(events))
    /\ w' = Observe(w, Head(events))
    /\ UNCHANGED <<goroutines, ev, srv, hist>>

\* handleTurnCompleted up to the branch on the turn's status.
TerminalStatus(detail) ==
    IF detail \in {"provider", "cyberPolicy"} THEN "failed" ELSE detail

HandleTurnCompleted ==
    /\ Receives("turn/completed")
    /\ LET e == Head(events)
           t == e.turn
           st == SuspicionCleared(s, w, e)
       IN IF t \in s.handledTurns
          THEN /\ s' = st
               /\ w' = Observe(w, e)
               /\ UNCHANGED <<ev, sg, chk, hist>>
          ELSE /\ s' = [TakeWaiters(DropPending(st, {t}), {t}) EXCEPT
                         !.handledTurns = @ \cup {t},
                         !.watchdogInterrupted = @ \ {t},
                         !.activeTurn = None]
               /\ w' = CompleteWatch(Observe(w, e), t)
               /\ sg' = NotifyStall(s, {t}, TerminalStatus(e.detail))
               /\ chk' = NotifyChecks(s, {t}, TerminalStatus(e.detail))
               /\ ev' = [pc |-> TerminalStatus(e.detail), turn |-> t,
                         cyber |-> e.detail = "cyberPolicy",
                         paused |-> s.manualPaused,
                         watchdog |-> t \in s.watchdogInterrupted,
                         waiter |-> s.waiters[t] # "none",
                         errorInterrupt |-> s.pending[t].interrupting]
               /\ hist' = [hist EXCEPT !.escaped =
                             IF TerminalStatus(e.detail) = "failed"
                             THEN @ \ {t} ELSE @]
    /\ UNCHANGED <<rec, cyb, pz, rc, srv>>

\* The rest of it. ManualPaused is read again after the first section.
Paused == ev.paused \/ s.manualPaused

PausedRecord(st) == [st EXCEPT !.phase = "paused", !.manualPaused = TRUE]

TurnCompleted ==
    /\ ev.pc = "completed"
    /\ ev' = LoopReady
    /\ LET st == [CancelRecovery(s) EXCEPT
                    !.stallCurrent = FALSE, !.cyberAttempts = 0,
                    !.autoResumes = 0, !.stallResumes = 0]
       IN s' = IF Paused THEN PausedRecord(st) ELSE [st EXCEPT !.phase = "idle"]
    /\ UNCHANGED <<w, goroutines, events, srv, hist>>

TurnInterrupted ==
    /\ ev.pc = "interrupted"
    /\ ev' = LoopReady
    /\ LET st == [CancelRecovery(s) EXCEPT !.cyberAttempts = 0]
           down == [st EXCEPT !.phase = "provider-down"]
       IN \/ /\ Paused
             /\ s' = PausedRecord(st)
             /\ UNCHANGED rec
          \/ /\ ~Paused /\ ev.errorInterrupt
             /\ s' = StartRecovery(down, ev.turn)
             /\ rec' = SpawnRecovery(down, ev.turn)
          \/ /\ ~Paused /\ ~ev.errorInterrupt /\ ev.watchdog
             /\ s' = IF ev.waiter THEN [st EXCEPT !.phase = "resuming"]
                     ELSE SetAttention(st)
             /\ UNCHANGED rec
          \/ /\ ~Paused /\ ~ev.errorInterrupt /\ ~ev.watchdog
             /\ s' = [st EXCEPT !.phase = "idle", !.stallCurrent = FALSE,
                                !.autoResumes = 0, !.stallResumes = 0]
             /\ UNCHANGED rec
    /\ UNCHANGED <<w, cyb, chk, pz, sg, rc, events, srv, hist>>

\* Mutant: no return after the cyber-policy branch.
TurnFailedBothWays ==
    /\ ev.pc = "failed"
    /\ ev' = LoopReady
    /\ ~Paused
    /\ cyb' = IF ev.cyber
              THEN [cyb EXCEPT ![ev.turn] = [NoCyber EXCEPT !.pc = "start"]]
              ELSE cyb
    /\ s' = StartRecovery(s, ev.turn)
    /\ rec' = SpawnRecovery(s, ev.turn)
    /\ UNCHANGED <<w, chk, pz, sg, rc, events, srv, hist>>

TurnFailed ==
    /\ ev.pc = "failed"
    /\ ev' = LoopReady
    /\ \/ /\ Paused
          /\ s' = PausedRecord(CancelRecovery(s))
          /\ UNCHANGED <<rec, cyb>>
       \/ /\ ~Paused /\ ev.cyber
          /\ cyb' = [cyb EXCEPT ![ev.turn] = [NoCyber EXCEPT !.pc = "start"]]
          /\ UNCHANGED <<s, rec>>
       \/ /\ ~Paused /\ ~ev.cyber
          /\ s' = StartRecovery(s, ev.turn)
          /\ rec' = SpawnRecovery(s, ev.turn)
          /\ UNCHANGED cyb
    /\ UNCHANGED <<w, chk, pz, sg, rc, events, srv, hist>>

\* The loop sees s.done; it may handle queued messages first.
EventLoopStops ==
    /\ s.shuttingDown /\ ev.pc = "ready"
    /\ ev' = [LoopReady EXCEPT !.pc = "stopped"]
    /\ UNCHANGED <<s, w, goroutines, events, srv, hist>>

EventLoop ==
    \/ HandleClientTurnStart
    \/ HandleClientInterrupt
    \/ HandleTurnStarted
    \/ HandleActivity
    \/ HandleThreadStatus
    \/ HandleTurnError
    \/ HandleTurnCompleted
    \/ TurnCompleted
    \/ TurnInterrupted
    \/ TurnFailed
    \/ EventLoopStops

=============================================================================
