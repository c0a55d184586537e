---------------------------- MODULE StallRecovery ----------------------------
(***************************************************************************)
(* evaluateStall, run by the watchdog's ticker, and the goroutine it       *)
(* spawns for a confirmed stall: it reads the thread's status, interrupts  *)
(* the turn, waits for its terminal event and continues the thread.        *)
(***************************************************************************)
EXTENDS SupervisorMethods

StallAt(pc) == sg.pc = pc
StallGoto(pc) == sg' = [sg EXCEPT !.pc = pc]

sgUnchanged == <<rec, cyb, pz, rc, ev, events, hist>>

\* The goroutine returns: its deferred calls clear stallCheckInFlight, and
\* submittingResume once resumeStalledThread has set it.
Ended(st) == [st EXCEPT !.stallCheckInFlight = FALSE]
SubmitEnded(st) == [Ended(st) EXCEPT !.submittingResume = FALSE]
StallEnds == sg' = NoStall

\* failStallRecovery
FailStall(st) == IF st.stallCurrent /\ ~st.shuttingDown THEN SetAttention(st)
                 ELSE st
FailWatch == IF s.stallCurrent /\ ~s.shuttingDown THEN CancelWatch(w) ELSE w

\* Mutant: the watchdog does not wait for recoveries and pending errors.
EvaluatesAlways ==
    /\ "stall" \in Inputs
    /\ ~s.shuttingDown /\ ~s.manualPaused
    /\ ~s.stallCheckInFlight /\ ~s.submittingResume
    /\ s.phase \notin {"needs-attention", "stopped"}
    /\ w.turn # None /\ ~w.recovering /\ ~w.waiting

\* evaluateStall: how long a turn has been silent is the environment's choice.
MayEvaluate ==
    /\ "stall" \in Inputs
    /\ ~s.shuttingDown /\ ~s.manualPaused
    /\ ~s.stallCheckInFlight /\ ~s.submittingResume
    /\ s.recovery = None
    /\ ~HasPending(s)
    /\ s.phase \notin {"needs-attention", "stopped"}
    /\ w.turn # None /\ ~w.recovering /\ ~w.waiting

StallSuspected ==
    /\ MayEvaluate /\ ~w.suspected
    /\ w' = [w EXCEPT !.suspected = TRUE]
    /\ s' = [s EXCEPT !.phase = "suspected-stall"]
    /\ UNCHANGED <<sg, chk, srv, sgUnchanged>>

StallConfirmed ==
    /\ MayEvaluate /\ w.suspected
    /\ w' = [w EXCEPT !.recovering = TRUE, !.unchanged = TRUE]
    /\ s' = [s EXCEPT !.stallCheckInFlight = TRUE, !.stallCurrent = TRUE]
    /\ sg' = [NoStall EXCEPT !.pc = "confirm", !.turn = w.turn]
    /\ hist' = [hist EXCEPT !.esc = "none"]
    /\ UNCHANGED <<rec, cyb, chk, pz, rc, ev, events, srv>>

\* Mutant: only the limit of all automatic resumptions counts.
AtAutoLimitOnly == s.autoResumes >= MaxAutoResumes

\* confirmAndRecoverStall up to thread/read
AtLimit == \/ s.stallResumes >= MaxStallResumes
           \/ s.autoResumes >= MaxAutoResumes

StallConfirm ==
    /\ StallAt("confirm")
    /\ \/ /\ s.manualPaused
          /\ w' = CancelWatch(w) /\ s' = Ended(s) /\ StallEnds
       \/ /\ ~s.manualPaused /\ AtLimit
          /\ s' = Ended(SetAttention(s)) /\ StallEnds /\ UNCHANGED w
       \/ /\ ~s.manualPaused /\ ~AtLimit
          /\ StallGoto("read") /\ UNCHANGED <<s, w>>
    /\ UNCHANGED <<chk, srv, sgUnchanged>>

StallReadAnswered ==
    /\ StallAt("read")
    /\ \E status \in ReadOutcomes :
        sg' = [sg EXCEPT !.pc = "status", !.status = status]
    /\ UNCHANGED <<s, w, chk, srv, sgUnchanged>>

\* currentStallRecovery
CurrentStall ==
    s.stallCurrent /\ w.turn = sg.turn /\ w.recovering /\ w.unchanged

\* The status cannot be used: the read failed, or the decision is stale.
StallStatusRejected ==
    /\ StallAt("status")
    /\ \/ /\ sg.status = "error"
          /\ s' = Ended(FailStall(s)) /\ w' = FailWatch
       \/ /\ sg.status # "error"
          /\ s.manualPaused \/ ~CurrentStall
          /\ s' = Ended(s) /\ w' = CancelWatch(w)
    /\ StallEnds
    /\ UNCHANGED <<chk, srv, sgUnchanged>>

StallStatusUsable(statuses) ==
    /\ StallAt("status") /\ sg.status \in statuses
    /\ ~s.manualPaused /\ CurrentStall

\* The thread is no longer active, or waits for its user.
StallStatusInactive ==
    /\ StallStatusUsable({"idle", "systemError"})
    /\ LET st == [s EXCEPT !.activeTurn = None]
       IN s' = Ended(IF sg.status = "idle" THEN [st EXCEPT !.phase = "idle"]
                     ELSE SetAttention(st))
    /\ w' = CompleteWatch(w, sg.turn)
    /\ StallEnds
    /\ UNCHANGED <<chk, srv, sgUnchanged>>

StallStatusWaiting ==
    /\ StallStatusUsable({"waiting"})
    /\ s' = Ended([s EXCEPT !.phase = "waiting-for-user"])
    /\ w' = WaitForUser(w)
    /\ StallEnds
    /\ UNCHANGED <<chk, srv, sgUnchanged>>

\* The turn is still active: announce the interrupt, register a waiter for
\* the turn's end, request turn/interrupt. Nothing is checked in between.
StallStatusActive ==
    /\ StallStatusUsable({"active"})
    /\ StallGoto("announce")
    /\ UNCHANGED <<s, w, chk, srv, sgUnchanged>>

StallAnnounce ==
    /\ StallAt("announce")
    /\ s' = [s EXCEPT !.phase = "interrupting-stall"]
    /\ StallGoto("register")
    /\ UNCHANGED <<w, chk, srv, sgUnchanged>>

StallRegister ==
    /\ StallAt("register")
    /\ s' = [s EXCEPT !.watchdogInterrupted = @ \cup {sg.turn},
                      !.waiters[sg.turn] = "stall"]
    /\ StallGoto("ask")
    /\ UNCHANGED <<w, chk, srv, sgUnchanged>>

StallInterrupt ==
    /\ StallAt("ask")
    /\ \E o \in InterruptOutcomes(sg.turn) :
        /\ srv' = o.srv
        /\ sg' = [sg EXCEPT !.pc = "interrupt", !.answer = o.answer]
    /\ UNCHANGED <<s, w, chk, sgUnchanged>>

StallInterruptAnswered ==
    /\ StallAt("interrupt")
    /\ \/ /\ sg.answer = "ok"
          /\ StallGoto("wait") /\ UNCHANGED <<s, w>>
       \/ /\ sg.answer # "ok"
          /\ LET st == [TakeWaiters(s, {sg.turn}) EXCEPT
                         !.watchdogInterrupted =
                            IF sg.answer = "timeout" THEN @ ELSE @ \ {sg.turn}]
             IN s' = Ended(FailStall(st))
          /\ w' = FailWatch
          /\ StallEnds
    /\ UNCHANGED <<chk, srv, sgUnchanged>>

\* Mutant: a stale generation returns without the deferred reset.
StallTerminalStaysBusy ==
    /\ StallAt("wait") /\ sg.inbox \notin {"none", "cancelled"}
    /\ IF s.stallCurrent /\ sg.inbox = "interrupted"
       THEN StallGoto("mark") ELSE StallEnds
    /\ UNCHANGED <<s, w, chk, srv, sgUnchanged>>

\* waitForInterruptedTurn returned what the waiter received ...
StallTerminal ==
    /\ StallAt("wait") /\ sg.inbox \notin {"none", "cancelled"}
    /\ IF s.stallCurrent /\ sg.inbox = "interrupted"
       THEN StallGoto("mark") /\ UNCHANGED s
       ELSE StallEnds /\ s' = Ended(s)
    /\ UNCHANGED <<w, chk, srv, sgUnchanged>>

\* Mutant: the waiter stays registered after its deadline.
StallLeavesWaiter ==
    /\ StallAt("wait")
    /\ s' = Ended(FailStall(s))
    /\ w' = FailWatch
    /\ StallEnds
    /\ UNCHANGED <<chk, srv, sgUnchanged>>

\* ... or "": the waiter was cancelled, or the timer fired (first).
StallNotTerminal ==
    /\ StallAt("wait")
    /\ s' = Ended(FailStall(TakeWaiters(s, {sg.turn})))
    /\ w' = FailWatch
    /\ StallEnds
    /\ UNCHANGED <<chk, srv, sgUnchanged>>

\* resumeStalledThread after its check of the generation
StallMark ==
    /\ StallAt("mark")
    /\ s' = [s EXCEPT !.submittingResume = TRUE, !.phase = "resuming",
                      !.resumeRequestedFor = sg.turn,
                      !.autoResumes = @ + 1, !.stallResumes = @ + 1]
    /\ StallGoto("submit")
    /\ UNCHANGED <<w, chk, srv, sgUnchanged>>

StallSubmit ==
    /\ StallAt("submit") /\ MaySucceed
    /\ \E o \in StartOutcomes :
        /\ srv' = o.srv
        /\ events' = o.events
        /\ sg' = [sg EXCEPT !.pc = "record", !.started = o.started]
    /\ hist' = [hist EXCEPT !.resumes[sg.turn] = @ + 1]
    /\ UNCHANGED <<s, w, rec, cyb, chk, pz, rc, ev>>

StallSubmitFails ==
    /\ \/ StallAt("submit") /\ MayFail
       \/ StallAt("record") /\ sg.started = None
    /\ s' = SubmitEnded(FailStall(s))
    /\ w' = FailWatch
    /\ StallEnds
    /\ UNCHANGED <<chk, srv, sgUnchanged>>

StallTurnStarted ==
    /\ StallAt("record") /\ sg.started # None
    /\ s' = SubmitEnded(TurnRunning(s, sg.started))
    /\ pz' = SpawnPauseInterrupt(s, sg.started)
    /\ w' = WatchTurn(sg.started)
    /\ StallEnds
    /\ UNCHANGED <<rec, cyb, chk, rc, ev, events, srv, hist>>

StallTick == StallSuspected \/ StallConfirmed

StallStep ==
    \/ StallConfirm
    \/ StallReadAnswered
    \/ StallStatusRejected
    \/ StallStatusInactive
    \/ StallStatusWaiting
    \/ StallStatusActive
    \/ StallAnnounce
    \/ StallRegister
    \/ StallInterrupt
    \/ StallInterruptAnswered
    \/ StallTerminal
    \/ StallNotTerminal
    \/ StallMark
    \/ StallSubmit
    \/ StallSubmitFails
    \/ StallTurnStarted

=============================================================================
