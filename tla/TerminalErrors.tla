--------------------------- MODULE TerminalErrors ---------------------------
(***************************************************************************)
(* The reconciliation of a turn error that brought no turn/completed: when *)
(* its grace timer fires a goroutine reads the thread's status, interrupts *)
(* a turn that is still active, and recovers the error as a failed turn.   *)
(* Bound: a timer fires only after the turn's earlier goroutine returned.  *)
(***************************************************************************)
EXTENDS SupervisorMethods

CheckAt(t, pc) == chk[t].pc = pc
CheckGoto(t, pc) == chk' = [chk EXCEPT ![t].pc = pc]
CheckEnds(t) == chk' = [chk EXCEPT ![t] = NoCheck]

chkUnchanged == <<cyb, pz, sg, rc, ev, events, hist>>

Inactive(st, t) ==
    \/ st.shuttingDown \/ st.manualPaused \/ t \in st.handledTurns
    \/ st.phase \in {"needs-attention", "stopped"}

\* reconcilePendingTerminalError up to thread/read
Fires(t) == /\ s.pending[t].timer = "running" /\ ~s.pending[t].interrupting
            /\ CheckAt(t, "off")

Busy == s.submittingResume \/ s.recovery # None \/ s.stallCheckInFlight

OtherTurnActive(t) == s.activeTurn \notin {None, t}

\* The early return leaves the fired timer in pending.Timer.
GraceExpiresInactive(t) ==
    /\ Fires(t) /\ Inactive(s, t)
    /\ s' = [s EXCEPT !.pending[t].timer = "fired"]
    /\ UNCHANGED <<w, rec, chk, srv, chkUnchanged>>

GraceExpiresBusy(t) ==
    /\ Fires(t) /\ ~Inactive(s, t) /\ Busy
    /\ s' = ArmPending(s, t)
    /\ UNCHANGED <<w, rec, chk, srv, chkUnchanged>>

GraceExpiresSuperseded(t) ==
    /\ Fires(t) /\ ~Inactive(s, t) /\ ~Busy /\ OtherTurnActive(t)
    /\ s' = DropPending(s, {t})
    /\ UNCHANGED <<w, rec, chk, srv, chkUnchanged>>

GraceExpires(t) ==
    /\ Fires(t) /\ ~Inactive(s, t) /\ ~Busy /\ ~OtherTurnActive(t)
    /\ s' = [s EXCEPT !.pending[t].timer = "none"]
    /\ chk' = [chk EXCEPT ![t] = [NoCheck EXCEPT
                    !.pc = "read", !.generation = s.pending[t].generation]]
    /\ UNCHANGED <<w, rec, srv, chkUnchanged>>

ReadAnswered(t) ==
    /\ CheckAt(t, "read") \/ CheckAt(t, "reread")
    /\ \E status \in ReadOutcomes :
        chk' = [chk EXCEPT ![t].status = status,
                  ![t].pc = IF @ = "read" THEN "status" ELSE "restatus"]
    /\ UNCHANGED <<s, w, rec, srv, chkUnchanged>>

\* Mutant: the generation the status was read for is not compared.
ValidAnyGeneration(t) ==
    /\ s.pending[t].generation # 0
    /\ ~s.pending[t].interrupting
    /\ t \notin s.handledTurns

Valid(t) ==
    /\ s.pending[t].generation = chk[t].generation
    /\ ~s.pending[t].interrupting
    /\ t \notin s.handledTurns

\* recoverPendingErrorWithoutTerminal
WithoutTerminal(st, t) ==
    [DropPending(st, {t}) EXCEPT
        !.handledTurns = @ \cup {t},
        !.activeTurn = IF @ = t THEN None ELSE @]

RecoverWithoutTerminal(t) ==
    /\ s' = StartRecovery(WithoutTerminal(s, t), t)
    /\ rec' = SpawnRecovery(WithoutTerminal(s, t), t)
    /\ w' = CompleteWatch(w, t)

\* The answer is unusable: an error fails the entry it was read for; a stale
\* generation or a pause ends the goroutine.
CheckRejected(t) ==
    /\ CheckAt(t, "status")
    /\ \/ /\ chk[t].status = "error"
          /\ s' = FailPending(s, t, chk[t].generation)
          /\ UNCHANGED w
       \/ /\ chk[t].status # "error" /\ ~Valid(t)
          /\ UNCHANGED <<s, w>>
       \/ /\ chk[t].status # "error" /\ Valid(t) /\ s.manualPaused
          /\ w' = CancelWatch(w)
          /\ UNCHANGED s
    /\ CheckEnds(t)
    /\ UNCHANGED <<rec, srv, chkUnchanged>>

CheckUsable(t, statuses) ==
    /\ CheckAt(t, "status") /\ chk[t].status \in statuses
    /\ Valid(t) /\ ~s.manualPaused

CheckInactive(t) ==
    /\ CheckUsable(t, {"idle", "systemError"})
    /\ RecoverWithoutTerminal(t)
    /\ CheckEnds(t)
    /\ UNCHANGED <<srv, chkUnchanged>>

CheckWaiting(t) ==
    /\ CheckUsable(t, {"waiting"})
    /\ s' = [CancelPending(s, t) EXCEPT !.phase = "waiting-for-user"]
    /\ w' = WaitForUser(w)
    /\ CheckEnds(t)
    /\ UNCHANGED <<rec, srv, chkUnchanged>>

CheckInterrupt(t) ==
    /\ CheckUsable(t, {"active"})
    /\ s' = [s EXCEPT
                !.pending[t] = [Arm(@) EXCEPT !.timer = s.pending[t].timer,
                                              !.interrupting = TRUE],
                !.waiters[t] = "check",
                !.phase = "interrupting-error"]
    /\ \E o \in InterruptOutcomes(t) :
        /\ srv' = o.srv
        /\ chk' = [chk EXCEPT ![t].pc = "interrupt", ![t].answer = o.answer]
    /\ UNCHANGED <<w, rec, chkUnchanged>>

CheckInterruptAnswered(t) ==
    /\ CheckAt(t, "interrupt")
    /\ \/ /\ chk[t].answer = "ok"
          /\ CheckGoto(t, "wait") /\ UNCHANGED s
       \/ /\ chk[t].answer # "ok"
          /\ s' = FailPending(TakeWaiters(s, {t}), t, 0)
          /\ CheckEnds(t)
    /\ UNCHANGED <<w, rec, srv, chkUnchanged>>

CheckTerminal(t) ==
    /\ CheckAt(t, "wait") /\ chk[t].inbox \notin {"none", "cancelled"}
    /\ CheckEnds(t)
    /\ UNCHANGED <<s, w, rec, srv, chkUnchanged>>

\* Mutants: the waiter stays registered; the status is not read again.
CheckLeavesWaiter(t) ==
    /\ CheckAt(t, "wait")
    /\ CheckEnds(t)
    /\ UNCHANGED <<s, w, rec, srv, chkUnchanged>>

CheckGivesUp(t) ==
    /\ CheckAt(t, "wait")
    /\ s' = TakeWaiters(s, {t})
    /\ CheckEnds(t)
    /\ UNCHANGED <<w, rec, srv, chkUnchanged>>

\* reconcileInterruptedTerminalError, after a cancelled waiter or the timer
CheckNotTerminal(t) ==
    /\ CheckAt(t, "wait")
    /\ s' = TakeWaiters(s, {t})
    /\ IF /\ s.pending[t].generation # 0 /\ s.pending[t].interrupting
          /\ t \notin s.handledTurns
          /\ ~s.shuttingDown /\ ~s.manualPaused
       THEN CheckGoto(t, "reread") ELSE CheckEnds(t)
    /\ UNCHANGED <<w, rec, srv, chkUnchanged>>

StillInterrupting(t) ==
    /\ s.pending[t].generation # 0 /\ s.pending[t].interrupting
    /\ t \notin s.handledTurns

Recheck(t) ==
    /\ CheckAt(t, "restatus")
    /\ \/ /\ chk[t].status = "error" 
          /\ s' = FailPending(s, t, 0)
          /\ UNCHANGED <<w, rec>>
       \/ /\ chk[t].status \in {"active", "waiting"} /\ StillInterrupting(t)
          /\ s' = FailPending(s, t, 0)
          /\ UNCHANGED <<w, rec>>
       \/ /\ chk[t].status \in {"idle", "systemError"}
          /\ StillInterrupting(t) /\ ~s.manualPaused
          /\ RecoverWithoutTerminal(t)
       \/ /\ chk[t].status # "error"
          /\ \/ ~StillInterrupting(t)
             \/ chk[t].status \in {"idle", "systemError"} /\ s.manualPaused
          /\ UNCHANGED <<s, w, rec>>
    /\ CheckEnds(t)
    /\ UNCHANGED <<srv, chkUnchanged>>

Check(t) ==
    \/ GraceExpiresInactive(t)
    \/ GraceExpiresBusy(t)
    \/ GraceExpiresSuperseded(t)
    \/ GraceExpires(t)
    \/ ReadAnswered(t)
    \/ CheckRejected(t)
    \/ CheckInactive(t)
    \/ CheckWaiting(t)
    \/ CheckInterrupt(t)
    \/ CheckInterruptAnswered(t)
    \/ CheckTerminal(t)
    \/ CheckNotTerminal(t)
    \/ Recheck(t)

=============================================================================
