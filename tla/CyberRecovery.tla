---------------------------- MODULE CyberRecovery ----------------------------
(***************************************************************************)
(* recoverCyberPolicy: the goroutine handleTurnCompleted spawns for a turn *)
(* that failed on the cyber policy. Two retries in the thread, one in a    *)
(* fork of it; no provider probes. The single thread stands for whichever  *)
(* thread the retries continue, so the fork moves no counter.              *)
(***************************************************************************)
EXTENDS SupervisorMethods

CyberAt(t, pc) == cyb[t].pc = pc
CyberGoto(t, pc) == cyb' = [cyb EXCEPT ![t].pc = pc]
CyberEnds(t) == cyb' = [cyb EXCEPT ![t] = [NoCyber EXCEPT !.pc = "done"]]

cybUnchanged == <<w, rec, chk, pz, sg, rc, ev, events, srv, hist>>

NotSubmitting(st) == [st EXCEPT !.submittingResume = FALSE]

CyberMayStart(st, t) ==
    /\ st.autoResumes < MaxAutoResumes
    /\ st.resumeRequestedFor # t
    /\ st.cyberAttempts < 3

CyberStart(t) ==
    /\ CyberAt(t, "start")
    /\ \/ /\ s.manualPaused
          /\ CyberEnds(t)
          /\ UNCHANGED s
       \/ /\ ~s.manualPaused /\ ~CyberMayStart(s, t)
          /\ s' = SetAttention(s)
          /\ CyberEnds(t)
       \/ /\ ~s.manualPaused /\ CyberMayStart(s, t)
          /\ s' = [s EXCEPT !.submittingResume = TRUE, !.phase = "resuming",
                            !.resumeRequestedFor = t, !.autoResumes = @ + 1,
                            !.cyberAttempts = @ + 1]
          /\ CyberGoto(t, "request")
    /\ UNCHANGED cybUnchanged

\* thread/resume or thread/fork
CyberRequest(t) ==
    /\ CyberAt(t, "request") /\ ~s.manualPaused /\ MaySucceed
    /\ CyberGoto(t, "submit")
    /\ UNCHANGED <<s, cybUnchanged>>

\* isManuallyPaused is read again before each request.
CyberPaused(t) ==
    /\ CyberAt(t, "request") \/ CyberAt(t, "submit")
    /\ s.manualPaused
    /\ s' = NotSubmitting(s)
    /\ CyberEnds(t)
    /\ UNCHANGED cybUnchanged

CyberFails(t) ==
    /\ \/ CyberAt(t, "request") /\ ~s.manualPaused /\ MayFail
       \/ CyberAt(t, "record") /\ cyb[t].started = None
    /\ s' = SetAttention(NotSubmitting(s))
    /\ CyberEnds(t)
    /\ UNCHANGED cybUnchanged

CyberSubmit(t) ==
    /\ CyberAt(t, "submit") /\ ~s.manualPaused
    /\ \E o \in StartOutcomes :
        /\ srv' = o.srv
        /\ events' = o.events
        /\ cyb' = [cyb EXCEPT ![t].pc = "record", ![t].started = o.started]
    /\ hist' = [hist EXCEPT !.resumes[t] = @ + 1]
    /\ UNCHANGED <<s, w, rec, chk, pz, sg, rc, ev>>

CyberTurnStarted(t) ==
    /\ CyberAt(t, "record") /\ cyb[t].started # None
    /\ LET n == cyb[t].started
       IN /\ s' = NotSubmitting(TurnRunning(s, n))
          /\ pz' = SpawnPauseInterrupt(s, n)
          /\ w' = WatchTurn(n)
    /\ CyberEnds(t)
    /\ UNCHANGED <<rec, chk, sg, rc, ev, events, srv, hist>>

Cyber(t) ==
    \/ CyberStart(t)
    \/ CyberRequest(t)
    \/ CyberPaused(t)
    \/ CyberFails(t)
    \/ CyberSubmit(t)
    \/ CyberTurnStarted(t)

=============================================================================
