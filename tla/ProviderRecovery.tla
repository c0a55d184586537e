-------------------------- MODULE ProviderRecovery --------------------------
(***************************************************************************)
(* The goroutine startRecovery spawns for a failed turn: runRecovery waits *)
(* and probes the provider until enough probes in a row succeed, then      *)
(* resumeThread continues the thread. Its context is cancelled exactly     *)
(* when s.recovery no longer names its turn.                               *)
(***************************************************************************)
EXTENDS SupervisorMethods

Cancelled(t) == s.recovery # t

At(t, pc) == rec[t].pc = pc
Goto(t, pc) == rec' = [rec EXCEPT ![t].pc = pc]
Returns(t) == rec' = [rec EXCEPT ![t] = [NoRecovery EXCEPT !.pc = "finish"]]

recUnchanged == <<w, cyb, chk, pz, sg, rc, ev, events, srv, hist>>

\* for ctx.Err() == nil
RecoveryTop(t) ==
    /\ At(t, "top")
    /\ IF Cancelled(t) THEN Returns(t) ELSE Goto(t, "announce")
    /\ UNCHANGED <<s, recUnchanged>>

RecoveryAnnounce(t) ==
    /\ At(t, "announce")
    /\ s' = [s EXCEPT !.phase = "provider-down"]
    /\ Goto(t, "wait")
    /\ UNCHANGED recUnchanged

\* waitContext: the timer may win although the context is cancelled.
RecoveryWait(t) ==
    /\ At(t, "wait")
    /\ \/ Goto(t, "probing")
       \/ Cancelled(t) /\ Returns(t)
    /\ UNCHANGED <<s, recUnchanged>>

RecoveryProbing(t) ==
    /\ At(t, "probing")
    /\ s' = [s EXCEPT !.phase = "probing"]
    /\ Goto(t, "probe")
    /\ UNCHANGED recUnchanged

RecoveryProbeCancelled(t) ==
    /\ At(t, "probe") /\ Cancelled(t)
    /\ Returns(t)
    /\ UNCHANGED <<s, recUnchanged>>

\* Mutant: one success more than ProbeSuccesses is asked for.
ProbeHealthyOffByOne(t) ==
    /\ At(t, "probe") /\ ~Cancelled(t)
    /\ LET n == rec[t].successes + 1
       IN rec' = [rec EXCEPT
                    ![t].successes = n,
                    ![t].pc = IF n > ProbeSuccesses THEN "resume" ELSE "top"]
    /\ UNCHANGED <<s, recUnchanged>>

\* nextConsecutiveProbeSuccesses
RecoveryProbeHealthy(t) ==
    /\ At(t, "probe") /\ ~Cancelled(t)
    /\ LET n == rec[t].successes + 1
       IN rec' = [rec EXCEPT
                    ![t].successes = n,
                    ![t].pc = IF n >= ProbeSuccesses THEN "resume" ELSE "top"]
    /\ UNCHANGED <<s, recUnchanged>>

\* A probe that failed starts the count again; a deferred one keeps it.
RecoveryProbeUnhealthy(t) ==
    /\ At(t, "probe") /\ ~Cancelled(t)
    /\ \E n \in {0, rec[t].successes} :
        rec' = [rec EXCEPT ![t].successes = n, ![t].pc = "top"]
    /\ UNCHANGED <<s, recUnchanged>>

\* resumeThread
RecoveryResume(t) ==
    /\ At(t, "resume")
    /\ IF Cancelled(t) THEN Returns(t) ELSE Goto(t, "mark")
    /\ UNCHANGED <<s, recUnchanged>>

AlreadyResumed(st, t) == st.resumeRequestedFor = t

RecoveryMark(t) ==
    /\ At(t, "mark")
    /\ \/ /\ AlreadyResumed(s, t)
          /\ s' = SetAttention(s)
          /\ Returns(t)
       \/ /\ ~AlreadyResumed(s, t)
          /\ s' = [s EXCEPT !.submittingResume = TRUE, !.phase = "resuming",
                            !.resumeRequestedFor = t, !.autoResumes = @ + 1]
          /\ Goto(t, "goal")
    /\ UNCHANGED recUnchanged

\* goalForRecovery: a failed lookup counts as no goal. A request under way
\* when the context is cancelled may take effect, and be answered, all the same.
RecoveryGoal(t) ==
    /\ At(t, "goal")
    /\ \/ /\ MaySucceed /\ srv.goal # "none"
          /\ Goto(t, "goalset")
       \/ /\ srv.goal = "none" \/ MayFail \/ Cancelled(t)
          /\ Goto(t, "submit")
    /\ UNCHANGED <<s, recUnchanged>>

\* Mutant: a cancelled continuation leaves submittingResume set.
FailedStillSubmitting(t) == IF Cancelled(t) THEN s ELSE SetAttention(s)

\* The goroutine's error ends: setAttention unless the context is cancelled.
Failed(t) ==
    LET st == [s EXCEPT !.submittingResume = FALSE]
    IN IF Cancelled(t) THEN st ELSE SetAttention(st)

RecoveryRequestFails(t) ==
    /\ At(t, "goalset") \/ At(t, "submit")
    /\ MayFail \/ Cancelled(t)
    /\ s' = Failed(t)
    /\ Returns(t)
    /\ UNCHANGED recUnchanged

\* thread/goal/set: Codex continues the goal by itself, whether it is
\* confirmed or its answer is lost.
RecoveryGoalSet(t) ==
    /\ At(t, "goalset") /\ MaySucceed
    /\ srv' = [srv EXCEPT !.goal = "active"]
    /\ hist' = [hist EXCEPT !.resumes[t] = @ + 1]
    /\ \/ s' = [s EXCEPT !.submittingResume = FALSE]
       \/ (MayFail \/ Cancelled(t)) /\ s' = Failed(t)
    /\ Returns(t)
    /\ UNCHANGED <<w, cyb, chk, pz, sg, rc, ev, events>>

\* thread/resume succeeded; turn/start
RecoverySubmit(t) ==
    /\ At(t, "submit")
    /\ \E o \in StartOutcomes :
        /\ srv' = o.srv
        /\ events' = o.events
        /\ rec' = [rec EXCEPT ![t].pc = "record", ![t].started = o.started]
    /\ hist' = [hist EXCEPT !.resumes[t] = @ + 1]
    /\ UNCHANGED <<s, w, cyb, chk, pz, sg, rc, ev>>

\* recordStartedTurnFromRequest
RecoveryRecord(t) ==
    /\ At(t, "record") /\ rec[t].started # None
    /\ LET n == rec[t].started
       IN /\ s' = [TurnRunning(s, n) EXCEPT !.submittingResume = FALSE]
          /\ pz' = SpawnPauseInterrupt(s, n)
          /\ w' = WatchTurn(n)
    /\ Returns(t)
    /\ UNCHANGED <<cyb, chk, sg, rc, ev, events, srv, hist>>

RecoveryStartFails(t) ==
    /\ At(t, "record")
    /\ rec[t].started = None \/ Cancelled(t)
    /\ s' = Failed(t)
    /\ Returns(t)
    /\ UNCHANGED recUnchanged

\* Mutants: recoveryCancel is not cleared; the queued failure is dropped.
FinishKeepsCancel(t) ==
    /\ At(t, "finish")
    /\ rec' = [rec EXCEPT ![t].pc = "done"]
    /\ UNCHANGED <<s, recUnchanged>>

FinishDropsQueue(t) ==
    /\ At(t, "finish")
    /\ rec' = [rec EXCEPT ![t].pc = "done"]
    /\ s' = IF Cancelled(t) THEN s ELSE CancelRecovery(s)
    /\ UNCHANGED recUnchanged

\* The goroutine's end: it owns recoveryCancel only in its own generation,
\* and starts the recovery that was queued behind it.
RecoveryFinish(t) ==
    /\ At(t, "finish")
    /\ LET ended == [s EXCEPT !.recovery = None, !.pendingRecovery = None]
           next == s.pendingRecovery
           done == [rec EXCEPT ![t].pc = "done"]
       IN IF Cancelled(t) THEN rec' = done /\ UNCHANGED s
          ELSE IF next = None \/ s.shuttingDown
          THEN rec' = done /\ s' = ended
          ELSE /\ s' = StartRecovery(ended, next)
               /\ rec' = IF StartsRecovery(ended)
                         THEN [done EXCEPT ![next] = RecoveryStarted]
                         ELSE done
    /\ UNCHANGED recUnchanged

Recovery(t) ==
    \/ RecoveryTop(t)
    \/ RecoveryAnnounce(t)
    \/ RecoveryWait(t)
    \/ RecoveryProbing(t)
    \/ RecoveryProbeCancelled(t)
    \/ RecoveryProbeHealthy(t)
    \/ RecoveryProbeUnhealthy(t)
    \/ RecoveryResume(t)
    \/ RecoveryMark(t)
    \/ RecoveryGoal(t)
    \/ RecoveryRequestFails(t)
    \/ RecoveryGoalSet(t)
    \/ RecoverySubmit(t)
    \/ RecoveryRecord(t)
    \/ RecoveryStartFails(t)
    \/ RecoveryFinish(t)

=============================================================================
