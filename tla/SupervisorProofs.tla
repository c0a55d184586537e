--------------------------- MODULE SupervisorProofs ---------------------------
(***************************************************************************)
(* The safety of the supervisor, for every number of turns, every limit    *)
(* and every set of inputs: who owns recoveryCancel; what each step may do *)
(* (its effect); from the effects the waiters, the limit of the stall      *)
(* recoveries, the one hand every failure is in and the busy flags; the    *)
(* user's interrupt; the grace period of a terminal error; and, where a    *)
(* turn's final error is said once, the single continuation of a failure.  *)
(***************************************************************************)
EXTENDS SupervisorTypes

-----------------------------------------------------------------------------
(* Who owns recoveryCancel and the queue behind it. A critical section     *)
(* leaves both alone, gives both up, or runs startRecovery.                *)

NoOwner(st) == st.recovery = None /\ st.pendingRecovery = None

Keeps(st, to) ==
    \/ to.recovery = st.recovery /\ to.pendingRecovery = st.pendingRecovery
    \/ NoOwner(to)

\* Two sections in a row do no more than one.
LEMMA KeepsTransitive ==
    ASSUME NEW a, NEW b, NEW c, Keeps(a, b), Keeps(b, c)
    PROVE  Keeps(a, c)
BY DEF Keeps, NoOwner

\* The methods that touch pending errors, waiters, flags and the phase.
LEMMA MethodsKeep ==
    ASSUME NEW st \in SupervisorType
    PROVE  /\ \A T : Keeps(st, DropPending(st, T))
           /\ \A T : Keeps(st, DeferPending(st, T))
           /\ \A T : Keeps(st, TakeWaiters(st, T))
           /\ \A t \in Turn : Keeps(st, ArmPending(st, t))
           /\ \A t \in Turn : Keeps(st, TurnRunning(st, t))
           /\ Keeps(st, Ended(st)) /\ Keeps(st, SubmitEnded(st))
           /\ Keeps(st, NotSubmitting(st)) /\ Keeps(st, PausedRecord(st))
<1> USE DEF Keeps, SupervisorType
<1>1. \A T : Keeps(st, DropPending(st, T)) /\ Keeps(st, DeferPending(st, T))
  BY DEF DropPending, DeferPending
<1>2. \A T : Keeps(st, TakeWaiters(st, T))
  BY DEF TakeWaiters
<1>3. \A t \in Turn : Keeps(st, ArmPending(st, t)) /\ Keeps(st, TurnRunning(st, t))
  BY DEF ArmPending, TurnRunning
<1>4. /\ Keeps(st, Ended(st)) /\ Keeps(st, SubmitEnded(st))
      /\ Keeps(st, NotSubmitting(st)) /\ Keeps(st, PausedRecord(st))
  BY DEF Ended, SubmitEnded, NotSubmitting, PausedRecord
<1> QED BY <1>1, <1>2, <1>3, <1>4

\* The methods that cancel a recovery.
LEMMA CancelsOwner ==
    ASSUME NEW st \in SupervisorType
    PROVE  /\ NoOwner(CancelRecovery(st))
           /\ NoOwner(SetAttention(st))
           /\ NoOwner(FreshAttempt(st))
           /\ NoOwner(PauseAccepted(st))
<1>1. NoOwner(CancelRecovery(st))
  BY DEF NoOwner, CancelRecovery, SupervisorType
<1>2. NoOwner(SetAttention(st)) /\ NoOwner(FreshAttempt(st))
  BY <1>1, CancelRecoveryType DEF NoOwner, SetAttention, FreshAttempt, SupervisorType
<1>3. NoOwner(PauseAccepted(st))
  <2> DEFINE taken == TakeWaiters(DropPending(st, Turn), Turn)
  <2>1. taken \in SupervisorType
    BY DropPendingType, TakeWaitersType
  <2> HIDE DEF taken
  <2>2. NoOwner(CancelRecovery(taken)) /\ CancelRecovery(taken) \in SupervisorType
    BY <2>1, CancelRecoveryType DEF NoOwner, CancelRecovery, SupervisorType
  <2> QED BY <2>2 DEF NoOwner, PauseAccepted, SupervisorType, taken
<1> QED BY <1>1, <1>2, <1>3

\* The methods that do one or the other.
LEMMA MoreMethodsKeep ==
    ASSUME NEW st \in SupervisorType
    PROVE  /\ \A t \in Turn : Keeps(st, CancelPending(st, t))
           /\ \A t \in Turn : Keeps(st, SchedulePending(st, t))
           /\ \A t, g : Keeps(st, FailPending(st, t, g))
           /\ \A wd, e : Keeps(st, SuspicionCleared(st, wd, e))
           /\ Keeps(st, FailStall(st))
           /\ Keeps(st, ClientStarted(st))
<1>1. ASSUME NEW t \in Turn PROVE Keeps(st, CancelPending(st, t))
  <2> DEFINE dropped == DropPending(st, {t})
  <2>1. dropped \in SupervisorType /\ Keeps(st, dropped)
    BY DropPendingType, MethodsKeep
  <2>2. CancelPending(st, t) \in {dropped, [dropped EXCEPT !.phase = "running"]}
    BY DEF CancelPending
  <2> HIDE DEF dropped
  <2> QED BY <2>1, <2>2 DEF Keeps, NoOwner, SupervisorType
<1>2. ASSUME NEW t \in Turn PROVE Keeps(st, SchedulePending(st, t))
  BY DEF Keeps, SchedulePending, SupervisorType
<1>3. \A t, g : Keeps(st, FailPending(st, t, g))
  BY CancelsOwner DEF Keeps, FailPending
<1>4. \A wd, e : Keeps(st, SuspicionCleared(st, wd, e))
  BY DEF Keeps, SuspicionCleared, SupervisorType
<1>5. Keeps(st, FailStall(st))
  BY CancelsOwner DEF Keeps, FailStall
<1>6. Keeps(st, ClientStarted(st))
  <2> DEFINE dropped == DropPending(st, Turn)
             reset == [dropped EXCEPT !.cyberAttempts = 0, !.stallCurrent = FALSE,
                                      !.stallResumes = 0]
             taken == IF st.submittingResume THEN st ELSE reset
             running == [taken EXCEPT !.phase = "running", !.manualPaused = FALSE]
             cancelled == CancelRecovery(running)
  <2>1. dropped \in SupervisorType /\ Keeps(st, dropped)
    BY DropPendingType, MethodsKeep
  <2> HIDE DEF dropped
  <2>2. Keeps(dropped, reset) /\ reset \in SupervisorType
    <3>1. 0 \in 0 .. 3 /\ 0 \in Nat
      OBVIOUS
    <3>2. reset \in SupervisorType
      BY <2>1, <3>1, Zenon DEF SupervisorType
    <3> QED BY <2>1, <3>2 DEF Keeps, SupervisorType
  <2> HIDE DEF reset
  <2>3. Keeps(st, taken) /\ taken \in SupervisorType
    BY <2>1, <2>2, KeepsTransitive DEF Keeps
  <2> HIDE DEF taken
  <2>4. Keeps(taken, running) /\ running \in SupervisorType
    <3>1. running \in SupervisorType
      BY <2>3, Zenon DEF SupervisorType, Phases
    <3> QED BY <2>3, <3>1 DEF Keeps, SupervisorType
  <2>5. Keeps(st, running)
    BY <2>3, <2>4, KeepsTransitive
  <2> HIDE DEF running
  <2>6. NoOwner(cancelled) /\ cancelled \in SupervisorType
    BY <2>4, CancelsOwner, CancelRecoveryType
  <2> HIDE DEF cancelled
  <2>7. NoOwner([cancelled EXCEPT !.autoResumes = 0])
    BY <2>6 DEF NoOwner, SupervisorType
  <2>8. ClientStarted(st) \in {running, [cancelled EXCEPT !.autoResumes = 0]}
    BY DEF ClientStarted, cancelled, running, taken, reset, dropped
  <2> QED BY <2>5, <2>7, <2>8 DEF Keeps
<1> QED BY <1>1, <1>2, <1>3, <1>4, <1>5, <1>6

-----------------------------------------------------------------------------
(* recoveryCancel always belongs to a goroutine that still runs.           *)

\* No goroutine that ran has ended.
Running(r, q) == \A t \in Turn : r[t].pc \notin {"off", "done"} =>
                                 q[t].pc \notin {"off", "done"}

\* A section that leaves the owner alone, while no goroutine ends, or gives it
\* up, preserves RecoveryOwned.
LEMMA OwnedKept ==
    ASSUME TypeInv, RecoveryOwned, Keeps(s, s'), Running(rec, rec')
    PROVE  RecoveryOwned'
<1>1. s.recovery \in TurnOrNone
  BY DEF TypeInv, TypeOK, SupervisorType
<1> QED BY <1>1, Turns DEF RecoveryOwned, Keeps, NoOwner, Running

\* When startRecovery starts a recovery, the new goroutine owns it.
LEMMA StartedOwner ==
    ASSUME NEW st \in SupervisorType, NEW t, StartsRecovery(st)
    PROVE  StartRecovery(st, t).recovery = t
<1>1. ~(st.autoResumes >= MaxAutoResumes)
  BY ConstantsAssumption DEF StartsRecovery, SupervisorType
<1>2. StartRecovery(st, t) = [st EXCEPT !.recovery = t, !.phase = "provider-down"]
  BY <1>1 DEF StartRecovery, StartsRecovery
<1> QED BY <1>2 DEF SupervisorType

\* startRecovery, on what a section that keeps or gives up the owner left.
LEMMA OwnedStarted ==
    ASSUME TypeInv, RecoveryOwned, NEW st \in SupervisorType, Keeps(s, st),
           NEW t \in Turn, s' = StartRecovery(st, t), rec' = SpawnRecovery(st, t)
    PROVE  RecoveryOwned'
<1>1. CASE StartsRecovery(st)
  <2>1. s'.recovery = t
    BY <1>1, StartedOwner
  <2>2. rec'[t] = RecoveryStarted
    BY <1>1 DEF SpawnRecovery, TypeInv, TypeOK
  <2> QED BY <2>1, <2>2, Turns DEF RecoveryOwned, RecoveryStarted, NoRecovery
<1>2. CASE ~StartsRecovery(st)
  <2>1. rec' = rec
    BY <1>2 DEF SpawnRecovery
  <2>2. CASE ~st.manualPaused /\ st.autoResumes < MaxAutoResumes /\ st.recovery # None
    <3>1. s' = [st EXCEPT !.pendingRecovery = t]
      BY <2>2, ConstantsAssumption DEF StartRecovery, SupervisorType
    <3>2. s'.recovery = st.recovery /\ st.recovery = s.recovery
      BY <2>2, <3>1 DEF SupervisorType, Keeps, NoOwner
    <3> QED BY <2>1, <2>2, <3>2 DEF RecoveryOwned
  <2>3. CASE ~(~st.manualPaused /\ st.autoResumes < MaxAutoResumes /\ st.recovery # None)
    <3>1. s' = st \/ s' = SetAttention(st)
      BY <1>2, <2>3, ConstantsAssumption
         DEF StartRecovery, StartsRecovery, SupervisorType
    <3>2. Keeps(s, s')
      BY <3>1, CancelsOwner DEF Keeps
    <3> QED BY <2>1, <3>2, OwnedKept DEF Running
  <2> QED BY <2>2, <2>3
<1> QED BY <1>1, <1>2

\* A section that neither starts nor ends a recovery goroutine.
LEMMA SameOwned ==
    ASSUME TypeInv, RecoveryOwned, Keeps(s, s'), rec' = rec
    PROVE  RecoveryOwned'
BY OwnedKept DEF Running

\* No handler of the event loop leaves a recovery without its goroutine.
LEMMA EventLoopOwned ==
    ASSUME TypeInv, RecoveryOwned, EventLoop
    PROVE  RecoveryOwned'
<1> USE DEF TypeInv, TypeOK, goroutines
<1> DEFINE e == Head(events)
<1>1. s \in SupervisorType
  OBVIOUS
<1>2. Noticed(e) \in SupervisorType /\ Keeps(s, Noticed(e))
  BY SuspicionClearedType, NoticedType, MethodsKeep, MoreMethodsKeep, KeepsTransitive
     DEF Noticed
<1>3. CASE HandleClientTurnStart
  BY <1>3, SameOwned, MoreMethodsKeep DEF HandleClientTurnStart
<1>4. CASE HandleClientInterrupt
  <2> DEFINE t == e.turn
             dropped == DropPending(s, {t})
             taken == TakeWaiters(dropped, {t})
  <2>1. taken \in SupervisorType /\ Keeps(s, taken)
    BY DropPendingType, TakeWaitersType, MethodsKeep, KeepsTransitive
  <2>2. s' = [taken EXCEPT !.stallCurrent = FALSE,
                           !.watchdogInterrupted = @ \ {t}] /\ rec' = rec
    BY <1>4 DEF HandleClientInterrupt
  <2> HIDE DEF taken
  <2>3. Keeps(s, s')
    BY <2>1, <2>2 DEF Keeps, NoOwner, SupervisorType
  <2> QED BY <2>2, <2>3, SameOwned
<1>5. CASE HandleTurnStarted
  <2> DEFINE st == DropPending(Noticed(e), Turn \ {e.turn})
  <2>1. e.turn \in Turn
    BY <1>5, ReceivesType DEF HandleTurnStarted, TurnMessages
  <2>2. st \in SupervisorType /\ Keeps(s, st)
    BY <1>2, DropPendingType, MethodsKeep, KeepsTransitive
  <2>3. Keeps(s, TurnRunning(st, e.turn))
    BY <2>1, <2>2, MethodsKeep, KeepsTransitive
  <2> QED BY <1>5, <2>3, SameOwned DEF HandleTurnStarted
<1>6. CASE HandleActivity
  BY <1>2, <1>6, SameOwned DEF HandleActivity
<1>7. CASE HandleThreadStatus
  <2> DEFINE st == Noticed(e)
             ph == ThreadStatusPhase(st, e.detail)
  <2>1. s' = [st EXCEPT !.phase = ph] /\ rec' = rec
    BY <1>7 DEF HandleThreadStatus
  <2> HIDE DEF st, ph
  <2>2. Keeps(st, s')
    BY <1>2, <2>1 DEF Keeps, SupervisorType, st
  <2>3. Keeps(s, s')
    BY <1>2, <2>2, KeepsTransitive DEF st
  <2> QED BY <2>1, <2>3, SameOwned
<1>8. CASE HandleTurnError
  <2> DEFINE st == SuspicionCleared(s, w, e)
  <2>1. st \in SupervisorType /\ Keeps(s, st) /\ e.turn \in Turn
    BY <1>8, SuspicionClearedType, MoreMethodsKeep, ReceivesType
       DEF HandleTurnError, TurnMessages
  <2>2. s' = TurnError(st, e) /\ rec' = rec
    BY <1>8 DEF HandleTurnError
  <2> HIDE DEF st
  <2>3. Keeps(st, TurnError(st, e))
    BY <2>1, MoreMethodsKeep DEF TurnError, Keeps
  <2> QED BY <2>1, <2>2, <2>3, KeepsTransitive, SameOwned
<1>9. CASE HandleTurnCompleted
  <2> DEFINE t == e.turn
             st == SuspicionCleared(s, w, e)
             dropped == DropPending(st, {t})
             taken == TakeWaiters(dropped, {t})
  <2>1. st \in SupervisorType /\ Keeps(s, st)
    BY SuspicionClearedType, MoreMethodsKeep
  <2>2. taken \in SupervisorType /\ Keeps(s, taken)
    BY <2>1, DropPendingType, TakeWaitersType, MethodsKeep, KeepsTransitive
  <2>3. s' \in {st, [taken EXCEPT !.handledTurns = @ \cup {t},
                                  !.watchdogInterrupted = @ \ {t},
                                  !.activeTurn = None]} /\ rec' = rec
    BY <1>9 DEF HandleTurnCompleted
  <2> HIDE DEF st, taken
  <2>4. Keeps(s, s')
    BY <2>1, <2>2, <2>3 DEF Keeps, NoOwner, SupervisorType
  <2> QED BY <2>3, <2>4, SameOwned
<1>10. CASE TurnCompleted
  <2> DEFINE c == CancelRecovery(s)
             st == [c EXCEPT !.stallCurrent = FALSE, !.cyberAttempts = 0,
                             !.autoResumes = 0, !.stallResumes = 0]
  <2>1. c \in SupervisorType /\ NoOwner(c)
    BY CancelRecoveryType, CancelsOwner
  <2>2. s' \in {PausedRecord(st), [st EXCEPT !.phase = "idle"]} /\ rec' = rec
    BY <1>10 DEF TurnCompleted
  <2> HIDE DEF c
  <2>3. NoOwner(s')
    BY <2>1, <2>2 DEF NoOwner, PausedRecord, SupervisorType
  <2> QED BY <2>2, <2>3, SameOwned DEF Keeps
<1>11. CASE TurnInterrupted
  <2> DEFINE c == CancelRecovery(s)
             st == [c EXCEPT !.cyberAttempts = 0]
             down == [st EXCEPT !.phase = "provider-down"]
             ended == [st EXCEPT !.phase = "idle", !.stallCurrent = FALSE,
                                 !.autoResumes = 0, !.stallResumes = 0]
  <2>1. c \in SupervisorType /\ NoOwner(c)
    BY CancelRecoveryType, CancelsOwner
  <2>2. \/ /\ s' \in {PausedRecord(st), [st EXCEPT !.phase = "resuming"],
                      SetAttention(st), ended}
           /\ rec' = rec
        \/ s' = StartRecovery(down, ev.turn) /\ rec' = SpawnRecovery(down, ev.turn)
    BY <1>11 DEF TurnInterrupted
  <2>3. ev.turn \in Turn
    BY <1>11, Turns DEF TurnInterrupted, LoopType, Located
  <2> HIDE DEF c
  <2>4. st \in SupervisorType /\ NoOwner(st)
    BY <2>1 DEF SupervisorType, NoOwner
  <2> HIDE DEF st
  <2>5. down \in SupervisorType /\ NoOwner(down) /\ NoOwner(ended)
    BY <2>4 DEF SupervisorType, NoOwner, Phases
  <2>6. NoOwner(PausedRecord(st)) /\ NoOwner([st EXCEPT !.phase = "resuming"])
        /\ NoOwner(SetAttention(st))
    BY <2>4, CancelsOwner DEF SupervisorType, NoOwner, PausedRecord
  <2> HIDE DEF down, ended
  <2> QED BY <2>2, <2>3, <2>5, <2>6, SameOwned, OwnedStarted DEF Keeps
<1>12. CASE TurnFailed
  <2>1. \/ s' = PausedRecord(CancelRecovery(s)) /\ rec' = rec
        \/ s' = s /\ rec' = rec
        \/ s' = StartRecovery(s, ev.turn) /\ rec' = SpawnRecovery(s, ev.turn)
    BY <1>12 DEF TurnFailed
  <2>2. ev.turn \in Turn
    BY <1>12, Turns DEF TurnFailed, LoopType, Located
  <2>3. Keeps(s, s) /\ Keeps(s, PausedRecord(CancelRecovery(s)))
    BY CancelRecoveryType, CancelsOwner, MethodsKeep DEF Keeps, NoOwner
  <2> QED BY <2>1, <2>2, <2>3, SameOwned, OwnedStarted
<1>13. CASE EventLoopStops
  BY <1>13, SameOwned DEF EventLoopStops, Keeps
<1> QED
  BY <1>3, <1>4, <1>5, <1>6, <1>7, <1>8, <1>9, <1>10, <1>11, <1>12, <1>13
     DEF EventLoop

\* A recovery goroutine gives its ownership up before it ends, and hands it to
\* the failure that waits behind it.
LEMMA RecoveryStepOwned ==
    ASSUME TypeInv, RecoveryOwned, NEW t \in Turn, Recovery(t)
    PROVE  RecoveryOwned'
<1> USE DEF TypeInv, TypeOK
<1>1. s \in SupervisorType
  OBVIOUS
\* Every step but the last leaves the goroutine running.
<1>2. ASSUME Keeps(s, s'), rec[t].pc \notin {"off", "done"},
             \/ Returns(t)
             \/ \E pc \in {"announce", "wait", "probing", "probe", "mark",
                           "goal", "goalset", "submit"} : Goto(t, pc)
      PROVE  RecoveryOwned'
  <2>1. Running(rec, rec')
    BY <1>2 DEF Returns, Goto, NoRecovery, Running, RecoveryType
  <2> QED BY <1>2, <2>1, OwnedKept
<1>3. \A ph : Keeps(s, [s EXCEPT !.phase = ph])
  BY DEF Keeps, SupervisorType
<1>4. Keeps(s, Failed(t))
  <2> DEFINE st == [s EXCEPT !.submittingResume = FALSE]
  <2>1. st \in SupervisorType /\ Keeps(s, st)
    BY DEF Keeps, SupervisorType
  <2>2. Failed(t) \in {st, SetAttention(st)}
    BY DEF Failed
  <2> HIDE DEF st
  <2> QED BY <2>1, <2>2, CancelsOwner DEF Keeps
<1>5. Keeps(s, s)
  BY DEF Keeps
<1>6. CASE RecoveryTop(t) \/ RecoveryWait(t) \/ RecoveryProbeCancelled(t)
           \/ RecoveryResume(t) \/ RecoveryGoal(t)
  BY <1>2, <1>5, <1>6 DEF RecoveryTop, RecoveryWait, RecoveryProbeCancelled,
                          RecoveryResume, RecoveryGoal, At
<1>7. CASE RecoveryAnnounce(t) \/ RecoveryProbing(t)
  BY <1>2, <1>3, <1>7 DEF RecoveryAnnounce, RecoveryProbing, At
<1>8. CASE RecoveryProbeHealthy(t) \/ RecoveryProbeUnhealthy(t)
  <2>1. s' = s /\ rec'[t].pc \in {"resume", "top"}
        /\ \A u \in Turn : u # t => rec'[u] = rec[u]
    BY <1>8 DEF RecoveryProbeHealthy, RecoveryProbeUnhealthy, RecoveryType
  <2> QED BY <1>5, <2>1, OwnedKept DEF Running
<1>9. CASE RecoveryMark(t)
  <2> DEFINE marked == [s EXCEPT !.submittingResume = TRUE, !.phase = "resuming",
                            !.resumeRequestedFor = t, !.autoResumes = @ + 1]
  <2>1. Keeps(s, marked) /\ Keeps(s, SetAttention(s))
    BY CancelsOwner DEF Keeps, SupervisorType
  <2>2. s' \in {marked, SetAttention(s)}
    BY <1>9 DEF RecoveryMark
  <2> HIDE DEF marked
  <2> QED BY <1>2, <1>9, <2>1, <2>2 DEF RecoveryMark, At
<1>10. CASE RecoveryRequestFails(t) \/ RecoveryStartFails(t)
  BY <1>2, <1>4, <1>10 DEF RecoveryRequestFails, RecoveryStartFails, At
<1>11. CASE RecoveryGoalSet(t)
  <2>1. Keeps(s, [s EXCEPT !.submittingResume = FALSE])
    BY DEF Keeps, SupervisorType
  <2> QED BY <1>2, <1>4, <1>11, <2>1 DEF RecoveryGoalSet, At
<1>12. CASE RecoverySubmit(t)
  <2>1. PICK o \in StartOutcomes :
          rec' = [rec EXCEPT ![t].pc = "record", ![t].started = o.started]
    BY <1>12 DEF RecoverySubmit
  <2>2. Running(rec, rec')
    BY <2>1 DEF Running, RecoveryType
  <2> QED BY <1>5, <1>12, <2>2, OwnedKept DEF RecoverySubmit
<1>13. CASE RecoveryRecord(t)
  <2> DEFINE n == rec[t].started
             st == TurnRunning(s, n)
  <2>1. n \in Turn
    BY <1>13, Turns DEF RecoveryRecord, RecoveryType
  <2>2. st \in SupervisorType /\ Keeps(s, st)
    BY <2>1, TurnRunningType, MethodsKeep
  <2>3. s' = [st EXCEPT !.submittingResume = FALSE]
    BY <1>13 DEF RecoveryRecord
  <2> HIDE DEF st
  <2>4. Keeps(s, s')
    BY <2>2, <2>3 DEF Keeps, NoOwner, SupervisorType
  <2> QED BY <1>2, <1>13, <2>4 DEF RecoveryRecord, At
<1>14. CASE RecoveryFinish(t)
  <2> DEFINE ended == [s EXCEPT !.recovery = None, !.pendingRecovery = None]
             next == s.pendingRecovery
             done == [rec EXCEPT ![t].pc = "done"]
  <2>1. ended \in SupervisorType /\ NoOwner(ended)
    <3>1. ended \in SupervisorType
      BY Turns, Zenon DEF SupervisorType
    <3> QED BY <3>1 DEF SupervisorType, NoOwner
  <2>2. \A u \in Turn : u # t => done[u] = rec[u]
    OBVIOUS
  <2>3. CASE Cancelled(t)
    <3>1. s' = s /\ rec' = done
      BY <1>14, <2>3 DEF RecoveryFinish
    <3> HIDE DEF done
    <3> QED BY <2>2, <2>3, <3>1, Turns DEF RecoveryOwned, Cancelled, SupervisorType
  <2>4. CASE ~Cancelled(t) /\ (next = None \/ s.shuttingDown)
    <3>1. s' = ended
      BY <1>14, <2>4 DEF RecoveryFinish
    <3> QED BY <2>1, <3>1 DEF RecoveryOwned, NoOwner
  <2>5. CASE ~Cancelled(t) /\ ~(next = None \/ s.shuttingDown)
    <3>1. /\ s' = StartRecovery(ended, next)
          /\ rec' = IF StartsRecovery(ended)
                    THEN [done EXCEPT ![next] = RecoveryStarted] ELSE done
          /\ next \in Turn
      BY <1>14, <2>5, Turns DEF RecoveryFinish, SupervisorType
    <3>2. next \in DOMAIN done
      BY <3>1
    <3> HIDE DEF ended, done
    <3>3. CASE StartsRecovery(ended)
      <4>1. s'.recovery = next /\ rec'[next] = RecoveryStarted
        BY <2>1, <3>1, <3>2, <3>3, StartedOwner
      <4> QED BY <3>1, <4>1, Turns DEF RecoveryOwned, RecoveryStarted, NoRecovery
    <3>4. CASE ~StartsRecovery(ended)
      <4>1. s' \in {ended, SetAttention(ended)}
        BY <2>1, <3>1, <3>4, ConstantsAssumption
           DEF StartRecovery, StartsRecovery, SupervisorType, NoOwner
      <4>2. NoOwner(s')
        BY <2>1, <4>1, CancelsOwner
      <4> QED BY <4>2 DEF RecoveryOwned, NoOwner
    <3> QED BY <3>3, <3>4
  <2> QED BY <2>3, <2>4, <2>5
<1> QED
  BY <1>6, <1>7, <1>8, <1>9, <1>10, <1>11, <1>12, <1>13, <1>14 DEF Recovery

\* The environment, the watchdog, the retries, the commands and the shutdown.
LEMMA OtherStepsOwned ==
    ASSUME TypeInv, RecoveryOwned,
           \/ Environment \/ StallTick \/ StallStep \/ Remote \/ Shutdown
           \/ \E t \in Turn : Cyber(t) \/ PausedInterrupt(t)
    PROVE  RecoveryOwned'
<1> USE DEF TypeInv, TypeOK
<1>1. s \in SupervisorType
  OBVIOUS
<1>2. Keeps(s, s)
  BY DEF Keeps
<1>3. CASE Environment
  BY <1>2, <1>3, SameOwned
     DEF Environment, UserStartsTurn, UserInterrupts, ServerActivity, ServerWaits,
         ServerError, ServerCompletes, ServerEndsSilently, ServerContinuesGoal,
         goroutines
<1>4. CASE StallTick
  <2>1. rec' = rec /\ Keeps(s, s')
    BY <1>4 DEF StallTick, StallSuspected, StallConfirmed, sgUnchanged, Keeps,
                SupervisorType
  <2> QED BY <2>1, SameOwned
<1>5. CASE StallStep
  <2>1. ASSUME NEW st \in SupervisorType, Keeps(s, st)
        PROVE  /\ Keeps(s, Ended(st)) /\ Keeps(s, Ended(SetAttention(st)))
               /\ Keeps(s, Ended(FailStall(st))) /\ Keeps(s, SubmitEnded(st))
               /\ Keeps(s, SubmitEnded(FailStall(st)))
               /\ \A ph \in Phases : Keeps(s, Ended([st EXCEPT !.phase = ph]))
    <3>1. Keeps(s, Ended(st)) /\ Keeps(s, SubmitEnded(st))
      BY <2>1, MethodsKeep, KeepsTransitive
    <3>2. SetAttention(st) \in SupervisorType /\ FailStall(st) \in SupervisorType
      BY <2>1, SetAttentionType, FailStallType
    <3>3. Keeps(s, SetAttention(st)) /\ Keeps(s, FailStall(st))
      BY <2>1, CancelsOwner, MoreMethodsKeep, KeepsTransitive DEF Keeps
    <3>4. /\ Keeps(s, Ended(SetAttention(st))) /\ Keeps(s, Ended(FailStall(st)))
          /\ Keeps(s, SubmitEnded(FailStall(st)))
      BY <3>2, <3>3, MethodsKeep, KeepsTransitive
    <3>5. ASSUME NEW ph \in Phases PROVE Keeps(s, Ended([st EXCEPT !.phase = ph]))
      <4> DEFINE p == [st EXCEPT !.phase = ph]
      <4>1. p \in SupervisorType /\ Keeps(st, p)
        BY <2>1, <3>5 DEF SupervisorType, Keeps
      <4> HIDE DEF p
      <4>2. Keeps(s, Ended(p))
        BY <2>1, <4>1, MethodsKeep, KeepsTransitive
      <4> QED BY <4>2 DEF p
    <3> QED BY <3>1, <3>4, <3>5
  <2>2. rec' = rec
    BY <1>5 DEF StallStep, StallConfirm, StallReadAnswered, StallStatusRejected,
                StallStatusInactive, StallStatusWaiting, StallStatusActive,
                StallAnnounce, StallRegister, StallInterrupt,
                StallInterruptAnswered, StallTerminal, StallNotTerminal, StallMark,
                StallSubmit, StallSubmitFails, StallTurnStarted, sgUnchanged
  <2>3. CASE StallConfirm \/ StallReadAnswered \/ StallStatusRejected \/ StallTerminal
             \/ StallStatusActive \/ StallInterrupt \/ StallSubmit \/ StallSubmitFails
    <3>1. s' \in {s, Ended(s), Ended(SetAttention(s)), Ended(FailStall(s)),
                  SubmitEnded(FailStall(s))}
      BY <2>3 DEF StallConfirm, StallReadAnswered, StallStatusRejected, StallTerminal,
                  StallStatusActive, StallInterrupt, StallSubmit, StallSubmitFails
    <3> QED BY <1>2, <2>1, <2>2, <3>1, SameOwned
  <2>4. CASE StallStatusInactive \/ StallStatusWaiting
    <3> DEFINE st == [s EXCEPT !.activeTurn = None]
    <3>1. st \in SupervisorType /\ Keeps(s, st)
      BY Turns DEF SupervisorType, Keeps
    <3>2. s' \in {Ended([st EXCEPT !.phase = "idle"]), Ended(SetAttention(st)),
                  Ended([s EXCEPT !.phase = "waiting-for-user"])}
      BY <2>4 DEF StallStatusInactive, StallStatusWaiting
    <3>3. "idle" \in Phases /\ "waiting-for-user" \in Phases
      BY DEF Phases
    <3> HIDE DEF st
    <3>4. Keeps(s, s')
      BY <1>2, <2>1, <3>1, <3>2, <3>3
    <3> QED BY <2>2, <3>4, SameOwned
  <2>5. CASE StallAnnounce \/ StallRegister \/ StallMark
    <3>1. Keeps(s, s')
      BY <2>5 DEF StallAnnounce, StallRegister, StallMark, Keeps, SupervisorType
    <3> QED BY <2>2, <3>1, SameOwned
  <2>6. CASE StallInterruptAnswered \/ StallNotTerminal
    <3> DEFINE taken == TakeWaiters(s, {sg.turn})
               st == [taken EXCEPT !.watchdogInterrupted =
                        IF sg.answer = "timeout" THEN @ ELSE @ \ {sg.turn}]
    <3>1. taken \in SupervisorType /\ Keeps(s, taken)
      BY TakeWaitersType, MethodsKeep
    <3>2. s' \in {s, Ended(FailStall(st)), Ended(FailStall(taken))}
      BY <2>6 DEF StallInterruptAnswered, StallNotTerminal
    <3> HIDE DEF taken
    <3>3. st \in SupervisorType /\ Keeps(s, st)
      BY <3>1 DEF SupervisorType, Keeps, NoOwner
    <3> HIDE DEF st
    <3> QED BY <1>2, <2>1, <2>2, <3>1, <3>2, <3>3, SameOwned
  <2>7. CASE StallTurnStarted
    <3>1. sg.started \in Turn
      BY <2>7, Turns DEF StallTurnStarted, StallType
    <3>2. TurnRunning(s, sg.started) \in SupervisorType
          /\ Keeps(s, TurnRunning(s, sg.started))
      BY <3>1, TurnRunningType, MethodsKeep
    <3> QED BY <2>1, <2>2, <2>7, <3>2, SameOwned DEF StallTurnStarted
  <2> QED BY <1>5, <2>3, <2>4, <2>5, <2>6, <2>7 DEF StallStep
<1>6. CASE Remote
  <2>1. rec' = rec
    BY <1>6 DEF Remote, Command, RemotePause, RemoteResume, RemotePromptSteers,
                RemotePromptStarts, RemotePauseAnswered, RemoteSteerAnswered,
                RemotePrompt, ContinuationGoal, ContinuationGoalSet,
                ContinuationSubmit, ContinuationFails, ContinuationStarted,
                rcUnchanged
  <2>2. CASE ~ContinuationStarted
    <3>1. \/ s'.recovery = s.recovery /\ s'.pendingRecovery = s.pendingRecovery
          \/ s' \in {s, PauseAccepted(s), FreshAttempt(s)}
      BY <1>6, <2>2 DEF Remote, Command, RemotePause, RemoteResume,
                RemotePromptSteers, RemotePromptStarts, RemotePauseAnswered,
                RemoteSteerAnswered, RemotePrompt, ContinuationGoal,
                ContinuationGoalSet, ContinuationSubmit, ContinuationFails,
                SupervisorType
    <3> QED BY <1>2, <2>1, <3>1, CancelsOwner, SameOwned DEF Keeps
  <2>3. CASE ContinuationStarted
    <3> DEFINE st == TurnRunning(s, rc.started)
               ph == IF s.manualPaused THEN "needs-attention" ELSE st.phase
    <3>1. rc.started \in Turn
      BY <2>3, Turns DEF ContinuationStarted, RemoteType
    <3>2. st \in SupervisorType /\ Keeps(s, st)
      BY <3>1, TurnRunningType, MethodsKeep
    <3>3. s' = [st EXCEPT !.phase = ph]
      BY <2>3 DEF ContinuationStarted
    <3> HIDE DEF st, ph
    <3>4. Keeps(s, s')
      BY <3>2, <3>3 DEF SupervisorType, Keeps, NoOwner
    <3> QED BY <2>1, <3>4, SameOwned
  <2> QED BY <2>2, <2>3
<1>7. CASE Shutdown
  <2> DEFINE c == CancelRecovery(TakeWaiters(DropPending(s, Turn), Turn))
  <2>1. c \in SupervisorType /\ NoOwner(c)
    BY CancelRecoveryType, CancelsOwner, TakeWaitersType, DropPendingType
  <2>2. /\ s' = [c EXCEPT !.shuttingDown = TRUE, !.stallCurrent = FALSE,
                          !.watchdogInterrupted = {}, !.phase = "stopped"]
        /\ rec' = rec
    BY <1>7 DEF Shutdown, rcUnchanged
  <2> HIDE DEF c
  <2>3. NoOwner(s')
    BY <2>1, <2>2 DEF NoOwner, SupervisorType
  <2> QED BY <2>2, <2>3, SameOwned DEF Keeps
<1>8. ASSUME NEW t \in Turn, Cyber(t) PROVE RecoveryOwned'
  <2>1. rec' = rec
    BY <1>8 DEF Cyber, CyberStart, CyberRequest, CyberPaused, CyberFails,
                CyberSubmit, CyberTurnStarted, cybUnchanged
  <2>2. Keeps(s, NotSubmitting(s)) /\ NotSubmitting(s) \in SupervisorType
    BY MethodsKeep, NotSubmittingType
  <2>3. Keeps(s, SetAttention(s)) /\ Keeps(s, SetAttention(NotSubmitting(s)))
    BY <2>2, CancelsOwner DEF Keeps
  <2>4. CASE CyberTurnStarted(t)
    <3>1. cyb[t].started \in Turn
      BY <2>4, Turns DEF CyberTurnStarted, CyberType
    <3>2. TurnRunning(s, cyb[t].started) \in SupervisorType
          /\ Keeps(s, TurnRunning(s, cyb[t].started))
      BY <3>1, TurnRunningType, MethodsKeep
    <3>3. Keeps(s, s')
      BY <2>4, <3>2, MethodsKeep, KeepsTransitive DEF CyberTurnStarted
    <3> QED BY <2>1, <3>3, SameOwned
  <2>5. CASE CyberStart(t)
    <3> DEFINE started ==
                 [s EXCEPT !.submittingResume = TRUE, !.phase = "resuming",
                           !.resumeRequestedFor = t, !.autoResumes = @ + 1,
                           !.cyberAttempts = @ + 1]
    <3>1. s' \in {s, SetAttention(s), started}
      BY <2>5 DEF CyberStart
    <3>2. Keeps(s, started)
      BY DEF Keeps, SupervisorType
    <3> HIDE DEF started
    <3> QED BY <1>2, <2>1, <2>3, <3>1, <3>2, SameOwned
  <2>6. CASE CyberRequest(t) \/ CyberPaused(t) \/ CyberFails(t) \/ CyberSubmit(t)
    <3>1. s' \in {s, NotSubmitting(s), SetAttention(NotSubmitting(s))}
      BY <2>6 DEF CyberRequest, CyberPaused, CyberFails, CyberSubmit
    <3> QED BY <1>2, <2>1, <2>2, <2>3, <3>1, SameOwned
  <2> QED BY <1>8, <2>4, <2>5, <2>6 DEF Cyber
<1>9. ASSUME NEW t \in Turn, PausedInterrupt(t) PROVE RecoveryOwned'
  <2>1. rec' = rec
    BY <1>9 DEF PausedInterrupt, PausedInterruptRequest, PausedInterruptAnswered,
                rcUnchanged
  <2> DEFINE st == [s EXCEPT !.pauseInterrupting = @ \ {t}]
             paused == [st EXCEPT
                        !.handledTurns = @ \cup {t},
                        !.activeTurn = IF @ = t THEN None ELSE @,
                        !.manualPaused = TRUE, !.phase = "paused"]
  <2>2. s' \in {s, st, paused}
    BY <1>9 DEF PausedInterrupt, PausedInterruptRequest, PausedInterruptAnswered
  <2>3. st \in SupervisorType /\ Keeps(s, st)
    BY DEF SupervisorType, Keeps
  <2> HIDE DEF st
  <2>4. Keeps(s, paused)
    BY <2>3 DEF SupervisorType, Keeps, NoOwner
  <2> HIDE DEF paused
  <2>5. Keeps(s, s')
    BY <1>2, <2>2, <2>3, <2>4
  <2> QED BY <2>1, <2>5, SameOwned
<1> QED BY <1>3, <1>4, <1>5, <1>6, <1>7, <1>8, <1>9

\* The reconciliation of a terminal error, which may start a recovery.
LEMMA CheckStepOwned ==
    ASSUME TypeInv, RecoveryOwned, NEW t \in Turn, Check(t)
    PROVE  RecoveryOwned'
<1> USE DEF TypeInv, TypeOK
<1>1. s \in SupervisorType /\ Keeps(s, s)
  BY DEF Keeps
<1>2. ASSUME RecoverWithoutTerminal(t) PROVE RecoveryOwned'
  <2> DEFINE dropped == DropPending(s, {t})
             st == WithoutTerminal(s, t)
  <2>1. dropped \in SupervisorType /\ Keeps(s, dropped)
    BY DropPendingType, MethodsKeep
  <2>2. st = [dropped EXCEPT !.handledTurns = @ \cup {t},
                             !.activeTurn = IF @ = t THEN None ELSE @]
    BY DEF WithoutTerminal
  <2>3. st \in SupervisorType
    BY RecoveredType
  <2>4. s' = StartRecovery(st, t) /\ rec' = SpawnRecovery(st, t)
    BY <1>2 DEF RecoverWithoutTerminal
  <2> HIDE DEF dropped, st
  <2>5. Keeps(s, st)
    BY <2>1, <2>2 DEF Keeps, NoOwner, SupervisorType
  <2> QED BY <2>3, <2>4, <2>5, OwnedStarted
<1>3. CASE GraceExpiresInactive(t) \/ GraceExpiresBusy(t) \/ GraceExpiresSuperseded(t)
           \/ GraceExpires(t)
  <2>1. Keeps(s, s') /\ rec' = rec
    BY <1>3, MethodsKeep DEF GraceExpiresInactive, GraceExpiresBusy,
             GraceExpiresSuperseded, GraceExpires, Keeps, SupervisorType
  <2> QED BY <2>1, SameOwned
<1>4. CASE ReadAnswered(t) \/ CheckRejected(t) \/ CheckTerminal(t)
  <2>1. Keeps(s, s') /\ rec' = rec
    BY <1>1, <1>4, MoreMethodsKeep DEF ReadAnswered, CheckRejected, CheckTerminal
  <2> QED BY <2>1, SameOwned
<1>5. CASE CheckInactive(t)
  BY <1>2, <1>5 DEF CheckInactive
<1>6. CASE CheckWaiting(t)
  <2> DEFINE st == CancelPending(s, t)
  <2>1. st \in SupervisorType /\ Keeps(s, st)
    BY CancelPendingType, MoreMethodsKeep
  <2>2. s' = [st EXCEPT !.phase = "waiting-for-user"] /\ rec' = rec
    BY <1>6 DEF CheckWaiting
  <2> HIDE DEF st
  <2>3. Keeps(s, s')
    BY <2>1, <2>2 DEF Keeps, NoOwner, SupervisorType
  <2> QED BY <2>2, <2>3, SameOwned
<1>7. CASE CheckInterrupt(t)
  <2>1. Keeps(s, s') /\ rec' = rec
    BY <1>7 DEF CheckInterrupt, Keeps, SupervisorType
  <2> QED BY <2>1, SameOwned
<1>8. CASE CheckInterruptAnswered(t) \/ CheckNotTerminal(t)
  <2>1. TakeWaiters(s, {t}) \in SupervisorType /\ Keeps(s, TakeWaiters(s, {t}))
    BY TakeWaitersType, MethodsKeep
  <2>2. Keeps(s, FailPending(TakeWaiters(s, {t}), t, 0))
    BY <2>1, MoreMethodsKeep, KeepsTransitive
  <2>3. Keeps(s, s') /\ rec' = rec
    BY <1>1, <1>8, <2>1, <2>2 DEF CheckInterruptAnswered, CheckNotTerminal
  <2> QED BY <2>3, SameOwned
<1>9. CASE Recheck(t)
  <2>1. \/ s' \in {s, FailPending(s, t, 0)} /\ rec' = rec
        \/ RecoverWithoutTerminal(t)
    BY <1>9 DEF Recheck
  <2> QED BY <1>1, <1>2, <2>1, MoreMethodsKeep, SameOwned
<1> QED
  BY <1>3, <1>4, <1>5, <1>6, <1>7, <1>8, <1>9 DEF Check

\* However recoveries are started, queued, cancelled and restarted, the
\* supervisor never claims a recovery that no goroutine performs: handleTurn-
\* Completed, cancelRecovery and the end of startRecovery's goroutine.
THEOREM RecoveryAlwaysOwned == Spec => []RecoveryOwned
<1> DEFINE IInv == TypeInv /\ RecoveryOwned
<1>1. Init => IInv
  <2>1. Init => RecoveryOwned
    BY DEF Init, RecoveryOwned
  <2> QED BY <2>1, InitType
<1>2. IInv /\ [Next]_vars => IInv'
  <2> SUFFICES ASSUME TypeInv, RecoveryOwned, [Next]_vars PROVE RecoveryOwned'
    BY NextType
  <2>1. CASE UNCHANGED vars
    BY <2>1 DEF vars, RecoveryOwned
  <2>2. ASSUME NEW t \in Turn, Goroutine(t) PROVE RecoveryOwned'
    BY <2>2, RecoveryStepOwned, CheckStepOwned, OtherStepsOwned DEF Goroutine
  <2>3. CASE Quiescent
    BY <2>1, <2>3 DEF Quiescent
  <2> QED BY <2>1, <2>2, <2>3, EventLoopOwned, OtherStepsOwned DEF Next
<1>3. IInv => RecoveryOwned
  OBVIOUS
<1> QED BY <1>1, <1>2, <1>3, PTL DEF Spec

-----------------------------------------------------------------------------
(* What a step may do. The methods of the supervisor come first; then each *)
(* process, by the fields the invariants below depend on.                  *)

\* No entry is none at all.
Sound(p) == p.generation = 0 => p = NoPending

\* No entry is made, and no request for its turn.
Shrinks(p, q) ==
    /\ Sound(p) => Sound(q)
    /\ p = NoPending => q = NoPending
    /\ q.interrupting => p.interrupting

\* What no method does: forget that a turn was handled, make a stall recovery
\* current, count one, make a pending error or interrupt its turn.
Tame(st, to) ==
    /\ st.handledTurns \subseteq to.handledTurns
    /\ to.stallCurrent => st.stallCurrent
    /\ to.stallResumes \in {0, st.stallResumes}
    /\ \A t \in Turn : Shrinks(st.pending[t], to.pending[t])

SameFlags(st, to) ==
    /\ to.submittingResume = st.submittingResume
    /\ to.stallCheckInFlight = st.stallCheckInFlight

\* Few of them touch a waiter or queue a failure, ...
Loose(st, to) ==
    /\ Tame(st, to)
    /\ to.waiters = st.waiters
    /\ to.pendingRecovery \in {st.pendingRecovery, None}

\* ... or touch the two busy flags.
Mild(st, to) == Loose(st, to) /\ SameFlags(st, to)

\* Two methods in a row do no more than the worse of them: Tame, ...
LEMMA TameTransitive ==
    ASSUME NEW a, NEW b, NEW c, Tame(a, b), Tame(b, c)
    PROVE  Tame(a, c)
BY DEF Tame, Shrinks

\* ... and Mild.
LEMMA MildTransitive ==
    ASSUME NEW a, NEW b, NEW c, Mild(a, b), Mild(b, c)
    PROVE  Mild(a, c)
BY TameTransitive DEF Mild, Loose, SameFlags

\* An entry whose timer is armed is one, and does not start to interrupt.
LEMMA ArmSound ==
    ASSUME NEW p \in PendingError
    PROVE  Arm(p).generation # 0 /\ Arm(p).interrupting = p.interrupting
BY ConstantsAssumption DEF Arm, PendingError

\* The methods that cancel, defer, drop and set the phase are mild: ...
LEMMA MildMethods ==
    ASSUME NEW st \in SupervisorType
    PROVE  /\ Mild(st, st)
           /\ \A T : Mild(st, DropPending(st, T))
           /\ \A T : Mild(st, DeferPending(st, T))
           /\ \A t \in Turn : Mild(st, TurnRunning(st, t))
           /\ Mild(st, PausedRecord(st))
           /\ Mild(st, CancelRecovery(st))
           /\ \A ph : Mild(st, [st EXCEPT !.phase = ph])
<1> USE DEF Mild, Loose, SameFlags, Tame, Shrinks, Sound, SupervisorType
<1>1. Mild(st, st)
  OBVIOUS
<1>2. \A T : Mild(st, DropPending(st, T))
  BY DEF DropPending, NoPending
<1>3. \A T : Mild(st, DeferPending(st, T))
  <2> TAKE T
  <2> DEFINE deferred ==
               [t \in Turn |->
                    IF /\ t \in T
                       /\ st.pending[t].generation # 0
                       /\ ~st.pending[t].interrupting
                    THEN Arm(st.pending[t]) ELSE st.pending[t]]
  <2>1. \A t \in Turn : Shrinks(st.pending[t], deferred[t])
    BY ArmSound DEF NoPending
  <2>2. DeferPending(st, T) \in {st, [st EXCEPT !.pending = deferred]}
    BY DEF DeferPending
  <2> HIDE DEF deferred
  <2>3. Mild(st, [st EXCEPT !.pending = deferred])
    BY <2>1
  <2> QED BY <1>1, <2>2, <2>3
<1>4. \A t \in Turn : Mild(st, TurnRunning(st, t))
  BY DEF TurnRunning
<1>5. Mild(st, PausedRecord(st))
  BY DEF PausedRecord
<1>6. Mild(st, CancelRecovery(st))
  BY DEF CancelRecovery
<1>7. \A ph : Mild(st, [st EXCEPT !.phase = ph])
  OBVIOUS
<1> QED BY <1>1, <1>2, <1>3, <1>4, <1>5, <1>6, <1>7

\* ... so are those that the handlers build from them.
LEMMA MoreMildMethods ==
    ASSUME NEW st \in SupervisorType
    PROVE  /\ Mild(st, SetAttention(st))
           /\ Mild(st, FreshAttempt(st))
           /\ \A t \in Turn : Mild(st, CancelPending(st, t))
           /\ \A t, g : Mild(st, FailPending(st, t, g))
           /\ \A wd, e : Mild(st, SuspicionCleared(st, wd, e))
           /\ Mild(st, FailStall(st))
           /\ Mild(st, ClientStarted(st))
           /\ \A t \in Turn : Mild(st, WithoutTerminal(st, t))
<1> DEFINE c == CancelRecovery(st)
<1>1. c \in SupervisorType /\ Mild(st, c)
  BY CancelRecoveryType, MildMethods
<1>2. Mild(st, SetAttention(st))
  BY <1>1, MildMethods, MildTransitive DEF SetAttention
<1>3. Mild(st, FreshAttempt(st))
  <2>1. FreshAttempt(st) = [c EXCEPT
            !.manualPaused = FALSE, !.phase = "resuming", !.autoResumes = 0,
            !.stallResumes = 0, !.resumeRequestedFor = None]
    BY DEF FreshAttempt
  <2> HIDE DEF c
  <2>2. Mild(c, FreshAttempt(st))
    BY <1>1, <2>1 DEF Mild, Loose, SameFlags, Tame, Shrinks, SupervisorType
  <2> QED BY <1>1, <2>2, MildTransitive
<1>4. ASSUME NEW t \in Turn PROVE Mild(st, CancelPending(st, t))
  <2> DEFINE dropped == DropPending(st, {t})
  <2>1. dropped \in SupervisorType /\ Mild(st, dropped)
    BY DropPendingType, MildMethods
  <2>2. CancelPending(st, t) \in {dropped, [dropped EXCEPT !.phase = "running"]}
    BY DEF CancelPending
  <2> HIDE DEF dropped
  <2> QED BY <2>1, <2>2, MildMethods, MildTransitive
<1>5. \A t, g : Mild(st, FailPending(st, t, g))
  BY <1>2, MildMethods DEF FailPending
<1>6. \A wd, e : Mild(st, SuspicionCleared(st, wd, e))
  BY MildMethods DEF SuspicionCleared
<1>7. Mild(st, FailStall(st))
  BY <1>2, MildMethods DEF FailStall
<1>8. Mild(st, ClientStarted(st))
  <2> DEFINE dropped == DropPending(st, Turn)
             reset == [dropped EXCEPT !.cyberAttempts = 0, !.stallCurrent = FALSE,
                                      !.stallResumes = 0]
             taken == IF st.submittingResume THEN st ELSE reset
             running == [taken EXCEPT !.phase = "running", !.manualPaused = FALSE]
             cancelled == CancelRecovery(running)
             again == [cancelled EXCEPT !.autoResumes = 0]
  <2>1. dropped \in SupervisorType /\ Mild(st, dropped)
    BY DropPendingType, MildMethods
  <2> HIDE DEF dropped
  <2>2. Mild(dropped, reset) /\ reset \in SupervisorType
    <3>1. 0 \in 0 .. 3 /\ 0 \in Nat
      OBVIOUS
    <3>2. reset \in SupervisorType
      BY <2>1, <3>1, Zenon DEF SupervisorType
    <3> QED BY <2>1, <3>2 DEF Mild, Loose, SameFlags, Tame, Shrinks, SupervisorType
  <2> HIDE DEF reset
  <2>3. Mild(st, taken) /\ taken \in SupervisorType
    BY <2>1, <2>2, MildTransitive, MildMethods
  <2> HIDE DEF taken
  <2>4. Mild(taken, running) /\ running \in SupervisorType
    <3>1. running \in SupervisorType
      BY <2>3, Zenon DEF SupervisorType, Phases
    <3> QED BY <2>3, <3>1 DEF Mild, Loose, SameFlags, Tame, Shrinks, SupervisorType
  <2>5. Mild(st, running)
    BY <2>3, <2>4, MildTransitive
  <2> HIDE DEF running
  <2>6. Mild(running, cancelled) /\ cancelled \in SupervisorType
    BY <2>4, MildMethods, CancelRecoveryType
  <2> HIDE DEF cancelled
  <2>7. Mild(cancelled, again)
    BY <2>6 DEF Mild, Loose, SameFlags, Tame, Shrinks, SupervisorType
  <2>8. ClientStarted(st) \in {running, again}
    BY DEF ClientStarted, again, cancelled, running, taken, reset, dropped
  <2> HIDE DEF again
  <2> QED BY <2>5, <2>6, <2>7, <2>8, MildTransitive
<1>9. ASSUME NEW t \in Turn PROVE Mild(st, WithoutTerminal(st, t))
  <2> DEFINE dropped == DropPending(st, {t})
  <2>1. dropped \in SupervisorType /\ Mild(st, dropped)
    BY DropPendingType, MildMethods
  <2>2. WithoutTerminal(st, t) =
          [dropped EXCEPT !.handledTurns = @ \cup {t},
                          !.activeTurn = IF @ = t THEN None ELSE @]
    BY DEF WithoutTerminal
  <2> HIDE DEF dropped
  <2>3. Mild(dropped, WithoutTerminal(st, t))
    BY <2>1, <2>2 DEF Mild, Loose, SameFlags, Tame, Shrinks, SupervisorType
  <2> QED BY <2>1, <2>3, MildTransitive
<1> QED BY <1>2, <1>3, <1>4, <1>5, <1>6, <1>7, <1>8, <1>9

-----------------------------------------------------------------------------
(* What a step may do.                                                     *)

\* The watchdog's confirmed decision stays what it was, or is lost.
Calm(wd, to) == to.unchanged => wd.unchanged /\ to.turn = wd.turn

\* No method of the watchdog renews a decision it has taken back.
LEMMA CalmMethods ==
    ASSUME NEW wd \in WatchdogType
    PROVE  /\ \A t : Calm(wd, WatchTurn(t)) /\ Calm(wd, CompleteWatch(wd, t))
           /\ Calm(wd, CancelWatch(wd)) /\ Calm(wd, WaitForUser(wd))
           /\ \A e : Calm(wd, Observe(wd, e))
           /\ \A e, t : Calm(wd, CompleteWatch(Observe(wd, e), t))
BY DEF Calm, WatchTurn, CompleteWatch, CancelWatch, WaitForUser, Observe, NoWatch,
       WatchdogType

\* The event loop does not take up the end of a turn.
LoopQuiet == ev'.pc \in {"interrupted", "failed"} => ev' = ev

\* What most steps leave alone.
Quiet ==
    /\ Mild(s, s')
    /\ UNCHANGED <<rec, cyb, chk, sg>>
    /\ LoopQuiet /\ Calm(w, w') /\ hist'.resumes = hist.resumes

\* The waiters for the turns in T are taken out and told.
Notifies(T, status) ==
    /\ Tame(s, s') /\ SameFlags(s, s')
    /\ s'.pendingRecovery \in {s.pendingRecovery, None}
    /\ s'.waiters = [t \in Turn |-> IF t \in T THEN "none" ELSE s.waiters[t]]
    /\ sg' = NotifyStall(s, T, status)
    /\ chk' = NotifyChecks(s, T, status)
    /\ UNCHANGED <<rec, cyb>>
    /\ Calm(w, w') /\ hist'.resumes = hist.resumes

\* handleTurnCompleted hears of the end of turn t for the first time.
Completes(t) ==
    /\ \E status \in {"completed", "interrupted", "failed"} :
        /\ Notifies({t}, status)
        /\ ev'.pc = status
    /\ t \notin s.handledTurns /\ t \in s'.handledTurns
    /\ ev.pc = "ready"
    /\ ev'.turn = t /\ ev'.errorInterrupt = s.pending[t].interrupting

\* An error of turn t is entered, which the watchdog counts as activity.
Schedules(t) ==
    /\ s'.handledTurns = s.handledTurns
    /\ SameFlags(s, s')
    /\ s'.stallCurrent = s.stallCurrent
    /\ s'.stallResumes = s.stallResumes
    /\ s'.pendingRecovery = s.pendingRecovery
    /\ s'.waiters = s.waiters
    /\ \A u \in Turn : u # t => s'.pending[u] = s.pending[u]
    /\ Sound(s.pending[t]) => Sound(s'.pending[t])
    /\ s'.pending[t].interrupting => s.pending[t].interrupting
    /\ UNCHANGED <<rec, cyb, chk, sg, ev, hist>>
    /\ Calm(w, w') /\ (w'.unchanged => w'.turn # t)

\* The failure of turn t is given to startRecovery.
Starts(t) ==
    /\ \E st \in SupervisorType :
        /\ Mild(s, st)
        /\ s' = StartRecovery(st, t) /\ rec' = SpawnRecovery(st, t)
    /\ UNCHANGED <<cyb, sg>>
    /\ Calm(w, w') /\ hist'.resumes = hist.resumes

\* ... by the event loop, which has its end at hand.
AtHand(t) ==
    /\ ev.turn = t
    /\ \/ ev.pc = "failed"
       \/ ev.pc = "interrupted" /\ ev.errorInterrupt

LoopStarts(t) == AtHand(t) /\ ev' = LoopReady /\ UNCHANGED chk /\ Starts(t)

\* ... or to the retries for the cyber policy.
LoopRetries(t) ==
    /\ AtHand(t) /\ ev' = LoopReady
    /\ cyb' = [cyb EXCEPT ![t] = [NoCyber EXCEPT !.pc = "start"]]
    /\ UNCHANGED <<s, w, rec, chk, sg, hist>>

\* What a handler of the event loop does, in these terms.
LEMMA EventLoopEffect ==
    ASSUME TypeInv, EventLoop
    PROVE  \/ Quiet
           \/ \E t \in Turn :
                \/ Notifies({t}, "cancelled") /\ ev' = ev
                \/ Completes(t) \/ Schedules(t) \/ LoopStarts(t) \/ LoopRetries(t)
<1> USE DEF TypeInv, TypeOK, goroutines
<1> DEFINE e == Head(events)
<1>1. s \in SupervisorType /\ w \in WatchdogType
  OBVIOUS
<1>2. Noticed(e) \in SupervisorType /\ Mild(s, Noticed(e))
  BY SuspicionClearedType, NoticedType, MildMethods, MoreMildMethods, MildTransitive
     DEF Noticed
<1>3. ASSUME Mild(s, s'), UNCHANGED <<rec, cyb, chk, sg, hist>>, LoopQuiet, Calm(w, w')
      PROVE  Quiet
  BY <1>3 DEF Quiet
<1>4. ev' = ev => LoopQuiet
  BY DEF LoopQuiet
<1>5. ev' = LoopReady => LoopQuiet
  BY DEF LoopQuiet, LoopReady
<1>6. w' = w => Calm(w, w')
  BY DEF Calm
<1>7. CASE HandleClientTurnStart
  BY <1>1, <1>3, <1>4, <1>6, <1>7, MoreMildMethods DEF HandleClientTurnStart
<1>8. CASE HandleClientInterrupt
  <2> DEFINE t == e.turn
             dropped == DropPending(s, {t})
             taken == TakeWaiters(dropped, {t})
  <2>1. t \in Turn
    BY <1>8, ReceivesType DEF HandleClientInterrupt, TurnMessages
  <2>2. dropped \in SupervisorType /\ Mild(s, dropped)
    BY DropPendingType, MildMethods
  <2>3. s' = [taken EXCEPT !.stallCurrent = FALSE, !.watchdogInterrupted = @ \ {t}]
        /\ sg' = NotifyStall(s, {t}, "cancelled") /\ chk' = NotifyChecks(s, {t}, "cancelled")
        /\ UNCHANGED <<rec, cyb, ev>> /\ w' = CancelWatch(w)
        /\ hist'.resumes = hist.resumes
    BY <1>8 DEF HandleClientInterrupt, HistoryType
  <2> HIDE DEF dropped
  <2>4. /\ Tame(dropped, s') /\ SameFlags(dropped, s')
        /\ s'.pendingRecovery = dropped.pendingRecovery
        /\ s'.waiters = [u \in Turn |-> IF u \in {t} THEN "none" ELSE dropped.waiters[u]]
    BY <2>2, <2>3 DEF Tame, SameFlags, Shrinks, SupervisorType, TakeWaiters
  <2>5. Notifies({t}, "cancelled")
    BY <1>1, <2>2, <2>3, <2>4, TameTransitive, CalmMethods
       DEF Notifies, Mild, Loose, SameFlags
  <2> QED BY <2>1, <2>3, <2>5
<1>9. CASE HandleTurnStarted
  <2> DEFINE st == DropPending(Noticed(e), Turn \ {e.turn})
  <2>1. e.turn \in Turn
    BY <1>9, ReceivesType DEF HandleTurnStarted, TurnMessages
  <2>2. st \in SupervisorType /\ Mild(s, st)
    BY <1>2, DropPendingType, MildMethods, MildTransitive
  <2>3. Mild(s, TurnRunning(st, e.turn))
    BY <2>1, <2>2, MildMethods, MildTransitive
  <2> QED BY <1>1, <1>3, <1>4, <1>9, <2>3, CalmMethods DEF HandleTurnStarted
<1>10. CASE HandleActivity
  BY <1>1, <1>2, <1>3, <1>4, <1>10, CalmMethods DEF HandleActivity
<1>11. CASE HandleThreadStatus
  <2> DEFINE st == Noticed(e)
             ph == ThreadStatusPhase(st, e.detail)
  <2>1. s' = [st EXCEPT !.phase = ph]
    BY <1>11 DEF HandleThreadStatus
  <2>2. Mild(s, s')
    <3> HIDE DEF ph, st
    <3> QED BY <1>2, <2>1, MildMethods, MildTransitive DEF st
  <2> QED BY <1>1, <1>3, <1>4, <1>11, <2>2, CalmMethods DEF HandleThreadStatus
<1>12. CASE HandleTurnError
  <2> DEFINE st == SuspicionCleared(s, w, e)
             t == e.turn
  <2>1. st \in SupervisorType /\ Mild(s, st) /\ t \in Turn
    BY <1>12, SuspicionClearedType, MoreMildMethods, ReceivesType
       DEF HandleTurnError, TurnMessages
  <2>2. /\ s' = TurnError(st, e) /\ w' = Observe(w, e)
        /\ UNCHANGED <<rec, cyb, chk, sg, ev, hist>>
    BY <1>12 DEF HandleTurnError
  <2>3. CASE s' = SchedulePending(st, t)
    <3>1. st = s \/ \E ph : st = [s EXCEPT !.phase = ph]
      BY DEF SuspicionCleared
    <3>2. /\ st.pendingRecovery = s.pendingRecovery
          /\ st.handledTurns = s.handledTurns /\ st.waiters = s.waiters
          /\ st.submittingResume = s.submittingResume
          /\ st.stallCheckInFlight = s.stallCheckInFlight
          /\ st.stallCurrent = s.stallCurrent /\ st.stallResumes = s.stallResumes
          /\ st.pending = s.pending
      BY <3>1 DEF SupervisorType
    <3> HIDE DEF st
    <3>3. /\ s'.pendingRecovery = st.pendingRecovery
          /\ s'.handledTurns = st.handledTurns /\ s'.waiters = st.waiters
          /\ s'.submittingResume = st.submittingResume
          /\ s'.stallCheckInFlight = st.stallCheckInFlight
          /\ s'.stallCurrent = st.stallCurrent /\ s'.stallResumes = st.stallResumes
      BY <2>1, <2>3 DEF SchedulePending, SupervisorType
    <3>4. /\ \A u \in Turn : u # t => s'.pending[u] = st.pending[u]
          /\ s'.pending[t] \in {st.pending[t], Arm(st.pending[t])}
      BY <2>1, <2>3 DEF SchedulePending, SupervisorType
    <3>5. /\ Sound(st.pending[t]) => Sound(s'.pending[t])
          /\ s'.pending[t].interrupting => st.pending[t].interrupting
      BY <2>1, <3>4, ConstantsAssumption DEF Sound, Arm, SupervisorType, PendingError
    <3>6. w'.unchanged => w'.turn # t
      <4>1. CASE Observes(w, e)
        BY <1>1, <2>2, <4>1 DEF Observe, WatchdogType
      <4>2. CASE ~Observes(w, e)
        BY <2>1, <2>2, <4>2, Turns DEF Observe, Observes
      <4> QED BY <4>1, <4>2
    <3> QED BY <1>1, <2>1, <2>2, <3>2, <3>3, <3>4, <3>5, <3>6, CalmMethods
         DEF Schedules, SameFlags
  <2>4. CASE s' # SchedulePending(st, t)
    <3>1. s' \in {st, CancelPending(st, t)}
      BY <2>2, <2>4 DEF TurnError
    <3>2. Mild(s, s')
      BY <2>1, <3>1, MoreMildMethods, MildTransitive
    <3> QED BY <1>1, <1>3, <1>4, <2>2, <3>2, CalmMethods
  <2> QED BY <2>3, <2>4
<1>13. CASE HandleTurnCompleted
  <2> DEFINE t == e.turn
             st == SuspicionCleared(s, w, e)
             dropped == DropPending(st, {t})
             taken == TakeWaiters(dropped, {t})
             status == TerminalStatus(e.detail)
  <2>1. st \in SupervisorType /\ Mild(s, st)
    BY SuspicionClearedType, MoreMildMethods
  <2>2. t \in Turn /\ status \in {"completed", "interrupted", "failed"}
    BY <1>13, ReceivesType DEF HandleTurnCompleted, TerminalStatus, EndDetails
  <2>3. CASE t \in s.handledTurns
    BY <1>1, <1>3, <1>4, <1>13, <2>1, <2>3, CalmMethods DEF HandleTurnCompleted
  <2>4. CASE t \notin s.handledTurns
    <3>1. dropped \in SupervisorType /\ Mild(s, dropped)
      BY <2>1, DropPendingType, MildMethods, MildTransitive
    <3>2. /\ s' = [taken EXCEPT !.handledTurns = @ \cup {t},
                                !.watchdogInterrupted = @ \ {t},
                                !.activeTurn = None]
          /\ sg' = NotifyStall(s, {t}, status) /\ chk' = NotifyChecks(s, {t}, status)
          /\ UNCHANGED <<rec, cyb>> /\ w' = CompleteWatch(Observe(w, e), t)
          /\ hist'.resumes = hist.resumes
          /\ ev.pc = "ready" /\ ev'.pc = status /\ ev'.turn = t
          /\ ev'.errorInterrupt = s.pending[t].interrupting
      BY <1>13, <2>4 DEF HandleTurnCompleted, HistoryType, Receives
    <3> HIDE DEF dropped, status
    <3>3. /\ Tame(dropped, s') /\ SameFlags(dropped, s')
          /\ s'.pendingRecovery = dropped.pendingRecovery
          /\ s'.waiters = [u \in Turn |-> IF u \in {t} THEN "none" ELSE dropped.waiters[u]]
          /\ t \in s'.handledTurns
      BY <3>1, <3>2 DEF Tame, SameFlags, Shrinks, SupervisorType, TakeWaiters
    <3>4. Notifies({t}, status)
      BY <1>1, <3>1, <3>2, <3>3, TameTransitive, CalmMethods
       DEF Notifies, Mild, Loose, SameFlags
    <3> QED BY <2>2, <2>4, <3>2, <3>3, <3>4 DEF Completes
  <2> QED BY <2>3, <2>4
<1>14. CASE TurnCompleted
  <2> DEFINE c == CancelRecovery(s)
             st == [c EXCEPT !.stallCurrent = FALSE, !.cyberAttempts = 0,
                             !.autoResumes = 0, !.stallResumes = 0]
  <2>1. c \in SupervisorType /\ Mild(s, c)
    BY CancelRecoveryType, MildMethods
  <2>2. s' \in {PausedRecord(st), [st EXCEPT !.phase = "idle"]}
    BY <1>14 DEF TurnCompleted
  <2> HIDE DEF c
  <2>3. Mild(c, s')
    BY <2>1, <2>2 DEF Mild, Loose, SameFlags, Tame, Shrinks, PausedRecord, SupervisorType
  <2> QED BY <1>3, <1>5, <1>6, <1>14, <2>1, <2>3, MildTransitive DEF TurnCompleted
<1>15. CASE TurnInterrupted
  <2> DEFINE c == CancelRecovery(s)
             st == [c EXCEPT !.cyberAttempts = 0]
             down == [st EXCEPT !.phase = "provider-down"]
             ended == [st EXCEPT !.phase = "idle", !.stallCurrent = FALSE,
                                 !.autoResumes = 0, !.stallResumes = 0]
  <2>1. c \in SupervisorType /\ Mild(s, c)
    BY CancelRecoveryType, MildMethods
  <2>2. /\ ev' = LoopReady /\ UNCHANGED <<w, cyb, chk, sg, hist>>
        /\ \/ /\ s' \in {PausedRecord(st), [st EXCEPT !.phase = "resuming"],
                         SetAttention(st), ended}
              /\ rec' = rec
           \/ /\ ev.errorInterrupt
              /\ s' = StartRecovery(down, ev.turn) /\ rec' = SpawnRecovery(down, ev.turn)
    BY <1>15 DEF TurnInterrupted
  <2>3. ev.turn \in Turn /\ ev.pc = "interrupted"
    BY <1>15, Turns DEF TurnInterrupted, LoopType, Located
  <2> HIDE DEF c
  <2>4. st \in SupervisorType /\ Mild(c, st)
    <3>1. 0 \in 0 .. 3
      OBVIOUS
    <3>2. st \in SupervisorType
      BY <2>1, <3>1, Zenon DEF SupervisorType
    <3> QED BY <2>1, <3>2 DEF SupervisorType, Mild, Loose, SameFlags, Tame, Shrinks
  <2>5. Mild(st, ended)
    BY <2>4 DEF SupervisorType, Mild, Loose, SameFlags, Tame, Shrinks
  <2> HIDE DEF st
  <2>6. down \in SupervisorType /\ Mild(st, down)
    BY <2>4, MildMethods DEF SupervisorType, Phases
  <2> HIDE DEF down, ended
  <2>7. Mild(s, st) /\ Mild(s, down) /\ Mild(s, ended)
    BY <2>1, <2>4, <2>5, <2>6, MildTransitive
  <2>8. Mild(s, PausedRecord(st)) /\ Mild(s, [st EXCEPT !.phase = "resuming"])
        /\ Mild(s, SetAttention(st))
    BY <2>4, <2>7, MildMethods, MoreMildMethods, MildTransitive
  <2>9. CASE rec' = rec /\ Mild(s, s')
    BY <1>3, <1>5, <1>6, <2>2, <2>9
  <2>10. CASE ev.errorInterrupt /\ s' = StartRecovery(down, ev.turn)
              /\ rec' = SpawnRecovery(down, ev.turn)
    BY <1>6, <2>2, <2>3, <2>6, <2>7, <2>10 DEF LoopStarts, Starts, AtHand
  <2> QED BY <2>2, <2>7, <2>8, <2>9, <2>10
<1>16. CASE TurnFailed
  <2>1. /\ ev' = LoopReady /\ UNCHANGED <<w, chk, sg, hist>>
        /\ \/ s' = PausedRecord(CancelRecovery(s)) /\ UNCHANGED <<rec, cyb>>
           \/ /\ cyb' = [cyb EXCEPT ![ev.turn] = [NoCyber EXCEPT !.pc = "start"]]
              /\ UNCHANGED <<s, rec>>
           \/ /\ s' = StartRecovery(s, ev.turn) /\ rec' = SpawnRecovery(s, ev.turn)
              /\ UNCHANGED cyb
    BY <1>16 DEF TurnFailed
  <2>2. ev.turn \in Turn /\ AtHand(ev.turn)
    <3>1. ev.pc = "failed" /\ ev.turn \in Turn
      BY <1>16, Turns DEF TurnFailed, LoopType, Located
    <3> QED BY <3>1 DEF AtHand
  <2>3. Mild(s, s) /\ Mild(s, PausedRecord(CancelRecovery(s)))
    BY CancelRecoveryType, MildMethods, MildTransitive
  <2>4. CASE s' = PausedRecord(CancelRecovery(s)) /\ UNCHANGED <<rec, cyb>>
    BY <1>3, <1>5, <1>6, <2>1, <2>3, <2>4
  <2>5. CASE /\ cyb' = [cyb EXCEPT ![ev.turn] = [NoCyber EXCEPT !.pc = "start"]]
             /\ UNCHANGED <<s, rec>>
    BY <2>1, <2>2, <2>5 DEF LoopRetries
  <2>6. CASE /\ s' = StartRecovery(s, ev.turn) /\ rec' = SpawnRecovery(s, ev.turn)
             /\ UNCHANGED cyb
    BY <1>1, <1>6, <2>1, <2>2, <2>3, <2>6 DEF LoopStarts, Starts
  <2> QED BY <2>1, <2>4, <2>5, <2>6
<1>17. CASE EventLoopStops
  BY <1>1, <1>3, <1>6, <1>17, MildMethods DEF EventLoopStops, LoopQuiet, LoopReady
<1> QED
  BY <1>7, <1>8, <1>9, <1>10, <1>11, <1>12, <1>13, <1>14, <1>15, <1>16, <1>17
     DEF EventLoop

\* The environment, the ticker's suspicion, the interrupts of paused turns and
\* all commands but pause.
LEMMA OtherEffect ==
    ASSUME TypeInv,
           \/ Environment \/ StallSuspected \/ Quiescent
           \/ Remote /\ ~RemotePause
           \/ \E t \in Turn : PausedInterrupt(t)
    PROVE  Quiet /\ ev' = ev
<1> USE DEF TypeInv, TypeOK
<1>1. s \in SupervisorType /\ w \in WatchdogType
  OBVIOUS
<1>2. ASSUME Mild(s, s'), UNCHANGED <<rec, cyb, chk, sg, hist, ev>>, Calm(w, w')
      PROVE  Quiet /\ ev' = ev
  BY <1>2 DEF Quiet, LoopQuiet
<1>3. w' = w => Calm(w, w')
  BY DEF Calm
<1>4. Mild(s, s)
  BY MildMethods
<1>5. CASE Environment
  <2>1. UNCHANGED <<s, w, rec, cyb, chk, sg, ev>> /\ hist' = hist
    BY <1>5 DEF Environment, UserStartsTurn, UserInterrupts, ServerActivity,
                ServerWaits, ServerError, ServerCompletes, ServerEndsSilently,
                ServerContinuesGoal, goroutines
  <2> QED BY <1>2, <1>3, <1>4, <2>1
<1>6. CASE StallSuspected
  <2>1. Calm(w, w') /\ Mild(s, s')
    BY <1>1, <1>6, MildMethods DEF StallSuspected, Calm, WatchdogType
  <2> QED BY <1>2, <1>6, <2>1 DEF StallSuspected, sgUnchanged
<1>7. CASE Quiescent
  BY <1>2, <1>3, <1>4, <1>7 DEF Quiescent, vars
<1>8. CASE Remote /\ ~RemotePause
  <2>1. UNCHANGED <<rec, cyb, chk, sg, hist, ev>>
    BY <1>8 DEF Remote, Command, RemoteResume, RemotePromptSteers,
                RemotePromptStarts, RemotePauseAnswered, RemoteSteerAnswered,
                RemotePrompt, ContinuationGoal, ContinuationGoalSet,
                ContinuationSubmit, ContinuationFails, ContinuationStarted,
                rcUnchanged
  <2>2. Calm(w, w')
    <3>1. w' \in {w, CompleteWatch(w, rc.turn), WatchTurn(rc.started)}
      BY <1>8 DEF Remote, Command, RemoteResume, RemotePromptSteers,
                RemotePromptStarts, RemotePauseAnswered, RemoteSteerAnswered,
                RemotePrompt, ContinuationGoal, ContinuationGoalSet,
                ContinuationSubmit, ContinuationFails, ContinuationStarted
    <3> QED BY <1>1, <1>3, <3>1, CalmMethods
  <2>3. CASE ~ContinuationStarted
    <3> DEFINE resumed == [s EXCEPT !.manualPaused = FALSE]
               steered == [s EXCEPT !.manualPaused = FALSE, !.phase = "running"]
               goal == [s EXCEPT !.phase = "running", !.activeTurn = None]
               failed == [s EXCEPT !.phase = "needs-attention"]
               paused == [s EXCEPT !.activeTurn = None, !.phase = "paused",
                                   !.manualPaused = TRUE,
                                   !.handledTurns = @ \cup {rc.turn}]
    <3>1. s' \in {s, FreshAttempt(s), resumed, steered, goal, failed, paused}
      BY <1>8, <2>3 DEF Remote, Command, RemoteResume, RemotePromptSteers,
                RemotePromptStarts, RemotePauseAnswered, RemoteSteerAnswered,
                RemotePrompt, ContinuationGoal, ContinuationGoalSet,
                ContinuationSubmit, ContinuationFails
    <3>2. Mild(s, FreshAttempt(s)) /\ Mild(s, failed)
      BY MoreMildMethods, MildMethods
    <3>3. Mild(s, resumed) /\ Mild(s, steered) /\ Mild(s, goal) /\ Mild(s, paused)
      BY <1>1 DEF Mild, Loose, SameFlags, Tame, Shrinks, SupervisorType
    <3> HIDE DEF resumed, steered, goal, failed, paused
    <3>4. Mild(s, s')
      BY <1>4, <3>1, <3>2, <3>3
    <3> QED BY <1>2, <2>1, <2>2, <3>4
  <2>4. CASE ContinuationStarted
    <3> DEFINE st == TurnRunning(s, rc.started)
               ph == IF s.manualPaused THEN "needs-attention" ELSE st.phase
    <3>1. rc.started \in Turn
      BY <2>4, Turns DEF ContinuationStarted, RemoteType
    <3>2. st \in SupervisorType /\ Mild(s, st)
      BY <3>1, TurnRunningType, MildMethods
    <3>3. s' = [st EXCEPT !.phase = ph]
      BY <2>4 DEF ContinuationStarted
    <3> HIDE DEF st, ph
    <3>4. Mild(s, s')
      BY <3>2, <3>3, MildMethods, MildTransitive
    <3> QED BY <1>2, <2>1, <2>2, <3>4
  <2> QED BY <2>3, <2>4
<1>9. ASSUME NEW t \in Turn, PausedInterrupt(t) PROVE Quiet /\ ev' = ev
  <2>1. UNCHANGED <<rec, cyb, chk, sg, hist, ev>>
    BY <1>9 DEF PausedInterrupt, PausedInterruptRequest, PausedInterruptAnswered,
                rcUnchanged
  <2>2. Calm(w, w')
    <3>1. w' \in {w, CompleteWatch(w, t)}
      BY <1>9 DEF PausedInterrupt, PausedInterruptRequest, PausedInterruptAnswered
    <3> QED BY <1>1, <1>3, <3>1, CalmMethods
  <2> DEFINE st == [s EXCEPT !.pauseInterrupting = @ \ {t}]
             paused == [st EXCEPT
                        !.handledTurns = @ \cup {t},
                        !.activeTurn = IF @ = t THEN None ELSE @,
                        !.manualPaused = TRUE, !.phase = "paused"]
  <2>3. s' \in {s, st, paused}
    BY <1>9 DEF PausedInterrupt, PausedInterruptRequest, PausedInterruptAnswered
  <2>4. st \in SupervisorType /\ Mild(s, st)
    BY DEF SupervisorType, Mild, Loose, SameFlags, Tame, Shrinks
  <2> HIDE DEF st
  <2>5. Mild(st, paused)
    BY <2>4 DEF SupervisorType, Mild, Loose, SameFlags, Tame, Shrinks
  <2> HIDE DEF paused
  <2> QED BY <1>2, <1>4, <2>1, <2>2, <2>3, <2>4, <2>5, MildTransitive
<1> QED BY <1>5, <1>6, <1>7, <1>8, <1>9

\* A pause and the shutdown give every waiter up.
LEMMA StopEffect ==
    ASSUME TypeInv, RemotePause \/ Shutdown
    PROVE  Notifies(Turn, "cancelled") /\ ev' = ev
<1> USE DEF TypeInv, TypeOK
<1> DEFINE dropped == DropPending(s, Turn)
           taken == TakeWaiters(dropped, Turn)
           c == CancelRecovery(taken)
<1>1. dropped \in SupervisorType /\ Mild(s, dropped)
  BY DropPendingType, MildMethods
<1>2. /\ UNCHANGED <<rec, cyb, hist, ev>>
      /\ sg' = NotifyStall(s, Turn, "cancelled")
      /\ chk' = NotifyChecks(s, Turn, "cancelled")
  BY DEF RemotePause, Shutdown, rcUnchanged
<1>3. Calm(w, w')
  <2>1. w' \in {w, CancelWatch(w)} /\ Calm(w, w)
    BY DEF RemotePause, Shutdown, Calm
  <2> QED BY <2>1, CalmMethods
<1>4. s' \in {[c EXCEPT !.manualPaused = TRUE, !.phase = "paused",
                        !.stallCurrent = FALSE],
              [c EXCEPT !.shuttingDown = TRUE, !.stallCurrent = FALSE,
                !.watchdogInterrupted = {}, !.phase = "stopped"]}
  BY DEF RemotePause, PauseAccepted, Shutdown
<1> HIDE DEF dropped
<1>5. /\ taken \in SupervisorType /\ taken.pendingRecovery = dropped.pendingRecovery
      /\ taken.waiters = [t \in Turn |-> IF t \in Turn THEN "none" ELSE dropped.waiters[t]]
      /\ Tame(dropped, taken) /\ SameFlags(dropped, taken)
  BY <1>1, TakeWaitersType
     DEF TakeWaiters, Tame, SameFlags, Shrinks, SupervisorType
<1> HIDE DEF taken
<1>6. c \in SupervisorType /\ Mild(taken, c)
  BY <1>5, CancelRecoveryType, MildMethods
<1> HIDE DEF c
<1>7. Mild(c, s')
  BY <1>4, <1>6 DEF Mild, Loose, SameFlags, Tame, Shrinks, SupervisorType
<1>8. /\ Tame(s, s') /\ SameFlags(s, s') /\ s'.waiters = taken.waiters
      /\ s'.pendingRecovery \in {s.pendingRecovery, None}
      /\ dropped.waiters = s.waiters
  BY <1>1, <1>5, <1>6, <1>7, TameTransitive DEF Mild, Loose, SameFlags
<1> QED BY <1>2, <1>3, <1>5, <1>8 DEF Notifies

\* Where a recovery goroutine waits and probes, and where it sends.
Opening == {"top", "announce", "wait", "probing", "probe", "resume", "mark"}
Sending == {"goal", "goalset", "submit"}
Sent == Sending \cup {"record"}

\* A goroutine at pc goes on to pc2: it sets submittingResume when it starts to
\* send, clears it when it stops, and sends once.
Submits(t, pc, pc2, sending, sent) ==
    /\ s'.submittingResume =>
            \/ pc2 \in sent
            \/ s.submittingResume /\ pc \notin sent
    /\ \/ /\ hist'.resumes = hist.resumes
          /\ pc2 \in sending => pc \in sending
       \/ /\ hist'.resumes = [hist.resumes EXCEPT ![t] = @ + 1]
          /\ pc \in sending /\ pc2 \notin sending

\* The recovery goroutine of turn t takes a step but its last.
Recovers(t) ==
    /\ Loose(s, s') /\ s'.stallCheckInFlight = s.stallCheckInFlight
    /\ UNCHANGED <<cyb, chk, sg, ev>> /\ Calm(w, w')
    /\ \A u \in Turn : u # t => rec'[u] = rec[u]
    /\ rec[t].pc \notin {"off", "done"} /\ rec'[t].pc # "off"
    /\ Submits(t, rec[t].pc, rec'[t].pc, Opening \cup Sending, Sent)

\* Its last: it may start the recovery that was queued behind it.
Finishes(t) ==
    /\ Mild(s, s') /\ rec[t].pc = "finish"
    /\ UNCHANGED <<w, cyb, chk, sg, ev, hist>>
    /\ LET done == [rec EXCEPT ![t].pc = "done"]
       IN \/ rec' = done
          \/ \E u \in Turn : /\ s.pendingRecovery = u /\ s'.pendingRecovery = None
                             /\ rec' = [done EXCEPT ![u] = RecoveryStarted]

\* Every step of runRecovery and resumeThread is one of the two.
LEMMA RecoveryEffect ==
    ASSUME TypeInv, NEW t \in Turn, Recovery(t)
    PROVE  Recovers(t) \/ Finishes(t)
<1> USE DEF TypeInv, TypeOK
<1>1. s \in SupervisorType /\ w \in WatchdogType
  OBVIOUS
<1>2. ASSUME Mild(s, s'), UNCHANGED <<cyb, chk, sg, ev, hist>>, Calm(w, w'),
             \A u \in Turn : u # t => rec'[u] = rec[u],
             \/ rec[t].pc \in Opening /\ rec'[t].pc \in Opening \cup {"finish"}
             \/ rec[t].pc \in Sending /\ rec'[t].pc \in Sending
      PROVE  Recovers(t)
  BY <1>2 DEF Recovers, Submits, Opening, Sending, Sent, Mild, SameFlags
<1>3. ASSUME Loose(s, s'), s'.stallCheckInFlight = s.stallCheckInFlight,
             ~s'.submittingResume, Returns(t), rec[t].pc \in Sent,
             UNCHANGED <<cyb, chk, sg, ev, hist>>, Calm(w, w')
      PROVE  Recovers(t)
  <2>1. rec'[t].pc = "finish" /\ \A u \in Turn : u # t => rec'[u] = rec[u]
    BY <1>3 DEF Returns, NoRecovery
  <2> QED BY <1>3, <2>1 DEF Recovers, Submits, Opening, Sending, Sent
<1>4. ASSUME NEW pc, Goto(t, pc)
      PROVE  rec'[t].pc = pc /\ \A u \in Turn : u # t => rec'[u] = rec[u]
  BY <1>4 DEF Goto, RecoveryType
<1>5. Returns(t) => rec'[t].pc = "finish" /\ \A u \in Turn : u # t => rec'[u] = rec[u]
  BY DEF Returns, NoRecovery
<1>6. Mild(s, s) /\ Mild(s, SetAttention(s)) /\ \A ph : Mild(s, [s EXCEPT !.phase = ph])
  BY MildMethods, MoreMildMethods
<1>7. Calm(w, w)
  BY DEF Calm
<1>8. /\ Loose(s, Failed(t)) /\ Failed(t).stallCheckInFlight = s.stallCheckInFlight
      /\ ~Failed(t).submittingResume
  <2> DEFINE st == [s EXCEPT !.submittingResume = FALSE]
  <2>1. /\ st \in SupervisorType /\ Loose(s, st) /\ st.submittingResume = FALSE
        /\ st.stallCheckInFlight = s.stallCheckInFlight
    BY DEF Loose, Tame, Shrinks, SupervisorType
  <2>2. Failed(t) \in {st, SetAttention(st)}
    BY DEF Failed
  <2> HIDE DEF st
  <2>3. Mild(st, Failed(t))
    BY <2>1, <2>2, MildMethods, MoreMildMethods
  <2> QED BY <2>1, <2>3, TameTransitive DEF Mild, Loose, SameFlags
<1>9. CASE RecoveryTop(t) \/ RecoveryWait(t) \/ RecoveryProbeCancelled(t)
           \/ RecoveryResume(t) \/ RecoveryGoal(t)
  <2>1. s' = s /\ UNCHANGED <<w, cyb, chk, sg, ev, hist>>
    BY <1>9 DEF RecoveryTop, RecoveryWait, RecoveryProbeCancelled,
                RecoveryResume, RecoveryGoal, recUnchanged
  <2>2. \/ rec[t].pc \in Opening /\ rec'[t].pc \in Opening \cup {"finish"}
        \/ rec[t].pc \in Sending /\ rec'[t].pc \in Sending
    BY <1>4, <1>5, <1>9 DEF RecoveryTop, RecoveryWait, RecoveryProbeCancelled,
                RecoveryResume, RecoveryGoal, At, Opening, Sending
  <2>3. \A u \in Turn : u # t => rec'[u] = rec[u]
    BY <1>4, <1>5, <1>9 DEF RecoveryTop, RecoveryWait, RecoveryProbeCancelled,
                RecoveryResume, RecoveryGoal
  <2> QED BY <1>2, <1>6, <1>7, <2>1, <2>2, <2>3
<1>10. CASE RecoveryAnnounce(t) \/ RecoveryProbing(t)
  <2>1. UNCHANGED <<w, cyb, chk, sg, ev, hist>> /\ Mild(s, s')
    BY <1>6, <1>10 DEF RecoveryAnnounce, RecoveryProbing, recUnchanged
  <2>2. /\ rec[t].pc \in Opening /\ rec'[t].pc \in Opening
        /\ \A u \in Turn : u # t => rec'[u] = rec[u]
    BY <1>4, <1>10 DEF RecoveryAnnounce, RecoveryProbing, At, Opening
  <2> QED BY <1>2, <1>7, <2>1, <2>2
<1>11. CASE RecoveryProbeHealthy(t) \/ RecoveryProbeUnhealthy(t)
  <2>1. /\ s' = s /\ rec[t].pc = "probe" /\ rec'[t].pc \in {"resume", "top"}
        /\ \A u \in Turn : u # t => rec'[u] = rec[u]
        /\ UNCHANGED <<w, cyb, chk, sg, ev, hist>>
    BY <1>11 DEF RecoveryProbeHealthy, RecoveryProbeUnhealthy, RecoveryType, At,
                 recUnchanged
  <2> QED BY <1>2, <1>6, <1>7, <2>1 DEF Opening
<1>12. CASE RecoveryMark(t)
  <2>1. UNCHANGED <<w, cyb, chk, sg, ev, hist>> /\ rec[t].pc = "mark"
    BY <1>12 DEF RecoveryMark, recUnchanged, At
  <2>2. CASE s' = SetAttention(s) /\ Returns(t)
    BY <1>2, <1>5, <1>6, <1>7, <2>1, <2>2 DEF Opening
  <2>3. CASE ~(s' = SetAttention(s) /\ Returns(t))
    <3>1. /\ s' = [s EXCEPT !.submittingResume = TRUE, !.phase = "resuming",
                            !.resumeRequestedFor = t, !.autoResumes = @ + 1]
          /\ Goto(t, "goal")
      BY <1>12, <2>3 DEF RecoveryMark
    <3>2. Loose(s, s') /\ s'.stallCheckInFlight = s.stallCheckInFlight
      BY <3>1 DEF Loose, Tame, Shrinks, SupervisorType
    <3> QED BY <1>4, <1>7, <2>1, <3>1, <3>2
            DEF Recovers, Submits, Opening, Sending, Sent
  <2> QED BY <2>2, <2>3
<1>13. CASE RecoveryRequestFails(t) \/ RecoveryStartFails(t)
  <2>1. /\ UNCHANGED <<w, cyb, chk, sg, ev, hist>> /\ rec[t].pc \in Sent
        /\ s' = Failed(t) /\ Returns(t)
    BY <1>13 DEF RecoveryRequestFails, RecoveryStartFails, recUnchanged, At, Sending, Sent
  <2> QED BY <1>3, <1>7, <1>8, <2>1
<1>14. CASE RecoveryGoalSet(t)
  <2>1. /\ UNCHANGED <<w, cyb, chk, sg, ev>> /\ rec[t].pc = "goalset"
        /\ s' \in {[s EXCEPT !.submittingResume = FALSE], Failed(t)} /\ Returns(t)
        /\ hist'.resumes = [hist.resumes EXCEPT ![t] = @ + 1]
    BY <1>14 DEF RecoveryGoalSet, At, HistoryType
  <2>2. Loose(s, s') /\ s'.stallCheckInFlight = s.stallCheckInFlight
        /\ ~s'.submittingResume
    <3>1. CASE s' = [s EXCEPT !.submittingResume = FALSE]
      BY <3>1 DEF Loose, Tame, Shrinks, SupervisorType
    <3> QED BY <1>8, <2>1, <3>1
  <2> QED BY <1>5, <1>7, <2>1, <2>2 DEF Recovers, Submits, Opening, Sending, Sent
<1>15. CASE RecoverySubmit(t)
  <2>1. PICK o \in StartOutcomes :
          rec' = [rec EXCEPT ![t].pc = "record", ![t].started = o.started]
    BY <1>15 DEF RecoverySubmit
  <2>2. rec'[t].pc = "record" /\ \A u \in Turn : u # t => rec'[u] = rec[u]
    BY <2>1 DEF RecoveryType
  <2>3. /\ UNCHANGED <<s, w, cyb, chk, sg, ev>> /\ rec[t].pc = "submit"
        /\ hist'.resumes = [hist.resumes EXCEPT ![t] = @ + 1]
    BY <1>15 DEF RecoverySubmit, At, HistoryType
  <2> QED BY <1>6, <1>7, <2>2, <2>3
          DEF Recovers, Submits, Opening, Sending, Sent, Mild, SameFlags
<1>16. CASE RecoveryRecord(t)
  <2> DEFINE n == rec[t].started
             st == TurnRunning(s, n)
  <2>1. n \in Turn /\ rec[t].pc = "record" /\ Returns(t)
        /\ UNCHANGED <<cyb, chk, sg, ev, hist>> /\ w' = WatchTurn(n)
    BY <1>16, Turns DEF RecoveryRecord, RecoveryType, At
  <2>2. st \in SupervisorType /\ Mild(s, st)
    BY <2>1, TurnRunningType, MildMethods
  <2>3. s' = [st EXCEPT !.submittingResume = FALSE]
    BY <1>16 DEF RecoveryRecord
  <2> HIDE DEF st
  <2>4. Loose(st, s') /\ s'.stallCheckInFlight = st.stallCheckInFlight
        /\ ~s'.submittingResume
    BY <2>2, <2>3 DEF Loose, Tame, Shrinks, SupervisorType
  <2>5. Loose(s, s') /\ s'.stallCheckInFlight = s.stallCheckInFlight
    BY <2>2, <2>4, TameTransitive DEF Mild, Loose, SameFlags
  <2> QED BY <1>1, <1>3, <2>1, <2>4, <2>5, CalmMethods DEF Sent
<1>17. CASE RecoveryFinish(t)
  <2> DEFINE ended == [s EXCEPT !.recovery = None, !.pendingRecovery = None]
             next == s.pendingRecovery
             done == [rec EXCEPT ![t].pc = "done"]
  <2>1. ended \in SupervisorType /\ Mild(s, ended) /\ NoOwner(ended)
    <3>1. ended \in SupervisorType
      BY Turns, Zenon DEF SupervisorType
    <3>2. Mild(s, ended)
      BY DEF Mild, Loose, SameFlags, Tame, Shrinks, SupervisorType
    <3> QED BY <3>1, <3>2 DEF NoOwner, SupervisorType
  <2>2. UNCHANGED <<w, cyb, chk, sg, ev, hist>> /\ rec[t].pc = "finish"
    BY <1>17 DEF RecoveryFinish, recUnchanged, At
  <2>3. CASE Cancelled(t) \/ next = None \/ s.shuttingDown
    <3>1. s' \in {s, ended} /\ rec' = done
      BY <1>17, <2>3 DEF RecoveryFinish
    <3> HIDE DEF done, ended
    <3> QED BY <1>6, <2>1, <2>2, <3>1 DEF Finishes, done
  <2>4. CASE ~(Cancelled(t) \/ next = None \/ s.shuttingDown)
    <3>1. /\ s' = StartRecovery(ended, next)
          /\ rec' = IF StartsRecovery(ended)
                    THEN [done EXCEPT ![next] = RecoveryStarted] ELSE done
          /\ next \in Turn
      BY <1>17, <2>4, Turns DEF RecoveryFinish, SupervisorType
    <3> DEFINE started == [ended EXCEPT !.recovery = next, !.phase = "provider-down"]
    <3>2. s' \in {ended, SetAttention(ended), started}
      BY <2>1, <3>1 DEF StartRecovery, NoOwner
    <3>3. Mild(ended, started)
      <4> HIDE DEF ended
      <4> QED BY <2>1 DEF Mild, Loose, SameFlags, Tame, Shrinks, SupervisorType
    <3> HIDE DEF ended, started
    <3>4. Mild(ended, s')
      BY <2>1, <3>2, <3>3, MildMethods, MoreMildMethods
    <3>5. s'.pendingRecovery = None
      BY <2>1, <3>4 DEF NoOwner, Mild, Loose
    <3> QED BY <2>1, <2>2, <3>1, <3>4, <3>5, MildTransitive DEF Finishes
  <2> QED BY <2>3, <2>4
<1> QED
  BY <1>9, <1>10, <1>11, <1>12, <1>13, <1>14, <1>15, <1>16, <1>17 DEF Recovery

\* The goroutine of the cyber-policy retry of turn t takes a step.
CyberSending == {"start", "request", "submit"}
CyberSent == {"request", "submit", "record"}

Retries(t) ==
    /\ Loose(s, s') /\ s'.stallCheckInFlight = s.stallCheckInFlight
    /\ UNCHANGED <<rec, chk, sg, ev>> /\ Calm(w, w')
    /\ \A u \in Turn : u # t => cyb'[u] = cyb[u]
    /\ cyb[t].pc \notin {"off", "done"} /\ cyb'[t].pc # "off"
    /\ Submits(t, cyb[t].pc, cyb'[t].pc, CyberSending, CyberSent)

\* Every step of recoverCyberPolicy is of this form.
LEMMA CyberEffect ==
    ASSUME TypeInv, NEW t \in Turn, Cyber(t)
    PROVE  Retries(t)
<1> USE DEF TypeInv, TypeOK, CyberSending, CyberSent
<1>1. s \in SupervisorType /\ w \in WatchdogType
  OBVIOUS
<1>2. CyberEnds(t) => cyb'[t].pc = "done" /\ \A u \in Turn : u # t => cyb'[u] = cyb[u]
  BY DEF CyberEnds, NoCyber
<1>3. ASSUME NEW pc, CyberGoto(t, pc)
      PROVE  cyb'[t].pc = pc /\ \A u \in Turn : u # t => cyb'[u] = cyb[u]
  BY <1>3 DEF CyberGoto, CyberType
<1>4. Mild(s, s) /\ Mild(s, SetAttention(s)) /\ Calm(w, w)
  BY MildMethods, MoreMildMethods DEF Calm
<1>5. ASSUME NEW st \in SupervisorType, Mild(s, st)
      PROVE  /\ NotSubmitting(st) \in SupervisorType /\ Loose(s, NotSubmitting(st))
             /\ NotSubmitting(st).stallCheckInFlight = s.stallCheckInFlight
             /\ ~NotSubmitting(st).submittingResume
  <2>1. Loose(st, NotSubmitting(st)) /\ ~NotSubmitting(st).submittingResume
        /\ NotSubmitting(st).stallCheckInFlight = st.stallCheckInFlight
    BY DEF NotSubmitting, Loose, Tame, Shrinks, SupervisorType
  <2> QED BY <1>5, <2>1, NotSubmittingType, TameTransitive DEF Mild, Loose, SameFlags
<1>6. ASSUME Loose(s, s'), s'.stallCheckInFlight = s.stallCheckInFlight,
             ~s'.submittingResume, CyberEnds(t), cyb[t].pc \in CyberSent,
             UNCHANGED <<rec, chk, sg, ev, hist>>, Calm(w, w')
      PROVE  Retries(t)
  BY <1>2, <1>6 DEF Retries, Submits
<1>7. CASE CyberStart(t)
  <2>1. UNCHANGED <<w, rec, chk, sg, ev, hist>> /\ cyb[t].pc = "start"
    BY <1>7 DEF CyberStart, CyberAt, cybUnchanged
  <2>2. CASE CyberEnds(t) /\ s' \in {s, SetAttention(s)}
    BY <1>2, <1>4, <2>1, <2>2 DEF Retries, Submits, Mild, SameFlags
  <2>3. CASE ~(CyberEnds(t) /\ s' \in {s, SetAttention(s)})
    <3>1. /\ s' = [s EXCEPT !.submittingResume = TRUE, !.phase = "resuming",
                            !.resumeRequestedFor = t, !.autoResumes = @ + 1,
                            !.cyberAttempts = @ + 1]
          /\ CyberGoto(t, "request")
      BY <1>7, <2>3 DEF CyberStart
    <3>2. Loose(s, s') /\ s'.stallCheckInFlight = s.stallCheckInFlight
      BY <3>1 DEF Loose, Tame, Shrinks, SupervisorType
    <3> QED BY <1>3, <1>4, <2>1, <3>1, <3>2 DEF Retries, Submits
  <2> QED BY <2>2, <2>3
<1>8. CASE CyberRequest(t)
  <2>1. UNCHANGED <<s, w, rec, chk, sg, ev, hist>> /\ cyb[t].pc = "request"
        /\ CyberGoto(t, "submit")
    BY <1>8 DEF CyberRequest, CyberAt, cybUnchanged
  <2> QED BY <1>3, <1>4, <2>1 DEF Retries, Submits, Mild, SameFlags
<1>9. CASE CyberPaused(t) \/ CyberFails(t)
  <2>1. /\ UNCHANGED <<w, rec, chk, sg, ev, hist>> /\ cyb[t].pc \in CyberSent
        /\ CyberEnds(t)
        /\ s' \in {NotSubmitting(s), SetAttention(NotSubmitting(s))}
    BY <1>9 DEF CyberPaused, CyberFails, CyberAt, cybUnchanged
  <2>2. Mild(NotSubmitting(s), s') /\ Loose(s, NotSubmitting(s))
    BY <1>4, <1>5, <2>1, MildMethods, MoreMildMethods
  <2>3. /\ Loose(s, s') /\ s'.stallCheckInFlight = s.stallCheckInFlight
        /\ ~s'.submittingResume
    BY <1>4, <1>5, <2>2, TameTransitive DEF Mild, Loose, SameFlags
  <2> QED BY <1>4, <1>6, <2>1, <2>3
<1>10. CASE CyberSubmit(t)
  <2>1. PICK o \in StartOutcomes :
          cyb' = [cyb EXCEPT ![t].pc = "record", ![t].started = o.started]
    BY <1>10 DEF CyberSubmit
  <2>2. cyb'[t].pc = "record" /\ \A u \in Turn : u # t => cyb'[u] = cyb[u]
    BY <2>1 DEF CyberType
  <2>3. /\ UNCHANGED <<s, w, rec, chk, sg, ev>> /\ cyb[t].pc = "submit"
        /\ hist'.resumes = [hist.resumes EXCEPT ![t] = @ + 1]
    BY <1>10 DEF CyberSubmit, CyberAt, HistoryType
  <2> QED BY <1>4, <2>2, <2>3 DEF Retries, Submits, Mild, SameFlags
<1>11. CASE CyberTurnStarted(t)
  <2> DEFINE n == cyb[t].started
             st == TurnRunning(s, n)
  <2>1. n \in Turn /\ cyb[t].pc = "record" /\ CyberEnds(t)
        /\ UNCHANGED <<rec, chk, sg, ev, hist>> /\ w' = WatchTurn(n)
        /\ s' = NotSubmitting(st)
    BY <1>11, Turns DEF CyberTurnStarted, CyberType, CyberAt
  <2>2. st \in SupervisorType /\ Mild(s, st)
    BY <2>1, TurnRunningType, MildMethods
  <2> HIDE DEF st
  <2> QED BY <1>1, <1>5, <1>6, <2>1, <2>2, CalmMethods
<1> QED BY <1>7, <1>8, <1>9, <1>10, <1>11 DEF Cyber

-----------------------------------------------------------------------------
(* The stall recovery.                                                     *)

\* Waiters of turn t are taken out.
Takes(t) == s'.waiters = [u \in Turn |-> IF u \in {t} THEN "none" ELSE s.waiters[u]]

stallFrame == <<rec, cyb, chk, ev>>

\* The goroutine ends, at the latest before it would leave its waiter behind.
StallReturns ==
    /\ sg.pc \notin {"off", "ask"} /\ sg' = NoStall
    /\ Tame(s, s') /\ s'.pendingRecovery \in {s.pendingRecovery, None}
    /\ s'.stallCheckInFlight = FALSE
    /\ s'.submittingResume => s.submittingResume /\ sg.pc \notin {"submit", "record"}
    /\ \/ Takes(sg.turn)
       \/ s'.waiters = s.waiters /\ (sg.pc = "wait" => sg.inbox # "none")
    /\ sg.pc = "interrupt" => Takes(sg.turn)
    /\ UNCHANGED stallFrame /\ Calm(w, w') /\ hist'.resumes = hist.resumes

\* It goes on, having looked at the state only.
StallAdvances ==
    /\ UNCHANGED <<s, w, stallFrame, hist>>
    /\ sg'.turn = sg.turn /\ sg'.inbox = sg.inbox
    /\ \/ sg.pc = "confirm" /\ sg'.pc = "read" /\ s.stallResumes < MaxStallResumes
       \/ sg.pc = "read" /\ sg'.pc = "status"
       \/ /\ sg.pc = "status" /\ sg'.pc = "announce"
          /\ w.unchanged /\ w.turn = sg.turn /\ s.stallCurrent
       \/ sg.pc = "ask" /\ sg'.pc = "interrupt"
       \/ sg.pc = "interrupt" /\ sg'.pc = "wait"
       \/ /\ sg.pc = "wait" /\ sg'.pc = "mark"
          /\ sg.inbox = "interrupted" /\ s.stallCurrent

\* It announces the interrupt of a silent turn.
StallAnnounces ==
    /\ s' = [s EXCEPT !.phase = "interrupting-stall"]
    /\ sg.pc = "announce" /\ sg'.pc = "register"
    /\ sg'.turn = sg.turn /\ sg'.inbox = sg.inbox
    /\ UNCHANGED <<w, stallFrame, hist>>

\* It registers the waiter for the turn's end.
StallRegisters ==
    /\ s' = [s EXCEPT !.watchdogInterrupted = @ \cup {sg.turn},
                      !.waiters[sg.turn] = "stall"]
    /\ sg.pc = "register" /\ sg'.pc = "ask"
    /\ sg'.turn = sg.turn /\ sg'.inbox = sg.inbox
    /\ UNCHANGED <<w, stallFrame, hist>>

\* It sends the continuation.
StallSends ==
    /\ UNCHANGED <<s, w, stallFrame>>
    /\ sg.pc = "submit" /\ sg'.pc = "record"
    /\ sg'.turn = sg.turn /\ sg'.inbox = sg.inbox
    /\ hist'.resumes = [hist.resumes EXCEPT ![sg.turn] = @ + 1]

\* Every step of confirmAndRecoverStall and resumeStalledThread is one of
\* these, or sets the flags of the continuation (StallMark).
LEMMA StallEffect ==
    ASSUME TypeInv, StallStep
    PROVE  \/ StallReturns \/ StallAdvances \/ StallAnnounces
           \/ StallRegisters \/ StallMark \/ StallSends
<1> USE DEF TypeInv, TypeOK, stallFrame
<1>1. s \in SupervisorType /\ w \in WatchdogType /\ sg \in StallType
  OBVIOUS
<1>2. ASSUME NEW st \in SupervisorType, Mild(s, st)
      PROVE  /\ Mild(s, SetAttention(st)) /\ SetAttention(st) \in SupervisorType
             /\ Mild(s, FailStall(st)) /\ FailStall(st) \in SupervisorType
  BY <1>2, SetAttentionType, FailStallType, MoreMildMethods, MildTransitive
<1>3. ASSUME NEW st \in SupervisorType, Mild(s, st), s' = Ended(st), sg' = NoStall,
             sg.pc \notin {"off", "ask", "interrupt", "submit", "record"},
             sg.pc = "wait" => sg.inbox # "none",
             UNCHANGED <<stallFrame, hist>>, Calm(w, w')
      PROVE  StallReturns
  <2>1. /\ Loose(st, s') /\ s'.stallCheckInFlight = FALSE
        /\ s'.submittingResume = st.submittingResume
    BY <1>3 DEF Ended, Loose, Tame, Shrinks, SupervisorType
  <2> QED BY <1>3, <2>1, TameTransitive DEF StallReturns, Mild, Loose, SameFlags
<1>4. Mild(s, s) /\ Calm(w, w) /\ Calm(w, CancelWatch(w)) /\ Calm(w, FailWatch)
  BY MildMethods, CalmMethods DEF Calm, FailWatch
<1>5. CASE StallConfirm
  <2>1. UNCHANGED <<stallFrame, hist>> /\ sg.pc = "confirm"
    BY <1>5 DEF StallConfirm, StallAt, sgUnchanged
  <2>2. CASE sg' = NoStall
    <3>1. /\ w' \in {w, CancelWatch(w)}
          /\ s' \in {Ended(s), Ended(SetAttention(s))}
      <4>1. NoStall.pc = "off" /\ (StallGoto("read") => sg'.pc = "read")
        BY DEF NoStall, StallGoto, StallType
      <4> QED BY <1>5, <2>2, <4>1 DEF StallConfirm
    <3> QED BY <1>2, <1>3, <1>4, <2>1, <2>2, <3>1
  <2>3. CASE sg' # NoStall
    <3>1. /\ StallGoto("read") /\ UNCHANGED <<s, w>>
          /\ ~(s.stallResumes >= MaxStallResumes)
      BY <1>5, <2>3 DEF StallConfirm, StallEnds, AtLimit
    <3>2. s.stallResumes < MaxStallResumes
      BY <3>1, ConstantsAssumption DEF SupervisorType
    <3> QED BY <2>1, <3>1, <3>2 DEF StallAdvances, StallGoto, StallType
  <2> QED BY <2>2, <2>3
<1>6. CASE StallReadAnswered
  <2>1. PICK status \in ReadOutcomes :
          sg' = [sg EXCEPT !.pc = "status", !.status = status]
    BY <1>6 DEF StallReadAnswered
  <2>2. sg'.pc = "status" /\ sg'.turn = sg.turn /\ sg'.inbox = sg.inbox
    BY <2>1 DEF StallType
  <2> QED BY <1>6, <2>2 DEF StallReadAnswered, StallAt, StallAdvances, sgUnchanged
<1>7. CASE StallStatusRejected \/ StallStatusInactive \/ StallStatusWaiting
  <2>1. UNCHANGED <<stallFrame, hist>> /\ sg.pc = "status" /\ sg' = NoStall
    BY <1>7 DEF StallStatusRejected, StallStatusInactive, StallStatusWaiting,
                StallStatusUsable, StallAt, StallEnds, sgUnchanged
  <2>2. Calm(w, w')
    <3>1. w' \in {FailWatch, CancelWatch(w), CompleteWatch(w, sg.turn), WaitForUser(w)}
      BY <1>7 DEF StallStatusRejected, StallStatusInactive, StallStatusWaiting
    <3> QED BY <1>4, <3>1, CalmMethods
  <2> DEFINE st == [s EXCEPT !.activeTurn = None]
             idle == [st EXCEPT !.phase = "idle"]
             waiting == [s EXCEPT !.phase = "waiting-for-user"]
  <2>3. s' \in {Ended(FailStall(s)), Ended(s), Ended(idle), Ended(SetAttention(st)),
                Ended(waiting)}
    BY <1>7 DEF StallStatusRejected, StallStatusInactive, StallStatusWaiting
  <2>4. st \in SupervisorType /\ Mild(s, st)
    BY Turns DEF SupervisorType, Mild, Loose, SameFlags, Tame, Shrinks
  <2> HIDE DEF st
  <2>5. idle \in SupervisorType /\ waiting \in SupervisorType
    BY <2>4 DEF SupervisorType, Phases
  <2>6. Mild(s, idle) /\ Mild(s, waiting)
    BY <2>4, MildMethods, MildTransitive
  <2> HIDE DEF idle, waiting
  <2> QED BY <1>2, <1>3, <1>4, <2>1, <2>2, <2>3, <2>4, <2>5, <2>6
<1>8. CASE StallInterrupt
  <2>1. PICK o \in InterruptOutcomes(sg.turn) :
          sg' = [sg EXCEPT !.pc = "interrupt", !.answer = o.answer]
    BY <1>8 DEF StallInterrupt
  <2>2. sg'.pc = "interrupt" /\ sg'.turn = sg.turn /\ sg'.inbox = sg.inbox
    BY <2>1 DEF StallType
  <2> QED BY <1>8, <2>2 DEF StallInterrupt, StallAdvances, StallAt, sgUnchanged
<1>17. CASE StallStatusActive
  BY <1>17 DEF StallStatusActive, StallAdvances, StallStatusUsable, StallAt, StallGoto,
               CurrentStall, StallType, sgUnchanged
<1>18. CASE StallAnnounce
  BY <1>18 DEF StallAnnounce, StallAnnounces, StallAt, StallGoto, StallType, sgUnchanged
<1>19. CASE StallRegister
  BY <1>19 DEF StallRegister, StallRegisters, StallAt, StallGoto, StallType, sgUnchanged
<1>9. ASSUME sg.pc \in {"interrupt", "wait"}, NEW taken \in SupervisorType,
             taken = TakeWaiters(s, {sg.turn}), NEW st \in SupervisorType,
             Mild(taken, st), s' = Ended(FailStall(st)), sg' = NoStall,
             UNCHANGED <<stallFrame, hist>>, w' = FailWatch
      PROVE  StallReturns
  <2>1. /\ Tame(s, taken) /\ SameFlags(s, taken)
        /\ taken.pendingRecovery = s.pendingRecovery
        /\ taken.waiters = [u \in Turn |-> IF u \in {sg.turn} THEN "none" ELSE s.waiters[u]]
    BY <1>9 DEF TakeWaiters, Tame, SameFlags, Shrinks, SupervisorType
  <2>2. Mild(taken, FailStall(st)) /\ FailStall(st) \in SupervisorType
    BY <1>9, FailStallType, MoreMildMethods, MildTransitive
  <2>3. /\ Loose(FailStall(st), s') /\ s'.stallCheckInFlight = FALSE
        /\ s'.submittingResume = FailStall(st).submittingResume
    BY <1>9, <2>2 DEF Ended, Loose, Tame, Shrinks, SupervisorType
  <2> QED BY <1>4, <1>9, <2>1, <2>2, <2>3, TameTransitive
          DEF StallReturns, Takes, Mild, Loose, SameFlags
<1>10. CASE StallInterruptAnswered
  <2>1. UNCHANGED <<stallFrame, hist>> /\ sg.pc = "interrupt"
    BY <1>10 DEF StallInterruptAnswered, StallAt, sgUnchanged
  <2>2. CASE StallGoto("wait") /\ UNCHANGED <<s, w>>
    BY <2>1, <2>2 DEF StallAdvances, StallGoto, StallType
  <2>3. CASE ~(StallGoto("wait") /\ UNCHANGED <<s, w>>)
    <3> DEFINE taken == TakeWaiters(s, {sg.turn})
               st == [taken EXCEPT !.watchdogInterrupted =
                        IF sg.answer = "timeout" THEN @ ELSE @ \ {sg.turn}]
    <3>1. s' = Ended(FailStall(st)) /\ w' = FailWatch /\ sg' = NoStall
      BY <1>10, <2>3 DEF StallInterruptAnswered, StallEnds
    <3>2. taken \in SupervisorType
      BY TakeWaitersType
    <3>3. st \in SupervisorType /\ Mild(taken, st)
      <4> HIDE DEF taken
      <4> QED BY <3>2 DEF SupervisorType, Mild, Loose, SameFlags, Tame, Shrinks
    <3> HIDE DEF st
    <3> QED BY <1>9, <2>1, <3>1, <3>2, <3>3
  <2> QED BY <2>2, <2>3
<1>11. CASE StallTerminal
  <2>1. UNCHANGED <<w, stallFrame, hist>> /\ sg.pc = "wait" /\ sg.inbox # "none"
    BY <1>11 DEF StallTerminal, StallAt, sgUnchanged
  <2>2. CASE s.stallCurrent /\ sg.inbox = "interrupted"
    BY <1>11, <2>1, <2>2 DEF StallTerminal, StallAdvances, StallGoto, StallType
  <2>3. CASE ~(s.stallCurrent /\ sg.inbox = "interrupted")
    BY <1>3, <1>4, <1>11, <2>1, <2>3 DEF StallTerminal, StallEnds
  <2> QED BY <2>2, <2>3
<1>12. CASE StallNotTerminal
  <2>1. TakeWaiters(s, {sg.turn}) \in SupervisorType
    BY TakeWaitersType
  <2>2. /\ UNCHANGED <<stallFrame, hist>> /\ sg.pc = "wait" /\ sg' = NoStall
        /\ s' = Ended(FailStall(TakeWaiters(s, {sg.turn}))) /\ w' = FailWatch
    BY <1>12 DEF StallNotTerminal, StallAt, StallEnds, sgUnchanged
  <2> QED BY <1>9, <2>1, <2>2, MildMethods
<1>13. ASSUME NEW st \in SupervisorType, Mild(s, st), s' = SubmitEnded(st),
              sg' = NoStall, sg.pc \in {"submit", "record"},
              UNCHANGED <<stallFrame, hist>>, Calm(w, w')
       PROVE  StallReturns
  <2>1. /\ Loose(st, s') /\ s'.stallCheckInFlight = FALSE
        /\ s'.submittingResume = FALSE
    BY <1>13 DEF Ended, SubmitEnded, Loose, Tame, Shrinks, SupervisorType
  <2> QED BY <1>13, <2>1, TameTransitive DEF StallReturns, Mild, Loose, SameFlags
<1>14. CASE StallSubmit
  <2>1. PICK o \in StartOutcomes : sg' = [sg EXCEPT !.pc = "record", !.started = o.started]
    BY <1>14 DEF StallSubmit
  <2>2. sg'.pc = "record" /\ sg'.turn = sg.turn /\ sg'.inbox = sg.inbox
    BY <2>1 DEF StallType
  <2> QED BY <1>14, <2>2 DEF StallSubmit, StallSends, StallAt, HistoryType
<1>15. CASE StallSubmitFails
  <2>1. /\ UNCHANGED <<stallFrame, hist>> /\ sg.pc \in {"submit", "record"}
        /\ sg' = NoStall /\ s' = SubmitEnded(FailStall(s)) /\ w' = FailWatch
    BY <1>15 DEF StallSubmitFails, StallAt, StallEnds, sgUnchanged
  <2> QED BY <1>2, <1>4, <1>13, <2>1
<1>16. CASE StallTurnStarted
  <2>1. /\ UNCHANGED <<stallFrame, hist>> /\ sg.pc = "record" /\ sg' = NoStall
        /\ s' = SubmitEnded(TurnRunning(s, sg.started)) /\ w' = WatchTurn(sg.started)
        /\ sg.started \in Turn
    BY <1>16, Turns DEF StallTurnStarted, StallAt, StallEnds, StallType
  <2>2. TurnRunning(s, sg.started) \in SupervisorType
        /\ Mild(s, TurnRunning(s, sg.started))
    BY <2>1, TurnRunningType, MildMethods
  <2> QED BY <1>1, <1>13, <2>1, <2>2, CalmMethods
<1> QED
  BY <1>5, <1>6, <1>7, <1>8, <1>10, <1>11, <1>12, <1>14, <1>15, <1>16, <1>17, <1>18,
     <1>19 DEF StallStep

-----------------------------------------------------------------------------
(* The reconciliation of a terminal error.                                 *)

\* What its goroutine, or the timer that spawns it, leaves to the others.
CheckFrame(t) ==
    /\ Tame(s, s') /\ SameFlags(s, s')
    /\ s'.pendingRecovery \in {s.pendingRecovery, None}
    /\ \A u \in Turn : u # t => chk'[u] = chk[u]
    /\ UNCHANGED <<rec, cyb, sg, ev, hist>> /\ Calm(w, w')

\* It begins, goes on or ends, and leaves no waiter behind.
CheckGoes(t) ==
    /\ CheckFrame(t)
    /\ \/ Takes(t)
       \/ /\ s'.waiters = s.waiters
          /\ chk[t].pc = "interrupt" => chk'[t].pc = "wait"
          /\ chk[t].pc = "wait" => chk[t].inbox # "none"
    /\ \/ chk'[t] = NoCheck
       \/ chk'[t] = chk[t] /\ chk[t].pc = "off"
       \/ /\ chk[t].pc # "off" /\ chk'[t].pc # "off"
          /\ chk'[t].generation = chk[t].generation
          /\ chk'[t].inbox = chk[t].inbox
          /\ chk'[t].pc \in {"read", "status"} => chk[t].pc \in {"read", "status"}
       \/ /\ chk'[t].pc = "read" /\ chk'[t].inbox = "none"
          /\ chk'[t].generation = s.pending[t].generation
          /\ s.pending[t] # NoPending /\ chk[t].pc = "off"
          /\ ~s.stallCheckInFlight

\* It registers its waiter and asks for the interrupt of the turn.
CheckAsks(t) ==
    /\ s' = [s EXCEPT
                !.pending[t] = [Arm(@) EXCEPT !.timer = s.pending[t].timer,
                                              !.interrupting = TRUE],
                !.waiters[t] = "check",
                !.phase = "interrupting-error"]
    /\ s.pending[t].generation = chk[t].generation
    /\ chk[t].pc = "status" /\ chk'[t].pc = "interrupt"
    /\ chk'[t].generation = chk[t].generation /\ chk'[t].inbox = chk[t].inbox
    /\ \A u \in Turn : u # t => chk'[u] = chk[u]
    /\ UNCHANGED <<w, rec, cyb, sg, ev, hist>>

\* It recovers the error as a failed turn.
CheckStarts(t) ==
    /\ Starts(t) /\ ev' = ev
    /\ t \notin s.handledTurns /\ t \in s'.handledTurns
    /\ chk[t].pc \in {"status", "restatus"} /\ chk' = [chk EXCEPT ![t] = NoCheck]

\* startRecovery leaves the rest of the supervisor alone.
LEMMA StartRecoveryEffect ==
    ASSUME NEW st \in SupervisorType, NEW t \in Turn
    PROVE  LET to == StartRecovery(st, t)
           IN /\ Tame(st, to) /\ SameFlags(st, to) /\ to.waiters = st.waiters
              /\ to.pendingRecovery \in {st.pendingRecovery, None, t}
              /\ to.handledTurns = st.handledTurns
              /\ StartsRecovery(st) => to.pendingRecovery = st.pendingRecovery
<1> DEFINE to == StartRecovery(st, t)
           queued == [st EXCEPT !.pendingRecovery = t]
           started == [st EXCEPT !.recovery = t, !.phase = "provider-down"]
<1>1. to \in {st, SetAttention(st), queued, started}
  BY DEF StartRecovery
<1>2. StartsRecovery(st) => to = started
  BY ConstantsAssumption DEF StartsRecovery, StartRecovery, SupervisorType
<1>3. /\ Tame(st, queued) /\ SameFlags(st, queued) /\ queued.waiters = st.waiters
      /\ queued.pendingRecovery = t /\ queued.handledTurns = st.handledTurns
  BY DEF Tame, SameFlags, Shrinks, SupervisorType
<1>4. /\ Mild(st, started) /\ started.handledTurns = st.handledTurns
      /\ started.pendingRecovery = st.pendingRecovery
  BY DEF Mild, Loose, Tame, SameFlags, Shrinks, SupervisorType
<1>5. SetAttention(st).handledTurns = st.handledTurns
  BY DEF SetAttention, CancelRecovery, SupervisorType
<1> HIDE DEF to, queued, started
<1>6. QED
  BY <1>1, <1>2, <1>3, <1>4, <1>5, MildMethods, MoreMildMethods
     DEF Mild, Loose, to

\* Every step of reconcilePendingTerminalError and of what follows the
\* interrupt it asks for is one of the three.
LEMMA CheckEffect ==
    ASSUME TypeInv, NEW t \in Turn, Check(t)
    PROVE  CheckGoes(t) \/ CheckAsks(t) \/ CheckStarts(t)
<1> USE DEF TypeInv, TypeOK
<1>1. s \in SupervisorType /\ w \in WatchdogType /\ chk \in [Turn -> CheckType]
  OBVIOUS
<1>2. ASSUME Mild(s, s'), \A u \in Turn : u # t => chk'[u] = chk[u],
             UNCHANGED <<rec, cyb, sg, ev, hist>>, Calm(w, w')
      PROVE  CheckFrame(t) /\ s'.waiters = s.waiters
  BY <1>2 DEF CheckFrame, Mild, Loose
<1>3. CheckEnds(t) => chk'[t] = NoCheck /\ \A u \in Turn : u # t => chk'[u] = chk[u]
  BY DEF CheckEnds
<1>4. Mild(s, s) /\ Calm(w, w) /\ Calm(w, CancelWatch(w))
  BY MildMethods, CalmMethods DEF Calm
<1>5. CASE GraceExpiresInactive(t) \/ GraceExpiresBusy(t) \/ GraceExpiresSuperseded(t)
           \/ GraceExpires(t)
  <2> DEFINE fired == [s EXCEPT !.pending[t].timer = "fired"]
             asked == [s EXCEPT !.pending[t].timer = "none"]
  <2>1. /\ UNCHANGED <<w, rec, cyb, sg, ev, hist>> /\ chk[t].pc = "off"
        /\ s.pending[t].timer = "running"
    BY <1>5 DEF GraceExpiresInactive, GraceExpiresBusy, GraceExpiresSuperseded,
                GraceExpires, Fires, CheckAt, chkUnchanged
  <2>2. s.pending[t] # NoPending
    BY <2>1 DEF NoPending
  <2>3. Mild(s, fired) /\ Mild(s, asked)
    BY <2>1, <2>2 DEF Mild, Loose, SameFlags, Tame, Shrinks, Sound, SupervisorType
  <2>4. Mild(s, ArmPending(s, t))
    <3>1. s.pending[t] \in PendingError
      BY DEF SupervisorType
    <3>2. Shrinks(s.pending[t], Arm(s.pending[t]))
      BY <2>2, <3>1, ArmSound DEF Shrinks, Sound
    <3> QED BY <3>2 DEF ArmPending, Mild, Loose, SameFlags, Tame, Shrinks, SupervisorType
  <2>5. s' \in {fired, asked, ArmPending(s, t), DropPending(s, {t})}
    BY <1>5 DEF GraceExpiresInactive, GraceExpiresBusy, GraceExpiresSuperseded,
                GraceExpires
  <2> HIDE DEF fired, asked
  <2>6. Mild(s, s')
    BY <2>3, <2>4, <2>5, MildMethods
  <2>7. CASE chk' = chk
    BY <1>2, <1>4, <2>1, <2>6, <2>7 DEF CheckGoes
  <2>8. CASE chk' # chk
    <3>1. chk' = [chk EXCEPT ![t] = [NoCheck EXCEPT
                    !.pc = "read", !.generation = s.pending[t].generation]]
      BY <1>5, <2>8 DEF GraceExpiresInactive, GraceExpiresBusy,
                GraceExpiresSuperseded, GraceExpires
    <3>2. /\ chk'[t].pc = "read" /\ chk'[t].inbox = "none"
          /\ chk'[t].generation = s.pending[t].generation
          /\ \A u \in Turn : u # t => chk'[u] = chk[u]
      BY <3>1 DEF NoCheck
    <3>3. ~s.stallCheckInFlight
      BY <1>5, <2>8 DEF GraceExpiresInactive, GraceExpiresBusy,
                GraceExpiresSuperseded, GraceExpires, Busy
    <3> QED BY <1>2, <1>4, <2>1, <2>2, <2>6, <3>2, <3>3 DEF CheckGoes
  <2> QED BY <2>7, <2>8
<1>6. CASE ReadAnswered(t)
  <2>1. PICK status \in ReadOutcomes :
          chk' = [chk EXCEPT ![t].status = status,
                  ![t].pc = IF @ = "read" THEN "status" ELSE "restatus"]
    BY <1>6 DEF ReadAnswered
  <2>2. /\ chk[t].pc \in {"read", "reread"}
        /\ UNCHANGED <<s, w, rec, cyb, sg, ev, hist>>
    BY <1>6 DEF ReadAnswered, CheckAt, chkUnchanged
  <2>3. /\ chk'[t].pc = IF chk[t].pc = "read" THEN "status" ELSE "restatus"
        /\ chk'[t].inbox = chk[t].inbox /\ chk'[t].generation = chk[t].generation
        /\ \A u \in Turn : u # t => chk'[u] = chk[u]
    BY <2>1 DEF CheckType
  <2> QED BY <1>2, <1>4, <2>2, <2>3 DEF CheckGoes
<1>7. CASE CheckRejected(t) \/ CheckWaiting(t)
  <2> DEFINE st == CancelPending(s, t)
  <2>1. /\ UNCHANGED <<rec, cyb, sg, ev, hist>> /\ chk[t].pc = "status"
        /\ CheckEnds(t)
    BY <1>7 DEF CheckRejected, CheckWaiting, CheckUsable, CheckAt, chkUnchanged
  <2>2. /\ s' \in {s, FailPending(s, t, chk[t].generation),
                   [st EXCEPT !.phase = "waiting-for-user"]}
        /\ w' \in {w, CancelWatch(w), WaitForUser(w)}
    BY <1>7 DEF CheckRejected, CheckWaiting
  <2>3. st \in SupervisorType /\ Mild(s, st)
    BY CancelPendingType, MoreMildMethods
  <2> DEFINE waiting == [st EXCEPT !.phase = "waiting-for-user"]
  <2> HIDE DEF st
  <2>4. Mild(s, waiting) /\ Mild(s, FailPending(s, t, chk[t].generation))
    BY <2>3, MildMethods, MoreMildMethods, MildTransitive
  <2> HIDE DEF waiting
  <2>5. Mild(s, s')
    BY <1>4, <2>2, <2>4 DEF waiting
  <2>6. Calm(w, w')
    BY <1>1, <1>4, <2>2, CalmMethods
  <2> QED BY <1>2, <1>3, <2>1, <2>5, <2>6 DEF CheckGoes
<1>8. CASE CheckInterrupt(t)
  <2>1. PICK o \in InterruptOutcomes(t) :
          chk' = [chk EXCEPT ![t].pc = "interrupt", ![t].answer = o.answer]
    BY <1>8 DEF CheckInterrupt
  <2>2. /\ chk'[t].pc = "interrupt"
        /\ chk'[t].inbox = chk[t].inbox /\ chk'[t].generation = chk[t].generation
        /\ \A u \in Turn : u # t => chk'[u] = chk[u]
    BY <2>1 DEF CheckType
  <2> QED BY <1>8, <2>2 DEF CheckInterrupt, CheckAsks, CheckUsable, CheckAt, Valid,
                            chkUnchanged
<1>9. ASSUME UNCHANGED <<rec, cyb, sg, ev, hist>>, w' = w,
             NEW taken, taken = TakeWaiters(s, {t}),
             s' \in {taken, FailPending(taken, t, 0)},
             \A u \in Turn : u # t => chk'[u] = chk[u]
      PROVE  CheckFrame(t) /\ Takes(t)
  <2>1. taken \in SupervisorType
    BY <1>9, TakeWaitersType
  <2>2. /\ Tame(s, taken) /\ SameFlags(s, taken)
        /\ taken.pendingRecovery = s.pendingRecovery
        /\ taken.waiters = [u \in Turn |-> IF u \in {t} THEN "none" ELSE s.waiters[u]]
    BY <1>9 DEF TakeWaiters, Tame, SameFlags, Shrinks, SupervisorType
  <2>3. Mild(taken, s')
    BY <1>9, <2>1, MildMethods, MoreMildMethods
  <2> QED BY <1>4, <1>9, <2>2, <2>3, TameTransitive
          DEF CheckFrame, Takes, Mild, Loose, SameFlags
<1>10. CASE CheckInterruptAnswered(t)
  <2>1. UNCHANGED <<w, rec, cyb, sg, ev, hist>> /\ chk[t].pc = "interrupt"
    BY <1>10 DEF CheckInterruptAnswered, CheckAt, chkUnchanged
  <2>2. CASE CheckGoto(t, "wait") /\ UNCHANGED s
    <3>1. /\ chk'[t].pc = "wait"
          /\ chk'[t].inbox = chk[t].inbox /\ chk'[t].generation = chk[t].generation
          /\ \A u \in Turn : u # t => chk'[u] = chk[u]
      BY <2>2 DEF CheckGoto, CheckType
    <3> QED BY <1>2, <1>4, <2>1, <2>2, <3>1 DEF CheckGoes
  <2>3. CASE s' = FailPending(TakeWaiters(s, {t}), t, 0) /\ CheckEnds(t)
    BY <1>3, <1>9, <2>1, <2>3 DEF CheckGoes
  <2> QED BY <1>10, <2>2, <2>3 DEF CheckInterruptAnswered
<1>11. CASE CheckTerminal(t)
  <2>1. /\ UNCHANGED <<s, w, rec, cyb, sg, ev, hist>> /\ chk[t].pc = "wait"
        /\ chk[t].inbox # "none" /\ CheckEnds(t)
    BY <1>11 DEF CheckTerminal, CheckAt, chkUnchanged
  <2> QED BY <1>2, <1>3, <1>4, <2>1 DEF CheckGoes
<1>12. CASE CheckNotTerminal(t)
  <2>1. /\ UNCHANGED <<w, rec, cyb, sg, ev, hist>> /\ chk[t].pc = "wait"
        /\ s' = TakeWaiters(s, {t})
        /\ (CheckGoto(t, "reread") \/ CheckEnds(t))
    BY <1>12 DEF CheckNotTerminal, CheckAt, chkUnchanged
  <2>2. CASE CheckEnds(t)
    BY <1>3, <1>9, <2>1, <2>2 DEF CheckGoes
  <2>3. CASE CheckGoto(t, "reread")
    <3>1. /\ chk'[t].pc = "reread"
          /\ chk'[t].inbox = chk[t].inbox /\ chk'[t].generation = chk[t].generation
          /\ \A u \in Turn : u # t => chk'[u] = chk[u]
      BY <2>3 DEF CheckGoto, CheckType
    <3> QED BY <1>9, <2>1, <3>1 DEF CheckGoes
  <2> QED BY <2>1, <2>2, <2>3
<1>13. ASSUME RecoverWithoutTerminal(t), CheckEnds(t), t \notin s.handledTurns,
              chk[t].pc \in {"status", "restatus"}, UNCHANGED <<cyb, sg, ev, hist>>
       PROVE  CheckStarts(t)
  <2> DEFINE st == WithoutTerminal(s, t)
  <2>1. st \in SupervisorType /\ Mild(s, st)
    BY RecoveredType, MoreMildMethods
  <2>2. t \in st.handledTurns
    BY DEF WithoutTerminal, DropPending, SupervisorType
  <2>3. s' = StartRecovery(st, t) /\ rec' = SpawnRecovery(st, t) /\ w' = CompleteWatch(w, t)
    BY <1>13 DEF RecoverWithoutTerminal
  <2> HIDE DEF st
  <2>4. t \in s'.handledTurns
    BY <2>1, <2>2, <2>3, StartRecoveryEffect
  <2> QED BY <1>1, <1>13, <2>1, <2>3, <2>4, CalmMethods DEF CheckStarts, Starts, CheckEnds
<1>14. CASE CheckInactive(t)
  BY <1>13, <1>14 DEF CheckInactive, CheckUsable, CheckAt, Valid, chkUnchanged
<1>15. CASE Recheck(t)
  <2>1. UNCHANGED <<cyb, sg, ev, hist>> /\ chk[t].pc = "restatus" /\ CheckEnds(t)
    BY <1>15 DEF Recheck, CheckAt, chkUnchanged
  <2>2. \/ RecoverWithoutTerminal(t) /\ t \notin s.handledTurns
        \/ s' \in {s, FailPending(s, t, 0)} /\ UNCHANGED <<w, rec>>
    BY <1>15 DEF Recheck, StillInterrupting
  <2>3. CASE s' \in {s, FailPending(s, t, 0)} /\ UNCHANGED <<w, rec>>
    <3>1. Mild(s, s')
      BY <1>4, <2>3, MoreMildMethods
    <3> QED BY <1>2, <1>3, <1>4, <2>1, <2>3, <3>1 DEF CheckGoes
  <2> QED BY <1>13, <2>1, <2>2, <2>3
<1> QED
  BY <1>5, <1>6, <1>7, <1>8, <1>10, <1>11, <1>12, <1>14, <1>15 DEF Check

-----------------------------------------------------------------------------
(* The invariants, by what a step may do.                                  *)

Effect ==
    \/ Quiet
    \/ \E T \in SUBSET Turn : Notifies(T, "cancelled") /\ ev' = ev
    \/ \E t \in Turn : Completes(t) \/ Schedules(t) \/ LoopStarts(t) \/ LoopRetries(t)
    \/ \E t \in Turn : Recovers(t) \/ Finishes(t) \/ Retries(t)
    \/ \E t \in Turn : CheckGoes(t) \/ CheckAsks(t) \/ CheckStarts(t)
    \/ StallConfirmed \/ StallReturns \/ StallAdvances \/ StallAnnounces
    \/ StallRegisters \/ StallMark \/ StallSends

\* Every step does one of these.
LEMMA StepEffect ==
    ASSUME TypeInv, [Next]_vars
    PROVE  Effect
<1>1. CASE UNCHANGED vars
  <2>1. s \in SupervisorType
    BY DEF TypeInv, TypeOK
  <2> QED BY <1>1, <2>1, MildMethods DEF Effect, Quiet, vars, LoopQuiet, Calm
<1>2. CASE EventLoop
  <2>1. \A t \in Turn : {t} \in SUBSET Turn
    OBVIOUS
  <2> QED BY <1>2, <2>1, EventLoopEffect DEF Effect
<1>3. ASSUME NEW t \in Turn, Goroutine(t) PROVE Effect
  BY <1>3, RecoveryEffect, CyberEffect, CheckEffect, OtherEffect DEF Goroutine, Effect
<1>4. CASE StallTick
  BY <1>4, OtherEffect DEF StallTick, Effect
<1>5. CASE Remote \/ Shutdown
  <2>1. Turn \in SUBSET Turn
    OBVIOUS
  <2> QED BY <1>5, <2>1, StopEffect, OtherEffect DEF Effect
<1> QED
  BY <1>1, <1>2, <1>3, <1>4, <1>5, StallEffect, OtherEffect DEF Next, Effect

\* What startRecovery, given the failure of turn t, makes of the state.
LEMMA StartsEffect ==
    ASSUME TypeInv, NEW t \in Turn, Starts(t)
    PROVE  /\ Tame(s, s') /\ SameFlags(s, s') /\ s'.waiters = s.waiters
           /\ \/ /\ s'.pendingRecovery \in {s.pendingRecovery, None}
                 /\ rec' = [rec EXCEPT ![t] = RecoveryStarted]
              \/ /\ s'.pendingRecovery \in {s.pendingRecovery, None, t}
                 /\ rec' = rec
<1>1. PICK st \in SupervisorType :
        Mild(s, st) /\ s' = StartRecovery(st, t) /\ rec' = SpawnRecovery(st, t)
  BY DEF Starts
<1>2. /\ Tame(st, s') /\ SameFlags(st, s') /\ s'.waiters = st.waiters
      /\ s'.pendingRecovery \in {st.pendingRecovery, None, t}
      /\ StartsRecovery(st) => s'.pendingRecovery = st.pendingRecovery
  BY <1>1, StartRecoveryEffect
<1>3. /\ Tame(s, s') /\ SameFlags(s, s') /\ s'.waiters = s.waiters
      /\ st.pendingRecovery \in {s.pendingRecovery, None}
  BY <1>1, <1>2, TameTransitive DEF Mild, Loose, SameFlags
<1> QED BY <1>1, <1>2, <1>3 DEF SpawnRecovery

\* The waiters, the goroutines they belong to and the flag the stall recovery
\* clears when it ends; a goroutine has received nothing before it registers.
Waiting ==
    /\ WaitersOwned
    /\ s.stallCheckInFlight <=> sg.pc # "off"
    /\ sg.pc \in {"off", "confirm", "read", "status", "announce", "register"} =>
            sg.inbox = "none"
    /\ \A t \in Turn : chk[t].pc \in {"off", "read", "status"} => chk[t].inbox = "none"

\* Who takes waiters out of the map tells their goroutines, all of which
\* are still there with an empty channel.
LEMMA NotifiesWaiting ==
    ASSUME TypeInv, Waiting, NEW T \in SUBSET Turn, NEW status, Notifies(T, status)
    PROVE  Waiting'
<1> USE DEF TypeInv, TypeOK
<1>1. sg \in StallType /\ chk \in [Turn -> CheckType] /\ s \in SupervisorType
  OBVIOUS
<1>2. /\ sg'.pc = sg.pc /\ sg'.turn = sg.turn
      /\ sg'.inbox = IF \E t \in T : s.waiters[t] = "stall" THEN status ELSE sg.inbox
  BY <1>1 DEF Notifies, NotifyStall, StallType
<1>3. \A t \in Turn :
        /\ chk'[t].pc = chk[t].pc
        /\ chk'[t].inbox = IF t \in T /\ s.waiters[t] = "check" THEN status
                           ELSE chk[t].inbox
  BY <1>1 DEF Notifies, NotifyChecks, CheckType
<1>4. /\ \A t \in Turn : s'.waiters[t] = IF t \in T THEN "none" ELSE s.waiters[t]
      /\ s'.stallCheckInFlight = s.stallCheckInFlight
  BY DEF Notifies, SameFlags
<1>5. WaitersOwned'
  BY <1>2, <1>3, <1>4 DEF Waiting, WaitersOwned
<1>6. (s.stallCheckInFlight <=> sg.pc # "off")'
  BY <1>2, <1>4 DEF Waiting
<1>7. sg'.pc \in {"off", "confirm", "read", "status", "announce", "register"} =>
        sg'.inbox = "none"
  BY <1>2 DEF Waiting, WaitersOwned
<1>8. \A t \in Turn : chk'[t].pc \in {"off", "read", "status"} => chk'[t].inbox = "none"
  BY <1>3 DEF Waiting, WaitersOwned
<1> QED BY <1>5, <1>6, <1>7, <1>8 DEF Waiting

\* A step that leaves the waiters, their goroutines and the flag alone.
LEMMA SameWaiting ==
    ASSUME Waiting, s'.waiters = s.waiters, UNCHANGED <<chk, sg>>,
           s'.stallCheckInFlight = s.stallCheckInFlight
    PROVE  Waiting'
BY DEF Waiting, WaitersOwned

\* The reconciliation of turn t registers, is notified and leaves.
LEMMA CheckWaitingKept ==
    ASSUME TypeInv, Waiting, NEW t \in Turn,
           CheckGoes(t) \/ CheckAsks(t) \/ CheckStarts(t)
    PROVE  Waiting'
<1> USE DEF TypeInv, TypeOK
<1>1. sg' = sg /\ s \in SupervisorType
      /\ \A u \in Turn : u # t => chk'[u] = chk[u]
  BY DEF CheckGoes, CheckFrame, CheckAsks, CheckStarts, Starts
<1>2. s'.stallCheckInFlight = s.stallCheckInFlight
      /\ \A u \in Turn : u # t => s'.waiters[u] = s.waiters[u]
  <2>1. CASE CheckGoes(t)
    BY <2>1 DEF CheckGoes, CheckFrame, SameFlags, Takes
  <2>2. CASE CheckAsks(t)
    BY <1>1, <2>2 DEF CheckAsks, SupervisorType
  <2>3. CASE CheckStarts(t)
    BY <2>3, StartsEffect DEF CheckStarts, SameFlags
  <2> QED BY <2>1, <2>2, <2>3
<1>3. s'.waiters[t] = "stall" => s.waiters[t] = "stall"
  <2>1. CASE CheckGoes(t)
    BY <2>1 DEF CheckGoes, Takes
  <2>2. CASE CheckAsks(t)
    BY <1>1, <2>2 DEF CheckAsks, SupervisorType
  <2>3. CASE CheckStarts(t)
    BY <2>3, StartsEffect DEF CheckStarts
  <2> QED BY <2>1, <2>2, <2>3
<1>4. /\ s'.waiters[t] = "check" =>
            chk'[t].pc \in {"interrupt", "wait"} /\ chk'[t].inbox = "none"
      /\ chk'[t].pc \in {"off", "read", "status"} => chk'[t].inbox = "none"
  <2>1. CASE CheckGoes(t)
    BY <2>1 DEF CheckGoes, Takes, NoCheck, Waiting, WaitersOwned
  <2>2. CASE CheckAsks(t)
    BY <2>2 DEF CheckAsks, Waiting
  <2>3. CASE CheckStarts(t)
    <3>1. chk'[t] = NoCheck /\ s'.waiters[t] = s.waiters[t]
          /\ chk[t].pc \in {"status", "restatus"}
      BY <2>3, StartsEffect DEF CheckStarts
    <3> QED BY <3>1 DEF NoCheck, Waiting, WaitersOwned
  <2> QED BY <2>1, <2>2, <2>3
<1>5. WaitersOwned'
  BY <1>1, <1>2, <1>3, <1>4 DEF Waiting, WaitersOwned
<1> QED BY <1>1, <1>2, <1>4, <1>5 DEF Waiting

\* So does the stall recovery.
LEMMA StallWaitingKept ==
    ASSUME TypeInv, Waiting,
           \/ StallConfirmed \/ StallReturns \/ StallAdvances \/ StallAnnounces
           \/ StallRegisters \/ StallMark \/ StallSends
    PROVE  Waiting'
<1> USE DEF TypeInv, TypeOK
<1>1. chk' = chk /\ s \in SupervisorType /\ sg \in StallType
  BY DEF StallConfirmed, StallReturns, StallAdvances, StallAnnounces, StallRegisters,
         StallMark, StallSends, stallFrame
<1>2. CASE StallConfirmed
  <2>1. sg.pc = "off"
    BY <1>2 DEF StallConfirmed, MayEvaluate, Waiting
  <2>2. /\ s'.waiters = s.waiters /\ s'.stallCheckInFlight = TRUE
        /\ sg'.pc = "confirm" /\ sg'.inbox = "none"
    BY <1>1, <1>2 DEF StallConfirmed, NoStall, SupervisorType
  <2>3. WaitersOwned'
    BY <1>1, <2>1, <2>2 DEF Waiting, WaitersOwned
  <2> QED BY <1>1, <2>2, <2>3 DEF Waiting
<1>3. CASE StallReturns
  <2>1. sg'.pc = "off" /\ sg'.inbox = "none" /\ s'.stallCheckInFlight = FALSE
    BY <1>3 DEF StallReturns, NoStall
  <2>2. \A t \in Turn : /\ s'.waiters[t] # "stall"
                        /\ s'.waiters[t] = "check" => s.waiters[t] = "check"
    BY <1>1, <1>3 DEF StallReturns, Takes, Waiting, WaitersOwned, SupervisorType
  <2>3. WaitersOwned'
    BY <1>1, <2>2 DEF Waiting, WaitersOwned
  <2> QED BY <1>1, <2>1, <2>3 DEF Waiting
<1>4. CASE StallAdvances
  <2>1. s' = s
    BY <1>4 DEF StallAdvances
  <2>2. WaitersOwned'
    BY <1>1, <1>4, <2>1 DEF StallAdvances, Waiting, WaitersOwned
  <2>3. sg.pc # "off" /\ sg'.pc # "off"
    BY <1>4 DEF StallAdvances
  <2>4. sg'.pc \in {"off", "confirm", "read", "status", "announce", "register"} =>
          sg'.inbox = "none"
    BY <1>4 DEF StallAdvances, Waiting
  <2> QED BY <1>1, <2>1, <2>2, <2>3, <2>4 DEF Waiting
<1>5. CASE StallRegisters
  <2>1. /\ s'.waiters = [s.waiters EXCEPT ![sg.turn] = "stall"]
        /\ s'.stallCheckInFlight = s.stallCheckInFlight
        /\ sg.pc = "register" /\ sg'.pc = "ask"
        /\ sg'.turn = sg.turn /\ sg'.inbox = sg.inbox
    BY <1>1, <1>5 DEF StallRegisters, SupervisorType
  <2>2. WaitersOwned'
    BY <1>1, <2>1 DEF Waiting, WaitersOwned, SupervisorType
  <2> QED BY <1>1, <2>1, <2>2 DEF Waiting
<1>6. CASE StallMark \/ StallSends
  <2>1. /\ s'.waiters = s.waiters /\ s'.stallCheckInFlight = s.stallCheckInFlight
        /\ sg.pc \in {"mark", "submit"} /\ sg'.pc \in {"submit", "record"}
    BY <1>1, <1>6 DEF StallMark, StallSends, StallAt, StallGoto, StallType,
                      SupervisorType
  <2>2. WaitersOwned'
    BY <1>1, <2>1 DEF Waiting, WaitersOwned
  <2> QED BY <1>1, <2>1, <2>2 DEF Waiting
<1>7. CASE StallAnnounces
  <2>1. /\ s'.waiters = s.waiters /\ s'.stallCheckInFlight = s.stallCheckInFlight
        /\ sg.pc = "announce" /\ sg'.pc = "register"
        /\ sg'.turn = sg.turn /\ sg'.inbox = sg.inbox
    BY <1>1, <1>7 DEF StallAnnounces, SupervisorType
  <2>2. WaitersOwned'
    BY <1>1, <2>1 DEF Waiting, WaitersOwned
  <2> QED BY <1>1, <2>1, <2>2 DEF Waiting
<1> QED BY <1>2, <1>3, <1>4, <1>5, <1>6, <1>7

\* Every step keeps the waiters owned.
LEMMA WaitingKept ==
    ASSUME TypeInv, Waiting, Effect
    PROVE  Waiting'
<1>1. CASE Quiet
  BY <1>1, SameWaiting DEF Quiet, Mild, Loose, SameFlags
<1>2. ASSUME NEW t \in Turn, Schedules(t) PROVE Waiting'
  BY <1>2, SameWaiting DEF Schedules, SameFlags
<1>3. ASSUME NEW t \in Turn, LoopStarts(t) PROVE Waiting'
  BY <1>3, StartsEffect, SameWaiting DEF LoopStarts, Starts, SameFlags
<1>4. ASSUME NEW t \in Turn, LoopRetries(t) PROVE Waiting'
  BY <1>4, SameWaiting DEF LoopRetries
<1>5. ASSUME NEW t \in Turn, Recovers(t) \/ Finishes(t) \/ Retries(t) PROVE Waiting'
  BY <1>5, SameWaiting DEF Recovers, Finishes, Retries, Mild, Loose, SameFlags
<1>6. ASSUME NEW t \in Turn, Completes(t) PROVE Waiting'
  <2>1. {t} \in SUBSET Turn
    OBVIOUS
  <2> QED BY <1>6, <2>1, NotifiesWaiting DEF Completes
<1> QED
  BY <1>1, <1>2, <1>3, <1>4, <1>5, <1>6, NotifiesWaiting, CheckWaitingKept,
     StallWaitingKept DEF Effect

\* At the start nobody waits.
LEMMA InitWaiting == Init => Waiting
BY DEF Init, Waiting, WaitersOwned, NoStall, NoCheck

\* Whoever takes a waiter out of the map finds its goroutine at work and its
\* one-place channel empty: interruptSilentTurn, interruptPendingTerminalError,
\* handleTurnCompleted, cancelTerminalWaiters.
THEOREM WaitersAlwaysOwned == Spec => []WaitersOwned
<1> DEFINE IInv == TypeInv /\ Waiting
<1>1. Init => IInv
  BY InitType, InitWaiting
<1>2. IInv /\ [Next]_vars => IInv'
  BY NextType, StepEffect, WaitingKept
<1>3. IInv => WaitersOwned
  BY DEF Waiting
<1> QED BY <1>1, <1>2, <1>3, PTL DEF Spec

-----------------------------------------------------------------------------
(* The limit of the stall recoveries.                                      *)

\* A recovery that compared the count with its limit is still below it.
Counted ==
    /\ StallLimit
    /\ sg.pc \in {"read", "status", "announce", "register", "ask", "interrupt",
                  "wait", "mark"} =>
            s.stallResumes < MaxStallResumes

\* Nobody else raises the count, and only the goroutine itself goes on.
LEMMA SameCounted ==
    ASSUME TypeInv, Counted, s'.stallResumes \in {0, s.stallResumes},
           sg'.pc \in {sg.pc, "off", "confirm"}
    PROVE  Counted'
<1>1. s.stallResumes \in Nat
  BY DEF TypeInv, TypeOK, SupervisorType
<1> QED BY <1>1, ConstantsAssumption DEF Counted, StallLimit

\* The count stays at its limit at most: it is raised once between the
\* comparison and the end of the goroutine, and nobody else raises it.
LEMMA CountedKept ==
    ASSUME TypeInv, Counted, Effect
    PROVE  Counted'
<1>1. s \in SupervisorType /\ sg \in StallType
  BY DEF TypeInv, TypeOK
<1>2. CASE Quiet
  BY <1>2, SameCounted DEF Quiet, Mild, Loose, Tame
<1>3. ASSUME NEW T, NEW status, Notifies(T, status) PROVE Counted'
  <2>1. sg'.pc = sg.pc
    BY <1>1, <1>3 DEF Notifies, NotifyStall, StallType
  <2> QED BY <1>3, <2>1, SameCounted DEF Notifies, Tame
<1>4. ASSUME NEW t \in Turn,
             Completes(t) \/ Schedules(t) \/ LoopStarts(t) \/ LoopRetries(t)
      PROVE  Counted'
  <2>1. CASE Completes(t)
    BY <1>3, <2>1 DEF Completes
  <2>2. CASE Schedules(t) \/ LoopRetries(t)
    BY <2>2, SameCounted DEF Schedules, LoopRetries
  <2>3. CASE LoopStarts(t)
    BY <2>3, StartsEffect, SameCounted DEF LoopStarts, Starts, Tame
  <2> QED BY <1>4, <2>1, <2>2, <2>3
<1>5. ASSUME NEW t \in Turn, Recovers(t) \/ Finishes(t) \/ Retries(t) PROVE Counted'
  BY <1>5, SameCounted DEF Recovers, Finishes, Retries, Mild, Loose, Tame
<1>6. ASSUME NEW t \in Turn, CheckGoes(t) \/ CheckAsks(t) \/ CheckStarts(t)
      PROVE  Counted'
  <2>1. CASE CheckGoes(t)
    BY <2>1, SameCounted DEF CheckGoes, CheckFrame, Tame
  <2>2. CASE CheckAsks(t)
    BY <1>1, <2>2, SameCounted DEF CheckAsks, SupervisorType
  <2>3. CASE CheckStarts(t)
    BY <2>3, StartsEffect, SameCounted DEF CheckStarts, Starts, Tame
  <2> QED BY <1>6, <2>1, <2>2, <2>3
<1>7. CASE StallConfirmed
  <2>1. s'.stallResumes = s.stallResumes /\ sg'.pc = "confirm"
    BY <1>1, <1>7 DEF StallConfirmed, NoStall, SupervisorType
  <2> QED BY <2>1, SameCounted
<1>8. CASE StallReturns
  BY <1>8, SameCounted DEF StallReturns, Tame, NoStall
<1>9. CASE StallAdvances
  BY <1>9 DEF StallAdvances, Counted, StallLimit
<1>10. CASE StallAnnounces \/ StallRegisters
  <2>1. s'.stallResumes = s.stallResumes
    BY <1>1, <1>10 DEF StallAnnounces, StallRegisters, SupervisorType
  <2> QED BY <1>10, <2>1 DEF StallAnnounces, StallRegisters, Counted, StallLimit
<1>11. CASE StallMark
  <2>1. s'.stallResumes = s.stallResumes + 1 /\ sg.pc = "mark" /\ sg'.pc = "submit"
    BY <1>1, <1>11 DEF StallMark, StallAt, StallGoto, SupervisorType, StallType
  <2>2. s.stallResumes \in Nat
    BY <1>1 DEF SupervisorType
  <2> QED BY <2>1, <2>2, ConstantsAssumption DEF Counted, StallLimit
<1>12. CASE StallSends
  BY <1>12 DEF StallSends, Counted, StallLimit
<1> QED
  BY <1>2, <1>3, <1>4, <1>5, <1>6, <1>7, <1>8, <1>9, <1>10, <1>11, <1>12 DEF Effect

\* The watchdog never continues more turns in a row than its limit, although
\* confirmAndRecoverStall compares the count with it long before
\* resumeStalledThread raises it, and other goroutines reset it in between.
THEOREM StallLimitKept == Spec => []StallLimit
<1> DEFINE IInv == TypeInv /\ Counted
<1>1. Init => IInv
  <2>1. Init => Counted
    BY ConstantsAssumption DEF Init, Counted, StallLimit, NoStall
  <2> QED BY <2>1, InitType
<1>2. IInv /\ [Next]_vars => IInv'
  BY NextType, StepEffect, CountedKept
<1>3. IInv => StallLimit
  BY DEF Counted
<1> QED BY <1>1, <1>2, <1>3, PTL DEF Spec

-----------------------------------------------------------------------------
(* The entries of the pending terminal errors.                             *)

\* A goroutine of an entry knows its generation; a decision of the watchdog
\* that still stands has no entry of its turn.
Entries ==
    /\ \A t \in Turn : Sound(s.pending[t])
    /\ \A t \in Turn : chk[t].pc # "off" => chk[t].generation # 0
    /\ w.unchanged => w.turn = None \/ s.pending[w.turn] = NoPending

\* Steps that make no entry and start no goroutine.
LEMMA SameEntries ==
    ASSUME TypeInv, Entries, Tame(s, s'), Calm(w, w'),
           \A t \in Turn : /\ chk'[t].pc # "off" => chk[t].pc # "off"
                           /\ chk'[t].generation = chk[t].generation
    PROVE  Entries'
<1>1. w \in WatchdogType
  BY DEF TypeInv, TypeOK
<1>2. \A t \in Turn : Shrinks(s.pending[t], s'.pending[t])
  BY DEF Tame
<1>3. \A t \in Turn : Sound(s'.pending[t])
  BY <1>2 DEF Entries, Shrinks
<1>4. w'.unchanged => w'.turn = None \/ s'.pending[w'.turn] = NoPending
  BY <1>1, <1>2, Turns DEF Entries, Calm, Shrinks, WatchdogType
<1> QED BY <1>3, <1>4 DEF Entries

\* The reconciliation of an error keeps its entry and its generation apart
\* from none.
LEMMA CheckEntriesKept ==
    ASSUME TypeInv, Entries, NEW t \in Turn,
           CheckGoes(t) \/ CheckAsks(t) \/ CheckStarts(t)
    PROVE  Entries'
<1> USE DEF TypeInv, TypeOK
<1>1. s \in SupervisorType /\ w \in WatchdogType
  OBVIOUS
<1>2. ASSUME Tame(s, s'), Calm(w, w'),
             chk'[t].pc # "off" => chk'[t].generation # 0,
             \A u \in Turn : u # t => chk'[u] = chk[u]
      PROVE  Entries'
  <2>1. \A u \in Turn : Shrinks(s.pending[u], s'.pending[u])
    BY <1>2 DEF Tame
  <2>2. \A u \in Turn : Sound(s'.pending[u])
    BY <2>1 DEF Entries, Shrinks
  <2>3. w'.unchanged => w'.turn = None \/ s'.pending[w'.turn] = NoPending
    BY <1>1, <1>2, <2>1, Turns DEF Entries, Calm, Shrinks, WatchdogType
  <2>4. \A u \in Turn : chk'[u].pc # "off" => chk'[u].generation # 0
    BY <1>2 DEF Entries
  <2> QED BY <2>2, <2>3, <2>4 DEF Entries
<1>3. CASE CheckGoes(t)
  <2>1. chk'[t].pc # "off" => chk'[t].generation # 0
    BY <1>3 DEF CheckGoes, Entries, Sound, NoCheck
  <2> QED BY <1>2, <1>3, <2>1 DEF CheckGoes, CheckFrame
<1>4. CASE CheckStarts(t)
  BY <1>2, <1>4, StartsEffect DEF CheckStarts, Starts, NoCheck
<1>5. CASE CheckAsks(t)
  <2> DEFINE p == s.pending[t]
             q == [Arm(p) EXCEPT !.timer = p.timer, !.interrupting = TRUE]
  <2>1. s'.pending = [s.pending EXCEPT ![t] = q] /\ w' = w
    BY <1>1, <1>5 DEF CheckAsks, SupervisorType
  <2>2. p.generation # 0 /\ p # NoPending /\ p \in PendingError
    BY <1>1, <1>5 DEF CheckAsks, Entries, NoPending, SupervisorType
  <2>3. q.generation # 0
    BY <2>2, ArmSound DEF Arm
  <2> HIDE DEF q
  <2>4. \A u \in Turn : Sound(s'.pending[u])
    BY <1>1, <2>1, <2>3 DEF Entries, Sound, SupervisorType
  <2>5. w'.unchanged => w'.turn = None \/ s'.pending[w'.turn] = NoPending
    BY <1>1, <2>1, <2>2, Turns DEF Entries, WatchdogType, SupervisorType
  <2>6. \A u \in Turn : chk'[u].pc # "off" => chk'[u].generation # 0
    BY <1>5 DEF CheckAsks, Entries
  <2> QED BY <2>4, <2>5, <2>6 DEF Entries
<1> QED BY <1>3, <1>4, <1>5

\* Every step keeps them: an error that arrives counts as activity, which
\* takes the watchdog's decision back.
LEMMA EntriesKept ==
    ASSUME TypeInv, Entries, Effect
    PROVE  Entries'
<1> USE DEF TypeInv, TypeOK
<1>1. s \in SupervisorType /\ w \in WatchdogType /\ sg \in StallType
      /\ chk \in [Turn -> CheckType]
  OBVIOUS
<1>2. CASE Quiet
  BY <1>2, SameEntries DEF Quiet, Mild, Loose
<1>3. ASSUME NEW T, NEW status, Notifies(T, status) PROVE Entries'
  <2>1. \A t \in Turn : chk'[t].pc = chk[t].pc /\ chk'[t].generation = chk[t].generation
    BY <1>1, <1>3 DEF Notifies, NotifyChecks, CheckType
  <2> QED BY <1>3, <2>1, SameEntries DEF Notifies
<1>4. ASSUME NEW t \in Turn,
             Completes(t) \/ Schedules(t) \/ LoopStarts(t) \/ LoopRetries(t)
      PROVE  Entries'
  <2>1. CASE Completes(t)
    BY <1>3, <2>1 DEF Completes
  <2>2. CASE LoopRetries(t)
    BY <2>2 DEF LoopRetries, Entries
  <2>3. CASE LoopStarts(t)
    BY <2>3, StartsEffect, SameEntries DEF LoopStarts, Starts
  <2>4. CASE Schedules(t)
    <3>1. \A u \in Turn : Sound(s'.pending[u])
      BY <2>4 DEF Schedules, Entries
    <3>2. w'.unchanged => w'.turn = None \/ s'.pending[w'.turn] = NoPending
      BY <1>1, <2>4, Turns DEF Schedules, Entries, Calm, WatchdogType
    <3>3. chk' = chk
      BY <2>4 DEF Schedules
    <3> QED BY <3>1, <3>2, <3>3 DEF Entries
  <2> QED BY <1>4, <2>1, <2>2, <2>3, <2>4
<1>5. ASSUME NEW t \in Turn, Recovers(t) \/ Finishes(t) \/ Retries(t) PROVE Entries'
  <2>1. w' = w => Calm(w, w')
    BY DEF Calm
  <2> QED BY <1>5, <2>1, SameEntries DEF Recovers, Finishes, Retries, Mild, Loose
<1>6. ASSUME StallConfirmed PROVE Entries'
  <2>1. s'.pending = s.pending /\ chk' = chk /\ w'.turn = w.turn
    BY <1>1, <1>6 DEF StallConfirmed, SupervisorType, WatchdogType
  <2>2. \A t \in Turn : s.pending[t] = NoPending
    BY <1>6 DEF StallConfirmed, MayEvaluate, HasPending, Entries, Sound
  <2>3. w.turn = None \/ s.pending[w.turn] = NoPending
    BY <1>1, <2>2, Turns DEF WatchdogType
  <2> QED BY <2>1, <2>3 DEF Entries
<1>7. CASE StallReturns
  BY <1>7, SameEntries DEF StallReturns, stallFrame
<1>8. CASE StallAdvances
  BY <1>8 DEF StallAdvances, stallFrame, Entries
<1>9. CASE StallAnnounces \/ StallRegisters \/ StallMark
  <2>1. s'.pending = s.pending /\ w' = w /\ chk' = chk
    BY <1>1, <1>9 DEF StallAnnounces, StallRegisters, StallMark, stallFrame,
                      SupervisorType
  <2> QED BY <2>1 DEF Entries
<1>10. CASE StallSends
  BY <1>10 DEF StallSends, stallFrame, Entries
<1> QED
  BY <1>2, <1>3, <1>4, <1>5, <1>6, <1>7, <1>8, <1>9, <1>10,
     CheckEntriesKept DEF Effect

-----------------------------------------------------------------------------
(* Who answers for the failure of a turn.                                  *)

\* The stall recovery has seen its turn interrupted and goes on to continue it.
StallWon(t) ==
    /\ sg.turn = t
    /\ \/ sg.pc \in {"ask", "interrupt", "wait"} /\ sg.inbox = "interrupted"
       \/ sg.pc \in {"mark", "submit", "record"}

Queued(t) == s.pendingRecovery = t
Probes(t) == rec[t].pc # "off"
Retrying(t) == cyb[t].pc # "off"

\* The failure is with the event loop, in the queue or with a goroutine of its
\* own, and with one of them only; whoever has it, its turn was handled.
AnsweredOnce(t) ==
    /\ AtHand(t) \/ Queued(t) \/ Probes(t) \/ Retrying(t) \/ StallWon(t) =>
            t \in s.handledTurns
    /\ AtHand(t) => ~(Queued(t) \/ Probes(t) \/ Retrying(t))
    /\ Queued(t) => ~(Probes(t) \/ Retrying(t))
    /\ Probes(t) => ~Retrying(t)

\* Turn t is in no more hands than it was.
NoNewHand(t) ==
    /\ t \in s.handledTurns => t \in s'.handledTurns
    /\ AtHand(t)' => AtHand(t)
    /\ Queued(t)' => Queued(t)
    /\ Probes(t)' => Probes(t)
    /\ Retrying(t)' => Retrying(t)
    /\ StallWon(t)' => StallWon(t)

\* A failure that gets into no new hand stays in one.
LEMMA SameHand ==
    ASSUME NEW t \in Turn, AnsweredOnce(t), NoNewHand(t)
    PROVE  AnsweredOnce(t)'
BY DEF AnsweredOnce, NoNewHand

\* The hands of the goroutines, by the state they depend on.
LEMMA SameHands ==
    ASSUME TypeInv, Tame(s, s'), s'.pendingRecovery \in {s.pendingRecovery, None},
           LoopQuiet, NEW t \in Turn,
           rec[t].pc = "off" => rec'[t].pc = "off",
           cyb[t].pc = "off" => cyb'[t].pc = "off",
           StallWon(t)' => StallWon(t)
    PROVE  NoNewHand(t)
BY Turns DEF NoNewHand, AtHand, Queued, Probes, Retrying, LoopQuiet, Tame

\* A cancelled waiter has won nothing.
LEMMA NotifiesHands ==
    ASSUME TypeInv, NEW T \in SUBSET Turn, Notifies(T, "cancelled"), ev' = ev,
           NEW t \in Turn
    PROVE  NoNewHand(t)
<1>1. sg \in StallType
  BY DEF TypeInv, TypeOK
<1>2. StallWon(t)' => StallWon(t)
  BY <1>1 DEF Notifies, NotifyStall, StallWon, StallType
<1> QED BY <1>2, SameHands DEF Notifies, LoopQuiet

\* The stall recovery wins only by what it receives.
LEMMA StallHands ==
    ASSUME TypeInv, Waiting, NEW t \in Turn,
           \/ StallConfirmed \/ StallReturns \/ StallAdvances \/ StallAnnounces
           \/ StallRegisters \/ StallMark \/ StallSends
    PROVE  NoNewHand(t)
<1> USE DEF TypeInv, TypeOK
<1>1. s \in SupervisorType /\ sg \in StallType
  OBVIOUS
<1>2. /\ UNCHANGED <<rec, cyb, ev>>
      /\ s'.pendingRecovery \in {s.pendingRecovery, None}
      /\ s.handledTurns \subseteq s'.handledTurns
  <2>1. CASE StallConfirmed
    BY <1>1, <2>1 DEF StallConfirmed, SupervisorType
  <2>2. CASE StallReturns
    BY <2>2 DEF StallReturns, stallFrame, Tame
  <2>3. CASE StallAdvances \/ StallSends
    BY <2>3 DEF StallAdvances, StallSends, stallFrame
  <2>4. CASE StallAnnounces \/ StallRegisters
    BY <1>1, <2>4 DEF StallAnnounces, StallRegisters, stallFrame, SupervisorType
  <2>5. CASE StallMark
    BY <1>1, <2>5 DEF StallMark, sgUnchanged, SupervisorType
  <2> QED BY <2>1, <2>2, <2>3, <2>4, <2>5
<1>3. StallWon(t)' => StallWon(t)
  <2>1. CASE StallConfirmed \/ StallReturns
    <3>1. StallConfirmed => sg'.pc = "confirm"
      BY DEF StallConfirmed, NoStall
    <3>2. StallReturns => sg'.pc = "off"
      BY DEF StallReturns, NoStall
    <3> QED BY <2>1, <3>1, <3>2 DEF StallWon
  <2>2. CASE StallAdvances
    BY <2>2 DEF StallAdvances, StallWon
  <2>3. CASE StallAnnounces \/ StallRegisters
    BY <2>3 DEF StallAnnounces, StallRegisters, StallWon, Waiting
  <2>4. CASE StallMark
    BY <1>1, <2>4 DEF StallMark, StallAt, StallGoto, StallWon, StallType
  <2>5. CASE StallSends
    BY <2>5 DEF StallSends, StallWon
  <2> QED BY <2>1, <2>2, <2>3, <2>4, <2>5
<1> QED BY <1>2, <1>3, Turns DEF NoNewHand, AtHand, Queued, Probes, Retrying

\* The failure of turn t changes hands: its end reaches the event loop, or the
\* loop, the queue or the reconciliation of its error gives it to a goroutine.
Unqueues(t) ==
    /\ \E u \in Turn : Finishes(u)
    /\ s.pendingRecovery = t /\ s'.pendingRecovery = None

HandOver(t) ==
    \/ Completes(t)
    \/ LoopStarts(t) \/ LoopRetries(t)
    \/ CheckStarts(t)
    \/ Unqueues(t)

\* Its goroutines go on by themselves.
OnItsOwn(t) ==
    /\ NoNewHand(t)
    /\ rec'[t] = rec[t] \/ rec'[t].pc = "done" \/ Recovers(t)
    /\ cyb'[t] = cyb[t] \/ Retries(t)
    /\ sg.pc = "record" => sg'.pc \in {"record", "off"}
    /\ \/ hist'.resumes[t] = hist.resumes[t]
       \/ Recovers(t) \/ Retries(t)
       \/ StallSends /\ sg.turn = t

\* Every step changes the hands in one of these two ways.
LEMMA HandsKept ==
    ASSUME TypeInv, Waiting, Effect, NEW u \in Turn
    PROVE  HandOver(u) \/ OnItsOwn(u)
<1> USE DEF TypeInv, TypeOK
<1>1. /\ s \in SupervisorType /\ rec \in [Turn -> RecoveryType]
      /\ cyb \in [Turn -> CyberType] /\ sg \in StallType /\ hist \in HistoryType
  OBVIOUS
<1>2. sg' = sg => /\ StallWon(u)' => StallWon(u)
                  /\ sg.pc = "record" => sg'.pc = "record"
  BY DEF StallWon
<1>3. ev' = ev => LoopQuiet
  BY DEF LoopQuiet
<1>4. ev' = LoopReady => LoopQuiet
  BY DEF LoopQuiet, LoopReady
<1>5. CASE Quiet
  <2>1. NoNewHand(u)
    BY <1>2, <1>5, SameHands DEF Quiet, Mild, Loose
  <2> QED BY <1>2, <1>5, <2>1 DEF Quiet, OnItsOwn
<1>6. ASSUME NEW T \in SUBSET Turn, Notifies(T, "cancelled"), ev' = ev
      PROVE  OnItsOwn(u)
  <2>1. sg'.pc = sg.pc
    BY <1>1, <1>6 DEF Notifies, NotifyStall, StallType
  <2> QED BY <1>6, <2>1, NotifiesHands DEF OnItsOwn, Notifies
<1>7. ASSUME NEW t \in Turn, Completes(t) PROVE HandOver(u) \/ OnItsOwn(u)
  <2>1. CASE t = u
    BY <1>7, <2>1 DEF HandOver
  <2>2. CASE t # u
    <3>1. PICK status : Notifies({t}, status)
      BY <1>7 DEF Completes
    <3>2. ~AtHand(u)'
      BY <1>7, <2>2 DEF Completes, AtHand
    <3>3. /\ sg'.pc = sg.pc /\ sg'.turn = sg.turn
          /\ s.waiters[t] # "stall" => sg' = sg
      BY <1>1, <3>1 DEF Notifies, NotifyStall, StallType
    <3>4. StallWon(u)' => StallWon(u)
      BY <2>2, <3>3 DEF StallWon, Waiting, WaitersOwned
    <3>5. NoNewHand(u)
      BY <3>1, <3>2, <3>4, Turns
         DEF Notifies, Tame, NoNewHand, Queued, Probes, Retrying
    <3> QED BY <3>1, <3>3, <3>5 DEF OnItsOwn, Notifies
  <2> QED BY <2>1, <2>2
<1>8. ASSUME NEW t \in Turn, Schedules(t) PROVE OnItsOwn(u)
  BY <1>8
     DEF Schedules, OnItsOwn, NoNewHand, AtHand, Queued, Probes, Retrying, StallWon
<1>9. ASSUME NEW t \in Turn, t # u, Starts(t), LoopQuiet PROVE OnItsOwn(u)
  <2>1. /\ Tame(s, s') /\ s'.pendingRecovery \in {s.pendingRecovery, None, t}
        /\ rec'[u] = rec[u] /\ UNCHANGED <<cyb, sg>>
        /\ hist'.resumes = hist.resumes
    BY <1>1, <1>9, StartsEffect DEF Starts
  <2>2. NoNewHand(u)
    BY <1>9, <2>1, Turns
       DEF NoNewHand, AtHand, Queued, Probes, Retrying, StallWon, LoopQuiet, Tame
  <2> QED BY <2>1, <2>2 DEF OnItsOwn
<1>10. ASSUME NEW t \in Turn, LoopStarts(t) \/ CheckStarts(t)
       PROVE  HandOver(u) \/ OnItsOwn(u)
  BY <1>3, <1>4, <1>9, <1>10 DEF LoopStarts, CheckStarts, HandOver
<1>11. ASSUME NEW t \in Turn, LoopRetries(t) PROVE HandOver(u) \/ OnItsOwn(u)
  <2>1. CASE t = u
    BY <1>11, <2>1 DEF HandOver
  <2>2. CASE t # u
    <3>1. UNCHANGED <<s, rec, sg, hist>> /\ cyb'[u] = cyb[u] /\ LoopQuiet
      BY <1>1, <1>4, <1>11, <2>2 DEF LoopRetries
    <3>2. NoNewHand(u)
      BY <3>1 DEF NoNewHand, AtHand, Queued, Probes, Retrying, StallWon, LoopQuiet
    <3> QED BY <3>1, <3>2 DEF OnItsOwn
  <2> QED BY <2>1, <2>2
<1>12. ASSUME NEW t \in Turn, Recovers(t) PROVE OnItsOwn(u)
  <2>1. UNCHANGED <<cyb, sg, ev>> /\ Loose(s, s')
        /\ (rec[u].pc = "off" => rec'[u].pc = "off")
    BY <1>12 DEF Recovers
  <2>2. NoNewHand(u)
    BY <1>2, <1>3, <2>1, SameHands DEF Loose
  <2>3. t # u => rec'[u] = rec[u] /\ hist'.resumes[u] = hist.resumes[u]
    BY <1>1, <1>12 DEF Recovers, Submits, HistoryType
  <2> QED BY <1>12, <2>1, <2>2, <2>3 DEF OnItsOwn
<1>13. ASSUME NEW t \in Turn, Retries(t) PROVE OnItsOwn(u)
  <2>1. UNCHANGED <<rec, sg, ev>> /\ Loose(s, s')
        /\ (cyb[u].pc = "off" => cyb'[u].pc = "off")
    BY <1>13 DEF Retries
  <2>2. NoNewHand(u)
    BY <1>2, <1>3, <2>1, SameHands DEF Loose
  <2>3. t # u => cyb'[u] = cyb[u] /\ hist'.resumes[u] = hist.resumes[u]
    BY <1>1, <1>13 DEF Retries, Submits, HistoryType
  <2> QED BY <1>13, <2>1, <2>2, <2>3 DEF OnItsOwn
<1>14. ASSUME NEW t \in Turn, Finishes(t) PROVE HandOver(u) \/ OnItsOwn(u)
  <2>1. /\ UNCHANGED <<cyb, sg, ev, hist>> /\ rec[t].pc = "finish" /\ Tame(s, s')
        /\ s'.pendingRecovery \in {s.pendingRecovery, None}
    BY <1>14 DEF Finishes, Mild, Loose
  <2>2. \/ Unqueues(u)
        \/ rec'[u] = rec[u]
        \/ rec'[u].pc = "done" /\ rec[u].pc # "off"
    BY <1>1, <1>14, <2>1 DEF Finishes, Unqueues, RecoveryType
  <2>3. CASE Unqueues(u)
    BY <2>3 DEF HandOver
  <2>4. CASE ~Unqueues(u)
    <3>1. NoNewHand(u)
      BY <1>2, <1>3, <2>1, <2>2, <2>4, SameHands
    <3> QED BY <2>1, <2>2, <2>4, <3>1 DEF OnItsOwn
  <2> QED BY <2>3, <2>4
<1>15. ASSUME NEW t \in Turn, CheckGoes(t) \/ CheckAsks(t) PROVE OnItsOwn(u)
  <2>1. /\ UNCHANGED <<rec, cyb, sg, ev, hist>>
        /\ s'.pendingRecovery \in {s.pendingRecovery, None}
        /\ s.handledTurns \subseteq s'.handledTurns
    BY <1>1, <1>15 DEF CheckGoes, CheckFrame, CheckAsks, Tame, SupervisorType
  <2>2. NoNewHand(u)
    BY <2>1, Turns DEF NoNewHand, AtHand, Queued, Probes, Retrying, StallWon
  <2> QED BY <2>1, <2>2 DEF OnItsOwn
<1>16. ASSUME \/ StallConfirmed \/ StallReturns \/ StallAdvances \/ StallAnnounces
              \/ StallRegisters \/ StallMark \/ StallSends
       PROVE  OnItsOwn(u)
  <2>1. NoNewHand(u)
    BY <1>16, StallHands
  <2>2. UNCHANGED <<rec, cyb>>
    BY <1>16 DEF StallConfirmed, StallReturns, StallAdvances, StallAnnounces,
                 StallRegisters, StallMark, StallSends, stallFrame, sgUnchanged
  <2>3. sg.pc = "record" => sg'.pc \in {"record", "off"}
    <3>1. StallReturns => sg'.pc = "off"
      BY DEF StallReturns, NoStall
    <3>2. StallConfirmed => sg.pc = "off"
      BY DEF StallConfirmed, MayEvaluate, Waiting
    <3> QED BY <1>16, <3>1, <3>2
            DEF StallAdvances, StallAnnounces, StallRegisters, StallMark, StallSends,
                StallAt
  <2>4. \/ hist'.resumes[u] = hist.resumes[u]
        \/ StallSends /\ sg.turn = u
    BY <1>1, <1>16 DEF StallConfirmed, StallReturns, StallAdvances, StallAnnounces,
                 StallRegisters, StallMark, StallSends, sgUnchanged, HistoryType
  <2> QED BY <2>1, <2>2, <2>3, <2>4 DEF OnItsOwn
<1> QED
  BY <1>5, <1>6, <1>7, <1>8, <1>10, <1>11, <1>12, <1>13, <1>14, <1>15, <1>16
     DEF Effect

\* A turn whose end reaches the event loop was in no hand.
LEMMA CompletesHands ==
    ASSUME TypeInv, NEW t \in Turn, AnsweredOnce(t), Completes(t)
    PROVE  AnsweredOnce(t)'
<1>1. UNCHANGED <<rec, cyb>> /\ s'.pendingRecovery \in {s.pendingRecovery, None}
      /\ t \notin s.handledTurns /\ t \in s'.handledTurns
  BY DEF Completes, Notifies
<1>2. ~Queued(t)' /\ ~Probes(t)' /\ ~Retrying(t)'
  BY <1>1, Turns DEF AnsweredOnce, Queued, Probes, Retrying
<1> QED BY <1>1, <1>2 DEF AnsweredOnce

\* startRecovery takes the failure over from whoever has it.
LEMMA StartsHands ==
    ASSUME TypeInv, NEW t \in Turn, Starts(t), ~AtHand(t)', t \in s'.handledTurns,
           ~Queued(t), ~Probes(t), ~Retrying(t)
    PROVE  AnsweredOnce(t)'
<1>1. \/ /\ s'.pendingRecovery \in {s.pendingRecovery, None}
         /\ rec' = [rec EXCEPT ![t] = RecoveryStarted]
      \/ /\ s'.pendingRecovery \in {s.pendingRecovery, None, t}
         /\ rec' = rec
  BY StartsEffect
<1>2. ~Retrying(t)'
  BY DEF Starts, Retrying
<1>3. ~(Queued(t)' /\ Probes(t)')
  BY <1>1, Turns DEF Queued, Probes
<1> QED BY <1>2, <1>3 DEF AnsweredOnce

Answering == \A t \in Turn : AnsweredOnce(t)

\* Every step leaves each failure in one hand.
LEMMA AnsweringKept ==
    ASSUME TypeInv, Waiting, Answering, Effect
    PROVE  Answering'
<1> SUFFICES ASSUME NEW t \in Turn PROVE AnsweredOnce(t)'
  BY DEF Answering
<1>1. AnsweredOnce(t)
  BY DEF Answering
<1>2. ev' = LoopReady => ~AtHand(t)'
  BY DEF LoopReady, AtHand
<1>3. ev' = ev => (AtHand(t)' => AtHand(t))
  BY DEF AtHand
<1>4. CASE OnItsOwn(t)
  BY <1>1, <1>4, SameHand DEF OnItsOwn
<1>5. CASE Completes(t)
  BY <1>1, <1>5, CompletesHands
<1>6. CASE LoopStarts(t)
  <2>1. t \in s'.handledTurns
    BY <1>1, <1>6, StartsEffect DEF LoopStarts, Tame, AnsweredOnce
  <2> QED BY <1>1, <1>2, <1>6, <2>1, StartsHands DEF LoopStarts, AnsweredOnce
<1>7. CASE LoopRetries(t)
  BY <1>1, <1>2, <1>7 DEF LoopRetries, AnsweredOnce, Queued, Probes
<1>8. CASE CheckStarts(t)
  BY <1>1, <1>3, <1>8, StartsHands DEF CheckStarts, AnsweredOnce
<1>9. CASE Unqueues(t)
  <2>1. UNCHANGED <<cyb, sg, ev>> /\ Tame(s, s')
    BY <1>9 DEF Unqueues, Finishes, Mild, Loose
  <2>2. Queued(t) /\ ~Queued(t)' /\ t \in s'.handledTurns
    BY <1>1, <1>9, <2>1, Turns DEF Unqueues, Queued, Tame, AnsweredOnce
  <2>3. ~AtHand(t)' /\ ~Retrying(t)'
    BY <1>1, <2>1, <2>2 DEF AnsweredOnce, AtHand, Retrying
  <2> QED BY <2>2, <2>3 DEF AnsweredOnce
<1> QED BY <1>4, <1>5, <1>6, <1>7, <1>8, <1>9, HandsKept DEF HandOver

-----------------------------------------------------------------------------
(* submittingResume and the continuations.                                 *)

\* submittingResume has a goroutine that will clear it.
SubmitOwned == s.submittingResume => \E t \in Turn : Submitting(t)

\* A goroutine that sends is replaced by none that does not.
LEMMA SameBusy ==
    ASSUME SubmitOwned, s'.submittingResume = s.submittingResume,
           \A t \in Turn : Submitting(t) => Submitting(t)'
    PROVE  SubmitOwned'
BY DEF SubmitOwned

\* The goroutines of a recovery and of a cyber-policy retry clear
\* submittingResume with the step that stops sending.
LEMMA RecoversBusy ==
    ASSUME TypeInv, SubmitOwned, NEW t \in Turn, Recovers(t) \/ Retries(t)
    PROVE  SubmitOwned'
<1> SUFFICES ASSUME s'.submittingResume PROVE \E u \in Turn : Submitting(u)'
  BY DEF SubmitOwned
<1>1. CASE Recovers(t)
  <2>1. /\ UNCHANGED <<cyb, sg>> /\ \A u \in Turn : u # t => rec'[u] = rec[u]
        /\ \/ rec'[t].pc \in Sent
           \/ s.submittingResume /\ rec[t].pc \notin Sent
    BY <1>1 DEF Recovers, Submits
  <2>2. CASE rec'[t].pc \in Sent
    BY <2>2 DEF Submitting, Sent, Sending
  <2>3. CASE s.submittingResume /\ rec[t].pc \notin Sent
    BY <2>1, <2>3 DEF SubmitOwned, Submitting, Sent, Sending
  <2> QED BY <2>1, <2>2, <2>3
<1>2. CASE Retries(t)
  <2>1. /\ UNCHANGED <<rec, sg>> /\ \A u \in Turn : u # t => cyb'[u] = cyb[u]
        /\ \/ cyb'[t].pc \in CyberSent
           \/ s.submittingResume /\ cyb[t].pc \notin CyberSent
    BY <1>2 DEF Retries, Submits
  <2>2. CASE cyb'[t].pc \in CyberSent
    BY <2>2 DEF Submitting, CyberSent
  <2>3. CASE s.submittingResume /\ cyb[t].pc \notin CyberSent
    BY <2>1, <2>3 DEF SubmitOwned, Submitting, CyberSent
  <2> QED BY <2>1, <2>2, <2>3
<1> QED BY <1>1, <1>2

\* A recovery that starts replaces no goroutine that sends.
LEMMA StartsBusy ==
    ASSUME TypeInv, SubmitOwned, NEW t \in Turn, Starts(t), ~Probes(t)
    PROVE  SubmitOwned'
<1>1. s'.submittingResume = s.submittingResume /\ UNCHANGED <<cyb, sg>>
  BY StartsEffect DEF Starts, SameFlags
<1>2. \A u \in Turn : u # t => rec'[u] = rec[u]
  BY StartsEffect DEF TypeInv, TypeOK
<1>3. \A u \in Turn : Submitting(u) => Submitting(u)'
  BY <1>1, <1>2 DEF Submitting, Probes
<1> QED BY <1>1, <1>3, SameBusy

\* Every step leaves submittingResume owned.
LEMMA BusyKept ==
    ASSUME TypeInv, Waiting, Answering, SubmitOwned, Effect
    PROVE  SubmitOwned'
<1> USE DEF TypeInv, TypeOK
<1>1. s \in SupervisorType /\ sg \in StallType /\ rec \in [Turn -> RecoveryType]
  OBVIOUS
<1>2. ASSUME UNCHANGED <<rec, cyb>>, s'.submittingResume = s.submittingResume,
             sg'.turn = sg.turn, sg'.pc = sg.pc
      PROVE  SubmitOwned'
  <2>1. \A t \in Turn : Submitting(t) => Submitting(t)'
    BY <1>2 DEF Submitting
  <2> QED BY <1>2, <2>1, SameBusy
<1>3. CASE Quiet
  BY <1>2, <1>3 DEF Quiet, Mild, SameFlags
<1>4. ASSUME NEW T, NEW status, Notifies(T, status) PROVE SubmitOwned'
  <2>1. sg'.pc = sg.pc /\ sg'.turn = sg.turn
    BY <1>1, <1>4 DEF Notifies, NotifyStall, StallType
  <2> QED BY <1>2, <1>4, <2>1 DEF Notifies, SameFlags
<1>5. ASSUME NEW t \in Turn,
             Completes(t) \/ Schedules(t) \/ LoopStarts(t) \/ LoopRetries(t)
      PROVE  SubmitOwned'
  <2>1. CASE Completes(t)
    BY <1>4, <2>1 DEF Completes
  <2>2. CASE Schedules(t)
    BY <1>2, <2>2 DEF Schedules, SameFlags
  <2>3. CASE LoopStarts(t)
    BY <2>3, StartsBusy DEF LoopStarts, Answering, AnsweredOnce
  <2>4. CASE LoopRetries(t)
    <3>1. /\ UNCHANGED <<s, rec, sg>> /\ \A u \in Turn : u # t => cyb'[u] = cyb[u]
          /\ cyb[t].pc = "off"
      BY <2>4 DEF LoopRetries, Answering, AnsweredOnce, Retrying
    <3>2. \A u \in Turn : Submitting(u) => Submitting(u)'
      BY <3>1 DEF Submitting
    <3> QED BY <3>1, <3>2, SameBusy
  <2> QED BY <1>5, <2>1, <2>2, <2>3, <2>4
<1>6. ASSUME NEW t \in Turn, Finishes(t) PROVE SubmitOwned'
  <2>1. /\ s'.submittingResume = s.submittingResume /\ UNCHANGED <<cyb, sg>>
        /\ rec[t].pc = "finish"
    BY <1>6 DEF Finishes, Mild, SameFlags
  <2>2. \A u \in Turn : rec'[u] = rec[u] \/ rec[u].pc \in {"off", "finish"}
    BY <1>1, <1>6, <2>1 DEF Finishes, Answering, AnsweredOnce, Queued, Probes
  <2>3. \A u \in Turn : Submitting(u) => Submitting(u)'
    BY <2>1, <2>2 DEF Submitting
  <2> QED BY <2>1, <2>3, SameBusy
<1>7. ASSUME NEW t \in Turn, CheckGoes(t) \/ CheckAsks(t) \/ CheckStarts(t)
      PROVE  SubmitOwned'
  <2>1. CASE CheckGoes(t)
    BY <1>2, <2>1 DEF CheckGoes, CheckFrame, SameFlags
  <2>2. CASE CheckAsks(t)
    <3>1. s'.submittingResume = s.submittingResume
      BY <1>1, <2>2 DEF CheckAsks, SupervisorType
    <3> QED BY <1>2, <2>2, <3>1 DEF CheckAsks
  <2>3. CASE CheckStarts(t)
    BY <2>3, StartsBusy DEF CheckStarts, Answering, AnsweredOnce
  <2> QED BY <1>7, <2>1, <2>2, <2>3
<1>8. CASE StallConfirmed
  <2>1. /\ UNCHANGED <<rec, cyb>> /\ sg.pc = "off"
        /\ s'.submittingResume = s.submittingResume
    BY <1>1, <1>8 DEF StallConfirmed, MayEvaluate, Waiting, SupervisorType
  <2>2. \A t \in Turn : Submitting(t) => Submitting(t)'
    BY <2>1 DEF Submitting
  <2> QED BY <2>1, <2>2, SameBusy
<1>9. CASE StallReturns
  <2>1. UNCHANGED <<rec, cyb>>
        /\ (s'.submittingResume =>
                s.submittingResume /\ sg.pc \notin {"submit", "record"})
    BY <1>9 DEF StallReturns, stallFrame
  <2> QED BY <2>1 DEF SubmitOwned, Submitting
<1>10. CASE StallAdvances
  <2>1. UNCHANGED <<s, rec, cyb>> /\ sg.pc \notin {"submit", "record"}
    BY <1>10 DEF StallAdvances, stallFrame
  <2>2. \A t \in Turn : Submitting(t) => Submitting(t)'
    BY <2>1 DEF Submitting
  <2> QED BY <2>1, <2>2, SameBusy
<1>11. CASE StallAnnounces \/ StallRegisters
  <2>1. /\ UNCHANGED <<rec, cyb>> /\ sg.pc \in {"announce", "register"}
        /\ s'.submittingResume = s.submittingResume
    BY <1>1, <1>11 DEF StallAnnounces, StallRegisters, stallFrame, SupervisorType
  <2>2. \A t \in Turn : Submitting(t) => Submitting(t)'
    BY <2>1 DEF Submitting
  <2> QED BY <2>1, <2>2, SameBusy
<1>12. CASE StallMark
  <2>1. sg'.pc = "submit" /\ sg'.turn = sg.turn /\ sg.turn \in Turn
    BY <1>1, <1>12, Turns DEF StallMark, StallAt, StallGoto, Located, StallType
  <2> QED BY <2>1 DEF SubmitOwned, Submitting
<1>13. CASE StallSends
  <2>1. \A t \in Turn : Submitting(t) => Submitting(t)'
    BY <1>13 DEF StallSends, stallFrame, Submitting
  <2> QED BY <1>13, <2>1, SameBusy DEF StallSends
<1> QED
  BY <1>3, <1>4, <1>5, <1>6, <1>7, <1>8, <1>9, <1>10, <1>11, <1>12, <1>13,
     RecoversBusy DEF Effect

-----------------------------------------------------------------------------
(* The core of the supervisor: the inductive invariant of its theorems.    *)

CoreInv ==
    /\ TypeInv
    /\ Waiting
    /\ Entries
    /\ Answering
    /\ SubmitOwned

\* At the start no turn has failed.
LEMMA InitCore == Init => CoreInv
<1> SUFFICES ASSUME Init PROVE CoreInv
  OBVIOUS
<1>1. Entries
  BY DEF Init, Entries, Sound, NoPending, NoCheck, NoWatch
<1>2. \A t \in Turn : ~AtHand(t) /\ ~Queued(t) /\ ~Probes(t) /\ ~Retrying(t)
                      /\ ~StallWon(t)
  BY Turns DEF Init, AtHand, Queued, Probes, Retrying, StallWon, LoopReady,
               NoRecovery, NoCyber, NoStall
<1>3. Answering
  BY <1>2 DEF Answering, AnsweredOnce
<1>4. SubmitOwned
  BY DEF Init, SubmitOwned
<1> QED BY <1>1, <1>3, <1>4, InitType, InitWaiting DEF CoreInv

\* Every step of the supervisor and of its environment keeps the invariant.
LEMMA CoreKept == CoreInv /\ [Next]_vars => CoreInv'
<1> SUFFICES ASSUME CoreInv, [Next]_vars PROVE CoreInv'
  OBVIOUS
<1>1. Effect /\ TypeInv /\ TypeInv'
  BY NextType, StepEffect DEF CoreInv
<1>2. Waiting' /\ Entries' /\ Answering' /\ SubmitOwned'
  BY <1>1, WaitingKept, EntriesKept, AnsweringKept, BusyKept DEF CoreInv
<1> QED BY <1>1, <1>2 DEF CoreInv

\* submittingResume and stallCheckInFlight, which hold the watchdog and the
\* reconciliation of errors back, always have a goroutine that clears them:
\* every early return of recoverCyberPolicy, startRecovery's goroutine,
\* resumeStalledThread and confirmAndRecoverStall runs the deferred reset.
THEOREM BusyAlwaysOwned == Spec => []BusyOwned
<1>1. CoreInv => BusyOwned
  BY DEF CoreInv, Waiting, SubmitOwned, BusyOwned
<1> QED BY <1>1, InitCore, CoreKept, PTL DEF Spec

-----------------------------------------------------------------------------
(* The messages about a turn.                                              *)

\* Turns are numbered in the order they start, and no message is about a later one.
InOrder ==
    /\ srv.active <= srv.next
    /\ \A i \in 1 .. Len(events) : events[i].turn <= srv.next

\* Messages that begin a turn, that restart the grace period of an error, and that
\* announce one.
Begins(m) == m.kind = "turn/started"
Weight(m) == IF m.kind \in {"activity", "thread/status/changed"} THEN 1 ELSE 0
Final(m) == m.kind = "error" /\ m.detail # "retry"

\* The event loop takes the first message, ...
Pops == events # <<>> /\ events' = Tail(events) /\ srv' = srv

\* ... the app-server goes on with its turn, or has ended it, ...
GoesOn ==
    /\ srv'.next = srv.next /\ srv'.active \in {srv.active, None}
    /\ srv.errored => srv'.errored

\* ... it or its user says something about that turn, the latest or none, ...
Says(m) ==
    /\ events' = Append(events, m) /\ GoesOn /\ ~Begins(m)
    /\ m.turn \in {srv.active, srv.next, None}
    /\ srv'.activity = srv.activity + Weight(m)
    /\ Final(m) => /\ m.turn = srv.active /\ srv'.errored
                   /\ srv.errored => "errorAgain" \in Inputs

\* ... or a new one begins, asked for by the user or not.
UserStart == Message("client turn/start", None, "")
Starting ==
    /\ CanStartTurn /\ srv' = StartedServer
    /\ \E q \in {events, Append(events, UserStart)} :
            events' = Append(q, TurnStarted(srv.next + 1))

Speaks ==
    \/ events' = events /\ GoesOn /\ srv'.activity = srv.activity
    \/ \E m \in Event : Says(m)
    \/ Starting

\* A step that adds nothing.
LEMMA StaysSpeaks ==
    ASSUME events' = events, UNCHANGED srv
    PROVE  Speaks
BY DEF Speaks, GoesOn

\* Whoever starts a turn has its turn/started added.
LEMMA StartedSpeaks ==
    ASSUME NEW o \in StartOutcomes, srv' = o.srv, events' = o.events
    PROVE  Speaks
<1> DEFINE accepted == [started |-> srv.next + 1, srv |-> StartedServer,
                     events |-> Append(events, TurnStarted(srv.next + 1))]
           refused == [started |-> None, srv |-> srv, events |-> events]
<1>1. \/ o = refused
      \/ CanStartTurn /\ (o = accepted \/ o = [accepted EXCEPT !.started = None])
  BY DEF StartOutcomes
<1>2. CASE o = refused
  BY <1>2, StaysSpeaks
<1>3. CASE CanStartTurn /\ (o = accepted \/ o = [accepted EXCEPT !.started = None])
  BY <1>3 DEF Speaks, Starting
<1> QED BY <1>1, <1>2, <1>3

\* A request for the interrupt of a turn leaves it to end.
LEMMA InterruptedSpeaks ==
    ASSUME TypeInv, NEW t, NEW o \in InterruptOutcomes(t), srv' = o.srv,
           events' = events
    PROVE  Speaks
BY DEF InterruptOutcomes, TypeInv, TypeOK, ServerType, Speaks, GoesOn

\* A goal that becomes active starts no turn yet.
LEMMA GoalSpeaks ==
    ASSUME TypeInv, srv' = [srv EXCEPT !.goal = "active"], events' = events
    PROVE  Speaks
BY DEF TypeInv, TypeOK, ServerType, Speaks, GoesOn

\* What the app-server and its user do.
LEMMA EnvironmentSpeaks ==
    ASSUME TypeInv, Environment
    PROVE  Speaks
<1>1. srv \in ServerType /\ events \in Seq(Event) /\ srv.activity \in Int
  BY DEF TypeInv, TypeOK, ServerType
<1>2. /\ srv.active # None => srv.active \in Turn
      /\ srv.next # None => srv.next \in Turn
  BY <1>1, Turns DEF ServerType
<1>3. ASSUME NEW kind, NEW turn, NEW detail,
             Message(kind, turn, detail) \in Event,
             events' = Append(events, Message(kind, turn, detail)),
             turn \in {srv.active, srv.next, None}, GoesOn, kind # "turn/started",
             kind \in {"activity", "thread/status/changed"} =>
                    srv'.activity = srv.activity + 1,
             kind \notin {"activity", "thread/status/changed"} =>
                    srv'.activity = srv.activity,
             kind = "error" /\ detail # "retry" =>
                    /\ turn = srv.active /\ srv'.errored
                    /\ srv.errored => "errorAgain" \in Inputs
      PROVE  Speaks
  <2> DEFINE m == Message(kind, turn, detail)
  <2>1. m.turn = turn /\ m.kind = kind /\ m.detail = detail
    BY DEF Message
  <2> HIDE DEF m
  <2>2. events' = Append(events, m) /\ m \in Event
    BY <1>3 DEF m
  <2>3. srv'.activity = srv.activity + Weight(m)
    BY <1>1, <1>3, <2>1 DEF Weight
  <2> QED BY <1>3, <2>1, <2>2, <2>3 DEF Speaks, Says, Begins, Final
<1>4. CASE UserStartsTurn
  <2>1. UserStart \in Event /\ TurnStarted(srv.next + 1) \in Event
    BY <1>1, <1>4, MessageType, StartedServerType DEF UserStartsTurn, UserStart, ThreadMessages
  <2>2. \A a, b \in Event : events \o <<a, b>> = Append(Append(events, a), b)
    BY <1>1
  <2> QED BY <1>4, <2>1, <2>2 DEF UserStartsTurn, UserStart, Speaks, Starting
<1>5. CASE UserInterrupts
  <2>1. GoesOn /\ srv'.activity = srv.activity
    BY <1>1, <1>5 DEF UserInterrupts, ServerType, GoesOn
  <2>2. Message("client turn/interrupt", srv.next, "") \in Event
    BY <1>2, <1>5, MessageType DEF UserInterrupts, TurnMessages
  <2>3. events' = Append(events, Message("client turn/interrupt", srv.next, ""))
    BY <1>5 DEF UserInterrupts
  <2> QED BY <1>3, <2>1, <2>2, <2>3
<1>6. CASE ServerActivity
  <2>1. GoesOn /\ srv'.activity = srv.activity + 1
    BY <1>1, <1>6 DEF ServerActivity, ServerType, GoesOn
  <2> QED BY <1>2, <1>3, <1>6, <2>1, MessageType DEF ServerActivity, ServerRuns, TurnMessages
<1>7. CASE ServerWaits
  <2>1. GoesOn /\ srv'.activity = srv.activity + 1
    BY <1>1, <1>7 DEF ServerWaits, ServerType, GoesOn
  <2>2. PICK detail \in {"waiting", "active"} :
          events' = Append(events, Message("thread/status/changed", None, detail))
    BY <1>7 DEF ServerWaits
  <2>3. Message("thread/status/changed", None, detail) \in Event
    BY MessageType DEF ThreadMessages
  <2> QED BY <1>3, <2>1, <2>2, <2>3
<1>8. CASE ServerError
  <2>1. PICK detail \in {"retry", "final"} :
          /\ detail = "final" => (srv.errored => "errorAgain" \in Inputs)
          /\ events' = Append(events, Message("error", srv.active, detail))
          /\ srv' = [srv EXCEPT !.errored = @ \/ detail = "final"]
    BY <1>8 DEF ServerError
  <2>2. GoesOn /\ srv'.activity = srv.activity /\ (detail = "final" => srv'.errored)
    BY <1>1, <2>1 DEF ServerType, GoesOn
  <2>3. Message("error", srv.active, detail) \in Event
    BY <1>2, <1>8, MessageType DEF ServerError, ServerRuns, TurnMessages
  <2> QED BY <1>3, <2>1, <2>2, <2>3
<1>9. CASE ServerCompletes
  <2>1. PICK detail \in EndDetails :
          /\ events' = Append(events, Message("turn/completed", srv.active, detail))
          /\ srv' = [srv EXCEPT !.active = None, !.waiting = FALSE,
                              !.errored = @ \/ detail \in {"provider", "cyberPolicy"}]
    BY <1>9 DEF ServerCompletes
  <2>2. GoesOn /\ srv'.activity = srv.activity
    BY <1>1, <2>1 DEF ServerType, GoesOn
  <2>3. Message("turn/completed", srv.active, detail) \in Event
    BY <1>2, <1>9, MessageType DEF ServerCompletes, ServerRuns
  <2> QED BY <1>3, <2>1, <2>2, <2>3
<1>10. CASE ServerEndsSilently
  BY <1>1, <1>10 DEF ServerEndsSilently, ServerType, Speaks, GoesOn
<1>11. CASE ServerContinuesGoal
  BY <1>11 DEF ServerContinuesGoal, Speaks, Starting
<1> QED
  BY <1>4, <1>5, <1>6, <1>7, <1>8, <1>9, <1>10, <1>11 DEF Environment

\* Only the event loop, which handles the user's interrupt, and a stall recovery that
\* starts say how the two met.
Uncancelled == hist'.esc = hist.esc

\* Counting a continuation says nothing of an interrupt.
LEMMA ResumesUncancelled ==
    ASSUME TypeInv, NEW t \in Turn, hist' = [hist EXCEPT !.resumes[t] = @ + 1]
    PROVE  Uncancelled
BY DEF TypeInv, TypeOK, HistoryType, Uncancelled

\* The queue and the goroutine of a recovery, ...
LEMMA RecoveryQueue ==
    ASSUME TypeInv, NEW t \in Turn, Recovery(t)
    PROVE  Speaks /\ Uncancelled
<1>1. CASE UNCHANGED <<events, srv, hist>>
  BY <1>1, StaysSpeaks DEF Uncancelled
<1>2. CASE RecoveryGoalSet(t)
  BY <1>2, GoalSpeaks, ResumesUncancelled DEF RecoveryGoalSet
<1>3. CASE RecoverySubmit(t)
  <2>1. PICK o \in StartOutcomes : srv' = o.srv /\ events' = o.events
    BY <1>3 DEF RecoverySubmit
  <2> QED BY <1>3, <2>1, StartedSpeaks, ResumesUncancelled DEF RecoverySubmit
<1> QED
  BY <1>1, <1>2, <1>3
     DEF Recovery, recUnchanged, RecoveryTop, RecoveryAnnounce, RecoveryWait,
         RecoveryProbing, RecoveryProbeCancelled, RecoveryProbeHealthy,
         RecoveryProbeUnhealthy, RecoveryResume, RecoveryMark, RecoveryGoal,
         RecoveryRequestFails, RecoveryRecord, RecoveryStartFails, RecoveryFinish

\* ... of a cyber-policy retry, ...
LEMMA CyberQueue ==
    ASSUME TypeInv, NEW t \in Turn, Cyber(t)
    PROVE  Speaks /\ Uncancelled
<1>1. CASE UNCHANGED <<events, srv, hist>>
  BY <1>1, StaysSpeaks DEF Uncancelled
<1>2. CASE CyberSubmit(t)
  <2>1. PICK o \in StartOutcomes : srv' = o.srv /\ events' = o.events
    BY <1>2 DEF CyberSubmit
  <2> QED BY <1>2, <2>1, StartedSpeaks, ResumesUncancelled DEF CyberSubmit
<1> QED
  BY <1>1, <1>2
     DEF Cyber, cybUnchanged, CyberStart, CyberRequest, CyberPaused, CyberFails,
         CyberTurnStarted

\* ... of a terminal error or a pause, ...
LEMMA CheckQueue ==
    ASSUME TypeInv, NEW t \in Turn, Check(t) \/ PausedInterrupt(t)
    PROVE  Speaks /\ Uncancelled
<1>1. CASE UNCHANGED <<events, srv, hist>>
  BY <1>1, StaysSpeaks DEF Uncancelled
<1>2. CASE CheckInterrupt(t) \/ PausedInterruptRequest(t)
  <2>1. /\ \E o \in InterruptOutcomes(t) : srv' = o.srv
        /\ UNCHANGED <<events, hist>>
    BY <1>2 DEF CheckInterrupt, PausedInterruptRequest, chkUnchanged
  <2> QED BY <2>1, InterruptedSpeaks DEF Uncancelled
<1> QED
  BY <1>1, <1>2
     DEF Check, PausedInterrupt, chkUnchanged, GraceExpiresInactive,
         GraceExpiresBusy, GraceExpiresSuperseded, GraceExpires, ReadAnswered,
         CheckRejected, CheckInactive, CheckWaiting, CheckInterruptAnswered,
         CheckTerminal, CheckNotTerminal, Recheck, PausedInterruptAnswered

\* ... of the stall recovery ...
LEMMA StallQueue ==
    ASSUME TypeInv, StallStep \/ StallTick
    PROVE  Speaks /\ (Uncancelled \/ StallConfirmed)
<1>1. CASE UNCHANGED <<events, srv, hist>>
  BY <1>1, StaysSpeaks DEF Uncancelled
<1>2. CASE StallInterrupt
  <2>1. /\ \E o \in InterruptOutcomes(sg.turn) : srv' = o.srv
        /\ UNCHANGED <<events, hist>>
    BY <1>2 DEF StallInterrupt, sgUnchanged
  <2> QED BY <2>1, InterruptedSpeaks DEF Uncancelled
<1>3. CASE StallSubmit
  <2>1. PICK o \in StartOutcomes : srv' = o.srv /\ events' = o.events
    BY <1>3 DEF StallSubmit
  <2>2. sg.turn \in Turn
    BY <1>3, Turns DEF StallSubmit, StallAt, TypeInv, TypeOK, Located, StallType
  <2> QED BY <1>3, <2>1, <2>2, StartedSpeaks, ResumesUncancelled DEF StallSubmit
<1>4. CASE StallConfirmed
  BY <1>4, StaysSpeaks DEF StallConfirmed
<1> QED
  BY <1>1, <1>2, <1>3, <1>4
     DEF StallStep, StallTick, sgUnchanged, StallSuspected, StallConfirm,
         StallReadAnswered, StallStatusRejected, StallStatusInactive,
         StallStatusWaiting, StallStatusActive, StallAnnounce, StallRegister,
         StallInterruptAnswered, StallTerminal, StallNotTerminal, StallMark,
         StallSubmitFails, StallTurnStarted

\* ... and the remote commands.
LEMMA RemoteQueue ==
    ASSUME TypeInv, Remote \/ Shutdown
    PROVE  Speaks /\ Uncancelled
<1>1. CASE UNCHANGED <<events, srv, hist>>
  BY <1>1, StaysSpeaks DEF Uncancelled
<1>2. CASE RemotePause
  <2>1. /\ srv' = srv \/ \E o \in InterruptOutcomes(s.activeTurn) : srv' = o.srv
        /\ UNCHANGED <<events, hist>>
    BY <1>2 DEF RemotePause
  <2> QED BY <2>1, StaysSpeaks, InterruptedSpeaks DEF Uncancelled
<1>3. CASE ContinuationGoalSet
  BY <1>3, GoalSpeaks DEF ContinuationGoalSet, Uncancelled
<1>4. CASE ContinuationSubmit
  <2>1. PICK o \in StartOutcomes : srv' = o.srv /\ events' = o.events
    BY <1>4 DEF ContinuationSubmit
  <2> QED BY <1>4, <2>1, StartedSpeaks DEF ContinuationSubmit, Uncancelled
<1> QED
  BY <1>1, <1>2, <1>3, <1>4
     DEF Remote, Command, Shutdown, RemotePauseAnswered, RemoteResume,
         RemotePromptSteers, RemoteSteerAnswered, RemotePromptStarts,
         RemotePrompt, ContinuationGoal, ContinuationFails, ContinuationStarted

\* The event loop takes the first message or none.
LEMMA EventLoopQueue ==
    ASSUME TypeInv, EventLoop
    PROVE  /\ Speaks \/ Pops
           /\ Uncancelled \/ HandleClientInterrupt
<1>1. CASE UNCHANGED <<events, srv, hist>>
  BY <1>1, StaysSpeaks DEF Uncancelled
<1>2. ASSUME NEW kind, Receives(kind), srv' = srv PROVE Pops
  BY <1>2 DEF Receives, Pops
<1>3. CASE HandleClientInterrupt
  BY <1>2, <1>3 DEF HandleClientInterrupt
<1>4. CASE HandleTurnCompleted
  <2>1. hist'.esc = hist.esc
    BY <1>4 DEF HandleTurnCompleted, TypeInv, TypeOK, HistoryType
  <2> QED BY <1>2, <1>4, <2>1 DEF HandleTurnCompleted, Uncancelled
<1>5. CASE \/ HandleClientTurnStart \/ HandleTurnStarted \/ HandleActivity
           \/ HandleThreadStatus \/ HandleTurnError
  <2>1. hist' = hist /\ srv' = srv
    BY <1>5 DEF HandleClientTurnStart, HandleTurnStarted, HandleActivity,
                HandleThreadStatus, HandleTurnError
  <2> QED BY <1>2, <1>5, <2>1
          DEF HandleClientTurnStart, HandleTurnStarted, HandleActivity,
              HandleThreadStatus, HandleTurnError, Uncancelled
<1> QED
  BY <1>1, <1>3, <1>4, <1>5
     DEF EventLoop, TurnCompleted, TurnInterrupted, TurnFailed, EventLoopStops

\* Every step takes a message or adds to the queue.
LEMMA QueueEffect ==
    ASSUME TypeInv, [Next]_vars
    PROVE  /\ Speaks \/ Pops
           /\ Uncancelled \/ HandleClientInterrupt \/ StallConfirmed
<1>1. CASE UNCHANGED vars
  BY <1>1, StaysSpeaks DEF vars, Uncancelled
<1>2. CASE Environment
  <2>1. hist' = hist
    BY <1>2 DEF Environment, UserStartsTurn, UserInterrupts, ServerActivity,
                ServerWaits, ServerError, ServerCompletes, ServerEndsSilently,
                ServerContinuesGoal
  <2> QED BY <1>2, <2>1, EnvironmentSpeaks DEF Uncancelled
<1>3. ASSUME NEW t \in Turn, Goroutine(t) PROVE Speaks /\ Uncancelled
  BY <1>3, RecoveryQueue, CyberQueue, CheckQueue DEF Goroutine
<1>4. CASE Quiescent
  BY <1>1, <1>4 DEF Quiescent
<1> QED
  BY <1>1, <1>2, <1>3, <1>4, EventLoopQueue, StallQueue, RemoteQueue DEF Next

-----------------------------------------------------------------------------
(* The queue grows and shrinks.                                            *)

\* What was said leaves the queue as it was, and is about no later turn than the
\* latest.
Grows ==
    /\ Len(events) <= Len(events')
    /\ \A i \in 1 .. Len(events) : events'[i] = events[i]
    /\ \A i \in Len(events) + 1 .. Len(events') : events'[i].turn <= srv'.next
    /\ \/ srv'.active \in {srv.active, None} /\ srv'.next = srv.next
       \/ srv'.active = srv'.next /\ srv'.next = srv.next + 1

\* What Append adds, and what it leaves.
LEMMA Appended ==
    ASSUME NEW S, NEW q \in Seq(S), NEW m \in S
    PROVE  /\ Append(q, m) \in Seq(S)
           /\ Len(q) \in Nat /\ Len(Append(q, m)) = Len(q) + 1
           /\ \A i \in 1 .. Len(q) : Append(q, m)[i] = q[i]
           /\ Append(q, m)[Len(q) + 1] = m
           /\ \A i \in 1 .. Len(Append(q, m)) : i \in 1 .. Len(q) \/ i = Len(q) + 1
OBVIOUS

\* A queue with a message more, or not.
LEMMA OneMore ==
    ASSUME NEW q0 \in Seq(Event), NEW a \in Event, NEW q \in {q0, Append(q0, a)}
    PROVE  /\ q \in Seq(Event) /\ Len(q) \in {Len(q0), Len(q0) + 1}
           /\ \A j \in 1 .. Len(q0) : q[j] = q0[j]
           /\ Len(q) = Len(q0) + 1 => q[Len(q0) + 1] = a
<1>1. CASE q = q0
  BY <1>1
<1>2. CASE q = Append(q0, a)
  BY <1>2
<1> QED BY <1>1, <1>2

\* A turn starts: StartedServer.
LEMMA StartedNumbers ==
    ASSUME TypeInv
    PROVE  /\ srv.next \in Int
           /\ StartedServer.active = srv.next + 1
           /\ StartedServer.next = srv.next + 1
<1>1. srv \in ServerType
  BY DEF TypeInv, TypeOK
<1>2. StartedServer.active = srv.next + 1 /\ StartedServer.next = srv.next + 1
  BY <1>1, Zenon DEF StartedServer, ServerType
<1> QED BY <1>1, <1>2, ConstantsAssumption DEF ServerType, TurnOrNone

\* The messages of a turn that starts.
LEMMA StartingMessages ==
    ASSUME TypeInv, Starting
    PROVE  /\ UserStart \in Event /\ UserStart.kind = "client turn/start" /\ UserStart.turn = None
           /\ TurnStarted(srv.next + 1) \in Event
           /\ TurnStarted(srv.next + 1).kind = "turn/started"
           /\ TurnStarted(srv.next + 1).turn = srv.next + 1
           /\ srv.next + 1 \in Turn
BY MessageType, StartedServerType
   DEF TypeInv, TypeOK, Starting, UserStart, TurnStarted, Message, ThreadMessages

\* What is said goes behind the messages there are.
LEMMA SpeaksGrows ==
    ASSUME TypeInv, InOrder, Speaks
    PROVE  Grows
<1>1. events \in Seq(Event) /\ Len(events) \in Nat /\ srv \in ServerType
  BY DEF TypeInv, TypeOK
<1>2. /\ srv.next \in Int /\ srv.active <= srv.next /\ None <= srv.next
      /\ None \notin Turn
  BY <1>1, ConstantsAssumption DEF ServerType, TurnOrNone, InOrder, None, Turn
<1>3. CASE events' = events /\ GoesOn
  BY <1>1, <1>3 DEF Grows, GoesOn
<1>4. ASSUME NEW m \in Event, Says(m) PROVE Grows
  <2>1. /\ Len(events') = Len(events) + 1
        /\ \A i \in 1 .. Len(events) : events'[i] = events[i]
        /\ events'[Len(events) + 1] = m
    BY <1>1, <1>4, Appended DEF Says
  <2>2. /\ Len(events) <= Len(events')
        /\ \A i \in Len(events) + 1 .. Len(events') : i = Len(events) + 1
    BY <1>1, <2>1
  <2>3. m.turn <= srv'.next
    BY <1>2, <1>4 DEF Says, GoesOn
  <2>4. srv'.active \in {srv.active, None} /\ srv'.next = srv.next
    BY <1>4 DEF Says, GoesOn
  <2>5. ASSUME NEW i \in Len(events) + 1 .. Len(events')
        PROVE  events'[i] = m
    BY <2>1, <2>2
  <2> QED BY <2>1, <2>2, <2>3, <2>4, <2>5 DEF Grows
<1>5. CASE Starting
  <2> DEFINE a == UserStart
             b == TurnStarted(srv.next + 1)
  <2>1. /\ a \in Event /\ a.kind = "client turn/start" /\ a.turn = None
        /\ b \in Event /\ b.kind = "turn/started" /\ b.turn = srv.next + 1
    BY <1>5, StartingMessages
  <2>2. PICK q \in {events, Append(events, a)} : events' = Append(q, b) /\ srv' = StartedServer
    BY <1>5 DEF Starting
  <2> HIDE DEF a, b
  <2>3. /\ q \in Seq(Event) /\ Len(q) \in {Len(events), Len(events) + 1}
        /\ \A i \in 1 .. Len(events) : q[i] = events[i]
        /\ Len(q) = Len(events) + 1 => q[Len(events) + 1] = a
    BY <1>1, <2>1, <2>2, OneMore
  <2>4. /\ Len(events') = Len(q) + 1
        /\ \A i \in 1 .. Len(q) : events'[i] = q[i]
        /\ events'[Len(q) + 1] = b
    <3>1. b \in Event /\ q \in Seq(Event) /\ events' = Append(q, b)
      BY <2>1, <2>2, <2>3
    <3> QED BY <3>1, Appended
  <2>5. /\ Len(events) <= Len(events')
        /\ \A i \in 1 .. Len(events) : events'[i] = events[i]
        /\ \A i \in Len(events) + 1 .. Len(events') : events'[i] \in {a, b}
    BY <1>1, <2>3, <2>4
  <2>6. /\ srv'.active = srv'.next /\ srv'.next = srv.next + 1
        /\ None <= srv'.next
    BY <1>2, <2>2, StartedNumbers DEF None
  <2>7. a.turn <= srv'.next /\ b.turn <= srv'.next
    <3>1. a.turn = None /\ b.turn = srv.next + 1
      BY <2>1
    <3>2. srv.next + 1 <= srv.next + 1
      BY <1>2
    <3> QED BY <2>6, <3>1, <3>2
  <2>8. \A i \in Len(events) + 1 .. Len(events') : events'[i].turn <= srv'.next
    BY <2>5, <2>7
  <2> QED BY <2>5, <2>6, <2>8 DEF Grows
<1> QED BY <1>3, <1>4, <1>5 DEF Speaks

\* What Tail leaves.
LEMMA Popped ==
    ASSUME NEW S, NEW q \in Seq(S), q # <<>>
    PROVE  /\ Len(q) \in Nat /\ Len(q) # 0 /\ Len(Tail(q)) = Len(q) - 1
           /\ Head(q) = q[1]
           /\ \A i \in 1 .. Len(q) - 1 : Tail(q)[i] = q[i + 1]
OBVIOUS

\* The messages in a queue.
LEMMA QueueTypes ==
    ASSUME NEW q \in Seq(Event)
    PROVE  /\ Len(q) \in Nat
           /\ \A i \in 1 .. Len(q) :
                /\ q[i].turn \in TurnOrNone
                /\ q[i].kind \in {"turn/completed", "client turn/interrupt"} =>
                        q[i].turn \in Turn
<1>1. ASSUME NEW m \in Event
      PROVE  /\ m.turn \in TurnOrNone
             /\ m.kind \in {"turn/completed", "client turn/interrupt"} => m.turn \in Turn
  BY Turns DEF Event, TurnMessages, ThreadMessages
<1>2. Len(q) \in Nat /\ \A i \in 1 .. Len(q) : q[i] \in Event
  OBVIOUS
<1> QED BY <1>1, <1>2

\* A place in the longer queue is an old one or a new one.
LEMMA Places ==
    ASSUME NEW m \in Nat, NEW n \in Nat
    PROVE  \A i \in 1 .. n : i \in 1 .. m \/ i \in m + 1 .. n
OBVIOUS

\* The turns of the app-server.
LEMMA ServerNumbers ==
    ASSUME NEW v \in ServerType
    PROVE  v.active \in TurnOrNone /\ v.next \in TurnOrNone
BY DEF ServerType

\* Turns are numbers above None.
LEMMA Numbers ==
    /\ \A t \in TurnOrNone : t \in Int /\ None <= t
    /\ \A t \in Turn : t \in Int /\ None < t
BY ConstantsAssumption DEF TurnOrNone, Turn, None

\* The messages stay in order when one is added ...
LEMMA InOrderGrows ==
    ASSUME TypeInv, TypeInv', InOrder, Grows
    PROVE  InOrder'
<1>0. /\ srv \in ServerType /\ srv' \in ServerType
      /\ events \in Seq(Event) /\ events' \in Seq(Event)
  BY DEF TypeInv, TypeOK
<1>1. srv'.active <= srv'.next /\ srv.next <= srv'.next
  BY <1>0, ServerNumbers, Numbers DEF Grows, InOrder
<1>2. \A i \in 1 .. Len(events') :
        i \in 1 .. Len(events) \/ i \in Len(events) + 1 .. Len(events')
  BY <1>0, QueueTypes, Places, Zenon
<1>3. ASSUME NEW i \in 1 .. Len(events') PROVE events'[i].turn <= srv'.next
  <2>1. CASE i \in 1 .. Len(events)
    <3>1. events'[i] = events[i] /\ events[i].turn <= srv.next
      BY <2>1 DEF Grows, InOrder
    <3>2. events[i].turn \in Int /\ srv.next \in Int /\ srv'.next \in Int
      BY <1>0, <2>1, QueueTypes, ServerNumbers, Numbers
    <3> QED BY <1>1, <3>1, <3>2
  <2>2. CASE i \in Len(events) + 1 .. Len(events')
    BY <2>2 DEF Grows
  <2> QED BY <1>2, <2>1, <2>2
<1> QED BY <1>1, <1>3 DEF InOrder

\* ... and when one is taken.
LEMMA InOrderPops ==
    ASSUME TypeInv, InOrder, Pops
    PROVE  InOrder'
<1>1. events \in Seq(Event) /\ events # <<>> /\ events' = Tail(events)
  BY DEF TypeInv, TypeOK, Pops
<1>2. /\ Len(events) \in Nat /\ Len(events') = Len(events) - 1
      /\ \A i \in 1 .. Len(events) - 1 : events'[i] = events[i + 1]
  BY <1>1, Popped
<1>3. \A i \in 1 .. Len(events') :
        i + 1 \in 1 .. Len(events) /\ events'[i] = events[i + 1]
  BY <1>2
<1> QED BY <1>3 DEF InOrder, Pops

-----------------------------------------------------------------------------
(* A user interrupt and the stall recovery of its turn.                    *)

\* An interrupt that was handled before the turn's end, or before the last check of the
\* generation, has taken the generation of its stall recovery away.
EscHeld ==
    sg.pc # "off" /\ hist.esc = "before" =>
        ~s.stallCurrent /\ sg.pc \notin {"mark", "submit"}

EscInv == CoreInv /\ EscHeld

\* Only a confirmed decision starts the stall recovery.
LEMMA OffStays ==
    ASSUME TypeInv, Waiting, Effect, ~StallConfirmed, sg.pc = "off"
    PROVE  sg'.pc = "off"
<1>1. sg \in StallType
  BY DEF TypeInv, TypeOK
<1>2. ASSUME NEW T, NEW status, Notifies(T, status) PROVE sg'.pc = sg.pc
  BY <1>1, <1>2 DEF Notifies, NotifyStall, StallType
<1>3. \A t \in Turn :
        \/ Schedules(t) \/ LoopStarts(t) \/ LoopRetries(t)
        \/ Recovers(t) \/ Finishes(t) \/ Retries(t)
        \/ CheckGoes(t) \/ CheckAsks(t) \/ CheckStarts(t)
        => sg' = sg
  BY DEF Schedules, LoopStarts, LoopRetries, Starts, Recovers, Finishes, Retries,
         CheckGoes, CheckFrame, CheckAsks, CheckStarts
<1>4. \A t \in Turn : Completes(t) => sg'.pc = sg.pc
  BY <1>2 DEF Completes
<1>5. Quiet => sg' = sg
  BY DEF Quiet
<1>6. ~(\/ StallReturns \/ StallAdvances \/ StallAnnounces \/ StallRegisters
        \/ StallMark \/ StallSends)
  BY DEF StallReturns, StallAdvances, StallAnnounces, StallRegisters, StallMark,
         StallSends, StallAt
<1> QED BY <1>2, <1>3, <1>4, <1>5, <1>6 DEF Effect

\* The generation of a stall recovery that is under way, once taken, is gone.
LEMMA GenerationGone ==
    ASSUME TypeInv, Waiting, Effect, sg.pc # "off", sg'.pc # "off"
    PROVE  /\ sg'.turn = sg.turn
           /\ s'.stallCurrent => s.stallCurrent
           /\ sg'.pc = sg.pc \/ s.stallCurrent \/ sg'.pc \notin {"mark", "submit"}
              \/ sg.pc \in {"mark", "submit"}
<1>1. s \in SupervisorType /\ sg \in StallType
  BY DEF TypeInv, TypeOK
<1>2. ~StallConfirmed
  BY DEF StallConfirmed, MayEvaluate, Waiting
<1>3. ~StallReturns
  BY DEF StallReturns, NoStall
<1>4. CASE Quiet
  BY <1>4 DEF Quiet, Mild, Loose, Tame
<1>5. ASSUME NEW T, NEW status, Notifies(T, status)
      PROVE  sg'.turn = sg.turn /\ sg'.pc = sg.pc /\ (s'.stallCurrent => s.stallCurrent)
  BY <1>1, <1>5 DEF Notifies, NotifyStall, StallType, Tame
<1>6. ASSUME NEW t \in Turn, Schedules(t) \/ LoopStarts(t) \/ LoopRetries(t)
      PROVE  sg' = sg /\ (s'.stallCurrent => s.stallCurrent)
  <2>1. CASE Schedules(t) \/ LoopRetries(t)
    BY <2>1 DEF Schedules, LoopRetries
  <2>2. CASE LoopStarts(t)
    BY <2>2, StartsEffect DEF LoopStarts, Starts, Tame
  <2> QED BY <1>6, <2>1, <2>2
<1>7. ASSUME NEW t \in Turn, Recovers(t) \/ Finishes(t) \/ Retries(t)
      PROVE  sg' = sg /\ (s'.stallCurrent => s.stallCurrent)
  BY <1>7 DEF Recovers, Finishes, Retries, Mild, Loose, Tame
<1>8. ASSUME NEW t \in Turn, CheckGoes(t) \/ CheckAsks(t) \/ CheckStarts(t)
      PROVE  sg' = sg /\ (s'.stallCurrent => s.stallCurrent)
  <2>1. CASE CheckGoes(t)
    BY <2>1 DEF CheckGoes, CheckFrame, Tame
  <2>2. CASE CheckAsks(t)
    BY <1>1, <2>2 DEF CheckAsks, SupervisorType
  <2>3. CASE CheckStarts(t)
    BY <2>3, StartsEffect DEF CheckStarts, Starts, Tame
  <2> QED BY <1>8, <2>1, <2>2, <2>3
<1>9. CASE StallAdvances \/ StallSends
  BY <1>9 DEF StallAdvances, StallSends
<1>10. CASE StallAnnounces \/ StallRegisters
  BY <1>1, <1>10 DEF StallAnnounces, StallRegisters, SupervisorType
<1>11. CASE StallMark
  BY <1>1, <1>11 DEF StallMark, StallAt, StallGoto, StallType, SupervisorType
<1>12. ASSUME NEW t \in Turn, Completes(t)
       PROVE  sg'.turn = sg.turn /\ sg'.pc = sg.pc /\ (s'.stallCurrent => s.stallCurrent)
  BY <1>5, <1>12 DEF Completes
<1> QED
  BY <1>2, <1>3, <1>4, <1>5, <1>6, <1>7, <1>8, <1>9, <1>10, <1>11, <1>12 DEF Effect

\* Every step keeps a cancelled stall recovery from sending.
LEMMA EscKept ==
    ASSUME EscInv, [Next]_vars, TypeInv', Effect
    PROVE  EscHeld'
<1> SUFFICES ASSUME sg'.pc # "off", hist'.esc = "before"
             PROVE  ~s'.stallCurrent /\ sg'.pc \notin {"mark", "submit"}
  BY DEF EscHeld
<1>1. /\ TypeInv /\ Waiting /\ Answering /\ EscHeld
      /\ s \in SupervisorType /\ sg \in StallType /\ hist \in HistoryType
  BY DEF EscInv, CoreInv, TypeInv, TypeOK
<1>2. CASE StallConfirmed
  <2>1. hist'.esc = "none"
    BY <1>1, <1>2 DEF StallConfirmed, HistoryType
  <2> QED BY <2>1
<1>3. CASE HandleClientInterrupt
  <2> DEFINE t == Head(events).turn
  <2>1. /\ sg'.pc = sg.pc /\ s'.stallCurrent = FALSE /\ hist'.esc = EscOfStall(t)
    <3>1. /\ s' = [TakeWaiters(DropPending(s, {t}), {t}) EXCEPT
                    !.stallCurrent = FALSE,
                    !.watchdogInterrupted = @ \ {t}]
          /\ sg' = NotifyStall(s, {t}, "cancelled")
          /\ hist' = [hist EXCEPT !.escaped = @ \cup {t}, !.esc = EscOfStall(t)]
      BY <1>3 DEF HandleClientInterrupt
    <3>2. TakeWaiters(DropPending(s, {t}), {t}) \in SupervisorType
      BY <1>1, DropPendingType, TakeWaitersType
    <3>3. s'.stallCurrent = FALSE
      BY <3>1, <3>2 DEF SupervisorType
    <3>4. sg'.pc = sg.pc
      BY <1>1, <3>1 DEF NotifyStall, StallType
    <3> QED BY <1>1, <3>1, <3>3, <3>4 DEF HistoryType
  <2>2. CASE hist.esc = "before"
    BY <1>1, <2>1, <2>2 DEF EscHeld
  <2>3. CASE hist.esc # "before"
    <3>1. sg.turn = t /\ (t \notin s.handledTurns \/ sg.pc \notin {"mark", "submit"})
      BY <2>1, <2>3 DEF EscOfStall
    <3>2. events \in Seq(Event) /\ events # <<>> /\ Head(events).kind = "client turn/interrupt"
      BY <1>1, <1>3 DEF HandleClientInterrupt, Receives, TypeInv, TypeOK
    <3>3. 1 \in 1 .. Len(events) /\ Head(events) = events[1]
      <4>1. /\ Len(events) \in Nat /\ Len(events) # 0 /\ Head(events) = events[1]
        BY <3>2, Popped
      <4>2. \A n \in Nat : n # 0 => 1 \in 1 .. n
        OBVIOUS
      <4> QED BY <4>1, <4>2, Zenon
    <3>4. t \in Turn
      BY <3>2, <3>3, QueueTypes
    <3>5. t \notin s.handledTurns => ~StallWon(t)
      BY <1>1, <3>4 DEF Answering, AnsweredOnce
    <3> QED BY <2>1, <3>1, <3>5 DEF StallWon
  <2> QED BY <2>2, <2>3
<1>4. CASE ~StallConfirmed /\ ~HandleClientInterrupt
  <2>1. hist.esc = "before"
    BY <1>1, <1>4, QueueEffect DEF Uncancelled
  <2>2. sg.pc # "off"
    <3>1. CASE sg.pc = "off"
      <4>1. sg'.pc = "off"
        BY <1>1, <1>4, <3>1, OffStays
      <4> QED BY <4>1
    <3> QED BY <3>1
  <2>3. /\ s'.stallCurrent => s.stallCurrent
        /\ sg'.pc = sg.pc \/ s.stallCurrent \/ sg'.pc \notin {"mark", "submit"}
           \/ sg.pc \in {"mark", "submit"}
    BY <1>1, <2>2, GenerationGone
  <2>4. ~s.stallCurrent /\ sg.pc \notin {"mark", "submit"}
    BY <1>1, <2>1, <2>2 DEF EscHeld
  <2> QED BY <2>3, <2>4
<1> QED BY <1>2, <1>3, <1>4

\* A stall recovery sends no continuation when the user interrupted its turn and the
\* interrupt was handled before the turn's end, or later but before the last check of the
\* recovery's generation: handleClientMessage has taken that generation, and its waiter or
\* what the waiter would have received. (The proxy may queue the interrupt behind the
\* turn's end; handled after that check it does not stop the continuation, which the run
\* "esc_overtaken" shows.)
THEOREM EscHonoured == Spec => EscCancelsStall
<1>1. Init => EscInv
  <2> SUFFICES ASSUME Init PROVE EscInv
    OBVIOUS
  <2>1. EscHeld
    BY DEF Init, EscHeld, NoStall
  <2> QED BY <2>1, InitCore DEF EscInv
<1>2. EscInv /\ [Next]_vars => EscInv'
  <2> SUFFICES ASSUME EscInv, [Next]_vars PROVE EscInv'
    OBVIOUS
  <2>1. CoreInv' /\ TypeInv' /\ Effect
    BY CoreKept, StepEffect DEF EscInv, CoreInv
  <2> QED BY <2>1, EscKept DEF EscInv
<1>3. EscInv => (StallSubmit => hist.esc # "before")
  BY DEF EscInv, EscHeld, StallSubmit, StallAt
<1> QED BY <1>1, <1>2, <1>3, PTL DEF Spec, EscCancelsStall

-----------------------------------------------------------------------------
(* How many messages of activity the event loop has still to handle: the   *)
(* app-server sends MaxActivity in a turn at most, so those in the queue    *)
(* can be numbered, and the numbers left out bound those already handled.   *)

\* The messages of a queue q numbered by the activity of their turn, of which there was v.
Numbered(q, v, b) ==
    /\ \A i \in 1 .. Len(q) : Weight(q[i]) <= b[i] /\ b[i] <= MaxActivity
    /\ \A i \in 2 .. Len(q) : Begins(q[i]) \/ b[i - 1] + Weight(q[i]) <= b[i]
    /\ q # <<>> => b[Len(q)] <= v

\* What the messages before those of q were at most.
First(q, v, b) ==
    IF q = <<>> THEN v ELSE IF Begins(q[1]) THEN MaxActivity ELSE b[1] - Weight(q[1])

\* There may have been n messages before those of q.
Slack(q, v, n) ==
    \E b \in [1 .. Len(q) -> 0 .. MaxActivity] : Numbered(q, v, b) /\ n <= First(q, v, b)

\* The k-th generation after g.
Later(g, k) == IF g + k <= MaxGeneration THEN g + k ELSE g + k - MaxGeneration

\* A message restarts a grace period once at most, and never when it begins a turn.
LEMMA Weights ==
    ASSUME NEW m
    PROVE  /\ Weight(m) \in 0 .. 1
           /\ Begins(m) => Weight(m) = 0
BY DEF Weight, Begins

\* armPendingTerminalErrorLocked: the next generation.
LEMMA ArmLater ==
    ASSUME NEW p \in PendingError, p.generation # 0
    PROVE  Arm(p).generation = Later(p.generation, 1)
<1>1. p.generation \in 1 .. MaxGeneration
  BY DEF PendingError
<1>2. MaxGeneration \in Nat /\ MaxGeneration >= 2
  BY ConstantsAssumption
<1>3. \A m \in Nat, g \in Nat : 1 <= g /\ g < m => g % m = g
  OBVIOUS
<1>4. \A m \in Nat : m >= 2 => m % m = 0
  OBVIOUS
<1>5. CASE p.generation < MaxGeneration
  BY <1>1, <1>2, <1>3, <1>5 DEF Arm, Later
<1>6. CASE p.generation = MaxGeneration
  BY <1>1, <1>2, <1>4, <1>6 DEF Arm, Later
<1> QED BY <1>1, <1>2, <1>5, <1>6

\* A message that is added goes by the activity of its turn, or begins one.
LEMMA SlackAppend ==
    ASSUME NEW q \in Seq(Event), NEW m \in Event,
           NEW v \in 0 .. MaxActivity, NEW u \in 0 .. MaxActivity, NEW n \in Nat,
           Slack(q, v, n), Begins(m) \/ v + Weight(m) <= u
    PROVE  Slack(Append(q, m), u, n)
<1> DEFINE r == Append(q, m)
<1>1. PICK b \in [1 .. Len(q) -> 0 .. MaxActivity] : Numbered(q, v, b) /\ n <= First(q, v, b)
  BY DEF Slack
<1>2. /\ Len(q) \in Nat /\ Len(r) = Len(q) + 1
      /\ \A i \in 1 .. Len(q) : r[i] = q[i]
      /\ r[Len(q) + 1] = m /\ r # <<>> /\ (q # <<>> => Len(q) # 0) /\ (q = <<>> => Len(q) = 0)
  OBVIOUS
<1> DEFINE c == [i \in 1 .. Len(q) + 1 |-> IF i <= Len(q) THEN b[i] ELSE u]
<1>3. MaxActivity \in Nat /\ u \in Nat /\ v \in Nat
  BY ConstantsAssumption
<1>4. c \in [1 .. Len(r) -> 0 .. MaxActivity]
  BY <1>2, <1>3
<1>5. /\ \A i \in 1 .. Len(q) : c[i] = b[i] /\ b[i] \in 0 .. MaxActivity
      /\ c[Len(q) + 1] = u
  BY <1>2
<1>6. Weight(m) \in 0 .. 1 /\ (Begins(m) => Weight(m) = 0)
  BY Weights
<1> HIDE DEF c, r
<1>7. \A i \in 1 .. Len(r) : Weight(r[i]) <= c[i] /\ c[i] <= MaxActivity
  <2> TAKE i \in 1 .. Len(r)
  <2>1. CASE i \in 1 .. Len(q)
    BY <1>1, <1>2, <1>5, <2>1 DEF Numbered
  <2>2. CASE i = Len(q) + 1
    BY <1>2, <1>3, <1>5, <1>6, <2>2
  <2> QED BY <1>2, <2>1, <2>2
<1>8. \A i \in 2 .. Len(r) : Begins(r[i]) \/ c[i - 1] + Weight(r[i]) <= c[i]
  <2> TAKE i \in 2 .. Len(r)
  <2>1. CASE i \in 2 .. Len(q)
    <3>1. i \in 1 .. Len(q) /\ i - 1 \in 1 .. Len(q)
      BY <1>2, <2>1
    <3>2. Begins(q[i]) \/ b[i - 1] + Weight(q[i]) <= b[i]
      BY <1>1, <2>1 DEF Numbered
    <3> QED BY <1>2, <1>5, <3>1, <3>2
  <2>2. CASE i = Len(q) + 1
    <3>1. Len(q) \in 1 .. Len(q) /\ q # <<>> /\ i - 1 = Len(q)
      BY <1>2, <2>2
    <3>2. c[i - 1] = b[Len(q)] /\ b[Len(q)] <= v /\ b[Len(q)] \in 0 .. MaxActivity
      BY <1>1, <1>5, <3>1 DEF Numbered
    <3> QED BY <1>2, <1>3, <1>5, <1>6, <2>2, <3>2
  <2> QED BY <1>2, <2>1, <2>2
<1>9. n <= First(r, u, c)
  <2>1. CASE q = <<>>
    <3>1. r[1] = m /\ c[1] = u /\ n <= v
      BY <1>1, <1>2, <1>5, <2>1 DEF First
    <3> QED BY <1>2, <1>3, <1>6, <3>1 DEF First
  <2>2. CASE q # <<>>
    <3>1. 1 \in 1 .. Len(q)
      BY <1>2, <2>2
    <3> QED BY <1>1, <1>2, <1>5, <2>2, <3>1 DEF First
  <2> QED BY <2>1, <2>2
<1>10. Numbered(r, u, c)
  BY <1>2, <1>3, <1>5, <1>7, <1>8 DEF Numbered
<1> QED BY <1>4, <1>9, <1>10 DEF Slack, r

\* A message that is taken leaves room for what it weighs, unless it begins a turn.
LEMMA SlackTail ==
    ASSUME NEW q \in Seq(Event), q # <<>>, NEW v \in 0 .. MaxActivity, NEW n \in Nat,
           Slack(q, v, n)
    PROVE  /\ Slack(Tail(q), v, 0)
           /\ ~Begins(Head(q)) => Slack(Tail(q), v, n + Weight(Head(q)))
<1> DEFINE r == Tail(q)
<1>1. PICK b \in [1 .. Len(q) -> 0 .. MaxActivity] : Numbered(q, v, b) /\ n <= First(q, v, b)
  BY DEF Slack
<1>2. /\ Len(q) \in Nat /\ Len(q) # 0 /\ Len(r) = Len(q) - 1 /\ Head(q) = q[1]
      /\ \A i \in 1 .. Len(q) - 1 : r[i] = q[i + 1]
      /\ (r # <<>> => Len(r) # 0) /\ (r = <<>> => Len(r) = 0)
  <2>1. r \in Seq(Event)
    OBVIOUS
  <2>2. \A x \in Seq(Event) : x = <<>> <=> Len(x) = 0
    OBVIOUS
  <2> QED BY <2>1, <2>2, Popped
<1> DEFINE c == [i \in 1 .. Len(q) - 1 |-> b[i + 1]]
<1>3. MaxActivity \in Nat /\ v \in Nat
  BY ConstantsAssumption
<1>4. /\ \A i \in 1 .. Len(q) : b[i] \in 0 .. MaxActivity
      /\ \A i \in 1 .. Len(r) : i + 1 \in 1 .. Len(q) /\ c[i] = b[i + 1]
  BY <1>2
<1>5. c \in [1 .. Len(r) -> 0 .. MaxActivity]
  BY <1>2, <1>4
<1> HIDE DEF c, r
<1>6. Numbered(r, v, c)
  <2>1. ASSUME NEW i \in 1 .. Len(r) PROVE Weight(r[i]) <= c[i] /\ c[i] <= MaxActivity
    BY <1>1, <1>2, <1>4 DEF Numbered
  <2>2. ASSUME NEW i \in 2 .. Len(r)
        PROVE  Begins(r[i]) \/ c[i - 1] + Weight(r[i]) <= c[i]
    <3>1. /\ i + 1 \in 2 .. Len(q) /\ i \in 1 .. Len(r) /\ i - 1 \in 1 .. Len(r)
          /\ (i + 1) - 1 = i /\ (i - 1) + 1 = i
      BY <1>2
    <3>2. Begins(q[i + 1]) \/ b[(i + 1) - 1] + Weight(q[i + 1]) <= b[i + 1]
      BY <1>1, <3>1 DEF Numbered
    <3> QED BY <1>2, <1>4, <3>1, <3>2
  <2>3. r # <<>> => c[Len(r)] <= v
    BY <1>1, <1>2, <1>4 DEF Numbered
  <2> QED BY <2>1, <2>2, <2>3 DEF Numbered
<1>7. b[1] <= First(r, v, c)
  <2>0. 1 \in 1 .. Len(q) /\ b[1] \in 0 .. MaxActivity
    BY <1>2, <1>4
  <2>1. CASE r = <<>>
    <3>1. Len(q) = 1
      BY <1>2, <2>1
    <3> QED BY <1>1, <1>2, <2>1, <3>1 DEF Numbered, First
  <2>2. CASE r # <<>>
    <3>1. 1 \in 1 .. Len(r) /\ 2 \in 2 .. Len(q) /\ 2 \in 1 .. Len(q)
      BY <1>2, <2>2
    <3>2. r[1] = q[2] /\ c[1] = b[2]
      BY <1>2, <1>4, <3>1
    <3>3. Begins(q[2]) \/ b[1] + Weight(q[2]) <= b[2]
      BY <1>1, <3>1 DEF Numbered
    <3>4. Weight(q[2]) \in 0 .. 1 /\ b[2] \in 0 .. MaxActivity
      BY <1>4, <3>1, Weights
    <3> QED BY <1>3, <2>0, <2>2, <3>2, <3>3, <3>4 DEF First
  <2> QED BY <2>1, <2>2
<1>8. 0 <= First(r, v, c)
  <2>1. b[1] \in 0 .. MaxActivity /\ First(r, v, c) \in Int
    <3>1. b[1] \in 0 .. MaxActivity
      BY <1>2, <1>4
    <3>2. r # <<>> => c[1] \in 0 .. MaxActivity /\ Weight(r[1]) \in 0 .. 1
      <4>1. r # <<>> => 1 \in 1 .. Len(r)
        BY <1>2
      <4> QED BY <1>5, <4>1, Weights
    <3> QED BY <1>3, <3>1, <3>2 DEF First
  <2> QED BY <1>7, <2>1
<1>9. ASSUME ~Begins(Head(q)) PROVE n + Weight(Head(q)) <= First(r, v, c)
  <2>1. n <= b[1] - Weight(q[1])
    BY <1>1, <1>2, <1>9 DEF First
  <2>2. Weight(q[1]) \in 0 .. 1 /\ b[1] \in 0 .. MaxActivity
    BY <1>2, <1>4, Weights
  <2>3. First(r, v, c) \in Int
    <3>2. r # <<>> => c[1] \in 0 .. MaxActivity /\ Weight(r[1]) \in 0 .. 1
      <4>1. r # <<>> => 1 \in 1 .. Len(r)
        BY <1>2
      <4> QED BY <1>5, <4>1, Weights
    <3> QED BY <1>3, <3>2 DEF First
  <2> QED BY <1>2, <1>7, <2>1, <2>2, <2>3
<1> QED BY <1>5, <1>6, <1>8, <1>9 DEF Slack, r

\* No more is left than a turn may have.
LEMMA SlackBound ==
    ASSUME NEW q \in Seq(Event), NEW v \in 0 .. MaxActivity, NEW n \in Nat, Slack(q, v, n)
    PROVE  n <= MaxActivity
<1>1. PICK b \in [1 .. Len(q) -> 0 .. MaxActivity] : Numbered(q, v, b) /\ n <= First(q, v, b)
  BY DEF Slack
<1>2. q # <<>> => Weight(q[1]) \in 0 .. 1 /\ b[1] \in 0 .. MaxActivity
  <2>1. q # <<>> => 1 \in 1 .. Len(q)
    OBVIOUS
  <2> QED BY <2>1, Weights
<1> QED BY <1>1, <1>2, ConstantsAssumption DEF First

\* Room for n messages is room for fewer.
LEMMA SlackLess ==
    ASSUME NEW q \in Seq(Event), NEW v \in 0 .. MaxActivity, NEW n \in Nat, NEW k \in Nat,
           k <= n, Slack(q, v, n)
    PROVE  Slack(q, v, k)
<1>1. PICK b \in [1 .. Len(q) -> 0 .. MaxActivity] : Numbered(q, v, b) /\ n <= First(q, v, b)
  BY DEF Slack
<1>2. First(q, v, b) \in Int
  <2>1. q # <<>> => 1 \in 1 .. Len(q)
    OBVIOUS
  <2>2. q # <<>> => Weight(q[1]) \in 0 .. 1 /\ b[1] \in 0 .. MaxActivity
    BY <2>1, Weights
  <2> QED BY <2>2, ConstantsAssumption DEF First
<1> QED BY <1>1, <1>2 DEF Slack

-----------------------------------------------------------------------------
(* The entries of terminal errors: most steps drop some.                   *)

\* The entries stay as they are, or are dropped.
Drops(st, to) ==
    \A t \in Turn : to.pending[t] \in {st.pending[t], NoPending}

\* Two sections in a row do no more than one.
LEMMA DropsTransitive ==
    ASSUME NEW a, NEW b, NEW c, Drops(a, b), Drops(b, c)
    PROVE  Drops(a, c)
BY DEF Drops

\* Most methods keep the entries.
LEMMA SameEntriesMethods ==
    ASSUME NEW st \in SupervisorType
    PROVE  /\ CancelRecovery(st).pending = st.pending
           /\ SetAttention(st).pending = st.pending
           /\ PausedRecord(st).pending = st.pending
           /\ FreshAttempt(st).pending = st.pending
           /\ FailStall(st).pending = st.pending
           /\ \A t : TurnRunning(st, t).pending = st.pending
           /\ \A t : StartRecovery(st, t).pending = st.pending
           /\ \A t, g : FailPending(st, t, g).pending = st.pending
           /\ \A wd, e : SuspicionCleared(st, wd, e).pending = st.pending
           /\ \A T : TakeWaiters(st, T).pending = st.pending
           /\ \A ph : [st EXCEPT !.phase = ph].pending = st.pending
<1> USE DEF SupervisorType
<1>1. CancelRecovery(st).pending = st.pending
  BY DEF CancelRecovery
<1>2. SetAttention(st).pending = st.pending
  BY DEF SetAttention, CancelRecovery
<1>3. PausedRecord(st).pending = st.pending
  BY DEF PausedRecord
<1>4. FreshAttempt(st).pending = st.pending
  BY DEF FreshAttempt, CancelRecovery
<1>5. FailStall(st).pending = st.pending
  BY <1>2 DEF FailStall
<1>6. \A t : TurnRunning(st, t).pending = st.pending
  BY DEF TurnRunning
<1>7. \A t : StartRecovery(st, t).pending = st.pending
  BY <1>2 DEF StartRecovery
<1>8. \A t, g : FailPending(st, t, g).pending = st.pending
  BY <1>2 DEF FailPending
<1>9. \A ph : [st EXCEPT !.phase = ph].pending = st.pending
  OBVIOUS
<1>10. \A wd, e : SuspicionCleared(st, wd, e).pending = st.pending
  BY <1>9 DEF SuspicionCleared
<1>11. \A T : TakeWaiters(st, T).pending = st.pending
  BY DEF TakeWaiters
<1> QED BY <1>1, <1>2, <1>3, <1>4, <1>5, <1>6, <1>7, <1>8, <1>9, <1>10, <1>11

\* The others drop some, ...
LEMMA DroppingMethods ==
    ASSUME NEW st \in SupervisorType
    PROVE  /\ \A T : Drops(st, DropPending(st, T))
           /\ \A t \in Turn : Drops(st, CancelPending(st, t))
           /\ \A t : Drops(st, WithoutTerminal(st, t))
           /\ Drops(st, ClientStarted(st))
<1> USE DEF SupervisorType
<1>1. \A T : Drops(st, DropPending(st, T))
  BY DEF Drops, DropPending
<1>2. ASSUME NEW t \in Turn PROVE Drops(st, CancelPending(st, t))
  <2>1. DropPending(st, {t}) \in SupervisorType
    BY DropPendingType
  <2>2. CancelPending(st, t).pending = DropPending(st, {t}).pending
    BY <2>1, SameEntriesMethods DEF CancelPending
  <2> QED BY <1>1, <2>2 DEF Drops
<1>3. ASSUME NEW t PROVE Drops(st, WithoutTerminal(st, t))
  BY DEF Drops, WithoutTerminal, DropPending
<1>4. Drops(st, ClientStarted(st))
  <2> DEFINE dropped == DropPending(st, Turn)
             taken == IF st.submittingResume THEN st
                      ELSE [dropped EXCEPT !.cyberAttempts = 0, !.stallCurrent = FALSE,
                                           !.stallResumes = 0]
             running == [taken EXCEPT !.phase = "running", !.manualPaused = FALSE]
             again == [CancelRecovery(running) EXCEPT !.autoResumes = 0]
  <2>1. ClientStarted(st) \in {running, again}
    BY DEF ClientStarted
  <2>2. dropped \in SupervisorType /\ Drops(st, dropped)
    BY <1>1, DropPendingType
  <2> HIDE DEF dropped
  <2>3. taken.pending \in {st.pending, dropped.pending} /\ taken \in SupervisorType
    <3>1. 0 \in 0 .. 3 /\ 0 \in Nat
      OBVIOUS
    <3>2. taken \in SupervisorType
      BY <2>2, <3>1, Zenon DEF SupervisorType
    <3> QED BY <2>2, <3>2
  <2> HIDE DEF taken
  <2>4. running.pending = taken.pending /\ again.pending = taken.pending
    BY <2>3 DEF CancelRecovery
  <2> HIDE DEF running, again
  <2>5. ClientStarted(st).pending \in {st.pending, dropped.pending}
    BY <2>1, <2>3, <2>4
  <2> QED BY <2>2, <2>5 DEF Drops
<1> QED BY <1>1, <1>2, <1>3, <1>4

\* ... and a message about activity arms some that there are.
LEMMA DeferringMethod ==
    ASSUME NEW st \in SupervisorType, NEW T, NEW t \in Turn
    PROVE  \/ DeferPending(st, T).pending[t] = st.pending[t]
           \/ /\ t \in T /\ st.pending[t].generation # 0
              /\ DeferPending(st, T).pending[t] = Arm(st.pending[t])
<1> DEFINE deferred ==
             [u \in Turn |->
                  IF /\ u \in T
                     /\ st.pending[u].generation # 0
                     /\ ~st.pending[u].interrupting
                  THEN Arm(st.pending[u]) ELSE st.pending[u]]
<1>1. DeferPending(st, T) \in {st, [st EXCEPT !.pending = deferred]}
  BY DEF DeferPending
<1>2. [st EXCEPT !.pending = deferred].pending = deferred
  BY Zenon DEF SupervisorType
<1> QED BY <1>1, <1>2

-----------------------------------------------------------------------------
(* What a step does to the entries, and to the goroutines that read the    *)
(* thread's status for them.                                               *)

Reading(t) == chk[t].pc \in {"read", "status"}

\* No entry is made or armed, and no goroutine starts.
Settles ==
    /\ Drops(s, s')
    /\ \A t \in Turn :
        /\ chk'[t].pc # "off" => chk[t].pc # "off"
        /\ Reading(t)' => Reading(t) /\ chk'[t].generation = chk[t].generation

\* The timer of turn t's entry fires, or the answer about its turn has come.
Renews(t) ==
    /\ s.pending[t].generation # 0
    /\ \A u \in Turn \ {t} : s'.pending[u] = s.pending[u] /\ chk'[u] = chk[u]
    /\ Reading(t)' =>
        /\ s'.pending[t].generation = chk'[t].generation
        /\ s'.pending[t].timer = "none"

\* A message restarts grace periods; one that begins a turn ends the others.
Notes ==
    /\ Pops /\ chk' = chk
    /\ \A t \in Turn :
        LET m == Head(events)
            p == s.pending[t]
        IN \/ s'.pending[t] = NoPending
           \/ s'.pending[t] = p /\ (Begins(m) => t = m.turn)
           \/ /\ p.generation # 0 /\ s'.pending[t] = Arm(p)
              /\ Weight(m) = 1 \/ (Begins(m) /\ t = m.turn)

\* A final error of turn t makes its entry.
Enters(t) ==
    /\ Pops /\ chk' = chk
    /\ Final(Head(events)) /\ Head(events).turn = t
    /\ \A u \in Turn \ {t} : s'.pending[u] = s.pending[u]

\* A step of which the entries know nothing.
LEMMA KeepsSettles ==
    ASSUME s'.pending = s.pending, chk' = chk
    PROVE  Settles
BY DEF Settles, Drops, Reading

\* A step that tells the goroutines of a turn's end.
LEMMA NotifiesSettles ==
    ASSUME TypeInv, Drops(s, s'), NEW T, NEW status, chk' = NotifyChecks(s, T, status)
    PROVE  Settles
<1>1. \A t \in Turn : chk'[t].pc = chk[t].pc /\ chk'[t].generation = chk[t].generation
  BY DEF TypeInv, TypeOK, NotifyChecks, CheckType
<1> QED BY <1>1 DEF Settles, Reading

\* The environment and most goroutines leave both alone.
LEMMA RecoverySettles ==
    ASSUME TypeInv, NEW t \in Turn, Recovery(t) \/ Cyber(t)
    PROVE  Settles
<1>1. s \in SupervisorType
  BY DEF TypeInv, TypeOK
<1>2. chk' = chk
  BY DEF Recovery, Cyber, recUnchanged, cybUnchanged, RecoveryTop, RecoveryAnnounce,
         RecoveryWait, RecoveryProbing, RecoveryProbeCancelled, RecoveryProbeHealthy,
         RecoveryProbeUnhealthy, RecoveryResume, RecoveryMark, RecoveryGoal,
         RecoveryRequestFails, RecoveryGoalSet, RecoverySubmit, RecoveryRecord,
         RecoveryStartFails, RecoveryFinish, CyberStart, CyberRequest, CyberPaused,
         CyberFails, CyberSubmit, CyberTurnStarted
<1>3. ASSUME NEW n PROVE
        /\ TurnRunning(s, n) \in SupervisorType => 
                /\ [TurnRunning(s, n) EXCEPT !.submittingResume = FALSE].pending = s.pending
  BY <1>1, SameEntriesMethods DEF SupervisorType
<1>4. NotSubmitting(s).pending = s.pending /\ NotSubmitting(s) \in SupervisorType
  BY <1>1, NotSubmittingType DEF NotSubmitting, SupervisorType
<1>5. SetAttention(NotSubmitting(s)).pending = s.pending
  BY <1>4, SameEntriesMethods
<1>6. Failed(t).pending = s.pending
  BY <1>4, <1>5 DEF Failed, NotSubmitting
<1>7. ASSUME RecoveryFinish(t) PROVE s'.pending = s.pending
  <2> DEFINE ended == [s EXCEPT !.recovery = None, !.pendingRecovery = None]
  <2>1. ended = CancelRecovery(s)
    BY DEF CancelRecovery
  <2>2. ended \in SupervisorType /\ ended.pending = s.pending
    BY <1>1, <2>1, CancelRecoveryType, SameEntriesMethods
  <2>3. s' \in {s, ended, StartRecovery(ended, s.pendingRecovery)}
    BY <1>7 DEF RecoveryFinish
  <2> HIDE DEF ended
  <2> QED BY <2>2, <2>3, SameEntriesMethods
<1>8. ASSUME RecoveryRecord(t) PROVE s'.pending = s.pending
  <2>1. rec[t].started \in Turn
    BY <1>8, Turns DEF RecoveryRecord, TypeInv, TypeOK, RecoveryType
  <2> QED BY <1>1, <1>3, <1>8, <2>1, TurnRunningType DEF RecoveryRecord
<1>9. ASSUME CyberTurnStarted(t) PROVE s'.pending = s.pending
  <2>1. cyb[t].started \in Turn
    BY <1>9, Turns DEF CyberTurnStarted, TypeInv, TypeOK, CyberType
  <2> QED BY <1>1, <1>3, <1>9, <2>1, TurnRunningType DEF CyberTurnStarted, NotSubmitting
<1>10. ASSUME RecoveryAnnounce(t) \/ RecoveryProbing(t) \/ RecoveryMark(t) \/ CyberStart(t)
       PROVE  s'.pending = s.pending
  BY <1>1, <1>10, SameEntriesMethods
     DEF RecoveryAnnounce, RecoveryProbing, RecoveryMark, CyberStart, SupervisorType
<1>11. ASSUME RecoveryGoalSet(t) \/ RecoveryRequestFails(t) \/ RecoveryStartFails(t)
              \/ CyberPaused(t) \/ CyberFails(t)
       PROVE  s'.pending = s.pending
  BY <1>4, <1>5, <1>6, <1>11
     DEF RecoveryGoalSet, RecoveryRequestFails, RecoveryStartFails, CyberPaused,
         CyberFails, NotSubmitting
<1>12. ASSUME s' = s PROVE s'.pending = s.pending
  BY <1>12
<1>13. s'.pending = s.pending
  BY <1>7, <1>8, <1>9, <1>10, <1>11, <1>12
     DEF Recovery, Cyber, RecoveryTop, RecoveryWait, RecoveryProbeCancelled,
         RecoveryProbeHealthy, RecoveryProbeUnhealthy, RecoveryResume, RecoveryGoal,
         RecoverySubmit, CyberRequest, CyberSubmit
<1> QED BY <1>2, <1>13, KeepsSettles

\* The stall watchdog leaves the entries alone.
LEMMA StallSettles ==
    ASSUME TypeInv, StallTick \/ StallStep
    PROVE  Settles
<1>1. s \in SupervisorType
  BY DEF TypeInv, TypeOK
<1>2. chk' = chk
  BY DEF StallTick, StallStep, StallSuspected, StallConfirmed, StallConfirm,
         StallReadAnswered, StallStatusRejected, StallStatusInactive,
         StallStatusWaiting, StallStatusActive, StallAnnounce, StallRegister,
         StallInterrupt, StallInterruptAnswered, StallTerminal, StallNotTerminal,
         StallMark, StallSubmit, StallSubmitFails, StallTurnStarted
<1>3. \A st \in SupervisorType :
        Ended(st).pending = st.pending /\ SubmitEnded(st).pending = st.pending
  BY DEF Ended, SubmitEnded, SupervisorType
<1>4. \A st \in SupervisorType :
        /\ SetAttention(st) \in SupervisorType /\ FailStall(st) \in SupervisorType
        /\ SetAttention(st).pending = st.pending /\ FailStall(st).pending = st.pending
  BY SetAttentionType, FailStallType, SameEntriesMethods
<1>5. ASSUME StallConfirm \/ StallStatusRejected \/ StallSubmitFails \/ StallTerminal
      PROVE  s'.pending = s.pending
  BY <1>1, <1>3, <1>4, <1>5
     DEF StallConfirm, StallStatusRejected, StallSubmitFails, StallTerminal
<1>6. ASSUME StallStatusInactive \/ StallStatusWaiting PROVE s'.pending = s.pending
  <2> DEFINE st == [s EXCEPT !.activeTurn = None]
             idle == [st EXCEPT !.phase = "idle"]
             waits == [s EXCEPT !.phase = "waiting-for-user"]
  <2>1. /\ st \in SupervisorType /\ idle \in SupervisorType /\ waits \in SupervisorType
        /\ st.pending = s.pending /\ idle.pending = s.pending /\ waits.pending = s.pending
    BY <1>1, Turns DEF SupervisorType, Phases
  <2>2. s' \in {Ended(idle), Ended(SetAttention(st)), Ended(waits)}
    BY <1>6 DEF StallStatusInactive, StallStatusWaiting
  <2> HIDE DEF st, idle, waits
  <2> QED BY <1>3, <1>4, <2>1, <2>2
<1>7. ASSUME StallInterruptAnswered \/ StallNotTerminal PROVE s'.pending = s.pending
  <2> DEFINE taken == TakeWaiters(s, {sg.turn})
             kept == [taken EXCEPT !.watchdogInterrupted =
                            IF sg.answer = "timeout" THEN @ ELSE @ \ {sg.turn}]
  <2>1. taken \in SupervisorType /\ taken.pending = s.pending
    BY <1>1, TakeWaitersType, SameEntriesMethods
  <2> HIDE DEF taken
  <2>2. kept \in SupervisorType /\ kept.pending = taken.pending
    BY <2>1 DEF SupervisorType
  <2>3. s' \in {s, Ended(FailStall(kept)), Ended(FailStall(taken))}
    BY <1>7 DEF StallInterruptAnswered, StallNotTerminal, taken
  <2> HIDE DEF kept
  <2> QED BY <1>3, <1>4, <2>1, <2>2, <2>3
<1>8. ASSUME StallTurnStarted PROVE s'.pending = s.pending
  <2>1. sg.started \in Turn
    BY <1>8, Turns DEF StallTurnStarted, TypeInv, TypeOK, StallType
  <2>2. TurnRunning(s, sg.started) \in SupervisorType
    BY <1>1, <2>1, TurnRunningType
  <2> QED BY <1>1, <1>3, <1>8, <2>2, SameEntriesMethods DEF StallTurnStarted
<1>9. ASSUME \/ StallSuspected \/ StallConfirmed \/ StallAnnounce \/ StallRegister
             \/ StallMark
      PROVE  s'.pending = s.pending
  BY <1>1, <1>9 DEF StallSuspected, StallConfirmed, StallAnnounce, StallRegister,
                    StallMark, SupervisorType
<1>10. ASSUME StallReadAnswered \/ StallStatusActive \/ StallInterrupt \/ StallSubmit
       PROVE  s'.pending = s.pending
  BY <1>10 DEF StallReadAnswered, StallStatusActive, StallInterrupt, StallSubmit
<1>11. s'.pending = s.pending
  BY <1>5, <1>6, <1>7, <1>8, <1>9, <1>10 DEF StallTick, StallStep
<1> QED BY <1>2, <1>11, KeepsSettles

\* A pause and the shutdown drop every entry.
LEMMA RemoteSettles ==
    ASSUME TypeInv, \/ Remote \/ Shutdown \/ \E t \in Turn : PausedInterrupt(t)
    PROVE  Settles
<1>1. s \in SupervisorType
  BY DEF TypeInv, TypeOK
<1>2. CASE RemotePause \/ Shutdown
  <2> DEFINE dropped == DropPending(s, Turn)
             c == CancelRecovery(TakeWaiters(dropped, Turn))
  <2>1. dropped \in SupervisorType /\ Drops(s, dropped)
    BY <1>1, DropPendingType, DroppingMethods
  <2> HIDE DEF dropped
  <2>2. c \in SupervisorType /\ c.pending = dropped.pending
    BY <2>1, TakeWaitersType, CancelRecoveryType, SameEntriesMethods
  <2>3. s' \in {[c EXCEPT !.manualPaused = TRUE, !.phase = "paused",
                          !.stallCurrent = FALSE],
                [c EXCEPT !.shuttingDown = TRUE, !.stallCurrent = FALSE,
                          !.watchdogInterrupted = {}, !.phase = "stopped"]}
    BY <1>2 DEF RemotePause, PauseAccepted, Shutdown, dropped
  <2> HIDE DEF c
  <2>4. s'.pending = dropped.pending
    BY <2>2, <2>3 DEF SupervisorType
  <2>5. Drops(s, s')
    BY <2>1, <2>4 DEF Drops
  <2>6. chk' = NotifyChecks(s, Turn, "cancelled")
    BY <1>2 DEF RemotePause, Shutdown
  <2> QED BY <2>5, <2>6, NotifiesSettles
<1>3. ASSUME NEW t \in Turn, PausedInterrupt(t) PROVE Settles
  <2>1. s'.pending = s.pending /\ chk' = chk
    BY <1>1, <1>3 DEF PausedInterrupt, PausedInterruptRequest, PausedInterruptAnswered,
                      SupervisorType
  <2> QED BY <2>1, KeepsSettles
<1>4. CASE Remote /\ ~RemotePause
  <2>1. chk' = chk
    BY <1>4 DEF Remote, Command, RemotePauseAnswered, RemoteResume, RemotePromptSteers,
         RemoteSteerAnswered, RemotePromptStarts, RemotePrompt, ContinuationGoal,
         ContinuationGoalSet, ContinuationSubmit, ContinuationFails, ContinuationStarted
  <2>2. ASSUME ContinuationStarted PROVE s'.pending = s.pending
    <3>1. rc.started \in Turn
      BY <2>2, Turns DEF ContinuationStarted, TypeInv, TypeOK, RemoteType
    <3>2. TurnRunning(s, rc.started) \in SupervisorType
      BY <1>1, <3>1, TurnRunningType
    <3>3. \E ph : s' = [TurnRunning(s, rc.started) EXCEPT !.phase = ph]
      BY <2>2 DEF ContinuationStarted
    <3> QED BY <1>1, <3>2, <3>3, SameEntriesMethods
  <2>3. ASSUME RemotePauseAnswered \/ RemoteSteerAnswered \/ ContinuationGoalSet
               \/ ContinuationFails
        PROVE  s'.pending = s.pending
    BY <1>1, <2>3 DEF RemotePauseAnswered, RemoteSteerAnswered, ContinuationGoalSet,
                      ContinuationFails, SupervisorType
  <2>4. ASSUME RemoteResume \/ RemotePrompt PROVE s'.pending = s.pending
    <3>1. s' \in {FreshAttempt(s), [s EXCEPT !.manualPaused = FALSE]}
      BY <2>4 DEF RemoteResume, RemotePrompt
    <3> QED BY <1>1, <3>1, SameEntriesMethods DEF SupervisorType
  <2>5. ASSUME s' = s PROVE s'.pending = s.pending
    BY <2>5
  <2>6. s'.pending = s.pending
    BY <1>4, <2>2, <2>3, <2>4, <2>5
       DEF Remote, Command, RemotePromptSteers, RemotePromptStarts, ContinuationGoal,
           ContinuationSubmit
  <2> QED BY <2>1, <2>6, KeepsSettles
<1> QED BY <1>2, <1>3, <1>4

\* The reconciliation of an error.
LEMMA CheckSettles ==
    ASSUME TypeInv, Entries, NEW t \in Turn, Check(t)
    PROVE  Settles \/ Renews(t)
<1>1. s \in SupervisorType /\ chk \in [Turn -> CheckType]
  BY DEF TypeInv, TypeOK
<1>2. \A u \in Turn : Sound(s.pending[u]) /\ (chk[u].pc # "off" => chk[u].generation # 0)
  BY DEF Entries
<1>3. ASSUME Drops(s, s'), CheckEnds(t) PROVE Settles
  BY <1>1, <1>3 DEF Settles, CheckEnds, Reading, NoCheck
<1>4. ASSUME s'.pending = s.pending, CheckEnds(t) PROVE Settles
  BY <1>3, <1>4 DEF Drops
<1>5. CASE GraceExpiresSuperseded(t)
  <2>1. Drops(s, s') /\ chk' = chk
    BY <1>1, <1>5, DroppingMethods DEF GraceExpiresSuperseded
  <2> QED BY <2>1 DEF Settles, Reading
<1>6. CASE GraceExpiresInactive(t) \/ GraceExpiresBusy(t) \/ GraceExpires(t)
  <2>1. chk[t].pc = "off" /\ s.pending[t].generation # 0
    <3>1. chk[t].pc = "off" /\ s.pending[t].timer = "running"
      BY <1>6 DEF GraceExpiresInactive, GraceExpiresBusy, GraceExpires, Fires, CheckAt
    <3> QED BY <1>2, <3>1 DEF Sound, NoPending
  <2>2. \A u \in Turn \ {t} : s'.pending[u] = s.pending[u]
    BY <1>1, <1>6 DEF GraceExpiresInactive, GraceExpiresBusy, GraceExpires, ArmPending,
                      SupervisorType
  <2>3. CASE GraceExpires(t)
    <3>1. /\ chk' = [chk EXCEPT ![t] = [NoCheck EXCEPT
                    !.pc = "read", !.generation = s.pending[t].generation]]
          /\ s' = [s EXCEPT !.pending[t].timer = "none"]
      BY <2>3 DEF GraceExpires
    <3>2. /\ chk'[t].generation = s.pending[t].generation
          /\ \A u \in Turn \ {t} : chk'[u] = chk[u]
      BY <1>1, <3>1 DEF NoCheck
    <3>3. /\ s'.pending[t].generation = s.pending[t].generation
          /\ s'.pending[t].timer = "none"
      BY <1>1, <3>1 DEF SupervisorType, PendingError
    <3> QED BY <2>1, <2>2, <3>2, <3>3 DEF Renews
  <2>4. CASE chk' = chk
    BY <2>1, <2>2, <2>4 DEF Renews, Reading
  <2> QED BY <1>6, <2>3, <2>4 DEF GraceExpiresInactive, GraceExpiresBusy
<1>7. CASE ReadAnswered(t)
  <2>1. PICK status \in ReadOutcomes :
          chk' = [chk EXCEPT ![t].status = status,
                  ![t].pc = IF @ = "read" THEN "status" ELSE "restatus"]
    BY <1>7 DEF ReadAnswered
  <2>2. chk[t].pc \in {"read", "reread"} /\ s' = s
    BY <1>7 DEF ReadAnswered, CheckAt
  <2>3. /\ chk'[t].pc = IF chk[t].pc = "read" THEN "status" ELSE "restatus"
        /\ chk'[t].generation = chk[t].generation
        /\ \A u \in Turn \ {t} : chk'[u] = chk[u]
    BY <1>1, <2>1 DEF CheckType
  <2>4. \A u \in Turn : u = t \/ u \in Turn \ {t}
    OBVIOUS
  <2> QED BY <2>2, <2>3, <2>4 DEF Settles, Drops, Reading
<1>8. CASE CheckRejected(t)
  <2>1. s' \in {s, FailPending(s, t, chk[t].generation)} /\ CheckEnds(t)
    BY <1>8 DEF CheckRejected
  <2> QED BY <1>1, <1>4, <2>1, SameEntriesMethods
<1>9. CASE CheckWaiting(t)
  <2> DEFINE st == CancelPending(s, t)
  <2>1. s' = [st EXCEPT !.phase = "waiting-for-user"] /\ CheckEnds(t)
    BY <1>9 DEF CheckWaiting
  <2>2. st \in SupervisorType /\ Drops(s, st)
    BY <1>1, CancelPendingType, DroppingMethods
  <2> HIDE DEF st
  <2>3. Drops(s, s')
    BY <2>1, <2>2, SameEntriesMethods DEF Drops
  <2> QED BY <1>3, <2>1, <2>3
<1>10. ASSUME RecoverWithoutTerminal(t), CheckEnds(t) PROVE Settles
  <2>1. WithoutTerminal(s, t) \in SupervisorType /\ Drops(s, WithoutTerminal(s, t))
    BY <1>1, RecoveredType, DroppingMethods
  <2>2. s'.pending = WithoutTerminal(s, t).pending
    BY <1>10, <2>1, SameEntriesMethods DEF RecoverWithoutTerminal
  <2>3. Drops(s, s')
    BY <2>1, <2>2 DEF Drops
  <2> QED BY <1>3, <1>10, <2>3
<1>11. CASE CheckInactive(t)
  BY <1>10, <1>11 DEF CheckInactive
<1>12. CASE CheckInterrupt(t)
  <2>1. PICK o \in InterruptOutcomes(t) :
          chk' = [chk EXCEPT ![t].pc = "interrupt", ![t].answer = o.answer]
    BY <1>12 DEF CheckInterrupt
  <2>2. chk'[t].pc = "interrupt" /\ \A u \in Turn \ {t} : chk'[u] = chk[u]
    BY <1>1, <2>1 DEF CheckType
  <2>3. s.pending[t].generation # 0
    BY <1>2, <1>12 DEF CheckInterrupt, CheckUsable, CheckAt, Valid
  <2>4. \A u \in Turn \ {t} : s'.pending[u] = s.pending[u]
    BY <1>1, <1>12 DEF CheckInterrupt, SupervisorType
  <2> QED BY <2>2, <2>3, <2>4 DEF Renews, Reading
<1>13. CASE CheckInterruptAnswered(t)
  <2>1. TakeWaiters(s, {t}) \in SupervisorType
    BY <1>1, TakeWaitersType
  <2>2. \/ CheckGoto(t, "wait") /\ s' = s /\ chk[t].pc = "interrupt"
        \/ s' = FailPending(TakeWaiters(s, {t}), t, 0) /\ CheckEnds(t)
    BY <1>13 DEF CheckInterruptAnswered, CheckAt
  <2>3. CASE CheckGoto(t, "wait") /\ s' = s /\ chk[t].pc = "interrupt"
    BY <1>1, <2>3 DEF CheckGoto, CheckType, Settles, Drops, Reading
  <2> QED BY <1>1, <1>4, <2>1, <2>2, <2>3, SameEntriesMethods
<1>14. CASE CheckTerminal(t)
  BY <1>4, <1>14 DEF CheckTerminal
<1>15. CASE CheckNotTerminal(t)
  <2>1. s'.pending = s.pending /\ chk[t].pc = "wait"
        /\ (CheckGoto(t, "reread") \/ CheckEnds(t))
    BY <1>1, <1>15, SameEntriesMethods DEF CheckNotTerminal, CheckAt
  <2>2. CASE CheckGoto(t, "reread")
    BY <1>1, <2>1, <2>2 DEF CheckGoto, CheckType, Settles, Drops, Reading
  <2> QED BY <1>4, <2>1, <2>2
<1>16. CASE Recheck(t)
  <2>1. CheckEnds(t) /\ (RecoverWithoutTerminal(t) \/ s' \in {s, FailPending(s, t, 0)})
    BY <1>16 DEF Recheck
  <2> QED BY <1>1, <1>4, <1>10, <2>1, SameEntriesMethods
<1> QED
  BY <1>5, <1>6, <1>7, <1>8, <1>9, <1>11, <1>12, <1>13, <1>14, <1>15, <1>16 DEF Check

\* The event loop.
LEMMA LoopEntries ==
    ASSUME TypeInv, EventLoop
    PROVE  \/ Settles /\ (Speaks \/ (Pops /\ ~Begins(Head(events))))
           \/ Notes
           \/ \E t \in Turn : Enters(t)
<1> DEFINE m == Head(events)
           st == SuspicionCleared(s, w, m)
<1>1. s \in SupervisorType /\ events \in Seq(Event) /\ chk \in [Turn -> CheckType]
  BY DEF TypeInv, TypeOK
<1>2. st \in SupervisorType /\ st.pending = s.pending
  BY <1>1, SuspicionClearedType, SameEntriesMethods
<1>3. ASSUME NEW kind, Receives(kind), srv' = srv
      PROVE  Pops /\ m.kind = kind
  BY <1>3 DEF Receives, Pops
<1>4. /\ Noticed(m) \in SupervisorType
      /\ \A t \in Turn :
           \/ Noticed(m).pending[t] = s.pending[t]
           \/ /\ t \in Concerned(m.turn) /\ s.pending[t].generation # 0
              /\ Noticed(m).pending[t] = Arm(s.pending[t])
  BY <1>1, <1>2, NoticedType, DeferringMethod DEF Noticed
<1> HIDE DEF st
<1>5. CASE HandleClientTurnStart
  <2>1. Drops(s, s') /\ chk' = chk
    BY <1>1, <1>5, DroppingMethods DEF HandleClientTurnStart, goroutines
  <2>2. Settles
    BY <2>1 DEF Settles, Reading
  <2>3. Pops /\ ~Begins(m)
    BY <1>5 DEF HandleClientTurnStart, Receives, Pops, Begins
  <2> QED BY <2>2, <2>3
<1>6. CASE HandleClientInterrupt
  <2> DEFINE dropped == DropPending(s, {m.turn})
             taken == TakeWaiters(dropped, {m.turn})
  <2>1. /\ s' = [taken EXCEPT !.stallCurrent = FALSE, !.watchdogInterrupted = @ \ {m.turn}]
        /\ chk' = NotifyChecks(s, {m.turn}, "cancelled")
    BY <1>6 DEF HandleClientInterrupt
  <2>2. dropped \in SupervisorType /\ Drops(s, dropped)
    BY <1>1, DropPendingType, DroppingMethods
  <2> HIDE DEF dropped
  <2>3. taken \in SupervisorType /\ taken.pending = dropped.pending
    BY <2>2, TakeWaitersType, SameEntriesMethods
  <2> HIDE DEF taken
  <2>4. s'.pending = dropped.pending
    BY <2>1, <2>3 DEF SupervisorType
  <2>5. Settles
    BY <2>1, <2>2, <2>4, NotifiesSettles DEF Drops
  <2>6. Pops /\ ~Begins(m)
    BY <1>6 DEF HandleClientInterrupt, Receives, Pops, Begins
  <2> QED BY <2>5, <2>6
<1>7. CASE HandleTurnStarted
  <2> DEFINE n == Noticed(m)
             kept == DropPending(n, Turn \ {m.turn})
  <2>1. s' = TurnRunning(kept, m.turn) /\ chk' = chk
    BY <1>7 DEF HandleTurnStarted
  <2>2. kept \in SupervisorType
    BY <1>4, DropPendingType
  <2>3. \A t \in Turn : kept.pending[t] = IF t = m.turn THEN n.pending[t] ELSE NoPending
    BY <1>4 DEF DropPending, SupervisorType
  <2>4. s'.pending = kept.pending
    BY <2>1, <2>2, SameEntriesMethods
  <2>5. Pops /\ Begins(m)
    BY <1>3, <1>7 DEF HandleTurnStarted, Begins
  <2> HIDE DEF n, kept, m
  <2> QED BY <1>4, <2>1, <2>3, <2>4, <2>5 DEF Notes, n, m
<1>8. CASE HandleActivity \/ HandleThreadStatus
  <2> DEFINE n == Noticed(m)
  <2>1. chk' = chk /\ (s' = n \/ \E ph : s' = [n EXCEPT !.phase = ph])
    BY <1>8 DEF HandleActivity, HandleThreadStatus, goroutines
  <2>2. Pops /\ ~Begins(m) /\ Weight(m) = 1
    BY <1>3, <1>8 DEF HandleActivity, HandleThreadStatus, Weight, Begins
  <2> HIDE DEF n
  <2>3. s'.pending = n.pending
    <3>1. \A ph : [n EXCEPT !.phase = ph].pending = n.pending
      BY <1>4, SameEntriesMethods DEF n
    <3> QED BY <2>1, <3>1
  <2>4. \A t \in Turn :
           \/ s'.pending[t] = s.pending[t]
           \/ s.pending[t].generation # 0 /\ s'.pending[t] = Arm(s.pending[t])
    BY <1>4, <2>3 DEF n
  <2> QED BY <2>1, <2>2, <2>4 DEF Notes
<1>9. CASE HandleTurnError
  <2>1. s' = TurnError(st, m) /\ chk' = chk /\ Pops /\ m.kind = "error" /\ ~Begins(m)
    BY <1>3, <1>9 DEF HandleTurnError, goroutines, st, Begins
  <2>2. m.turn \in Turn /\ m.detail \in {"", "retry", "final"}
    <3>1. m \in Event
      BY <1>1, <2>1 DEF Pops
    <3> HIDE DEF m
    <3> QED BY <2>1, <3>1 DEF Event, ThreadMessages
  <2>3. ASSUME s'.pending = s.pending PROVE Settles
    BY <2>1, <2>3, KeepsSettles
  <2>4. CASE s' = st
    BY <1>2, <2>1, <2>3, <2>4
  <2>5. CASE s' = CancelPending(st, m.turn)
    <3>1. Drops(s, s')
      BY <1>2, <2>2, <2>5, DroppingMethods DEF Drops
    <3> QED BY <2>1, <3>1 DEF Settles, Reading
  <2>6. CASE s' = SchedulePending(st, m.turn) /\ m.detail # "retry"
    <3>1. \A u \in Turn \ {m.turn} : s'.pending[u] = st.pending[u]
      BY <1>2, <2>2, <2>6 DEF SchedulePending, SupervisorType
    <3> QED BY <1>2, <2>1, <2>2, <2>6, <3>1 DEF Enters, Final
  <2> QED BY <2>1, <2>4, <2>5, <2>6 DEF TurnError
<1>10. CASE HandleTurnCompleted
  <2> DEFINE dropped == DropPending(st, {m.turn})
             taken == TakeWaiters(dropped, {m.turn})
  <2>1. \/ s' = st /\ chk' = chk
        \/ \E status :
            /\ s' = [taken EXCEPT !.handledTurns = @ \cup {m.turn},
                         !.watchdogInterrupted = @ \ {m.turn},
                         !.activeTurn = None]
            /\ chk' = NotifyChecks(s, {m.turn}, status)
    BY <1>10 DEF HandleTurnCompleted, st
  <2>2. dropped \in SupervisorType /\ Drops(st, dropped)
    BY <1>2, DropPendingType, DroppingMethods
  <2> HIDE DEF dropped
  <2>3. taken \in SupervisorType /\ taken.pending = dropped.pending
    BY <2>2, TakeWaitersType, SameEntriesMethods
  <2> HIDE DEF taken
  <2>4. ASSUME s' = st, chk' = chk PROVE Settles
    BY <1>2, <2>4, KeepsSettles
  <2>5. ASSUME NEW status,
               s' = [taken EXCEPT !.handledTurns = @ \cup {m.turn},
                         !.watchdogInterrupted = @ \ {m.turn},
                         !.activeTurn = None],
               chk' = NotifyChecks(s, {m.turn}, status)
        PROVE  Settles
    <3>1. s'.pending = dropped.pending
      BY <2>3, <2>5 DEF SupervisorType
    <3> QED BY <1>2, <2>2, <2>5, <3>1, NotifiesSettles DEF Drops
  <2>6. Pops /\ ~Begins(m)
    BY <1>10 DEF HandleTurnCompleted, Receives, Pops, Begins
  <2> QED BY <2>1, <2>4, <2>5, <2>6
<1>11. ASSUME s'.pending = s.pending, chk' = chk, events' = events, srv' = srv
       PROVE  Settles /\ Speaks
  BY <1>11, KeepsSettles, StaysSpeaks
<1>12. CASE TurnCompleted
  <2> DEFINE c == CancelRecovery(s)
             ended == [c EXCEPT !.stallCurrent = FALSE, !.cyberAttempts = 0,
                                !.autoResumes = 0, !.stallResumes = 0]
  <2>1. c \in SupervisorType /\ c.pending = s.pending
    BY <1>1, CancelRecoveryType, SameEntriesMethods
  <2>2. s' \in {PausedRecord(ended), [ended EXCEPT !.phase = "idle"]}
    BY <1>12 DEF TurnCompleted
  <2> HIDE DEF c
  <2>3. s'.pending = s.pending
    BY <2>1, <2>2 DEF PausedRecord, SupervisorType
  <2>4. chk' = chk /\ events' = events /\ srv' = srv
    BY <1>12 DEF TurnCompleted, goroutines
  <2> QED BY <1>11, <2>3, <2>4
<1>13. CASE TurnInterrupted
  <2> DEFINE c == CancelRecovery(s)
             over == [c EXCEPT !.cyberAttempts = 0]
             down == [over EXCEPT !.phase = "provider-down"]
             ended == [over EXCEPT !.phase = "idle", !.stallCurrent = FALSE,
                                 !.autoResumes = 0, !.stallResumes = 0]
  <2>1. c \in SupervisorType /\ c.pending = s.pending
    BY <1>1, CancelRecoveryType, SameEntriesMethods
  <2>2. s' \in {PausedRecord(over), [over EXCEPT !.phase = "resuming"],
                SetAttention(over), ended, StartRecovery(down, ev.turn)}
    BY <1>13 DEF TurnInterrupted
  <2> HIDE DEF c
  <2>3. over \in SupervisorType /\ over.pending = s.pending
    <3>1. 0 \in 0 .. 3
      OBVIOUS
    <3> QED BY <2>1, <3>1, Zenon DEF SupervisorType
  <2> HIDE DEF over
  <2>4. down \in SupervisorType /\ down.pending = s.pending /\ ended.pending = s.pending
    BY <2>3 DEF SupervisorType, Phases
  <2> HIDE DEF down, ended
  <2>5. s'.pending = s.pending
    <3>1. /\ PausedRecord(over).pending = s.pending
          /\ [over EXCEPT !.phase = "resuming"].pending = s.pending
          /\ SetAttention(over).pending = s.pending
      BY <2>3, SameEntriesMethods
    <3>2. StartRecovery(down, ev.turn).pending = s.pending
      BY <2>4, SameEntriesMethods
    <3> QED BY <2>2, <2>4, <3>1, <3>2
  <2>6. chk' = chk /\ events' = events /\ srv' = srv
    BY <1>13 DEF TurnInterrupted
  <2> QED BY <1>11, <2>5, <2>6
<1>14. CASE TurnFailed
  <2>1. s' \in {s, PausedRecord(CancelRecovery(s)), StartRecovery(s, ev.turn)}
    BY <1>14 DEF TurnFailed
  <2>2. s'.pending = s.pending
    BY <1>1, <2>1, CancelRecoveryType, SameEntriesMethods
  <2>3. chk' = chk /\ events' = events /\ srv' = srv
    BY <1>14 DEF TurnFailed
  <2> QED BY <1>11, <2>2, <2>3
<1>15. CASE EventLoopStops
  <2>1. s' = s /\ chk' = chk /\ events' = events /\ srv' = srv
    BY <1>15 DEF EventLoopStops, goroutines
  <2> QED BY <1>11, <2>1
<1> QED
  BY <1>5, <1>6, <1>7, <1>8, <1>9, <1>10, <1>12, <1>13, <1>14, <1>15 DEF EventLoop

\* Every step does one of these.
EntryEffect ==
    \/ Settles /\ (Speaks \/ (Pops /\ ~Begins(Head(events))))
    \/ Notes
    \/ \E t \in Turn : Enters(t) \/ (Renews(t) /\ Speaks)

\* So does every step: it settles, notes a message, or makes or renews an entry.
LEMMA StepEntries ==
    ASSUME TypeInv, Entries, [Next]_vars
    PROVE  EntryEffect
<1>1. CASE UNCHANGED vars \/ Quiescent
  BY <1>1, KeepsSettles, StaysSpeaks DEF EntryEffect, Quiescent, vars
<1>2. CASE Environment
  <2>1. s' = s /\ chk' = chk
    BY <1>2 DEF Environment, UserStartsTurn, UserInterrupts, ServerActivity,
                ServerWaits, ServerError, ServerCompletes, ServerEndsSilently,
                ServerContinuesGoal, goroutines
  <2> QED BY <1>2, <2>1, KeepsSettles, EnvironmentSpeaks DEF EntryEffect
<1>3. CASE EventLoop
  BY <1>3, LoopEntries DEF EntryEffect
<1>4. ASSUME NEW t \in Turn, Recovery(t) \/ Cyber(t) \/ PausedInterrupt(t)
      PROVE  EntryEffect
  BY <1>4, RecoverySettles, RemoteSettles, RecoveryQueue, CyberQueue, CheckQueue
     DEF EntryEffect
<1>5. ASSUME NEW t \in Turn, Check(t) PROVE EntryEffect
  BY <1>5, CheckSettles, CheckQueue DEF EntryEffect
<1>6. CASE StallTick \/ StallStep
  BY <1>6, StallSettles, StallQueue DEF EntryEffect
<1>7. CASE Remote \/ Shutdown
  BY <1>7, RemoteSettles, RemoteQueue DEF EntryEffect
<1> QED BY <1>1, <1>2, <1>3, <1>4, <1>5, <1>6, <1>7 DEF Next, Goroutine

-----------------------------------------------------------------------------
(* The grace period of a terminal error.                                   *)

\* The app-server says a turn's final error once.
SaysOnce == "errorAgain" \notin Inputs

\* m makes an entry of turn t.
FinalOf(m, t) == Final(m) /\ m.turn = t

\* After the i-th message nothing makes an entry of turn t or begins turn t.
After(i, t) ==
    /\ t <= srv.next /\ (srv.active = t => srv.errored)
    /\ \A j \in i + 1 .. Len(events) :
        /\ ~FinalOf(events[j], t)
        /\ Begins(events[j]) => events[j].turn > t

\* Turn t has an entry, or a goroutine that reconciles it.
Has(t) == s.pending[t].generation # 0 \/ chk[t].pc # "off"

\* An entry is made once.
Once(t) ==
    /\ Has(t) => After(0, t)
    /\ \A i \in 1 .. Len(events) : FinalOf(events[i], t) => After(i, t)

\* An entry whose status is being read has been armed k times since, by messages
\* that are gone: its turn's activity leaves room for them.
Delay(t) ==
    Reading(t) /\ s.pending[t].generation # 0 =>
        \E k \in 0 .. MaxActivity :
            /\ Slack(events, srv.activity, k)
            /\ s.pending[t].generation = Later(chk[t].generation, k)
            /\ s.pending[t].timer = "running" => k > 0

\* The inductive invariant.
GraceInv ==
    /\ CoreInv /\ InOrder /\ Slack(events, srv.activity, 0)
    /\ \A t \in Turn : Once(t) /\ Delay(t)

\* The room that is left stays when something is said ...
LEMMA SlackSpeaks ==
    ASSUME TypeInv, TypeInv', Speaks, NEW n \in Nat, Slack(events, srv.activity, n)
    PROVE  Slack(events', srv'.activity, n)
<1>1. /\ events \in Seq(Event) /\ srv \in ServerType
      /\ srv.activity \in 0 .. MaxActivity /\ srv'.activity \in 0 .. MaxActivity
  BY DEF TypeInv, TypeOK, ServerType
<1>2. CASE events' = events /\ srv'.activity = srv.activity
  BY <1>2
<1>3. ASSUME NEW m \in Event, Says(m) PROVE Slack(events', srv'.activity, n)
  <2>1. srv.activity + Weight(m) <= srv'.activity
    BY <1>1, <1>3, Weights, ConstantsAssumption DEF Says
  <2> QED BY <1>1, <1>3, <2>1, SlackAppend DEF Says
<1>4. CASE Starting
  <2> DEFINE a == UserStart
             b == TurnStarted(srv.next + 1)
  <2>1. a \in Event /\ b \in Event /\ Begins(b) /\ Weight(a) = 0
    BY <1>4, StartingMessages DEF Begins, Weight
  <2>2. PICK q \in {events, Append(events, a)} : events' = Append(q, b)
    BY <1>4 DEF Starting
  <2> HIDE DEF a, b
  <2>3. srv.activity + Weight(a) <= srv.activity
    BY <1>1, <2>1, ConstantsAssumption
  <2>4. q \in Seq(Event) /\ Slack(q, srv.activity, n)
    <3>1. Slack(Append(events, a), srv.activity, n)
      BY <1>1, <2>1, <2>3, SlackAppend
    <3> QED BY <1>1, <2>1, <2>2, <3>1, OneMore
  <2> QED BY <1>1, <2>1, <2>2, <2>4, SlackAppend
<1> QED BY <1>2, <1>3, <1>4 DEF Speaks

\* ... and is what the messages that are taken leave.
LEMMA SlackPops ==
    ASSUME TypeInv, Pops, NEW n \in Nat, Slack(events, srv.activity, n)
    PROVE  /\ Slack(events', srv'.activity, 0)
           /\ ~Begins(Head(events)) =>
                Slack(events', srv'.activity, n + Weight(Head(events)))
<1>1. /\ events \in Seq(Event) /\ events # <<>> /\ srv.activity \in 0 .. MaxActivity
      /\ events' = Tail(events) /\ srv' = srv
  BY DEF TypeInv, TypeOK, ServerType, Pops
<1> QED BY <1>1, SlackTail

\* Who has an entry, or had its error announced, keeps what After says of it when something
\* is said ...
LEMMA AfterSpeaks ==
    ASSUME TypeInv, TypeInv', InOrder, SaysOnce, Speaks, NEW t \in Turn,
           NEW i \in 0 .. Len(events), After(i, t)
    PROVE  After(i, t)'
<1>1. /\ events \in Seq(Event) /\ events' \in Seq(Event)
      /\ Len(events) \in Nat /\ srv \in ServerType /\ srv' \in ServerType
      /\ t \in Int /\ None < t /\ srv.next \in Int /\ i \in Nat
  BY ServerNumbers, Numbers DEF TypeInv, TypeOK
<1>2. CASE events' = events /\ GoesOn
  BY <1>1, <1>2, Turns DEF GoesOn, After
<1>3. ASSUME NEW m \in Event, Says(m) PROVE After(i, t)'
  <2>1. /\ Len(events') = Len(events) + 1 /\ events'[Len(events) + 1] = m
        /\ \A j \in 1 .. Len(events) : events'[j] = events[j]
    BY <1>1, <1>3, Appended DEF Says
  <2>2. t <= srv'.next /\ (srv'.active = t => srv'.errored)
    BY <1>1, <1>3, Turns DEF Says, GoesOn, After
  <2>3. ~FinalOf(m, t) /\ ~Begins(m)
    BY <1>3, Turns DEF Says, FinalOf, After, SaysOnce
  <2>4. ASSUME NEW j \in i + 1 .. Len(events')
        PROVE  ~FinalOf(events'[j], t) /\ (Begins(events'[j]) => events'[j].turn > t)
    <3>1. j \in i + 1 .. Len(events) \/ j = Len(events) + 1
      BY <1>1, <2>1
    <3>2. j \in i + 1 .. Len(events) => j \in 1 .. Len(events)
      BY <1>1
    <3> QED BY <2>1, <2>3, <3>1, <3>2 DEF After
  <2> QED BY <2>2, <2>4 DEF After
<1>4. CASE Starting
  <2> DEFINE a == UserStart
             b == TurnStarted(srv.next + 1)
  <2>1. /\ a \in Event /\ ~Begins(a) /\ ~Final(a)
        /\ b \in Event /\ ~Final(b) /\ b.turn = srv.next + 1
    BY <1>4, StartingMessages DEF Begins, Final
  <2>2. PICK q \in {events, Append(events, a)} : events' = Append(q, b) /\ srv' = StartedServer
    BY <1>4 DEF Starting
  <2> HIDE DEF a, b
  <2>3. /\ q \in Seq(Event) /\ Len(q) \in {Len(events), Len(events) + 1}
        /\ \A j \in 1 .. Len(events) : q[j] = events[j]
        /\ Len(q) = Len(events) + 1 => q[Len(events) + 1] = a
    BY <1>1, <2>1, <2>2, OneMore
  <2>4. /\ Len(events') = Len(q) + 1
        /\ \A j \in 1 .. Len(q) : events'[j] = q[j]
        /\ events'[Len(q) + 1] = b
    BY <2>1, <2>2, <2>3, Appended
  <2>5. \A j \in i + 1 .. Len(events') :
          \/ j \in i + 1 .. Len(events) /\ events'[j] = events[j]
          \/ events'[j] \in {a, b}
    BY <1>1, <2>3, <2>4
  <2>6. srv'.active = srv.next + 1 /\ srv'.next = srv.next + 1
    BY <2>2, StartedNumbers
  <2>7. t <= srv.next
    BY DEF After
  <2>8. t <= srv'.next /\ srv'.active # t /\ b.turn > t
    BY <1>1, <2>1, <2>6, <2>7
  <2>9. ASSUME NEW j \in i + 1 .. Len(events')
        PROVE  ~FinalOf(events'[j], t) /\ (Begins(events'[j]) => events'[j].turn > t)
    BY <2>1, <2>5, <2>8 DEF After, FinalOf
  <2> QED BY <2>8, <2>9 DEF After
<1> QED BY <1>2, <1>3, <1>4 DEF Speaks

\* ... and when a message is taken.
LEMMA AfterPops ==
    ASSUME TypeInv, Pops, NEW t \in Turn, NEW i \in Nat, After(i, t)
    PROVE  After(i, t)' /\ \A n \in Nat : i = n + 1 => After(n, t)'
<1>1. events \in Seq(Event) /\ events # <<>> /\ events' = Tail(events) /\ srv' = srv
  BY DEF TypeInv, TypeOK, Pops
<1>2. /\ Len(events) \in Nat /\ Len(events') = Len(events) - 1
      /\ \A j \in 1 .. Len(events) - 1 : events'[j] = events[j + 1]
  BY <1>1, Popped
<1>3. ASSUME NEW n \in Nat, i <= n + 1 PROVE After(n, t)'
  <2>1. \A j \in n + 1 .. Len(events') :
            j + 1 \in i + 1 .. Len(events) /\ events'[j] = events[j + 1]
    BY <1>2, <1>3
  <2> QED BY <1>1, <2>1 DEF After
<1> QED BY <1>3

\* An entry is made once: whatever a step does, no message makes another.
LEMMA OnceKept ==
    ASSUME CoreInv, InOrder, TypeInv', SaysOnce, EntryEffect, NEW t \in Turn, Once(t)
    PROVE  Once(t)'
<1>1. /\ TypeInv /\ InOrder /\ Once(t) /\ Entries
      /\ events \in Seq(Event) /\ events' \in Seq(Event)
      /\ Len(events) \in Nat /\ Len(events') \in Nat
      /\ srv \in ServerType /\ srv' \in ServerType
  BY DEF CoreInv, TypeInv, TypeOK
<1>2. ASSUME Has(t)', ~Has(t) PROVE Enters(t)
  <2>1. s.pending[t].generation = 0 /\ chk[t].pc = "off"
    BY <1>2 DEF Has
  <2>2. ~Settles
    BY <1>2, <2>1 DEF Has, Settles, Drops, NoPending
  <2>3. ~Notes
    BY <1>2, <2>1 DEF Has, Notes, NoPending
  <2>4. ASSUME NEW u \in Turn, Renews(u) PROVE FALSE
    BY <1>2, <2>1, <2>4 DEF Renews, Has
  <2>5. PICK u \in Turn : Enters(u)
    BY <2>2, <2>3, <2>4 DEF EntryEffect
  <2> QED BY <1>2, <2>1, <2>5 DEF Enters, Has
<1>3. CASE Speaks
  <2>1. 0 \in 0 .. Len(events)
    BY <1>1
  <2>2. ASSUME Has(t)', Has(t) PROVE After(0, t)'
    BY <1>1, <1>3, <2>1, <2>2, AfterSpeaks DEF Once
  <2>3. Has(t)' => Has(t) \/ Pops
    BY <1>2 DEF Enters
  <2>4. ASSUME NEW i \in 1 .. Len(events'), FinalOf(events'[i], t) PROVE After(i, t)'
    <3>1. CASE i \in 1 .. Len(events) /\ events'[i] = events[i]
      <4>1. After(i, t)
        BY <1>1, <2>4, <3>1 DEF Once
      <4>2. i \in 0 .. Len(events)
        BY <3>1
      <4> QED BY <1>1, <1>3, <4>1, <4>2, AfterSpeaks
    <3>2. CASE events' = events
      BY <3>1, <3>2
    <3>3. ASSUME NEW m \in Event, Says(m), ~(i \in 1 .. Len(events) /\ events'[i] = events[i])
          PROVE  After(i, t)'
      <4>1. /\ Len(events') = Len(events) + 1 /\ events'[Len(events) + 1] = m
            /\ \A j \in 1 .. Len(events) : events'[j] = events[j]
        BY <1>1, <3>3, Appended DEF Says
      <4>2. i = Len(events') /\ FinalOf(m, t)
        BY <1>1, <2>4, <3>3, <4>1
      <4>3. srv.active = t /\ srv'.errored /\ srv'.next = srv.next
        BY <3>3, <4>2, Turns DEF Says, GoesOn, FinalOf
      <4>4. t <= srv'.next
        BY <1>1, <4>3 DEF InOrder
      <4>5. \A j \in i + 1 .. Len(events') : FALSE
        BY <1>1, <4>2
      <4> QED BY <4>3, <4>4, <4>5 DEF After
    <3>4. ASSUME Starting, ~(i \in 1 .. Len(events) /\ events'[i] = events[i])
          PROVE  FALSE
      <4> DEFINE a == UserStart
                 b == TurnStarted(srv.next + 1)
      <4>1. a \in Event /\ ~Final(a) /\ b \in Event /\ ~Final(b)
        BY <1>1, <3>4, StartingMessages DEF Final
      <4>2. PICK q \in {events, Append(events, a)} : events' = Append(q, b)
        BY <3>4 DEF Starting
      <4> HIDE DEF a, b
      <4>3. /\ q \in Seq(Event) /\ Len(q) \in {Len(events), Len(events) + 1}
            /\ \A j \in 1 .. Len(events) : q[j] = events[j]
            /\ Len(q) = Len(events) + 1 => q[Len(events) + 1] = a
        BY <1>1, <4>1, <4>2, OneMore
      <4>4. /\ Len(events') = Len(q) + 1
            /\ \A j \in 1 .. Len(q) : events'[j] = q[j]
            /\ events'[Len(q) + 1] = b
        BY <4>1, <4>2, <4>3, Appended
      <4>5. events'[i] \in {a, b}
        BY <1>1, <3>4, <4>3, <4>4
      <4> QED BY <2>4, <4>1, <4>5 DEF FinalOf
    <3> QED BY <1>3, <3>1, <3>2, <3>3, <3>4 DEF Speaks
  <2>5. Pops => After(0, t)' \/ ~Has(t)'
    <3>1. Pops => Speaks /\ events # <<>> /\ Len(events') = Len(events) - 1
      BY <1>1, <1>3, Popped DEF Pops
    <3>2. Speaks => Len(events) <= Len(events')
      BY <1>1, SpeaksGrows DEF Grows
    <3> QED BY <1>1, <3>1, <3>2
  <2> QED BY <2>2, <2>3, <2>4, <2>5 DEF Once
<1>4. CASE Pops
  <2>1. /\ events # <<>> /\ Len(events) # 0 /\ Len(events') = Len(events) - 1
        /\ Head(events) = events[1]
        /\ \A j \in 1 .. Len(events) - 1 : events'[j] = events[j + 1]
    BY <1>1, <1>4, Popped DEF Pops
  <2>2. ASSUME NEW i \in 1 .. Len(events'), FinalOf(events'[i], t) PROVE After(i, t)'
    <3>1. i + 1 \in 1 .. Len(events) /\ events'[i] = events[i + 1] /\ i \in Nat /\ i + 1 \in Nat
      BY <1>1, <2>1
    <3>2. After(i + 1, t)
      BY <1>1, <2>2, <3>1 DEF Once
    <3> QED BY <1>1, <1>4, <3>1, <3>2, AfterPops
  <2>3. ASSUME Has(t)', Has(t) PROVE After(0, t)'
    BY <1>1, <1>4, <2>3, AfterPops DEF Once
  <2>4. ASSUME Has(t)', ~Has(t) PROVE After(0, t)'
    <3>1. FinalOf(events[1], t) /\ 1 \in 1 .. Len(events)
      BY <1>1, <1>2, <2>1, <2>4 DEF Enters, FinalOf
    <3>2. After(1, t)
      BY <1>1, <3>1 DEF Once
    <3> QED BY <1>1, <1>4, <3>2, AfterPops
  <2> QED BY <2>2, <2>3, <2>4 DEF Once
<1> QED BY <1>3, <1>4 DEF EntryEffect, Notes, Enters

\* Generations, as far as they are apart.
LEMMA LaterNumbers ==
    ASSUME NEW g \in 1 .. MaxGeneration, NEW k \in Nat, k < MaxGeneration
    PROVE  /\ Later(g, 0) = g
           /\ Later(g, k) = g => k = 0
           /\ k + 1 < MaxGeneration => Later(Later(g, k), 1) = Later(g, k + 1)
BY ConstantsAssumption DEF Later

\* The first message neither makes an entry of a turn that has one nor begins its turn.
LEMMA NotItsTurn ==
    ASSUME TypeInv, NEW t \in Turn, Once(t), Has(t), events # <<>>
    PROVE  /\ ~FinalOf(Head(events), t)
           /\ Begins(Head(events)) => Head(events).turn # t
<1>1. events \in Seq(Event) /\ After(0, t) /\ t \in Int
  BY Numbers DEF TypeInv, TypeOK, Once
<1>2. 1 \in 0 + 1 .. Len(events) /\ Head(events) = events[1]
  BY <1>1
<1> QED BY <1>1, <1>2 DEF After

\* Between a read of the thread's status and its answer, an entry is armed by as many
\* messages at most as leave the room that was there: however many, its generation is
\* another one then.
LEMMA DelayKept ==
    ASSUME GraceInv, TypeInv', EntryEffect, MaxActivity < MaxGeneration, NEW t \in Turn
    PROVE  Delay(t)'
<1> DEFINE Owed(k) ==
             /\ Slack(events', srv'.activity, k)
             /\ s'.pending[t].generation = Later(chk'[t].generation, k)
             /\ s'.pending[t].timer = "running" => k > 0
<1> SUFFICES ASSUME Reading(t)', s'.pending[t].generation # 0
             PROVE  \E k \in 0 .. MaxActivity : Owed(k)
  BY DEF Delay
<1>1. /\ TypeInv /\ InOrder /\ Once(t) /\ Delay(t) /\ Entries
      /\ Slack(events, srv.activity, 0)
      /\ srv.activity \in 0 .. MaxActivity /\ srv'.activity \in 0 .. MaxActivity
      /\ events \in Seq(Event) /\ events' \in Seq(Event)
      /\ MaxActivity \in Nat /\ MaxGeneration \in Nat
      /\ s.pending[t] \in PendingError
      /\ chk[t].generation \in 0 .. MaxGeneration
      /\ chk'[t].generation \in 0 .. MaxGeneration
  BY ConstantsAssumption
     DEF GraceInv, CoreInv, TypeInv, TypeOK, ServerType, CheckType, SupervisorType
<1>2. Reading(t) => Has(t) /\ chk[t].generation \in 1 .. MaxGeneration
  BY <1>1 DEF Reading, Has, Entries
<1>3. ASSUME Reading(t), chk'[t] = chk[t] \/ chk'[t].generation = chk[t].generation,
             s'.pending[t] = s.pending[t], Speaks \/ (Pops /\ ~Begins(Head(events)))
      PROVE  \E k \in 0 .. MaxActivity : Owed(k)
  <2>1. PICK k \in 0 .. MaxActivity :
            /\ Slack(events, srv.activity, k)
            /\ s.pending[t].generation = Later(chk[t].generation, k)
            /\ s.pending[t].timer = "running" => k > 0
    BY <1>1, <1>3 DEF Delay
  <2>2. Slack(events', srv'.activity, k)
    <3>1. CASE Speaks
      BY <1>1, <2>1, <3>1, SlackSpeaks
    <3>2. CASE Pops /\ ~Begins(Head(events))
      <4>1. /\ k \in Nat /\ Weight(Head(events)) \in 0 .. 1
            /\ k + Weight(Head(events)) \in Nat /\ k <= k + Weight(Head(events))
        BY <1>1, Weights
      <4>2. Slack(events', srv'.activity, k + Weight(Head(events)))
        BY <1>1, <2>1, <3>2, <4>1, SlackPops
      <4> QED BY <1>1, <4>1, <4>2, SlackLess
    <3> QED BY <1>3, <3>1, <3>2
  <2>3. Owed(k)
    BY <1>3, <2>1, <2>2
  <2> QED BY <2>3
<1>4. CASE Settles /\ (Speaks \/ (Pops /\ ~Begins(Head(events))))
  <2>1. Reading(t) /\ chk'[t].generation = chk[t].generation
    BY <1>4 DEF Settles
  <2>2. s'.pending[t] = s.pending[t]
    BY <1>4 DEF Settles, Drops, NoPending
  <2> QED BY <1>3, <1>4, <2>1, <2>2
<1>5. CASE Notes
  <2> DEFINE m == Head(events)
  <2>1. Pops /\ events # <<>> /\ Reading(t) /\ chk'[t] = chk[t]
    BY <1>5 DEF Notes, Pops, Reading
  <2>2. ~(Begins(m) /\ t = m.turn)
    BY <1>1, <1>2, <2>1, NotItsTurn
  <2>3. \/ s'.pending[t] = s.pending[t] /\ ~Begins(m)
        \/ /\ s.pending[t].generation # 0 /\ s'.pending[t] = Arm(s.pending[t])
           /\ Weight(m) = 1
    BY <1>5, <2>2 DEF Notes, NoPending
  <2>4. CASE s'.pending[t] = s.pending[t] /\ ~Begins(m)
    BY <1>3, <2>1, <2>4
  <2>5. CASE /\ s.pending[t].generation # 0 /\ s'.pending[t] = Arm(s.pending[t])
             /\ Weight(m) = 1
    <3>1. PICK k \in 0 .. MaxActivity :
              /\ Slack(events, srv.activity, k)
              /\ s.pending[t].generation = Later(chk[t].generation, k)
      BY <1>1, <2>1, <2>5 DEF Delay
    <3>2. k \in Nat /\ k + 1 \in Nat /\ ~Begins(m)
      BY <1>1, <2>5, Weights
    <3>3. Slack(events', srv'.activity, k + 1)
      BY <1>1, <2>1, <2>5, <3>1, <3>2, SlackPops
    <3>4. k + 1 <= MaxActivity
      BY <1>1, <3>2, <3>3, SlackBound
    <3>5. s'.pending[t].generation = Later(s.pending[t].generation, 1)
      BY <1>1, <2>5, ArmLater
    <3>6. s'.pending[t].generation = Later(chk[t].generation, k + 1)
      <4>1. k < MaxGeneration /\ k + 1 < MaxGeneration
        BY <1>1, <3>2, <3>4
      <4>2. Later(Later(chk[t].generation, k), 1) = Later(chk[t].generation, k + 1)
        BY <1>2, <2>1, <3>2, <4>1, LaterNumbers
      <4> QED BY <3>1, <3>5, <4>2
    <3>7. k + 1 \in 0 .. MaxActivity /\ k + 1 > 0
      BY <1>1, <3>2, <3>4
    <3>8. Owed(k + 1)
      BY <2>1, <3>3, <3>6, <3>7
    <3> QED BY <3>7, <3>8
  <2> QED BY <2>3, <2>4, <2>5
<1>6. ASSUME NEW u \in Turn, Enters(u) PROVE \E k \in 0 .. MaxActivity : Owed(k)
  <2>1. Pops /\ events # <<>> /\ Reading(t) /\ chk'[t] = chk[t]
    BY <1>6 DEF Enters, Pops, Reading
  <2>2. u # t /\ ~Begins(Head(events))
    BY <1>1, <1>2, <1>6, <2>1, NotItsTurn DEF Enters, FinalOf, Final, Begins
  <2>3. s'.pending[t] = s.pending[t]
    BY <1>6, <2>2 DEF Enters
  <2> QED BY <1>3, <2>1, <2>2, <2>3
<1>7. ASSUME NEW u \in Turn, Renews(u), Speaks
      PROVE  \E k \in 0 .. MaxActivity : Owed(k)
  <2>1. CASE u = t
    <3>1. s'.pending[t].generation = chk'[t].generation /\ s'.pending[t].timer = "none"
      BY <1>7, <2>1 DEF Renews
    <3>2. Slack(events', srv'.activity, 0)
      BY <1>1, <1>7, SlackSpeaks
    <3>3. chk'[t].generation \in 1 .. MaxGeneration /\ 0 \in 0 .. MaxActivity
          /\ 0 \in Nat /\ 0 < MaxGeneration
      BY <1>1, <3>1
    <3>4. Owed(0)
      BY <3>1, <3>2, <3>3, LaterNumbers
    <3> QED BY <3>3, <3>4
  <2>2. CASE u # t
    <3>1. s'.pending[t] = s.pending[t] /\ chk'[t] = chk[t]
      BY <1>7, <2>2 DEF Renews
    <3> QED BY <1>3, <1>7, <3>1 DEF Reading
  <2> QED BY <2>1, <2>2
<1> QED BY <1>4, <1>5, <1>6, <1>7 DEF EntryEffect

\* A terminal error is interrupted or recovered only when its latest grace period is
\* over: a message that restarts it while the thread's status is being read leaves the
\* entry with another generation. (Where the app-server says a turn's final error twice,
\* a second entry starts from the first generation again, which a check of the former one
\* takes for its own; as many messages of activity as there are generations would come
\* round to the same one.)
THEOREM GraceKept ==
    ASSUME SaysOnce, MaxActivity < MaxGeneration
    PROVE  Spec => GraceRespected
<1>1. Init => GraceInv
  <2> SUFFICES ASSUME Init PROVE GraceInv
    OBVIOUS
  <2>1. InOrder
    BY Numbers DEF Init, InOrder, None, TurnOrNone
  <2>2. events = <<>> /\ srv.activity = 0 /\ Len(events) = 0
    BY DEF Init
  <2>3. Slack(events, srv.activity, 0)
    <3> DEFINE b == [i \in 1 .. 0 |-> 0]
    <3>1. b \in [1 .. Len(events) -> 0 .. MaxActivity]
      BY <2>2
    <3>2. Numbered(events, srv.activity, b)
      BY <2>2 DEF Numbered
    <3>3. 0 <= First(events, srv.activity, b)
      BY <2>2 DEF First
    <3> QED BY <3>1, <3>2, <3>3 DEF Slack
  <2>4. ASSUME NEW t \in Turn PROVE Once(t) /\ Delay(t)
    <3>1. s.pending[t].generation = 0 /\ chk[t].pc = "off"
      BY DEF Init, NoPending, NoCheck
    <3> QED BY <2>2, <3>1 DEF Once, Has, Delay, Reading
  <2> QED BY <2>1, <2>3, <2>4, InitCore DEF GraceInv
<1>2. GraceInv /\ [Next]_vars => GraceInv'
  <2> SUFFICES ASSUME GraceInv, [Next]_vars PROVE GraceInv'
    OBVIOUS
  <2>1. CoreInv' /\ TypeInv' /\ TypeInv /\ InOrder /\ Entries /\ Slack(events, srv.activity, 0)
    BY CoreKept DEF GraceInv, CoreInv
  <2>2. (Speaks \/ Pops) /\ EntryEffect
    BY <2>1, QueueEffect, StepEntries
  <2>3. InOrder'
    BY <2>1, <2>2, SpeaksGrows, InOrderGrows, InOrderPops
  <2>4. Slack(events, srv.activity, 0)'
    BY <2>1, <2>2, SlackSpeaks, SlackPops
  <2>5. \A t \in Turn : Once(t)' /\ Delay(t)'
    BY <2>1, <2>2, OnceKept, DelayKept DEF GraceInv
  <2> QED BY <2>1, <2>3, <2>4, <2>5 DEF GraceInv
<1>3. ASSUME GraceInv, NEW t \in Turn, CheckInactive(t) \/ CheckInterrupt(t)
      PROVE  s.pending[t].timer # "running"
  <2>1. /\ chk[t].pc = "status" /\ s.pending[t].generation = chk[t].generation
        /\ chk[t].generation # 0 /\ chk[t].generation \in 0 .. MaxGeneration
    BY <1>3 DEF CheckInactive, CheckInterrupt, CheckUsable, CheckAt, Valid, GraceInv,
                CoreInv, Entries, TypeInv, TypeOK, CheckType
  <2>2. PICK k \in 0 .. MaxActivity :
            /\ s.pending[t].generation = Later(chk[t].generation, k)
            /\ s.pending[t].timer = "running" => k > 0
    BY <1>3, <2>1 DEF GraceInv, Delay, Reading
  <2>3. /\ chk[t].generation \in 1 .. MaxGeneration /\ k \in Nat /\ k < MaxGeneration
    BY <2>1, ConstantsAssumption
  <2> QED BY <2>1, <2>2, <2>3, LaterNumbers
<1>4. GraceInv => \A t \in Turn :
        CheckInactive(t) \/ CheckInterrupt(t) => s.pending[t].timer # "running"
  BY <1>3
<1> QED BY <1>1, <1>2, <1>4, PTL DEF Spec, GraceRespected

-----------------------------------------------------------------------------
(* The single continuation of a failure.                                   *)

\* The stall recovery and the supervisor's other goroutines do not have the same turn:
\* the one that waits for the end of turn t has not been overtaken by a request for the
\* interrupt of its error, ...
Unshared == \A t \in Turn : s.waiters[t] = "stall" => ~s.pending[t].interrupting

\* ... nor is there any, or a goroutine that could still make it, when it asks for the
\* interrupt itself.
Apart ==
    \A t \in Turn : sg.turn = t /\ sg.pc \in {"announce", "register"} =>
        /\ ~s.pending[t].interrupting
        /\ Reading(t) => s.pending[t].generation = 0

Alone(t) == StallWon(t) => ~(AtHand(t) \/ Queued(t) \/ Probes(t) \/ Retrying(t))

\* The reconciliation of an error changes the waiter and the entry of its turn only.
LEMMA AsksAlone ==
    ASSUME TypeInv, NEW t \in Turn, CheckAsks(t)
    PROVE  /\ s'.waiters[t] = "check"
           /\ \A u \in Turn : u # t =>
                s'.waiters[u] = s.waiters[u] /\ s'.pending[u] = s.pending[u]
<1>1. s \in SupervisorType
  BY DEF TypeInv, TypeOK
<1>2. PICK p : s' = [s EXCEPT !.pending[t] = p, !.waiters[t] = "check",
                            !.phase = "interrupting-error"]
  BY <1>1 DEF CheckAsks
<1> QED BY <1>1, <1>2 DEF SupervisorType

\* Only the reconciliation of an error asks for an interrupt because of it.
LEMMA AsksItself ==
    ASSUME TypeInv, Effect, NEW t \in Turn, ~CheckAsks(t), s'.pending[t].interrupting
    PROVE  s.pending[t].interrupting
<1>1. s \in SupervisorType /\ s.pending \in [Turn -> PendingError]
  BY DEF TypeInv, TypeOK, SupervisorType
<1>2. Tame(s, s') => s.pending[t].interrupting
  BY DEF Tame, Shrinks
<1>3. s'.pending = s.pending => s.pending[t].interrupting
  OBVIOUS
<1>4. CASE \/ Quiet \/ StallReturns \/ \E T \in SUBSET Turn : Notifies(T, "cancelled")
           \/ \E u \in Turn : \/ Completes(u) \/ LoopStarts(u) \/ LoopRetries(u)
                              \/ Recovers(u) \/ Finishes(u) \/ Retries(u)
                              \/ CheckGoes(u) \/ CheckStarts(u)
  BY <1>2, <1>3, <1>4, StartsEffect
     DEF Quiet, Mild, Loose, StallReturns, Notifies, Completes, LoopStarts, LoopRetries,
         Recovers, Finishes, Retries, CheckGoes, CheckFrame, CheckStarts
<1>5. ASSUME NEW u \in Turn, Schedules(u) PROVE s.pending[t].interrupting
  BY <1>5 DEF Schedules
<1>6. ASSUME NEW u \in Turn, CheckAsks(u) PROVE s.pending[t].interrupting
  BY <1>3, <1>6, AsksAlone
<1>7. CASE \/ StallConfirmed \/ StallAdvances \/ StallAnnounces \/ StallRegisters
           \/ StallMark \/ StallSends
  <2>1. s'.pending = s.pending
    BY <1>1, <1>7 DEF StallConfirmed, StallAdvances, StallAnnounces, StallRegisters,
                      StallMark, StallSends, SupervisorType
  <2> QED BY <1>3, <2>1
<1> QED BY <1>4, <1>5, <1>6, <1>7 DEF Effect

\* A goroutine starts to read the thread's status while no stall is checked.
LEMMA ReadsItself ==
    ASSUME TypeInv, Effect, NEW t \in Turn, Reading(t)', ~Reading(t)
    PROVE  ~s.stallCheckInFlight
<1>1. chk' # chk
  BY DEF Reading
<1>2. ASSUME NEW T, NEW status, Notifies(T, status) PROVE FALSE
  <2>1. chk'[t].pc = chk[t].pc
    BY <1>2 DEF Notifies, NotifyChecks, TypeInv, TypeOK, CheckType
  <2> QED BY <2>1 DEF Reading
<1>3. ASSUME NEW u \in Turn, CheckStarts(u) \/ CheckAsks(u) PROVE FALSE
  BY <1>3 DEF CheckStarts, CheckAsks, Reading, NoCheck, TypeInv, TypeOK
<1>4. PICK u \in Turn : CheckGoes(u)
  BY <1>1, <1>2, <1>3
     DEF Effect, Quiet, Completes, Schedules, LoopStarts, LoopRetries, Recovers,
         Finishes, Retries, StallConfirmed, StallReturns, StallAdvances,
         StallAnnounces, StallRegisters, StallMark, StallSends, stallFrame,
         sgUnchanged
<1> QED BY <1>4 DEF CheckGoes, CheckFrame, Reading, NoCheck

\* What the other processes leave of the stall recovery.
LEMMA StallElsewhere ==
    ASSUME TypeInv, Effect
    PROVE  \/ sg'.pc = sg.pc /\ sg'.turn = sg.turn
           \/ \/ StallConfirmed \/ StallReturns \/ StallAdvances \/ StallAnnounces
              \/ StallRegisters \/ StallMark \/ StallSends
<1>1. sg \in StallType
  BY DEF TypeInv, TypeOK
<1>2. ASSUME NEW T, NEW status, Notifies(T, status)
      PROVE  sg'.pc = sg.pc /\ sg'.turn = sg.turn
  BY <1>1, <1>2 DEF Notifies, NotifyStall, StallType
<1>3. CASE \/ Quiet
           \/ \E t \in Turn : \/ Schedules(t) \/ LoopStarts(t) \/ LoopRetries(t)
                              \/ Recovers(t) \/ Finishes(t) \/ Retries(t)
                              \/ CheckGoes(t) \/ CheckAsks(t) \/ CheckStarts(t)
  BY <1>3 DEF Quiet, Schedules, LoopStarts, LoopRetries, Starts, Recovers, Finishes,
              Retries, CheckGoes, CheckFrame, CheckAsks, CheckStarts
<1>4. ASSUME NEW t \in Turn, Completes(t)
      PROVE  sg'.pc = sg.pc /\ sg'.turn = sg.turn
  BY <1>2, <1>4 DEF Completes
<1> QED BY <1>2, <1>3, <1>4 DEF Effect

\* The decision about a silent turn finds no entry of it, and none is made before its
\* waiter is there: an entry whose goroutine still reads the status is gone for good.
LEMMA ApartKept ==
    ASSUME CoreInv, \A t \in Turn : Once(t), Apart, Effect, EntryEffect
    PROVE  Apart'
<1> SUFFICES ASSUME NEW t \in Turn, sg'.turn = t, sg'.pc \in {"announce", "register"}
             PROVE  /\ ~s'.pending[t].interrupting
                    /\ Reading(t)' => s'.pending[t].generation = 0
  BY DEF Apart
<1>1. /\ TypeInv /\ Waiting /\ Entries /\ Once(t)
      /\ s \in SupervisorType /\ sg \in StallType
  BY DEF CoreInv, TypeInv, TypeOK
<1>2. CASE sg'.pc = sg.pc /\ sg'.turn = sg.turn
  <2>1. ~s.pending[t].interrupting /\ (Reading(t) => s.pending[t].generation = 0)
    BY <1>2 DEF Apart
  <2>2. ~CheckAsks(t)
    BY <1>1, <2>1 DEF CheckAsks, Reading, Entries
  <2>3. Reading(t)' => Reading(t)
    BY <1>1, <1>2, ReadsItself DEF Waiting
  <2>4. ASSUME Reading(t), Reading(t)' PROVE s'.pending[t].generation = 0
    <3>1. s.pending[t].generation = 0 /\ Has(t)
      BY <2>1, <2>4 DEF Has, Reading
    <3>2. ~Enters(t)
      BY <1>1, <3>1, NotItsTurn DEF Enters, Pops, FinalOf
    <3>3. ~Renews(t)
      BY <3>1 DEF Renews
    <3>4. \/ s'.pending[t] = s.pending[t] \/ s'.pending[t] = NoPending
      BY <3>1, <3>2, <3>3 DEF EntryEffect, Settles, Drops, Notes, Enters, Renews
    <3> QED BY <3>1, <3>4 DEF NoPending
  <2> QED BY <1>1, <2>1, <2>2, <2>3, <2>4, AsksItself
<1>3. CASE StallAnnounces
  <2>1. s'.pending = s.pending /\ chk' = chk /\ sg.turn = t /\ sg.pc = "announce"
    BY <1>1, <1>3 DEF StallAnnounces, stallFrame, SupervisorType
  <2> QED BY <2>1 DEF Apart, Reading
<1>4. CASE StallAdvances
  <2>1. s' = s /\ sg.turn = t /\ w.unchanged /\ w.turn = t
    BY <1>4 DEF StallAdvances
  <2>2. s.pending[t] = NoPending
    BY <1>1, <2>1, Turns DEF Entries
  <2> QED BY <2>1, <2>2 DEF NoPending
<1>5. ~(StallConfirmed \/ StallReturns \/ StallRegisters \/ StallMark \/ StallSends)
  <2>1. StallConfirmed \/ StallReturns => sg'.pc \in {"confirm", "off"}
    <3>1. StallConfirmed => sg'.pc = "confirm"
      BY DEF StallConfirmed, NoStall
    <3>2. StallReturns => sg'.pc = "off"
      BY DEF StallReturns, NoStall
    <3> QED BY <3>1, <3>2
  <2>2. StallMark => sg'.pc = "submit"
    <3>1. StallMark => sg' = [sg EXCEPT !.pc = "submit"]
      BY Zenon DEF StallMark, StallGoto
    <3> QED BY <1>1, <3>1 DEF StallType
  <2>3. StallRegisters \/ StallSends => sg'.pc \in {"ask", "record"}
    BY DEF StallRegisters, StallSends
  <2> QED BY <2>1, <2>2, <2>3
<1> QED BY <1>1, <1>2, <1>3, <1>4, <1>5, StallElsewhere

\* So its waiter and a request for the interrupt of the turn's error exclude each other.
LEMMA UnsharedKept ==
    ASSUME TypeInv, Apart, Unshared, Effect
    PROVE  Unshared'
<1> SUFFICES ASSUME NEW t \in Turn, s'.waiters[t] = "stall" PROVE ~s'.pending[t].interrupting
  BY DEF Unshared
<1>1. s \in SupervisorType /\ sg \in StallType
  BY DEF TypeInv, TypeOK
<1>2. ~CheckAsks(t)
  BY AsksAlone
<1>3. CASE s.waiters[t] = "stall"
  BY <1>2, <1>3, AsksItself DEF Unshared
<1>4. CASE s.waiters[t] # "stall"
  <2>1. StallRegisters
    <3>1. ~(s'.waiters = s.waiters) /\ \A T : ~(s'.waiters =
            [u \in Turn |-> IF u \in T THEN "none" ELSE s.waiters[u]])
      BY <1>4
    <3>2. ~(StallConfirmed \/ StallAdvances \/ StallAnnounces \/ StallMark \/ StallSends)
      BY <1>1, <3>1 DEF StallConfirmed, StallAdvances, StallAnnounces, StallMark,
                        StallSends, SupervisorType
    <3>3. ~StallReturns /\ ~Quiet /\ ~\E T, status : Notifies(T, status)
      BY <3>1 DEF StallReturns, Takes, Quiet, Mild, Loose, Notifies
    <3>4. ASSUME NEW u \in Turn
          PROVE  ~(\/ Completes(u) \/ Schedules(u) \/ LoopStarts(u) \/ LoopRetries(u)
                   \/ Recovers(u) \/ Finishes(u) \/ Retries(u)
                   \/ CheckGoes(u) \/ CheckStarts(u))
      BY <3>1, <3>3, StartsEffect
         DEF Completes, Schedules, LoopStarts, LoopRetries, Recovers, Finishes, Retries,
             CheckGoes, CheckStarts, Takes, Mild, Loose
    <3>5. \A u \in Turn : ~CheckAsks(u)
      BY <1>2, <1>4, AsksAlone
    <3> QED BY <3>2, <3>3, <3>4, <3>5 DEF Effect
  <2>2. sg.turn = t /\ sg.pc = "register" /\ s'.pending = s.pending
    BY <1>1, <1>4, <2>1 DEF StallRegisters, SupervisorType
  <2> QED BY <2>2 DEF Apart
<1> QED BY <1>3, <1>4

\* The end of a turn goes to the stall recovery or to the event loop.
LEMMA AloneKept ==
    ASSUME TypeInv, Waiting, Answering, Effect, Unshared, NEW t \in Turn, Alone(t)
    PROVE  Alone(t)'
<1>1. AnsweredOnce(t) /\ sg \in StallType
  BY DEF Answering, TypeInv, TypeOK
<1>2. CASE OnItsOwn(t)
  BY <1>2 DEF OnItsOwn, NoNewHand, Alone
<1>3. CASE Completes(t)
  <2>1. /\ UNCHANGED <<rec, cyb>> /\ s'.pendingRecovery \in {s.pendingRecovery, None}
        /\ t \notin s.handledTurns
    BY <1>3 DEF Completes, Notifies
  <2>2. ~Queued(t)' /\ ~Probes(t)' /\ ~Retrying(t)' /\ ~StallWon(t)
    BY <1>1, <2>1, Turns DEF AnsweredOnce, Queued, Probes, Retrying
  <2>3. PICK status : /\ sg' = NotifyStall(s, {t}, status) /\ ev'.pc = status
                      /\ ev'.errorInterrupt = s.pending[t].interrupting
    BY <1>3 DEF Completes, Notifies
  <2>4. StallWon(t)' => s.waiters[t] = "stall" /\ status = "interrupted"
    BY <1>1, <2>2, <2>3 DEF NotifyStall, StallWon, StallType
  <2>5. StallWon(t)' => ~AtHand(t)'
    BY <2>3, <2>4 DEF Unshared, AtHand
  <2> QED BY <2>2, <2>5 DEF Alone
<1>4. CASE \/ LoopStarts(t) \/ LoopRetries(t) \/ CheckStarts(t) \/ Unqueues(t)
  <2>1. sg' = sg
    BY <1>4 DEF LoopStarts, LoopRetries, CheckStarts, Starts, Unqueues, Finishes
  <2>2. ~StallWon(t)
    BY <1>1, <1>4 DEF Alone, LoopStarts, LoopRetries, CheckStarts, AnsweredOnce,
                      Unqueues, Queued
  <2> QED BY <2>1, <2>2 DEF Alone, StallWon
<1> QED BY <1>2, <1>3, <1>4, HandsKept DEF HandOver

\* A failure that was continued: the others have let go of it, and who sent
\* the continuation only records its answer.
Continued(t) ==
    hist.resumes[t] # 0 =>
        /\ hist.resumes[t] = 1
        /\ t \in s.handledTurns
        /\ ~AtHand(t) /\ ~Queued(t)
        /\ rec[t].pc \in {"off", "record", "finish", "done"}
        /\ cyb[t].pc \in {"off", "record", "done"}
        /\ StallWon(t) => sg.pc = "record"

\* Who has sent the continuation only ends: it sends no second one.
LEMMA StaysContinued ==
    ASSUME TypeInv, TypeInv', Waiting, Answering, Effect,
           NEW t \in Turn, Continued(t), hist.resumes[t] # 0
    PROVE  Continued(t)'
<1>1. /\ t \in s.handledTurns /\ ~AtHand(t) /\ ~Queued(t)
      /\ rec[t].pc \in {"off", "record", "finish", "done"}
      /\ cyb[t].pc \in {"off", "record", "done"}
      /\ StallWon(t) => sg.pc = "record"
  BY DEF Continued
<1>2. rec'[t].pc \in
        {"off", "record", "finish", "done"} \cup Opening \cup Sending
  <2>1. rec'[t] \in RecoveryType
    BY DEF TypeInv, TypeOK
  <2> QED BY <2>1 DEF RecoveryType, Opening, Sending
<1>3. cyb'[t].pc \in {"off", "record", "done"} \cup CyberSending
  <2>1. cyb'[t] \in CyberType
    BY DEF TypeInv, TypeOK
  <2> QED BY <2>1 DEF CyberType, CyberSending
<1>4. ~HandOver(t)
  BY <1>1 DEF HandOver, Completes, LoopStarts, LoopRetries, CheckStarts, Unqueues,
              Queued
<1>5. OnItsOwn(t)
  BY <1>4, HandsKept
<1>6. ~AtHand(t)' /\ ~Queued(t)' /\ t \in s'.handledTurns
  BY <1>1, <1>5 DEF OnItsOwn, NoNewHand
<1>7. StallWon(t)' => sg'.pc = "record"
  BY <1>1, <1>5 DEF OnItsOwn, NoNewHand, StallWon
<1>8. Recovers(t) => /\ rec'[t].pc \in {"off", "record", "finish", "done"}
                     /\ hist'.resumes[t] = hist.resumes[t]
  BY <1>1, <1>2 DEF Recovers, Submits, Opening, Sending
<1>9. Retries(t) => /\ cyb'[t].pc \in {"off", "record", "done"}
                    /\ hist'.resumes[t] = hist.resumes[t]
  BY <1>1, <1>3 DEF Retries, Submits, CyberSending
<1>10. ~(StallSends /\ sg.turn = t)
  BY <1>1 DEF StallSends, StallWon
<1>11. hist'.resumes[t] = hist.resumes[t]
  BY <1>5, <1>8, <1>9, <1>10 DEF OnItsOwn
<1>12. /\ rec'[t].pc \in {"off", "record", "finish", "done"}
       /\ cyb'[t].pc \in {"off", "record", "done"}
  BY <1>1, <1>5, <1>8, <1>9 DEF OnItsOwn
<1> QED BY <1>6, <1>7, <1>11, <1>12 DEF Continued

\* Who sends the first continuation has the failure for itself.
LEMMA BecomesContinued ==
    ASSUME TypeInv, TypeInv', Waiting, Answering, Effect,
           NEW t \in Turn, Alone(t), hist.resumes[t] = 0, hist'.resumes[t] # 0
    PROVE  Continued(t)'
<1>1. AnsweredOnce(t) /\ hist.resumes \in [Turn -> Nat]
  BY DEF Answering, TypeInv, TypeOK, HistoryType
<1>2. rec'[t].pc \in
        {"off", "record", "finish", "done"} \cup Opening \cup Sending
  <2>1. rec'[t] \in RecoveryType
    BY DEF TypeInv, TypeOK
  <2> QED BY <2>1 DEF RecoveryType, Opening, Sending
<1>3. cyb'[t].pc \in {"off", "record", "done"} \cup CyberSending
  <2>1. cyb'[t] \in CyberType
    BY DEF TypeInv, TypeOK
  <2> QED BY <2>1 DEF CyberType, CyberSending
<1>4. CASE Recovers(t)
  <2>1. /\ hist'.resumes[t] = 1 /\ rec[t].pc \in Opening \cup Sending
        /\ rec'[t].pc \in {"off", "record", "finish", "done"}
    BY <1>1, <1>2, <1>4 DEF Recovers, Submits
  <2>2. /\ UNCHANGED <<cyb, sg, ev>> /\ s.handledTurns \subseteq s'.handledTurns
        /\ s'.pendingRecovery \in {s.pendingRecovery, None}
    BY <1>4 DEF Recovers, Loose, Tame
  <2>3. Probes(t) /\ cyb[t].pc = "off"
    BY <1>1, <2>1 DEF Probes, Opening, Sending, AnsweredOnce, Retrying
  <2>4. t \in s'.handledTurns /\ ~AtHand(t)' /\ ~Queued(t)' /\ ~StallWon(t)'
    BY <1>1, <2>2, <2>3, Turns DEF Alone, AnsweredOnce, AtHand, Queued, StallWon
  <2> QED BY <2>1, <2>2, <2>3, <2>4 DEF Continued
<1>5. CASE Retries(t)
  <2>1. /\ hist'.resumes[t] = 1 /\ cyb[t].pc \in CyberSending
        /\ cyb'[t].pc \in {"off", "record", "done"}
    BY <1>1, <1>3, <1>5 DEF Retries, Submits
  <2>2. /\ UNCHANGED <<rec, sg, ev>> /\ s.handledTurns \subseteq s'.handledTurns
        /\ s'.pendingRecovery \in {s.pendingRecovery, None}
    BY <1>5 DEF Retries, Loose, Tame
  <2>3. Retrying(t) /\ rec[t].pc = "off"
    BY <1>1, <2>1 DEF Probes, CyberSending, AnsweredOnce, Retrying
  <2>4. t \in s'.handledTurns /\ ~AtHand(t)' /\ ~Queued(t)' /\ ~StallWon(t)'
    BY <1>1, <2>2, <2>3, Turns DEF Alone, AnsweredOnce, AtHand, Queued, StallWon
  <2> QED BY <2>1, <2>2, <2>3, <2>4 DEF Continued
<1>6. CASE StallSends /\ sg.turn = t
  <2>1. /\ hist'.resumes[t] = 1 /\ sg'.pc = "record" /\ StallWon(t)
        /\ UNCHANGED <<s, rec, cyb, ev>>
    BY <1>1, <1>6 DEF StallSends, StallWon, stallFrame
  <2>2. /\ t \in s.handledTurns /\ ~AtHand(t) /\ ~Queued(t)
        /\ rec[t].pc = "off" /\ cyb[t].pc = "off"
    BY <1>1, <2>1 DEF Alone, AnsweredOnce, Probes, Retrying
  <2> QED BY <2>1, <2>2 DEF Continued, AtHand, Queued
<1>7. OnItsOwn(t) => Recovers(t) \/ Retries(t) \/ (StallSends /\ sg.turn = t)
  BY DEF OnItsOwn
<1>8. ~HandOver(t)
  <2>1. HandOver(t) => hist'.resumes = hist.resumes
    BY DEF HandOver, Completes, Notifies, LoopStarts, LoopRetries, CheckStarts,
           Starts, Unqueues, Finishes
  <2> QED BY <2>1
<1> QED BY <1>4, <1>5, <1>6, <1>7, <1>8, HandsKept


\* The inductive invariant.
SingleInv ==
    /\ CoreInv /\ InOrder /\ Apart /\ Unshared
    /\ \A t \in Turn : Once(t) /\ Alone(t) /\ Continued(t)

\* Whatever finds the failure of a turn (its end, its error, the watchdog), it is
\* continued once at most, where the app-server says a turn's final error once.
THEOREM ContinuedOnce ==
    ASSUME SaysOnce
    PROVE  Spec => []OneResumePerFailure
<1>1. Init => SingleInv
  <2> SUFFICES ASSUME Init PROVE SingleInv
    OBVIOUS
  <2>1. InOrder
    BY Numbers DEF Init, InOrder, None, TurnOrNone
  <2>2. Apart /\ Unshared
    BY DEF Init, Apart, Unshared, NoStall
  <2>3. ASSUME NEW t \in Turn PROVE Once(t) /\ Alone(t) /\ Continued(t)
    <3>1. s.pending[t].generation = 0 /\ chk[t].pc = "off" /\ Len(events) = 0
      BY DEF Init, NoPending, NoCheck
    <3>2. ~StallWon(t) /\ hist.resumes[t] = 0
      BY DEF Init, StallWon, NoStall
    <3> QED BY <3>1, <3>2 DEF Once, Has, Alone, Continued
  <2> QED BY <2>1, <2>2, <2>3, InitCore DEF SingleInv
<1>2. SingleInv /\ [Next]_vars => SingleInv'
  <2> SUFFICES ASSUME SingleInv, [Next]_vars PROVE SingleInv'
    OBVIOUS
  <2>1. /\ CoreInv /\ CoreInv' /\ TypeInv' /\ TypeInv /\ InOrder
        /\ Waiting /\ Entries /\ Answering
        /\ \A t \in Turn : Once(t) /\ Alone(t) /\ Continued(t)
    BY CoreKept DEF SingleInv, CoreInv
  <2>2. (Speaks \/ Pops) /\ EntryEffect /\ Effect
    BY <2>1, QueueEffect, StepEntries, StepEffect
  <2>3. InOrder'
    BY <2>1, <2>2, SpeaksGrows, InOrderGrows, InOrderPops
  <2>4. Apart' /\ Unshared'
    BY <2>1, <2>2, ApartKept, UnsharedKept DEF SingleInv
  <2>5. ASSUME NEW t \in Turn PROVE Once(t)' /\ Alone(t)' /\ Continued(t)'
    <3>1. Once(t)'
      BY <2>1, <2>2, OnceKept
    <3>2. Alone(t)'
      BY <2>1, <2>2, AloneKept DEF SingleInv
    <3>3. hist.resumes[t] # 0 => Continued(t)'
      BY <2>1, <2>2, StaysContinued
    <3>4. hist.resumes[t] = 0 /\ hist'.resumes[t] # 0 => Continued(t)'
      BY <2>1, <2>2, BecomesContinued
    <3>5. hist'.resumes[t] = 0 => Continued(t)'
      BY DEF Continued
    <3> QED BY <3>1, <3>2, <3>3, <3>4, <3>5
  <2> QED BY <2>1, <2>3, <2>4, <2>5 DEF SingleInv
<1>3. SingleInv => OneResumePerFailure
  BY DEF SingleInv, CoreInv, TypeInv, TypeOK, HistoryType, Continued, OneResumePerFailure
<1> QED BY <1>1, <1>2, <1>3, PTL DEF Spec

=============================================================================
