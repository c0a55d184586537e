--------------------------- MODULE SupervisorTypes ---------------------------
(***************************************************************************)
(* Type correctness of the supervisor, for every number of turns, every    *)
(* limit and every set of inputs. The methods and the outcomes of requests *)
(* come first, one lemma each; then every process preserves the types.     *)
(***************************************************************************)
EXTENDS Supervisor, TLAPS

-----------------------------------------------------------------------------
(* Methods.                                                                *)

\* None is no turn: the facts about turn identifiers the provers ask for.
LEMMA Turns == /\ None \in TurnOrNone
               /\ \A t \in Turn : t \in TurnOrNone /\ t # None
               /\ \A t \in TurnOrNone : t # None => t \in Turn
BY ConstantsAssumption DEF Turn, TurnOrNone, None

\* cancelRecovery leaves every field of the supervisor in its type.
LEMMA CancelRecoveryType ==
    ASSUME NEW st \in SupervisorType
    PROVE  CancelRecovery(st) \in SupervisorType
BY Turns, Zenon DEF CancelRecovery, SupervisorType

\* So does the switch to needs-attention, which cancels the recovery.
LEMMA SetAttentionType ==
    ASSUME NEW st \in SupervisorType
    PROVE  SetAttention(st) \in SupervisorType
BY CancelRecoveryType DEF SetAttention, SupervisorType, Phases

\* startRecovery, with its queue, its limit and its duplicates.
LEMMA StartRecoveryType ==
    ASSUME NEW st \in SupervisorType, NEW t \in Turn
    PROVE  StartRecovery(st, t) \in SupervisorType
BY Turns, SetAttentionType, Zenon DEF StartRecovery, SupervisorType, Phases

\* The first conjunct of Located, of the function r.
Probing(r) ==
    \A t \in Turn :
        r[t].pc \in {"top", "announce", "wait", "probing", "probe"} =>
            r[t].successes < ProbeSuccesses

\* A fresh recovery goroutine has not counted a successful probe.
LEMMA RecoveryStartedType ==
    /\ NoRecovery \in RecoveryType /\ RecoveryStarted \in RecoveryType
    /\ RecoveryStarted.successes < ProbeSuccesses
BY Turns, ConstantsAssumption DEF RecoveryStarted, NoRecovery, RecoveryType

\* The goroutine startRecovery spawns, or none.
LEMMA SpawnRecoveryType ==
    ASSUME NEW st, NEW t \in Turn, rec \in [Turn -> RecoveryType], Probing(rec)
    PROVE  /\ SpawnRecovery(st, t) \in [Turn -> RecoveryType]
           /\ Probing(SpawnRecovery(st, t))
BY RecoveryStartedType DEF SpawnRecovery, Probing

\* The goroutine of a cyber-policy retry.
LEMMA CyberSpawnedType ==
    ASSUME NEW t \in Turn, cyb \in [Turn -> CyberType]
    PROVE  [cyb EXCEPT ![t] = [NoCyber EXCEPT !.pc = "start"]]
                \in [Turn -> CyberType]
BY Turns DEF NoCyber, CyberType

\* A restarted grace period takes the next generation, or the first again.
LEMMA ArmType ==
    ASSUME NEW p \in PendingError
    PROVE  Arm(p) \in PendingError
BY ConstantsAssumption DEF Arm, PendingError

\* No entry of pendingTerminalErrors is a value of its type.
LEMMA NoPendingType == NoPending \in PendingError
BY ConstantsAssumption DEF NoPending, PendingError

\* Removing entries of pendingTerminalErrors.
LEMMA DropPendingType ==
    ASSUME NEW st \in SupervisorType, NEW T
    PROVE  DropPending(st, T) \in SupervisorType
BY NoPendingType DEF DropPending, SupervisorType

\* Restarting the grace period of one entry.
LEMMA ArmPendingType ==
    ASSUME NEW st \in SupervisorType, NEW t \in Turn
    PROVE  ArmPending(st, t) \in SupervisorType
BY ArmType DEF ArmPending, SupervisorType

\* Restarting those that activity postpones.
LEMMA DeferPendingType ==
    ASSUME NEW st \in SupervisorType, NEW T
    PROVE  DeferPending(st, T) \in SupervisorType
BY ArmType DEF DeferPending, SupervisorType

\* cancelPendingTerminalError, which may set the phase back to running.
LEMMA CancelPendingType ==
    ASSUME NEW st \in SupervisorType, NEW t \in Turn
    PROVE  CancelPending(st, t) \in SupervisorType
<1> DEFINE dropped == DropPending(st, {t})
<1>1. dropped \in SupervisorType
  BY DropPendingType
<1>2. CancelPending(st, t) \in {dropped, [dropped EXCEPT !.phase = "running"]}
  BY DEF CancelPending
<1> HIDE DEF dropped
<1>3. [dropped EXCEPT !.phase = "running"] \in SupervisorType
  BY <1>1 DEF SupervisorType, Phases
<1> QED BY <1>1, <1>2, <1>3

\* schedulePendingTerminalError, for a new and for a known entry.
LEMMA SchedulePendingType ==
    ASSUME NEW st \in SupervisorType, NEW t \in Turn
    PROVE  SchedulePending(st, t) \in SupervisorType
<1> DEFINE p == st.pending[t]
           q == IF p.interrupting \/ p.timer # "none" THEN p ELSE Arm(p)
<1>1. q \in PendingError
  BY ArmType DEF SupervisorType
<1> DEFINE ph == IF st.phase \in {"needs-attention", "stopped"}
                        THEN st.phase ELSE "confirming-error"
           a == [st EXCEPT !.pending[t] = q]
<1>2. ph \in Phases
  BY DEF SupervisorType, Phases
<1>3. a \in SupervisorType
  BY <1>1 DEF SupervisorType
<1>4. SchedulePending(st, t) \in {st, [a EXCEPT !.phase = ph]}
  BY DEF SchedulePending
<1> HIDE DEF a, ph
<1>5. [a EXCEPT !.phase = ph] \in SupervisorType
  BY <1>2, <1>3 DEF SupervisorType
<1> QED BY <1>4, <1>5

\* failPendingTerminalError, for the current and for a stale entry.
LEMMA FailPendingType ==
    ASSUME NEW st \in SupervisorType, NEW t, NEW g
    PROVE  FailPending(st, t, g) \in SupervisorType
BY SetAttentionType DEF FailPending

\* The bookkeeping of a turn that starts.
LEMMA TurnRunningType ==
    ASSUME NEW st \in SupervisorType, NEW t \in Turn
    PROVE  TurnRunning(st, t) \in SupervisorType
BY Turns, Zenon DEF TurnRunning, SupervisorType, Phases

\* The interrupt of a turn that starts while the supervisor is paused.
LEMMA SpawnPauseInterruptType ==
    ASSUME NEW st, NEW t \in Turn, pz \in [Turn -> PauseType]
    PROVE  SpawnPauseInterrupt(st, t) \in [Turn -> PauseType]
BY DEF SpawnPauseInterrupt, NoPause, PauseType, Answers

\* Removing terminal waiters.
LEMMA TakeWaitersType ==
    ASSUME NEW st \in SupervisorType, NEW T
    PROVE  TakeWaiters(st, T) \in SupervisorType
BY DEF TakeWaiters, SupervisorType

\* A terminal status delivered to the stall recovery.
LEMMA NotifyStallType ==
    ASSUME NEW st, NEW T, NEW x \in TerminalStatuses, sg \in StallType
    PROVE  NotifyStall(st, T, x) \in StallType
BY DEF NotifyStall, StallType

\* A terminal status delivered to the reconciliations of errors.
LEMMA NotifyChecksType ==
    ASSUME NEW st, NEW T, NEW x \in TerminalStatuses, chk \in [Turn -> CheckType]
    PROVE  NotifyChecks(st, T, x) \in [Turn -> CheckType]
BY DEF NotifyChecks, CheckType

\* A watchdog without a turn.
LEMMA NoWatchType == NoWatch \in WatchdogType
BY Turns DEF NoWatch, WatchdogType

\* The watchdog of a turn that starts.
LEMMA WatchTurnType ==
    ASSUME NEW t \in Turn
    PROVE  WatchTurn(t) \in WatchdogType
BY NoWatchType, Turns DEF WatchTurn, WatchdogType

\* The watchdog's other methods.
LEMMA WatchdogMethodsType ==
    ASSUME NEW wd \in WatchdogType
    PROVE  /\ \A t : CompleteWatch(wd, t) \in WatchdogType
           /\ CancelWatch(wd) \in WatchdogType
           /\ WaitForUser(wd) \in WatchdogType
           /\ \A e : Observe(wd, e) \in WatchdogType
BY NoWatchType, Zenon DEF CompleteWatch, CancelWatch, WaitForUser, Observe, WatchdogType

-----------------------------------------------------------------------------
(* Messages and the app-server.                                            *)

\* A message with a detail its kind allows is an event.
LEMMA MessageType ==
    ASSUME NEW kind, NEW t, NEW detail,
           \/ kind \in TurnMessages /\ t \in Turn /\ detail \in {"", "retry", "final"}
           \/ kind = "turn/completed" /\ t \in Turn /\ detail \in EndDetails
           \/ kind \in ThreadMessages /\ t = None
              /\ detail \in {"", "waiting", "active"}
    PROVE  Message(kind, t, detail) \in Event
BY DEF Message, Event

\* The app-server and its notification when it starts the next turn.
LEMMA StartedServerType ==
    ASSUME srv \in ServerType, CanStartTurn
    PROVE  /\ StartedServer \in ServerType
           /\ srv.next + 1 \in Turn
           /\ TurnStarted(srv.next + 1) \in Event
<1>1. srv.next + 1 \in Turn /\ srv.next + 1 \in TurnOrNone
  BY ConstantsAssumption DEF ServerType, CanStartTurn, Turn, TurnOrNone
<1>2. 0 \in 0 .. MaxActivity
  BY ConstantsAssumption
<1>3. StartedServer \in ServerType
  BY <1>1, <1>2, Zenon DEF StartedServer, ServerType
<1>4. TurnStarted(srv.next + 1) \in Event
  BY <1>1 DEF TurnStarted, Event, TurnMessages
<1> QED BY <1>1, <1>3, <1>4

\* Every outcome of turn/start: a turn, a turn without an answer, none.
LEMMA StartOutcomesType ==
    ASSUME srv \in ServerType, events \in Seq(Event), NEW o \in StartOutcomes
    PROVE  o.started \in TurnOrNone /\ o.srv \in ServerType /\ o.events \in Seq(Event)
<1> DEFINE accepted == [started |-> srv.next + 1, srv |-> StartedServer,
                     events |-> Append(events, TurnStarted(srv.next + 1))]
           refused == [started |-> None, srv |-> srv, events |-> events]
<1>1. \/ o = refused
      \/ CanStartTurn /\ (o = accepted \/ o = [accepted EXCEPT !.started = None])
  BY DEF StartOutcomes
<1>2. CASE o = refused
  BY <1>2, Turns
<1>3. CASE CanStartTurn /\ (o = accepted \/ o = [accepted EXCEPT !.started = None])
  BY <1>3, Turns, StartedServerType
<1> QED BY <1>1, <1>2, <1>3

\* Every outcome of turn/interrupt, with an answer.
LEMMA InterruptOutcomesType ==
    ASSUME srv \in ServerType, NEW t, NEW o \in InterruptOutcomes(t)
    PROVE  o.srv \in ServerType /\ o.answer \in Answers \ {"none"}
<1> DEFINE interrupted == [srv EXCEPT !.interrupted = TRUE]
<1>1. interrupted \in ServerType
  BY DEF ServerType
<1>2. o \in {[answer |-> "ok", srv |-> interrupted],
             [answer |-> "error", srv |-> srv],
             [answer |-> "timeout", srv |-> interrupted]}
  BY DEF InterruptOutcomes
<1> HIDE DEF interrupted
<1> QED BY <1>1, <1>2 DEF Answers

\* Every outcome of thread/read.
LEMMA ReadOutcomesType == ReadOutcomes \subseteq ThreadStatuses
BY DEF ReadOutcomes, ThreadStatuses

\* The inductive invariant.
TypeInv == TypeOK /\ Located

\* The user and the app-server preserve the types.
LEMMA EnvironmentType ==
    ASSUME TypeInv, Environment
    PROVE  TypeInv'
<1> USE DEF TypeInv, TypeOK, Located, goroutines
<1>1. ASSUME UserStartsTurn PROVE TypeInv'
  <2> DEFINE asked == Message("client turn/start", None, "")
             started == TurnStarted(srv.next + 1)
  <2>1. srv' \in ServerType /\ started \in Event
    BY <1>1, StartedServerType DEF UserStartsTurn
  <2>2. asked \in Event
    BY MessageType DEF ThreadMessages
  <2>3. events' = events \o <<asked, started>>
    BY <1>1 DEF UserStartsTurn
  <2> HIDE DEF asked, started
  <2>4. events' \in Seq(Event)
    BY <2>1, <2>2, <2>3
  <2> QED BY <1>1, <2>1, <2>4 DEF UserStartsTurn
<1>2. ASSUME NEW kind, NEW t \in TurnOrNone, NEW detail, t # None,
             \/ kind \in TurnMessages /\ detail \in {"", "retry", "final"}
             \/ kind = "turn/completed" /\ detail \in EndDetails,
             events' = Append(events, Message(kind, t, detail)),
             srv' \in ServerType,
             UNCHANGED <<s, w, goroutines, ev>>, hist' = hist
      PROVE  TypeInv'
  <2>1. Message(kind, t, detail) \in Event
    BY <1>2, Turns, MessageType
  <2> DEFINE m == Message(kind, t, detail)
  <2>2. events' = Append(events, m)
    BY <1>2
  <2> HIDE DEF m
  <2>3. events' \in Seq(Event)
    BY <2>1, <2>2 DEF m
  <2> QED BY <1>2, <2>3
<1> srv.active \in TurnOrNone /\ srv.next \in TurnOrNone
  BY DEF ServerType
<1>3. ASSUME UserInterrupts PROVE TypeInv'
  <2>1. srv' \in ServerType
    BY <1>3, Zenon DEF UserInterrupts, ServerType
  <2> QED BY <1>2, <1>3, <2>1 DEF UserInterrupts, TurnMessages
<1>4. ASSUME srv.activity < MaxActivity
      PROVE  srv.activity + 1 \in 0 .. MaxActivity
  BY <1>4, ConstantsAssumption DEF ServerType
<1>5. ASSUME ServerActivity PROVE TypeInv'
  <2>1. srv' \in ServerType
    BY <1>4, <1>5 DEF ServerActivity, ServerType
  <2> QED BY <1>2, <1>5, <2>1
          DEF ServerActivity, ServerRuns, TurnMessages
<1>6. ASSUME ServerWaits PROVE TypeInv'
  <2>1. srv' \in ServerType
    BY <1>4, <1>6, Zenon DEF ServerWaits, ServerType
  <2> DEFINE e == Message("thread/status/changed", None,
                          IF srv.waiting THEN "active" ELSE "waiting")
  <2>2. e \in Event
    BY MessageType DEF ThreadMessages
  <2>3. events' = Append(events, e) /\ UNCHANGED <<s, w, goroutines, ev, hist>>
    BY <1>6 DEF ServerWaits
  <2> QED BY <2>1, <2>2, <2>3
<1>7. ASSUME ServerError PROVE TypeInv'
  <2>1. PICK detail \in {"retry", "final"} :
          /\ events' = Append(events, Message("error", srv.active, detail))
          /\ srv' = [srv EXCEPT !.errored = @ \/ detail = "final"]
    BY <1>7 DEF ServerError
  <2>2. srv' \in ServerType
    BY <2>1 DEF ServerType
  <2> QED BY <1>2, <1>7, <2>1, <2>2 DEF ServerError, ServerRuns, TurnMessages
<1>8. ASSUME ServerCompletes PROVE TypeInv'
  <2>1. PICK detail \in EndDetails :
          /\ events' = Append(events,
                            Message("turn/completed", srv.active, detail))
          /\ srv' = [srv EXCEPT !.active = None, !.waiting = FALSE,
                              !.errored = @ \/ detail \in {"provider",
                                                           "cyberPolicy"}]
    BY <1>8 DEF ServerCompletes
  <2>2. srv' \in ServerType
    BY <2>1, Turns, Zenon DEF ServerType
  <2> QED BY <1>2, <1>8, <2>1, <2>2
          DEF ServerCompletes, ServerRuns, TurnMessages
<1>9. ASSUME ServerEndsSilently PROVE TypeInv'
  BY <1>9, Turns, Zenon DEF ServerEndsSilently, ServerType
<1>10. ASSUME ServerContinuesGoal PROVE TypeInv'
  BY <1>10, StartedServerType DEF ServerContinuesGoal
<1> QED
  BY <1>1, <1>3, <1>5, <1>6, <1>7, <1>8, <1>9, <1>10 DEF Environment

-----------------------------------------------------------------------------
(* The event loop.                                                         *)

\* Taking a message leaves messages, and its turn is one where it names one.
LEMMA ReceivesType ==
    ASSUME events \in Seq(Event), NEW kind, Receives(kind)
    PROVE  /\ events' \in Seq(Event)
           /\ kind \in TurnMessages => Head(events).turn \in Turn
           /\ kind = "turn/completed" => /\ Head(events).turn \in Turn
                                        /\ Head(events).detail \in EndDetails
<1>1. Head(events) \in Event /\ Tail(events) \in Seq(Event)
  BY DEF Receives
<1> QED BY <1>1 DEF Receives, Event, TurnMessages, ThreadMessages

\* Activity that clears a suspected stall.
LEMMA SuspicionClearedType ==
    ASSUME NEW st \in SupervisorType, NEW wd, NEW e
    PROVE  SuspicionCleared(st, wd, e) \in SupervisorType
BY DEF SuspicionCleared, SupervisorType, Phases

\* What the event loop does with every message before its handler.
LEMMA NoticedType ==
    ASSUME s \in SupervisorType, NEW e
    PROVE  Noticed(e) \in SupervisorType
BY SuspicionClearedType, DeferPendingType DEF Noticed

\* The handler of a user's turn/start.
LEMMA ClientStartedType ==
    ASSUME NEW st \in SupervisorType
    PROVE  ClientStarted(st) \in SupervisorType
<1> DEFINE dropped == DropPending(st, Turn)
           reset == [dropped EXCEPT !.cyberAttempts = 0, !.stallCurrent = FALSE,
                                    !.stallResumes = 0]
           taken == IF st.submittingResume THEN st ELSE reset
           running == [taken EXCEPT !.phase = "running", !.manualPaused = FALSE]
           cancelled == CancelRecovery(running)
<1>1. dropped \in SupervisorType
  BY DropPendingType
<1> HIDE DEF dropped
<1>2. reset \in SupervisorType
  <2>1. 0 \in 0 .. 3 /\ 0 \in Nat
    OBVIOUS
  <2> QED BY <1>1, <2>1, Zenon DEF SupervisorType
<1>3. taken \in SupervisorType
  BY <1>2
<1> HIDE DEF taken
<1>4. running \in SupervisorType
  BY <1>3, Zenon DEF SupervisorType, Phases
<1> HIDE DEF running
<1>5. cancelled \in SupervisorType
  BY <1>4, CancelRecoveryType
<1> HIDE DEF cancelled
<1>6. ClientStarted(st) \in {running, [cancelled EXCEPT !.autoResumes = 0]}
  BY DEF ClientStarted, cancelled, running, taken, reset, dropped
<1> QED BY <1>4, <1>5, <1>6 DEF SupervisorType

\* recordStartedTurnFromRequest while the supervisor is paused.
LEMMA PausedRecordType ==
    ASSUME NEW st \in SupervisorType
    PROVE  PausedRecord(st) \in SupervisorType
BY Zenon DEF PausedRecord, SupervisorType, Phases

\* The event loop between two messages.
LEMMA LoopReadyType == LoopReady \in LoopType
BY Turns DEF LoopReady, LoopType

\* handleTurnError, for an error that is retried and one that is not.
LEMMA TurnErrorType ==
    ASSUME NEW st \in SupervisorType, NEW e, e.turn \in Turn
    PROVE  TurnError(st, e) \in SupervisorType
BY CancelPendingType, SchedulePendingType DEF TurnError

\* Every handler of the event loop preserves the types.
LEMMA EventLoopType ==
    ASSUME TypeInv, EventLoop
    PROVE  TypeInv'
<1> USE DEF TypeInv, TypeOK, Located, goroutines, Probing
<1> DEFINE e == Head(events)
<1>1. ASSUME HandleClientTurnStart PROVE TypeInv'
  BY <1>1, ReceivesType, ClientStartedType DEF HandleClientTurnStart
<1>2. ASSUME HandleClientInterrupt PROVE TypeInv'
  <2> DEFINE t == e.turn
             taken == TakeWaiters(DropPending(s, {t}), {t})
  <2>1. t \in Turn /\ events' \in Seq(Event)
    BY <1>2, ReceivesType DEF HandleClientInterrupt, TurnMessages
  <2>2. taken \in SupervisorType
    BY DropPendingType, TakeWaitersType
  <2>3. s' = [taken EXCEPT !.stallCurrent = FALSE,
                           !.watchdogInterrupted = @ \ {t}]
    BY <1>2 DEF HandleClientInterrupt
  <2>4. /\ sg' = NotifyStall(s, {t}, "cancelled")
        /\ chk' = NotifyChecks(s, {t}, "cancelled")
        /\ w' = CancelWatch(w)
        /\ hist' = [hist EXCEPT !.escaped = @ \cup {t},
                                !.esc = EscOfStall(t)]
        /\ UNCHANGED <<rec, cyb, pz, rc, ev, srv>>
    BY <1>2 DEF HandleClientInterrupt
  <2> HIDE DEF taken
  <2>5. s' \in SupervisorType
    BY <2>2, <2>3, Zenon DEF SupervisorType
  <2>6. sg' \in StallType /\ sg'.pc = sg.pc /\ sg'.turn = sg.turn
    BY <2>4, NotifyStallType DEF TerminalStatuses, NotifyStall, StallType
  <2>7. chk' \in [Turn -> CheckType]
    BY <2>4, NotifyChecksType DEF TerminalStatuses
  <2>8. w' \in WatchdogType
    BY <2>4, WatchdogMethodsType
  <2>9. hist' \in HistoryType
    <3>1. EscOfStall(t) \in {"none", "before", "after"}
      BY DEF EscOfStall, HistoryType
    <3> QED BY <2>1, <2>4, <3>1, Zenon DEF HistoryType
  <2> QED BY <2>1, <2>4, <2>5, <2>6, <2>7, <2>8, <2>9
<1>3. ASSUME HandleTurnStarted PROVE TypeInv'
  <2> DEFINE st == DropPending(Noticed(e), Turn \ {e.turn})
  <2>1. e.turn \in Turn /\ events' \in Seq(Event)
    BY <1>3, ReceivesType DEF HandleTurnStarted, TurnMessages
  <2>2. st \in SupervisorType
    BY NoticedType, DropPendingType
  <2>3. /\ s' \in SupervisorType
        /\ pz' \in [Turn -> PauseType]
        /\ w' \in WatchdogType
    BY <1>3, <2>1, <2>2, TurnRunningType, SpawnPauseInterruptType, WatchTurnType
       DEF HandleTurnStarted
  <2> QED BY <1>3, <2>1, <2>3 DEF HandleTurnStarted
<1>4. ASSUME HandleActivity PROVE TypeInv'
  BY <1>4, ReceivesType, NoticedType, WatchdogMethodsType DEF HandleActivity
<1>5. ASSUME HandleThreadStatus PROVE TypeInv'
  <2> DEFINE ph == ThreadStatusPhase(Noticed(e), e.detail)
             st == Noticed(e)
  <2>1. st \in SupervisorType
    BY NoticedType
  <2>2. ph \in Phases
    BY <2>1 DEF ThreadStatusPhase, SupervisorType, Phases
  <2>3. /\ Receives("thread/status/changed")
        /\ s' = [st EXCEPT !.phase = ph] /\ w' = Observe(w, e)
        /\ UNCHANGED <<goroutines, ev, srv, hist>>
    BY <1>5 DEF HandleThreadStatus
  <2> HIDE DEF st, ph
  <2>4. s' \in SupervisorType
    BY <2>1, <2>2, <2>3 DEF SupervisorType
  <2>5. events' \in Seq(Event)
    BY <2>3, ReceivesType
  <2>6. w' \in WatchdogType
    BY <2>3, WatchdogMethodsType
  <2> QED BY <2>3, <2>4, <2>5, <2>6
<1>6. ASSUME HandleTurnError PROVE TypeInv'
  BY <1>6, ReceivesType, SuspicionClearedType, TurnErrorType, WatchdogMethodsType
     DEF HandleTurnError, TurnMessages
<1>7. ASSUME HandleTurnCompleted PROVE TypeInv'
  <2> DEFINE t == e.turn
             x == TerminalStatus(e.detail)
             st == SuspicionCleared(s, w, e)
             taken == TakeWaiters(DropPending(st, {t}), {t})
  <2>1. t \in Turn /\ e.detail \in EndDetails /\ events' \in Seq(Event)
    BY <1>7, ReceivesType DEF HandleTurnCompleted
  <2>2. x \in TerminalStatuses \cap {"completed", "interrupted", "failed"}
    BY <2>1 DEF TerminalStatus, EndDetails, TerminalStatuses
  <2>3. st \in SupervisorType /\ Observe(w, e) \in WatchdogType
    BY SuspicionClearedType, WatchdogMethodsType
  <2>4. taken \in SupervisorType
    BY <2>3, DropPendingType, TakeWaitersType
  <2>5. UNCHANGED <<rec, cyb, pz, rc, srv>>
    BY <1>7 DEF HandleTurnCompleted
  <2>6. CASE t \in s.handledTurns
    BY <1>7, <2>1, <2>3, <2>5, <2>6 DEF HandleTurnCompleted
  <2>7. CASE t \notin s.handledTurns
    <3>1. /\ s' = [taken EXCEPT !.handledTurns = @ \cup {t},
                                !.watchdogInterrupted = @ \ {t},
                                !.activeTurn = None]
          /\ w' = CompleteWatch(Observe(w, e), t)
          /\ sg' = NotifyStall(s, {t}, x)
          /\ chk' = NotifyChecks(s, {t}, x)
          /\ ev' = [pc |-> x, turn |-> t,
                    cyber |-> e.detail = "cyberPolicy",
                    paused |-> s.manualPaused,
                    watchdog |-> t \in s.watchdogInterrupted,
                    waiter |-> s.waiters[t] # "none",
                    errorInterrupt |-> s.pending[t].interrupting]
          /\ hist' = [hist EXCEPT !.escaped =
                        IF x = "failed" THEN @ \ {t} ELSE @]
      BY <1>7, <2>7 DEF HandleTurnCompleted
    <3> HIDE DEF taken, x
    <3>2. s' \in SupervisorType
      BY <2>1, <2>4, <3>1, Turns, Zenon DEF SupervisorType
    <3>3. w' \in WatchdogType
      BY <2>3, <3>1, WatchdogMethodsType
    <3>4. sg' \in StallType /\ sg'.pc = sg.pc /\ sg'.turn = sg.turn
      BY <2>2, <3>1, NotifyStallType DEF NotifyStall, StallType
    <3>5. chk' \in [Turn -> CheckType]
      BY <2>2, <3>1, NotifyChecksType
    <3>6. ev' \in LoopType /\ ev'.turn # None
      <4>1. s.manualPaused \in BOOLEAN /\ s.pending[t].interrupting \in BOOLEAN
        BY <2>1 DEF SupervisorType, PendingError
      <4> QED BY <2>1, <2>2, <3>1, <4>1, Turns DEF LoopType
    <3>7. hist' \in HistoryType
      BY <3>1 DEF HistoryType
    <3> QED BY <2>1, <2>5, <3>2, <3>3, <3>4, <3>5, <3>6, <3>7
  <2> QED BY <2>6, <2>7
<1>8. ASSUME TurnCompleted PROVE TypeInv'
  <2> DEFINE c == CancelRecovery(s)
             st == [c EXCEPT !.stallCurrent = FALSE, !.cyberAttempts = 0,
                             !.autoResumes = 0, !.stallResumes = 0]
  <2>1. c \in SupervisorType
    BY CancelRecoveryType
  <2>2. s' \in {PausedRecord(st), [st EXCEPT !.phase = "idle"]}
    BY <1>8 DEF TurnCompleted
  <2> HIDE DEF c
  <2>3. st \in SupervisorType
    <3>1. 0 \in 0 .. 3 /\ 0 \in Nat
      OBVIOUS
    <3> QED BY <2>1, <3>1, Zenon DEF SupervisorType
  <2> HIDE DEF st
  <2>4. [st EXCEPT !.phase = "idle"] \in SupervisorType
    BY <2>3 DEF SupervisorType, Phases
  <2>5. ev' = LoopReady /\ UNCHANGED <<w, goroutines, events, srv, hist>>
    BY <1>8 DEF TurnCompleted
  <2> QED BY <2>2, <2>3, <2>4, <2>5, PausedRecordType, LoopReadyType DEF LoopReady
<1>9. ASSUME TurnInterrupted PROVE TypeInv'
  <2> DEFINE c == CancelRecovery(s)
             st == [c EXCEPT !.cyberAttempts = 0]
             down == [st EXCEPT !.phase = "provider-down"]
             ended == [st EXCEPT !.phase = "idle", !.stallCurrent = FALSE,
                                 !.autoResumes = 0, !.stallResumes = 0]
  <2>1. ev.turn \in Turn /\ ev' = LoopReady
        /\ UNCHANGED <<w, cyb, chk, pz, sg, rc, events, srv, hist>>
    BY <1>9, Turns DEF TurnInterrupted, LoopType
  <2>2. c \in SupervisorType
    BY CancelRecoveryType
  <2>3. /\ s' \in {PausedRecord(st), StartRecovery(down, ev.turn),
                   [st EXCEPT !.phase = "resuming"], SetAttention(st), ended}
        /\ rec' \in {rec, SpawnRecovery(down, ev.turn)}
    BY <1>9 DEF TurnInterrupted
  <2> HIDE DEF c
  <2>4. st \in SupervisorType
    BY <2>2 DEF SupervisorType
  <2> HIDE DEF st
  <2>5. down \in SupervisorType /\ [st EXCEPT !.phase = "resuming"] \in SupervisorType
    BY <2>4 DEF SupervisorType, Phases
  <2>6. ended \in SupervisorType
    <3>1. 0 \in Nat
      OBVIOUS
    <3> QED BY <2>4, <3>1, Zenon DEF SupervisorType, Phases
  <2> HIDE DEF down, ended
  <2>7. s' \in SupervisorType
    BY <2>1, <2>3, <2>4, <2>5, <2>6, PausedRecordType, StartRecoveryType,
       SetAttentionType
  <2>8. rec' \in [Turn -> RecoveryType] /\ Probing(rec')
    BY <2>1, <2>3, SpawnRecoveryType
  <2> QED BY <2>1, <2>7, <2>8, LoopReadyType DEF LoopReady
<1>10. ASSUME TurnFailed PROVE TypeInv'
  <2>1. ev.turn \in Turn /\ ev' = LoopReady
        /\ UNCHANGED <<w, chk, pz, sg, rc, events, srv, hist>>
    BY <1>10, Turns DEF TurnFailed, LoopType
  <2>2. s' \in SupervisorType
    BY <1>10, <2>1, CancelRecoveryType, PausedRecordType, StartRecoveryType
       DEF TurnFailed
  <2>3. rec' \in [Turn -> RecoveryType] /\ Probing(rec')
    BY <1>10, <2>1, SpawnRecoveryType DEF TurnFailed
  <2>4. cyb' \in [Turn -> CyberType]
    BY <1>10, <2>1, CyberSpawnedType DEF TurnFailed
  <2> QED BY <2>1, <2>2, <2>3, <2>4, LoopReadyType DEF LoopReady
<1>11. ASSUME EventLoopStops PROVE TypeInv'
  BY <1>11, LoopReadyType DEF EventLoopStops, LoopType
<1> QED
  BY <1>1, <1>2, <1>3, <1>4, <1>5, <1>6, <1>7, <1>8, <1>9, <1>10, <1>11
     DEF EventLoop

-----------------------------------------------------------------------------
(* Provider recovery.                                                      *)

\* The steps a recovery takes: from r to r with another pc.
LEMMA GotoType ==
    ASSUME TypeInv, NEW t \in Turn, NEW pc, Goto(t, pc),
           pc \in {"announce", "wait", "probing", "probe", "resume", "mark",
                   "goal", "goalset", "submit"},
           \/ pc \notin {"announce", "wait", "probing", "probe"}
           \/ rec[t].pc \in {"top", "announce", "wait", "probing"}
    PROVE  rec' \in [Turn -> RecoveryType] /\ Probing(rec')
BY DEF TypeInv, TypeOK, Located, Goto, RecoveryType, Probing

\* A recovery that returns early runs its deferred clean-up.
LEMMA ReturnsType ==
    ASSUME TypeInv, NEW t \in Turn, Returns(t)
    PROVE  rec' \in [Turn -> RecoveryType] /\ Probing(rec')
<1> DEFINE r == [NoRecovery EXCEPT !.pc = "finish"]
<1>1. r \in RecoveryType /\ r.pc = "finish"
  BY RecoveryStartedType DEF NoRecovery, RecoveryType
<1>2. rec' = [rec EXCEPT ![t] = r]
  BY DEF Returns
<1> HIDE DEF r
<1> QED BY <1>1, <1>2 DEF TypeInv, TypeOK, Located, Probing

\* recordStartedTurnFromRequest, for every goroutine that starts a turn.
LEMMA TurnRecordedType ==
    ASSUME TypeInv, NEW n \in Turn
    PROVE  /\ TurnRunning(s, n) \in SupervisorType
           /\ SpawnPauseInterrupt(s, n) \in [Turn -> PauseType]
           /\ WatchTurn(n) \in WatchdogType
BY TurnRunningType, SpawnPauseInterruptType, WatchTurnType DEF TypeInv, TypeOK

\* The history of a continuation that was sent.
LEMMA ContinuedType ==
    ASSUME hist \in HistoryType, NEW t \in Turn
    PROVE  [hist EXCEPT !.resumes[t] = @ + 1] \in HistoryType
BY DEF HistoryType

\* The app-server when the saved goal is made active again.
LEMMA GoalSetType ==
    ASSUME srv \in ServerType
    PROVE  [srv EXCEPT !.goal = "active"] \in ServerType
BY DEF ServerType

\* resumeFailed, which gives up with needs-attention.
LEMMA FailedType ==
    ASSUME s \in SupervisorType, NEW t
    PROVE  Failed(t) \in SupervisorType
<1> DEFINE st == [s EXCEPT !.submittingResume = FALSE]
<1>1. st \in SupervisorType
  BY DEF SupervisorType
<1>2. Failed(t) \in {st, SetAttention(st)}
  BY DEF Failed
<1> HIDE DEF st
<1> QED BY <1>1, <1>2, SetAttentionType

\* A section that only sets the phase.
LEMMA PhaseType ==
    ASSUME s \in SupervisorType, NEW ph \in Phases
    PROVE  [s EXCEPT !.phase = ph] \in SupervisorType
BY DEF SupervisorType

\* Every step of a provider recovery preserves the types.
LEMMA RecoveryStepType ==
    ASSUME TypeInv, NEW t \in Turn, Recovery(t)
    PROVE  TypeInv'
<1> USE DEF TypeInv, TypeOK, Located, Probing, recUnchanged
<1>1. ASSUME s' \in SupervisorType, recUnchanged' = recUnchanged,
             \/ Returns(t)
             \/ rec' \in [Turn -> RecoveryType] /\ Probing(rec')
      PROVE  TypeInv'
  BY <1>1, ReturnsType
<1>2. CASE RecoveryTop(t)
  BY <1>1, <1>2, GotoType DEF RecoveryTop, At
<1>3. CASE RecoveryAnnounce(t)
  BY <1>1, <1>3, GotoType, PhaseType DEF RecoveryAnnounce, At, Phases
<1>4. CASE RecoveryWait(t)
  BY <1>1, <1>4, GotoType DEF RecoveryWait, At
<1>5. CASE RecoveryProbing(t)
  BY <1>1, <1>5, GotoType, PhaseType DEF RecoveryProbing, At, Phases
<1>6. CASE RecoveryProbeCancelled(t)
  BY <1>1, <1>6 DEF RecoveryProbeCancelled
<1>7. ASSUME NEW n \in 0 .. ProbeSuccesses, NEW pc \in {"resume", "top"},
             pc = "top" => n < ProbeSuccesses,
             rec' = [rec EXCEPT ![t].successes = n, ![t].pc = pc]
      PROVE  rec' \in [Turn -> RecoveryType] /\ Probing(rec')
  <2> DEFINE r == [rec[t] EXCEPT !.successes = n, !.pc = pc]
  <2>1. r \in RecoveryType /\ r.pc = pc /\ r.successes = n
    BY <1>7, Zenon DEF RecoveryType
  <2>2. rec' = [rec EXCEPT ![t] = r]
    BY <1>7
  <2> HIDE DEF r
  <2> QED BY <1>7, <2>1, <2>2
<1>8. CASE RecoveryProbeHealthy(t)
  <2> DEFINE n == rec[t].successes + 1
             pc == IF n >= ProbeSuccesses THEN "resume" ELSE "top"
  <2>1. n \in 0 .. ProbeSuccesses /\ pc \in {"resume", "top"}
        /\ (pc = "top" => n < ProbeSuccesses)
    BY <1>8, ConstantsAssumption DEF RecoveryProbeHealthy, At, RecoveryType
  <2>2. rec' = [rec EXCEPT ![t].successes = n, ![t].pc = pc]
    BY <1>8 DEF RecoveryProbeHealthy
  <2> HIDE DEF n, pc
  <2>3. rec' \in [Turn -> RecoveryType] /\ Probing(rec')
    BY <1>7, <2>1, <2>2
  <2> QED BY <1>1, <1>8, <2>3 DEF RecoveryProbeHealthy
<1>9. CASE RecoveryProbeUnhealthy(t)
  <2>1. PICK n \in {0, rec[t].successes} :
          rec' = [rec EXCEPT ![t].successes = n, ![t].pc = "top"]
    BY <1>9 DEF RecoveryProbeUnhealthy
  <2>2. n \in 0 .. ProbeSuccesses /\ n < ProbeSuccesses
    BY <1>9, ConstantsAssumption DEF RecoveryProbeUnhealthy, At, RecoveryType
  <2>3. rec' \in [Turn -> RecoveryType] /\ Probing(rec')
    BY <1>7, <2>1, <2>2
  <2> QED BY <1>1, <1>9, <2>3 DEF RecoveryProbeUnhealthy
<1>10. CASE RecoveryResume(t)
  BY <1>1, <1>10, GotoType DEF RecoveryResume
<1>11. CASE RecoveryMark(t)
  <2>1. s.autoResumes + 1 \in Nat /\ t \in TurnOrNone
    BY Turns DEF SupervisorType
  <2>2. [s EXCEPT !.submittingResume = TRUE, !.phase = "resuming",
                  !.resumeRequestedFor = t, !.autoResumes = @ + 1]
          \in SupervisorType
    BY <2>1, Zenon DEF SupervisorType, Phases
  <2> QED BY <1>1, <1>11, <2>2, GotoType, SetAttentionType DEF RecoveryMark
<1>12. CASE RecoveryGoal(t)
  BY <1>1, <1>12, GotoType DEF RecoveryGoal
<1>13. CASE RecoveryRequestFails(t)
  BY <1>1, <1>13, FailedType DEF RecoveryRequestFails
<1>14. CASE RecoveryGoalSet(t)
  <2>1. s' \in SupervisorType
    <3>1. [s EXCEPT !.submittingResume = FALSE] \in SupervisorType
      BY DEF SupervisorType
    <3> QED BY <1>14, <3>1, FailedType DEF RecoveryGoalSet
  <2>2. srv' \in ServerType /\ hist' \in HistoryType
    BY <1>14, ContinuedType, GoalSetType DEF RecoveryGoalSet
  <2> QED BY <1>14, <2>1, <2>2, ReturnsType DEF RecoveryGoalSet
<1>15. CASE RecoverySubmit(t)
  <2>1. PICK o \in StartOutcomes :
          /\ srv' = o.srv
          /\ events' = o.events
          /\ rec' = [rec EXCEPT ![t].pc = "record", ![t].started = o.started]
    BY <1>15 DEF RecoverySubmit
  <2>2. o.started \in TurnOrNone /\ srv' \in ServerType /\ events' \in Seq(Event)
    BY <2>1, StartOutcomesType
  <2>3. rec' \in [Turn -> RecoveryType] /\ Probing(rec')
    <3> DEFINE r == [rec[t] EXCEPT !.pc = "record", !.started = o.started]
    <3>1. r \in RecoveryType /\ r.pc = "record"
      BY <2>2, Zenon DEF RecoveryType
    <3>2. rec' = [rec EXCEPT ![t] = r]
      BY <2>1
    <3> HIDE DEF r
    <3> QED BY <3>1, <3>2
  <2>4. hist' \in HistoryType /\ UNCHANGED <<s, w, cyb, chk, pz, sg, rc, ev>>
    BY <1>15, ContinuedType DEF RecoverySubmit
  <2> QED BY <2>2, <2>3, <2>4
<1>16. CASE RecoveryRecord(t)
  <2> DEFINE n == rec[t].started
  <2>1. n \in Turn
    BY <1>16, Turns DEF RecoveryRecord, RecoveryType
  <2>2. /\ s' = [TurnRunning(s, n) EXCEPT !.submittingResume = FALSE]
        /\ pz' = SpawnPauseInterrupt(s, n)
        /\ w' = WatchTurn(n)
        /\ Returns(t)
        /\ UNCHANGED <<cyb, chk, sg, rc, ev, events, srv, hist>>
    BY <1>16 DEF RecoveryRecord
  <2> HIDE DEF n
  <2>3. s' \in SupervisorType
    BY <2>1, <2>2, TurnRecordedType DEF SupervisorType
  <2> QED BY <2>1, <2>2, <2>3, TurnRecordedType, ReturnsType
<1>17. CASE RecoveryStartFails(t)
  BY <1>1, <1>17, FailedType DEF RecoveryStartFails
<1>18. CASE RecoveryFinish(t)
  <2> DEFINE ended == [s EXCEPT !.recovery = None, !.pendingRecovery = None]
             next == s.pendingRecovery
             done == [rec EXCEPT ![t].pc = "done"]
  <2>1. ended \in SupervisorType /\ next \in TurnOrNone
    BY Turns, Zenon DEF SupervisorType
  <2>2. done \in [Turn -> RecoveryType] /\ Probing(done)
    BY DEF RecoveryType
  <2>3. /\ \/ rec' = done
           \/ next # None /\ rec' = [done EXCEPT ![next] = RecoveryStarted]
        /\ \/ s' \in {s, ended}
           \/ next # None /\ s' = StartRecovery(ended, next)
        /\ recUnchanged' = recUnchanged
    BY <1>18 DEF RecoveryFinish
  <2> HIDE DEF ended, next, done
  <2>4. s' \in SupervisorType
    BY <2>1, <2>3, Turns, StartRecoveryType
  <2>5. rec' \in [Turn -> RecoveryType] /\ Probing(rec')
    BY <2>1, <2>2, <2>3, Turns, RecoveryStartedType
  <2> QED BY <1>1, <2>3, <2>4, <2>5
<1> QED
  BY <1>2, <1>3, <1>4, <1>5, <1>6, <1>8, <1>9, <1>10, <1>11, <1>12, <1>13,
     <1>14, <1>15, <1>16, <1>17, <1>18 DEF Recovery

-----------------------------------------------------------------------------
(* Cyber-policy retries.                                                   *)

\* A cyber-policy retry that ends.
LEMMA CyberEndsType ==
    ASSUME TypeInv, NEW t \in Turn, CyberEnds(t)
    PROVE  cyb' \in [Turn -> CyberType]
<1> DEFINE r == [NoCyber EXCEPT !.pc = "done"]
<1>1. r \in CyberType
  BY Turns DEF NoCyber, CyberType
<1>2. cyb' = [cyb EXCEPT ![t] = r]
  BY DEF CyberEnds
<1> HIDE DEF r
<1> QED BY <1>1, <1>2 DEF TypeInv, TypeOK

\* Clearing submittingResume.
LEMMA NotSubmittingType ==
    ASSUME NEW st \in SupervisorType
    PROVE  NotSubmitting(st) \in SupervisorType
BY DEF NotSubmitting, SupervisorType

\* Every step of a cyber-policy retry preserves the types.
LEMMA CyberStepType ==
    ASSUME TypeInv, NEW t \in Turn, Cyber(t)
    PROVE  TypeInv'
<1> USE DEF TypeInv, TypeOK, Located, cybUnchanged
<1>1. ASSUME s' \in SupervisorType, cybUnchanged' = cybUnchanged,
             \/ CyberEnds(t)
             \/ CyberGoto(t, "request")
             \/ CyberGoto(t, "submit")
      PROVE  TypeInv'
  <2>1. cyb' \in [Turn -> CyberType]
    BY <1>1, CyberEndsType DEF CyberGoto, CyberType
  <2> QED BY <1>1, <2>1
<1>2. CASE CyberStart(t)
  <2> DEFINE started ==
               [s EXCEPT !.submittingResume = TRUE, !.phase = "resuming",
                         !.resumeRequestedFor = t, !.autoResumes = @ + 1,
                         !.cyberAttempts = @ + 1]
  <2>1. /\ cybUnchanged' = cybUnchanged
        /\ \/ s' \in {s, SetAttention(s)} /\ CyberEnds(t)
           \/ /\ s.cyberAttempts < 3 /\ s' = started
              /\ CyberGoto(t, "request")
    BY <1>2 DEF CyberStart, CyberMayStart
  <2>2. ASSUME s.cyberAttempts < 3
        PROVE  started \in SupervisorType
    <3>1. s.autoResumes + 1 \in Nat /\ s.cyberAttempts + 1 \in 0 .. 3
      BY <2>2 DEF SupervisorType
    <3> QED BY <3>1, Turns, Zenon DEF SupervisorType, Phases
  <2> HIDE DEF started
  <2>3. s' \in SupervisorType
    BY <2>1, <2>2, SetAttentionType
  <2> QED BY <1>1, <2>1, <2>3
<1>3. CASE CyberRequest(t)
  BY <1>1, <1>3 DEF CyberRequest
<1>4. CASE CyberPaused(t)
  BY <1>1, <1>4, NotSubmittingType DEF CyberPaused
<1>5. CASE CyberFails(t)
  BY <1>1, <1>5, NotSubmittingType, SetAttentionType DEF CyberFails
<1>6. CASE CyberSubmit(t)
  <2>1. PICK o \in StartOutcomes :
          /\ srv' = o.srv
          /\ events' = o.events
          /\ cyb' = [cyb EXCEPT ![t].pc = "record", ![t].started = o.started]
    BY <1>6 DEF CyberSubmit
  <2>2. o.started \in TurnOrNone /\ srv' \in ServerType /\ events' \in Seq(Event)
    BY <2>1, StartOutcomesType
  <2>3. cyb' \in [Turn -> CyberType]
    <3> DEFINE r == [cyb[t] EXCEPT !.pc = "record", !.started = o.started]
    <3>1. r \in CyberType
      BY <2>2, Zenon DEF CyberType
    <3>2. cyb' = [cyb EXCEPT ![t] = r]
      BY <2>1
    <3> HIDE DEF r
    <3> QED BY <3>1, <3>2
  <2>4. hist' \in HistoryType /\ UNCHANGED <<s, w, rec, chk, pz, sg, rc, ev>>
    BY <1>6, ContinuedType DEF CyberSubmit
  <2> QED BY <2>2, <2>3, <2>4
<1>7. CASE CyberTurnStarted(t)
  <2> DEFINE n == cyb[t].started
  <2>1. n \in Turn
    BY <1>7, Turns DEF CyberTurnStarted, CyberType
  <2>2. /\ s' = NotSubmitting(TurnRunning(s, n))
        /\ pz' = SpawnPauseInterrupt(s, n)
        /\ w' = WatchTurn(n)
        /\ CyberEnds(t)
        /\ UNCHANGED <<rec, chk, sg, rc, ev, events, srv, hist>>
    BY <1>7 DEF CyberTurnStarted
  <2> HIDE DEF n
  <2> QED BY <2>1, <2>2, TurnRecordedType, NotSubmittingType, CyberEndsType
<1> QED
  BY <1>2, <1>3, <1>4, <1>5, <1>6, <1>7 DEF Cyber

-----------------------------------------------------------------------------
(* The stall watchdog.                                                     *)

\* A tick of the stall watchdog preserves the types.
LEMMA StallTickType ==
    ASSUME TypeInv, StallTick
    PROVE  TypeInv'
<1> USE DEF TypeInv, TypeOK, Located, sgUnchanged
<1>1. CASE StallSuspected
  BY <1>1, PhaseType DEF StallSuspected, WatchdogType, Phases
<1>2. CASE StallConfirmed
  <2>1. w.turn \in Turn
    BY <1>2, Turns DEF StallConfirmed, MayEvaluate, WatchdogType
  <2>2. w' \in WatchdogType
    BY <1>2, Zenon DEF StallConfirmed, WatchdogType
  <2>3. s' \in SupervisorType
    BY <1>2, Zenon DEF StallConfirmed, SupervisorType
  <2>4. sg' \in StallType /\ sg'.turn # None
    BY <1>2, <2>1, Turns DEF StallConfirmed, NoStall, StallType, Answers, ThreadStatuses, TerminalStatuses
  <2>5. hist' \in HistoryType /\ UNCHANGED <<rec, cyb, chk, pz, rc, ev, events, srv>>
    BY <1>2 DEF StallConfirmed, HistoryType
  <2> QED BY <2>2, <2>3, <2>4, <2>5
<1> QED BY <1>1, <1>2 DEF StallTick

\* The deferred clean-up of a stall recovery, with and without a submission.
LEMMA EndedType ==
    ASSUME NEW st \in SupervisorType
    PROVE  Ended(st) \in SupervisorType /\ SubmitEnded(st) \in SupervisorType
<1>1. Ended(st) \in SupervisorType
  BY DEF Ended, SupervisorType
<1> QED BY <1>1 DEF SubmitEnded, SupervisorType

\* failStallRecovery.
LEMMA FailStallType ==
    ASSUME NEW st \in SupervisorType
    PROVE  FailStall(st) \in SupervisorType
BY SetAttentionType DEF FailStall

\* What it leaves of the watchdog.
LEMMA FailWatchType ==
    ASSUME w \in WatchdogType
    PROVE  FailWatch \in WatchdogType
BY WatchdogMethodsType DEF FailWatch

\* No stall recovery is a value of its type.
LEMMA NoStallType == NoStall \in StallType
BY Turns DEF NoStall, StallType, Answers, ThreadStatuses, TerminalStatuses

\* Every step of a stall recovery preserves the types.
LEMMA StallStepType ==
    ASSUME TypeInv, StallStep
    PROVE  TypeInv'
<1> USE DEF TypeInv, TypeOK, Located, sgUnchanged
\* The steps that only move the goroutine or end it.
<1>1. ASSUME s' \in SupervisorType, w' \in WatchdogType,
             UNCHANGED <<chk, srv, sgUnchanged>>,
             \/ StallEnds
             \/ sg' \in StallType /\ sg.pc # "off" /\ sg'.turn = sg.turn
      PROVE  TypeInv'
  BY <1>1, NoStallType DEF StallEnds, NoStall
<1>2. ASSUME NEW pc \in {"read", "announce", "register", "ask", "wait",
                           "mark", "submit"},
             StallGoto(pc)
      PROVE  sg' \in StallType /\ sg'.turn = sg.turn
  BY <1>2 DEF StallGoto, StallType
<1>3. CASE StallConfirm
  <2>1. s' \in SupervisorType /\ w' \in WatchdogType
    BY <1>3, EndedType, SetAttentionType, WatchdogMethodsType DEF StallConfirm
  <2> QED BY <1>1, <1>2, <1>3, <2>1 DEF StallConfirm, StallAt
<1>4. CASE StallReadAnswered
  <2>1. PICK status \in ReadOutcomes :
          sg' = [sg EXCEPT !.pc = "status", !.status = status]
    BY <1>4 DEF StallReadAnswered
  <2>2. sg' \in StallType /\ sg'.turn = sg.turn
    BY <2>1, ReadOutcomesType, Zenon DEF StallType
  <2> QED BY <1>1, <1>4, <2>2 DEF StallReadAnswered, StallAt
<1>5. CASE StallStatusRejected
  <2>1. s' \in SupervisorType /\ w' \in WatchdogType
    BY <1>5, EndedType, FailStallType, FailWatchType, WatchdogMethodsType
       DEF StallStatusRejected
  <2> QED BY <1>1, <1>5, <2>1 DEF StallStatusRejected
<1>6. CASE StallStatusInactive
  <2> DEFINE st == [s EXCEPT !.activeTurn = None]
  <2>1. st \in SupervisorType
    BY Turns DEF SupervisorType
  <2>2. s' \in {Ended([st EXCEPT !.phase = "idle"]), Ended(SetAttention(st))}
    BY <1>6 DEF StallStatusInactive
  <2> HIDE DEF st
  <2>3. [st EXCEPT !.phase = "idle"] \in SupervisorType
    BY <2>1 DEF SupervisorType, Phases
  <2>4. s' \in SupervisorType
    BY <2>1, <2>2, <2>3, EndedType, SetAttentionType
  <2> QED BY <1>1, <1>6, <2>4, WatchdogMethodsType DEF StallStatusInactive
<1>7. CASE StallStatusWaiting
  BY <1>1, <1>7, PhaseType, EndedType, WatchdogMethodsType
     DEF StallStatusWaiting, Phases
<1>16. CASE StallStatusActive
  BY <1>1, <1>2, <1>16 DEF StallStatusActive, StallStatusUsable, StallAt
<1>17. CASE StallAnnounce
  BY <1>1, <1>2, <1>17, PhaseType DEF StallAnnounce, StallAt, Phases
<1>18. CASE StallRegister
  <2>1. sg.turn \in Turn
    BY <1>18, Turns DEF StallRegister, StallAt, StallType
  <2> DEFINE ws == [s.waiters EXCEPT ![sg.turn] = "stall"]
  <2>2. ws \in [Turn -> {"none", "stall", "check"}]
    BY DEF SupervisorType
  <2>3. s' = [s EXCEPT !.watchdogInterrupted = @ \cup {sg.turn},
                       !.waiters = ws]
    BY <1>18 DEF StallRegister
  <2> HIDE DEF ws
  <2>4. s' \in SupervisorType
    BY <2>1, <2>2, <2>3, Zenon DEF SupervisorType
  <2> QED BY <1>1, <1>2, <1>18, <2>4 DEF StallRegister, StallAt
<1>8. CASE StallInterrupt
  <2>1. PICK o \in InterruptOutcomes(sg.turn) :
          /\ srv' = o.srv
          /\ sg' = [sg EXCEPT !.pc = "interrupt", !.answer = o.answer]
    BY <1>8 DEF StallInterrupt
  <2>2. srv' \in ServerType /\ o.answer \in Answers
    BY <2>1, InterruptOutcomesType
  <2>3. sg' \in StallType /\ sg'.turn = sg.turn
    BY <2>1, <2>2, Zenon DEF StallType
  <2>4. sg.pc # "off" /\ UNCHANGED <<s, w, chk, sgUnchanged>>
    BY <1>8 DEF StallInterrupt, StallAt
  <2> QED BY <2>2, <2>3, <2>4
<1>9. CASE StallInterruptAnswered
  <2> DEFINE taken == TakeWaiters(s, {sg.turn})
             st == [taken EXCEPT !.watchdogInterrupted =
                      IF sg.answer = "timeout" THEN @ ELSE @ \ {sg.turn}]
  <2>1. taken \in SupervisorType
    BY TakeWaitersType
  <2>2. \/ StallGoto("wait") /\ UNCHANGED <<s, w>>
        \/ s' = Ended(FailStall(st)) /\ w' = FailWatch /\ StallEnds
    BY <1>9 DEF StallInterruptAnswered
  <2>3. sg.pc # "off" /\ UNCHANGED <<chk, srv, sgUnchanged>>
    BY <1>9 DEF StallInterruptAnswered, StallAt
  <2> HIDE DEF taken
  <2>4. st \in SupervisorType
    BY <2>1 DEF SupervisorType
  <2> HIDE DEF st
  <2>5. s' \in SupervisorType /\ w' \in WatchdogType
    BY <2>2, <2>4, EndedType, FailStallType, FailWatchType
  <2> QED BY <1>1, <1>2, <2>2, <2>3, <2>5
<1>10. CASE StallTerminal
  BY <1>1, <1>2, <1>10, EndedType DEF StallTerminal, StallAt
<1>11. CASE StallNotTerminal
  <2>1. s' \in SupervisorType /\ w' \in WatchdogType
    BY <1>11, TakeWaitersType, EndedType, FailStallType, FailWatchType
       DEF StallNotTerminal
  <2> QED BY <1>1, <1>11, <2>1 DEF StallNotTerminal
<1>12. CASE StallMark
  <2>1. s.autoResumes + 1 \in Nat /\ s.stallResumes + 1 \in Nat
        /\ sg.turn \in TurnOrNone
    BY DEF SupervisorType, StallType
  <2>2. s' \in SupervisorType
    BY <1>12, <2>1, Zenon DEF StallMark, SupervisorType, Phases
  <2> QED BY <1>1, <1>2, <1>12, <2>2 DEF StallMark, StallAt
<1>13. CASE StallSubmit
  <2>1. PICK o \in StartOutcomes :
          /\ srv' = o.srv
          /\ events' = o.events
          /\ sg' = [sg EXCEPT !.pc = "record", !.started = o.started]
    BY <1>13 DEF StallSubmit
  <2>2. o.started \in TurnOrNone /\ srv' \in ServerType /\ events' \in Seq(Event)
    BY <2>1, StartOutcomesType
  <2>3. sg' \in StallType /\ sg'.turn = sg.turn
    BY <2>1, <2>2, Zenon DEF StallType
  <2>4. sg.turn \in Turn /\ sg.pc # "off"
    BY <1>13, Turns DEF StallSubmit, StallAt, StallType
  <2>5. hist' \in HistoryType /\ UNCHANGED <<s, w, rec, cyb, chk, pz, rc, ev>>
    BY <1>13, <2>4, ContinuedType DEF StallSubmit
  <2> QED BY <2>2, <2>3, <2>4, <2>5
<1>14. CASE StallSubmitFails
  <2>1. s' \in SupervisorType /\ w' \in WatchdogType
    BY <1>14, EndedType, FailStallType, FailWatchType DEF StallSubmitFails
  <2> QED BY <1>1, <1>14, <2>1 DEF StallSubmitFails
<1>15. CASE StallTurnStarted
  <2> DEFINE n == sg.started
  <2>1. n \in Turn
    BY <1>15, Turns DEF StallTurnStarted, StallType
  <2>2. /\ s' = SubmitEnded(TurnRunning(s, n))
        /\ pz' = SpawnPauseInterrupt(s, n)
        /\ w' = WatchTurn(n)
        /\ StallEnds
        /\ UNCHANGED <<rec, cyb, chk, rc, ev, events, srv, hist>>
    BY <1>15 DEF StallTurnStarted
  <2> HIDE DEF n
  <2> QED BY <2>1, <2>2, TurnRecordedType, EndedType, NoStallType
          DEF StallEnds, NoStall
<1> QED
  BY <1>3, <1>4, <1>5, <1>6, <1>7, <1>8, <1>9, <1>10, <1>11, <1>12, <1>13,
     <1>14, <1>15, <1>16, <1>17, <1>18 DEF StallStep

-----------------------------------------------------------------------------
(* The reconciliation of terminal errors.                                  *)

\* No reconciliation is a value of its type.
LEMMA NoCheckType == NoCheck \in CheckType
BY ConstantsAssumption DEF NoCheck, CheckType, Answers, ThreadStatuses, TerminalStatuses

\* WithoutTerminal, what recoverPendingErrorWithoutTerminal starts from.
LEMMA RecoveredType ==
    ASSUME s \in SupervisorType, NEW t \in Turn
    PROVE  WithoutTerminal(s, t) \in SupervisorType
<1> DEFINE dropped == DropPending(s, {t})
           a == IF dropped.activeTurn = t THEN None ELSE dropped.activeTurn
           h == dropped.handledTurns \cup {t}
<1>1. dropped \in SupervisorType
  BY DropPendingType
<1>2. a \in TurnOrNone /\ h \in SUBSET Turn
  BY <1>1, Turns DEF SupervisorType
<1>3. WithoutTerminal(s, t) = [dropped EXCEPT !.handledTurns = h, !.activeTurn = a]
  BY DEF WithoutTerminal
<1> HIDE DEF dropped, a, h
<1> QED BY <1>1, <1>2, <1>3, Zenon DEF SupervisorType

\* recoverPendingErrorWithoutTerminal preserves the types.
LEMMA WithoutTerminalType ==
    ASSUME TypeInv, NEW t \in Turn, RecoverWithoutTerminal(t)
    PROVE  /\ s' \in SupervisorType
           /\ rec' \in [Turn -> RecoveryType] /\ Probing(rec')
           /\ w' \in WatchdogType
<1> USE DEF TypeInv, TypeOK, Located, Probing
<1> DEFINE st == WithoutTerminal(s, t)
<1>1. st \in SupervisorType
  BY RecoveredType
<1>2. /\ s' = StartRecovery(st, t)
      /\ rec' = SpawnRecovery(st, t)
      /\ w' = CompleteWatch(w, t)
  BY DEF RecoverWithoutTerminal
<1> HIDE DEF st
<1> QED BY <1>1, <1>2, StartRecoveryType, SpawnRecoveryType, WatchdogMethodsType

\* Every step of a reconciliation preserves the types.
LEMMA CheckStepType ==
    ASSUME TypeInv, NEW t \in Turn, Check(t)
    PROVE  TypeInv'
<1> USE DEF TypeInv, TypeOK, Located, chkUnchanged, Probing
\* The steps that only move the goroutine or end it.
<1>1. ASSUME s' \in SupervisorType, w' \in WatchdogType,
             rec' \in [Turn -> RecoveryType], Probing(rec'),
             UNCHANGED <<srv, chkUnchanged>>,
             \/ CheckEnds(t)
             \/ \E pc \in {"wait", "reread"} : CheckGoto(t, pc)
             \/ chk' = chk
      PROVE  TypeInv'
  <2>1. chk' \in [Turn -> CheckType]
    <3>1. CASE CheckEnds(t)
      BY <3>1, NoCheckType DEF CheckEnds
    <3>2. ASSUME NEW pc \in {"wait", "reread"}, CheckGoto(t, pc)
          PROVE  chk' \in [Turn -> CheckType]
      BY <3>2 DEF CheckGoto, CheckType
    <3> QED BY <1>1, <3>1, <3>2
  <2> QED BY <1>1, <2>1
<1>2. ASSUME NEW x \in {"none", "fired"}
      PROVE  [s EXCEPT !.pending[t].timer = x] \in SupervisorType
  <2> DEFINE p == [s.pending[t] EXCEPT !.timer = x]
  <2>1. p \in PendingError
    <3>1. s.pending[t] \in PendingError
      BY DEF SupervisorType
    <3> QED BY <1>2, <3>1, Zenon DEF PendingError
  <2>2. [s EXCEPT !.pending[t].timer = x] = [s EXCEPT !.pending[t] = p]
    BY DEF SupervisorType
  <2> HIDE DEF p
  <2> QED BY <2>1, <2>2 DEF SupervisorType
<1>3. CASE GraceExpiresInactive(t)
  BY <1>1, <1>2, <1>3 DEF GraceExpiresInactive
<1>4. CASE GraceExpiresBusy(t)
  BY <1>1, <1>4, ArmPendingType DEF GraceExpiresBusy
<1>5. CASE GraceExpiresSuperseded(t)
  BY <1>1, <1>5, DropPendingType DEF GraceExpiresSuperseded
<1>6. CASE GraceExpires(t)
  <2> DEFINE g == s.pending[t].generation
             r == [NoCheck EXCEPT !.pc = "read", !.generation = g]
  <2>1. g \in 0 .. MaxGeneration
    BY DEF SupervisorType, PendingError
  <2>2. r \in CheckType
    BY <2>1, NoCheckType, Zenon DEF CheckType
  <2>3. s' = [s EXCEPT !.pending[t].timer = "none"] /\ chk' = [chk EXCEPT ![t] = r]
        /\ UNCHANGED <<w, rec, srv, chkUnchanged>>
    BY <1>6 DEF GraceExpires
  <2> HIDE DEF r
  <2>4. s' \in SupervisorType
    BY <1>2, <2>3
  <2> QED BY <2>2, <2>3, <2>4
<1>7. CASE ReadAnswered(t)
  <2>1. PICK status \in ReadOutcomes :
        chk' = [chk EXCEPT ![t].status = status,
                  ![t].pc = IF @ = "read" THEN "status" ELSE "restatus"]
    BY <1>7 DEF ReadAnswered
  <2> DEFINE pc == IF chk[t].pc = "read" THEN "status" ELSE "restatus"
             r == [chk[t] EXCEPT !.status = status, !.pc = pc]
  <2>2. pc \in {"status", "restatus"} /\ status \in ThreadStatuses
    BY ReadOutcomesType
  <2>3. chk' = [chk EXCEPT ![t] = r]
    BY <2>1 DEF CheckType
  <2> HIDE DEF pc
  <2>4. r \in CheckType
    BY <2>2, Zenon DEF CheckType
  <2> HIDE DEF r
  <2> QED BY <1>7, <2>3, <2>4 DEF ReadAnswered
<1>8. CASE CheckRejected(t)
  <2>1. s' \in SupervisorType /\ w' \in WatchdogType
    BY <1>8, FailPendingType, WatchdogMethodsType DEF CheckRejected
  <2> QED BY <1>1, <1>8, <2>1 DEF CheckRejected
<1>9. CASE CheckInactive(t)
  BY <1>1, <1>9, WithoutTerminalType DEF CheckInactive
<1>10. CASE CheckWaiting(t)
  <2> DEFINE st == CancelPending(s, t)
  <2>1. st \in SupervisorType
    BY CancelPendingType
  <2>2. s' = [st EXCEPT !.phase = "waiting-for-user"] /\ w' = WaitForUser(w)
        /\ CheckEnds(t) /\ UNCHANGED <<rec, srv, chkUnchanged>>
    BY <1>10 DEF CheckWaiting
  <2> HIDE DEF st
  <2>3. s' \in SupervisorType /\ w' \in WatchdogType
    BY <2>1, <2>2, WatchdogMethodsType DEF SupervisorType, Phases
  <2> QED BY <1>1, <2>2, <2>3
<1>11. CASE CheckInterrupt(t)
  <2>1. PICK o \in InterruptOutcomes(t) :
          /\ srv' = o.srv
          /\ chk' = [chk EXCEPT ![t].pc = "interrupt", ![t].answer = o.answer]
    BY <1>11 DEF CheckInterrupt
  <2>2. srv' \in ServerType /\ o.answer \in Answers
    BY <2>1, InterruptOutcomesType
  <2>3. chk' \in [Turn -> CheckType]
    <3> DEFINE r == [chk[t] EXCEPT !.pc = "interrupt", !.answer = o.answer]
    <3>1. r \in CheckType
      BY <2>2, Zenon DEF CheckType
    <3>2. chk' = [chk EXCEPT ![t] = r]
      BY <2>1
    <3> HIDE DEF r
    <3> QED BY <3>1, <3>2
  <2>4. s' \in SupervisorType
    <3> DEFINE q == [Arm(s.pending[t]) EXCEPT !.timer = s.pending[t].timer,
                                              !.interrupting = TRUE]
               ps == [s.pending EXCEPT ![t] = q]
               ws == [s.waiters EXCEPT ![t] = "check"]
    <3>1. q \in PendingError
      <4>1. s.pending[t] \in PendingError
        BY DEF SupervisorType
      <4>2. Arm(s.pending[t]) \in PendingError
        BY <4>1, ArmType
      <4>3. s.pending[t].timer \in {"none", "running", "fired"}
        BY <4>1 DEF PendingError
      <4> QED BY <4>2, <4>3, Zenon DEF PendingError
    <3>2. s' = [s EXCEPT !.pending = ps, !.waiters = ws,
                         !.phase = "interrupting-error"]
      BY <1>11 DEF CheckInterrupt
    <3> HIDE DEF q
    <3>3. ps \in [Turn -> PendingError]
      BY <3>1 DEF SupervisorType
    <3>4. ws \in [Turn -> {"none", "stall", "check"}]
      BY DEF SupervisorType
    <3> HIDE DEF ps, ws
    <3> QED BY <3>2, <3>3, <3>4, Zenon DEF SupervisorType, Phases
  <2>5. UNCHANGED <<w, rec, chkUnchanged>>
    BY <1>11 DEF CheckInterrupt
  <2> QED BY <2>2, <2>3, <2>4, <2>5
<1>12. CASE CheckInterruptAnswered(t)
  <2>1. s' \in SupervisorType
    BY <1>12, TakeWaitersType, FailPendingType DEF CheckInterruptAnswered
  <2> QED BY <1>1, <1>12, <2>1 DEF CheckInterruptAnswered
<1>13. CASE CheckTerminal(t)
  BY <1>1, <1>13 DEF CheckTerminal
<1>14. CASE CheckNotTerminal(t)
  BY <1>1, <1>14, TakeWaitersType DEF CheckNotTerminal
<1>15. CASE Recheck(t)
  <2>1. \/ s' \in {s, FailPending(s, t, 0)} /\ UNCHANGED <<w, rec>>
        \/ RecoverWithoutTerminal(t)
    BY <1>15 DEF Recheck
  <2>2. /\ s' \in SupervisorType /\ w' \in WatchdogType
        /\ rec' \in [Turn -> RecoveryType] /\ Probing(rec')
    BY <2>1, FailPendingType, WithoutTerminalType
  <2> QED BY <1>1, <1>15, <2>2 DEF Recheck
<1> QED
  BY <1>3, <1>4, <1>5, <1>6, <1>7, <1>8, <1>9, <1>10, <1>11, <1>12, <1>13,
     <1>14, <1>15 DEF Check

-----------------------------------------------------------------------------
(* Remote commands, paused turns, the shutdown.                            *)

\* The interrupt of a paused turn preserves the types.
LEMMA PausedInterruptType ==
    ASSUME TypeInv, NEW t \in Turn, PausedInterrupt(t)
    PROVE  TypeInv'
<1> USE DEF TypeInv, TypeOK, Located, rcUnchanged
<1>1. CASE PausedInterruptRequest(t)
  <2>1. PICK o \in InterruptOutcomes(t) :
          /\ srv' = o.srv
          /\ pz' = [pz EXCEPT ![t] = [pc |-> "answer", answer |-> o.answer]]
    BY <1>1 DEF PausedInterruptRequest
  <2>2. srv' \in ServerType /\ o.answer \in Answers
    BY <2>1, InterruptOutcomesType
  <2>3. pz' \in [Turn -> PauseType]
    BY <2>1, <2>2 DEF PauseType
  <2> QED BY <1>1, <2>2, <2>3 DEF PausedInterruptRequest
<1>2. CASE PausedInterruptAnswered(t)
  <2> DEFINE st == [s EXCEPT !.pauseInterrupting = @ \ {t}]
             paused == [st EXCEPT
                        !.handledTurns = @ \cup {t},
                        !.activeTurn = IF @ = t THEN None ELSE @,
                        !.manualPaused = TRUE, !.phase = "paused"]
  <2>1. st \in SupervisorType
    BY DEF SupervisorType
  <2>2. s' \in {st, paused} /\ w' \in {w, CompleteWatch(w, t)}
        /\ pz' = [pz EXCEPT ![t] = NoPause]
        /\ UNCHANGED <<chk, sg, rc, events, srv, hist, rcUnchanged>>
    BY <1>2 DEF PausedInterruptAnswered
  <2> HIDE DEF st
  <2>3. paused \in SupervisorType
    BY <2>1, Turns, Zenon DEF SupervisorType, Phases
  <2> HIDE DEF paused
  <2>4. NoPause \in PauseType
    BY DEF NoPause, PauseType, Answers
  <2> QED BY <2>1, <2>2, <2>3, <2>4, WatchdogMethodsType
<1> QED BY <1>1, <1>2 DEF PausedInterrupt

\* The counters and flags an explicit resume resets.
LEMMA FreshAttemptType ==
    ASSUME NEW st \in SupervisorType
    PROVE  FreshAttempt(st) \in SupervisorType
<1> DEFINE c == CancelRecovery(st)
<1>1. c \in SupervisorType
  BY CancelRecoveryType
<1>2. FreshAttempt(st) = [c EXCEPT
        !.manualPaused = FALSE, !.phase = "resuming", !.autoResumes = 0,
        !.stallResumes = 0, !.resumeRequestedFor = None]
  BY DEF FreshAttempt
<1>3. 0 \in Nat
  OBVIOUS
<1> DEFINE a == [c EXCEPT !.manualPaused = FALSE, !.phase = "resuming",
                          !.autoResumes = 0]
<1>4. FreshAttempt(st) = [a EXCEPT !.stallResumes = 0, !.resumeRequestedFor = None]
  BY <1>2
<1> HIDE DEF c
<1>5. a \in SupervisorType
  BY <1>1, <1>3, Zenon DEF SupervisorType, Phases
<1> HIDE DEF a
<1> QED BY <1>3, <1>4, <1>5, Turns, Zenon DEF SupervisorType

\* What a pause sets and cancels.
LEMMA PauseAcceptedType ==
    ASSUME NEW st \in SupervisorType
    PROVE  PauseAccepted(st) \in SupervisorType
<1> DEFINE c == CancelRecovery(TakeWaiters(DropPending(st, Turn), Turn))
<1>1. c \in SupervisorType
  BY CancelRecoveryType, TakeWaitersType, DropPendingType
<1>2. PauseAccepted(st) =
        [c EXCEPT !.manualPaused = TRUE, !.phase = "paused", !.stallCurrent = FALSE]
  BY DEF PauseAccepted
<1> HIDE DEF c
<1> QED BY <1>1, <1>2, Zenon DEF SupervisorType, Phases

\* No remote command is a value of its type.
LEMMA NoCommandType == NoCommand \in RemoteType
BY Turns DEF NoCommand, RemoteType, Answers

\* A pause and the shutdown tell every waiter that it is cancelled.
LEMMA CancelledNoticeType ==
    ASSUME TypeInv
    PROVE  /\ NotifyStall(s, Turn, "cancelled") \in StallType
           /\ NotifyStall(s, Turn, "cancelled").pc = sg.pc
           /\ NotifyStall(s, Turn, "cancelled").turn = sg.turn
           /\ NotifyChecks(s, Turn, "cancelled") \in [Turn -> CheckType]
<1>1. "cancelled" \in TerminalStatuses
  BY DEF TerminalStatuses
<1>2. /\ NotifyStall(s, Turn, "cancelled") \in StallType
      /\ NotifyChecks(s, Turn, "cancelled") \in [Turn -> CheckType]
  BY <1>1, NotifyStallType, NotifyChecksType DEF TypeInv, TypeOK
<1> QED BY <1>2 DEF NotifyStall, TypeInv, TypeOK, StallType

\* Every step of a remote command preserves the types.
LEMMA RemoteStepType ==
    ASSUME TypeInv, Remote
    PROVE  TypeInv'
<1> USE DEF TypeInv, TypeOK, Located, rcUnchanged
\* The steps that only move the command or end it.
<1>1. ASSUME s' \in SupervisorType, w' \in WatchdogType, srv' \in ServerType,
             UNCHANGED <<chk, sg, pz, events, hist, rcUnchanged>>,
             \/ CommandEnds
             \/ \E pc \in {"goal", "goalset", "submit", "prompt"} : CommandGoto(pc)
             \/ rc' = rc
      PROVE  TypeInv'
  <2>1. rc' \in RemoteType /\ (rc'.pc = "pausing" => rc'.turn # None)
    BY <1>1, NoCommandType DEF CommandEnds, CommandGoto, RemoteType, NoCommand
  <2> QED BY <1>1, <2>1
<1>2. CASE RemotePause
  <2>1. /\ s' = PauseAccepted(s) /\ w' = CancelWatch(w)
        /\ sg' = NotifyStall(s, Turn, "cancelled")
        /\ chk' = NotifyChecks(s, Turn, "cancelled")
        /\ UNCHANGED <<pz, events, hist, rcUnchanged>>
    BY <1>2 DEF RemotePause
  <2>2. s' \in SupervisorType /\ w' \in WatchdogType
    BY <2>1, PauseAcceptedType, WatchdogMethodsType
  <2>3. CASE s.activeTurn = None
    BY <1>2, <2>1, <2>2, <2>3, CancelledNoticeType DEF RemotePause
  <2>4. CASE s.activeTurn # None
    <3>1. PICK o \in InterruptOutcomes(s.activeTurn) :
                /\ srv' = o.srv
                /\ rc' = [NoCommand EXCEPT !.pc = "pausing",
                            !.turn = s.activeTurn, !.answer = o.answer]
      BY <1>2, <2>4 DEF RemotePause
    <3>2. srv' \in ServerType /\ o.answer \in Answers /\ s.activeTurn \in TurnOrNone
      BY <3>1, InterruptOutcomesType DEF SupervisorType
    <3>3. rc' \in RemoteType
      BY <3>1, <3>2, NoCommandType, Zenon DEF RemoteType
    <3>4. rc'.turn = s.activeTurn
      BY <3>1 DEF NoCommand
    <3> QED BY <2>1, <2>2, <2>4, <3>2, <3>3, <3>4, CancelledNoticeType
  <2> QED BY <2>3, <2>4
<1>3. CASE RemoteResume
  <2>1. [s EXCEPT !.manualPaused = FALSE] \in SupervisorType
    BY DEF SupervisorType
  <2> QED BY <1>1, <1>3, <2>1, FreshAttemptType DEF RemoteResume
<1>4. CASE RemotePromptSteers
  <2>1. rc' \in RemoteType /\ rc'.pc = "steering"
    BY <1>4, NoCommandType DEF RemotePromptSteers, RemoteType, SupervisorType, NoCommand
  <2> QED BY <1>4, <2>1 DEF RemotePromptSteers
<1>5. CASE RemotePromptStarts
  BY <1>1, <1>5 DEF RemotePromptStarts
<1>6. CASE RemotePauseAnswered
  <2> DEFINE paused == [s EXCEPT !.activeTurn = None, !.phase = "paused",
                                 !.manualPaused = TRUE,
                                 !.handledTurns = @ \cup {rc.turn}]
  <2>1. paused \in SupervisorType
    <3> DEFINE h == s.handledTurns \cup {rc.turn}
    <3>1. h \in SUBSET Turn
      BY <1>6, Turns DEF RemotePauseAnswered, CommandAt, RemoteType, SupervisorType
    <3> HIDE DEF h
    <3>2. [s EXCEPT !.activeTurn = None, !.phase = "paused",
                    !.manualPaused = TRUE, !.handledTurns = h] \in SupervisorType
      BY <3>1, Turns, Zenon DEF SupervisorType, Phases
    <3> QED BY <3>2 DEF h
  <2>2. s' \in SupervisorType /\ w' \in WatchdogType
    <3>1. s' \in {s, paused} /\ w' \in {w, CompleteWatch(w, rc.turn)}
      BY <1>6 DEF RemotePauseAnswered
    <3> HIDE DEF paused
    <3> QED BY <2>1, <3>1, WatchdogMethodsType
  <2> QED BY <1>1, <1>6, <2>2 DEF RemotePauseAnswered
<1>7. CASE RemoteSteerAnswered
  <2>1. [s EXCEPT !.manualPaused = FALSE, !.phase = "running"] \in SupervisorType
    BY Zenon DEF SupervisorType, Phases
  <2> QED BY <1>1, <1>7, <2>1 DEF RemoteSteerAnswered
<1>8. CASE RemotePrompt
  BY <1>1, <1>8, FreshAttemptType DEF RemotePrompt
<1>9. CASE ContinuationGoal
  BY <1>1, <1>9 DEF ContinuationGoal
<1>10. CASE ContinuationGoalSet
  <2>1. [s EXCEPT !.phase = "running", !.activeTurn = None] \in SupervisorType
    BY Turns, Zenon DEF SupervisorType, Phases
  <2> QED BY <1>1, <1>10, <2>1, GoalSetType DEF ContinuationGoalSet
<1>11. CASE ContinuationSubmit
  <2>1. PICK o \in StartOutcomes :
          /\ srv' = o.srv
          /\ events' = o.events
          /\ rc' = [rc EXCEPT !.pc = "record", !.started = o.started]
    BY <1>11 DEF ContinuationSubmit
  <2>2. o.started \in TurnOrNone /\ srv' \in ServerType /\ events' \in Seq(Event)
    BY <2>1, StartOutcomesType
  <2>3. rc' \in RemoteType
    BY <2>1, <2>2, Zenon DEF RemoteType
  <2>4. rc'.pc = "record"
    BY <2>1 DEF RemoteType
  <2> QED BY <1>11, <2>2, <2>3, <2>4 DEF ContinuationSubmit
<1>12. CASE ContinuationFails
  BY <1>1, <1>12, PhaseType DEF ContinuationFails, Phases
<1>13. CASE ContinuationStarted
  <2> DEFINE n == rc.started
             st == TurnRunning(s, n)
             ph == IF s.manualPaused THEN "needs-attention" ELSE st.phase
  <2>1. n \in Turn
    BY <1>13, Turns DEF ContinuationStarted, RemoteType
  <2>2. /\ s' = [st EXCEPT !.phase = ph]
        /\ pz' = SpawnPauseInterrupt(s, n)
        /\ w' = WatchTurn(n)
        /\ CommandEnds
        /\ UNCHANGED <<chk, sg, events, srv, hist, rcUnchanged>>
    BY <1>13 DEF ContinuationStarted
  <2> HIDE DEF n
  <2>3. st \in SupervisorType
    BY <2>1, TurnRecordedType
  <2>4. ph \in Phases
    BY <2>3 DEF SupervisorType, Phases
  <2> HIDE DEF st, ph
  <2>5. s' \in SupervisorType
    BY <2>2, <2>3, <2>4 DEF SupervisorType
  <2> QED BY <2>1, <2>2, <2>5, TurnRecordedType, NoCommandType
          DEF CommandEnds, NoCommand
<1> QED
  BY <1>2, <1>3, <1>4, <1>5, <1>6, <1>7, <1>8, <1>9, <1>10, <1>11, <1>12,
     <1>13 DEF Remote, Command

\* The shutdown preserves the types.
LEMMA ShutdownType ==
    ASSUME TypeInv, Shutdown
    PROVE  TypeInv'
<1> DEFINE c == CancelRecovery(TakeWaiters(DropPending(s, Turn), Turn))
<1>1. c \in SupervisorType
  BY CancelRecoveryType, TakeWaitersType, DropPendingType DEF TypeInv, TypeOK
<1>2. /\ s' = [c EXCEPT !.shuttingDown = TRUE, !.stallCurrent = FALSE,
                        !.watchdogInterrupted = {}, !.phase = "stopped"]
      /\ sg' = NotifyStall(s, Turn, "cancelled")
      /\ chk' = NotifyChecks(s, Turn, "cancelled")
      /\ UNCHANGED <<w, pz, rc, events, srv, hist, rcUnchanged>>
  BY DEF Shutdown
<1> HIDE DEF c
<1>3. s' \in SupervisorType
  BY <1>1, <1>2, Zenon DEF SupervisorType, Phases
<1> QED BY <1>2, <1>3, CancelledNoticeType DEF TypeInv, TypeOK, Located, rcUnchanged

-----------------------------------------------------------------------------
(* The specification.                                                      *)

\* The invariant holds initially.
LEMMA InitType == Init => TypeInv
<1> SUFFICES ASSUME Init PROVE TypeInv
  OBVIOUS
<1> USE DEF Init
<1>1. s \in SupervisorType
  <2> DEFINE ps == [t \in Turn |-> NoPending]
             ws == [t \in Turn |-> "none"]
  <2>1. ps \in [Turn -> PendingError] /\ ws \in [Turn -> {"none", "stall", "check"}]
    BY NoPendingType
  <2>2. 0 \in Nat /\ 0 \in 0 .. 3
    OBVIOUS
  <2>3. /\ s.phase \in Phases
        /\ s.pending = ps /\ s.waiters = ws
    BY DEF Phases
  <2> HIDE DEF ps, ws
  <2> QED BY <2>1, <2>2, Turns DEF SupervisorType, Phases, ps, ws
<1>2. w \in WatchdogType /\ ev \in LoopType /\ sg \in StallType /\ rc \in RemoteType
  BY NoWatchType, LoopReadyType, NoStallType, NoCommandType
<1>3. rec \in [Turn -> RecoveryType] /\ Probing(rec)
  BY RecoveryStartedType DEF NoRecovery, Probing
<1>4. chk \in [Turn -> CheckType] /\ cyb \in [Turn -> CyberType]
      /\ pz \in [Turn -> PauseType]
  <2>1. NoCyber \in CyberType /\ NoPause \in PauseType
    BY Turns DEF NoCyber, CyberType, NoPause, PauseType, Answers
  <2> QED BY <2>1, NoCheckType
<1>5. srv \in ServerType
  <2> DEFINE g == {"none"}
                  \cup (IF "savedGoal" \in Inputs THEN {"saved"} ELSE {})
                  \cup (IF "activeGoal" \in Inputs THEN {"active"} ELSE {})
  <2>1. g \subseteq {"none", "saved", "active"} /\ 0 \in TurnOrNone
        /\ 0 \in 0 .. MaxActivity
    BY Turns, ConstantsAssumption DEF None
  <2>2. srv \in [active : {None}, next : {0}, waiting : {FALSE},
                 interrupted : {FALSE}, errored : {FALSE}, activity : {0},
                 goal : g]
    OBVIOUS
  <2> HIDE DEF g
  <2> QED BY <2>1, <2>2, Turns DEF ServerType
<1>6. hist \in HistoryType /\ events \in Seq(Event)
  BY DEF HistoryType
<1> QED
  BY <1>1, <1>2, <1>3, <1>4, <1>5, <1>6
     DEF TypeInv, TypeOK, Located, Probing, LoopReady, NoStall, NoCommand

\* Every step of the system preserves it.
LEMMA NextType == TypeInv /\ [Next]_vars => TypeInv'
<1> SUFFICES ASSUME TypeInv, [Next]_vars PROVE TypeInv'
  OBVIOUS
<1>1. CASE UNCHANGED vars
  BY <1>1 DEF vars, TypeInv, TypeOK, Located
<1>2. ASSUME NEW t \in Turn, Goroutine(t) PROVE TypeInv'
  BY <1>2, RecoveryStepType, CyberStepType, CheckStepType, PausedInterruptType
     DEF Goroutine
<1>3. CASE Quiescent
  BY <1>1, <1>3 DEF Quiescent
<1> QED
  BY <1>1, <1>2, <1>3, EnvironmentType, EventLoopType, StallTickType,
     StallStepType, RemoteStepType, ShutdownType DEF Next

\* No interleaving of the event loop, the goroutines and the commands leaves
\* a field of the supervisor outside its type.
THEOREM TypeCorrect == Spec => []TypeOK
<1>1. TypeInv => TypeOK
  BY DEF TypeInv
<1> QED BY InitType, NextType, <1>1, PTL DEF Spec

\* The same for the invariant that makes it inductive.
THEOREM TypeInvariant == Spec => []TypeInv
BY InitType, NextType, PTL DEF Spec

==============================================================================
