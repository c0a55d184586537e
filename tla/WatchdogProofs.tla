---------------------------- MODULE WatchdogProofs ----------------------------
(***************************************************************************)
(* The watchdog implements its contract, confirms no stall before the turn *)
(* has been silent long enough, and decides about every turn it watches in *)
(* time, for every timeout and every number of turns, messages and jobs.   *)
(***************************************************************************)
EXTENDS Watchdog, FiniteSetTheorems, TLAPS

MessageType ==
    [kind : {"turn/started", "turn/completed", "activity", "verification",
             "buffering", "started", "completed"},
     turn : Turn, job : SUBSET Jobs, on : BOOLEAN]
    \cup [kind : {"status"}, turn : {None}, job : {{}}, on : BOOLEAN]

ActiveType ==
    [turn : TurnOrNone, lastActivityAt : Nat, sequence : Nat,
     blocking : SUBSET Blocking, waiting : BOOLEAN, buffering : BOOLEAN,
     verification : BOOLEAN, interruptHooks : Nat,
     suspectedAt : Nat \cup {Never}, recovering : BOOLEAN]

StallPcs == {"off", "read", "interrupt", "wait", "resume", "cancelled"}

StallType ==
    [pc : StallPcs, turn : TurnOrNone, sequence : Nat, since : Nat,
     extended : BOOLEAN]

CodexType ==
    [turn : TurnOrNone, next : TurnOrNone, running : SUBSET Jobs,
     waiting : BOOLEAN, sent : Nat, interrupted : BOOLEAN]

HistoryType ==
    [running : SUBSET (Turn \X Jobs), heardAt : [Turn -> Nat],
     restartedAt : Nat]

TypeOK ==
    /\ active \in ActiveType
    /\ attention \in BOOLEAN
    /\ stall \in StallType
    /\ answer \in TurnOrNone
    /\ now \in Nat /\ ticked \in Nat
    /\ messages \in Seq(MessageType)
    /\ codex \in CodexType
    /\ hist \in HistoryType

\* A suspicion is never older than the timeout allows.
SuspectedInTime ==
    /\ active.turn = None => active = NoTurn
    /\ active.suspectedAt # Never =>
        /\ active.suspectedAt <= now
        /\ active.suspectedAt >= active.lastActivityAt + Timeout(active)

\* A recovery under way is the goroutine's.
StallOwned ==
    /\ stall.pc # "off" => stall.turn # None
    /\ stall.pc # "off" /\ active.recovering =>
        active.turn = stall.turn /\ active.sequence >= stall.sequence

Inv == TypeOK /\ SuspectedInTime /\ StallOwned

\* What the watchdog knows of its turn is what the event loop has heard of it.
Knows ==
    /\ active.turn # None =>
        /\ active.blocking = HeardRunning(active.turn) \cap Blocking
        /\ active.lastActivityAt >= hist.heardAt[active.turn]
    /\ answer # None => HeardRunning(answer) = {}

\* Nothing is heard of a turn before it starts.
HeardAfterStart ==
    /\ codex.turn <= codex.next
    /\ \A i \in 1 .. Len(messages) : messages[i].turn <= codex.next
    /\ \A t \in Turn : HeardRunning(t) # {} => t <= codex.next
    /\ \A t \in Turn : hist.heardAt[t] <= now

-----------------------------------------------------------------------------
(* The methods keep the watchdog's type.                                   *)

\* The empty watchdog and a new active turn are well typed.
LEMMA StartedType ==
    ASSUME now \in Nat
    PROVE  /\ NoTurn \in ActiveType
           /\ \A t \in Turn : StartTurn(t) \in ActiveType
<1>1. NoTurn \in ActiveType
  <2>1. /\ None \in TurnOrNone /\ 0 \in Nat /\ {} \in SUBSET Blocking
        /\ Never \in Nat \cup {Never}
    BY WatchdogAssumption DEF TurnOrNone, None
  <2> QED BY <2>1, Zenon DEF NoTurn, ActiveType
<1>2. ASSUME NEW t \in Turn PROVE StartTurn(t) \in ActiveType
  <2>1. t \in TurnOrNone
    BY DEF Turn, TurnOrNone
  <2> QED BY <1>1, <2>1, Zenon DEF StartTurn, ActiveType
<1> QED BY <1>1, <1>2

\* recordActivity, CancelRecovery and SetWaitingFlags keep the type.
LEMMA ActivityType ==
    ASSUME NEW a \in ActiveType, now \in Nat
    PROVE  /\ recordActivity(a) \in ActiveType
           /\ CancelRecovery(a) \in ActiveType
           /\ SetWaitingFlags(a) \in ActiveType
<1>1. recordActivity(a) \in ActiveType
  <2>1. a.sequence + 1 \in Nat
    BY DEF ActiveType
  <2>2. Never \in Nat \cup {Never}
    OBVIOUS
  <2> QED BY <2>1, <2>2, Zenon DEF recordActivity, ActiveType
<1>2. CancelRecovery(a) \in ActiveType
  <2>1. Never \in Nat \cup {Never}
    OBVIOUS
  <2> QED BY <2>1, Zenon DEF CancelRecovery, ActiveType
<1>3. SetWaitingFlags(a) \in ActiveType
  <2>1. ASSUME NEW b \in ActiveType
        PROVE  [b EXCEPT !.waiting = TRUE, !.recovering = FALSE] \in ActiveType
    BY <2>1, Zenon DEF ActiveType
  <2> QED BY <1>1, <2>1, Zenon DEF SetWaitingFlags
<1> QED BY <1>1, <1>2, <1>3

\* Observe keeps the type.
LEMMA ObservedType ==
    ASSUME NEW a \in ActiveType, NEW m \in MessageType, now \in Nat
    PROVE  Observe(a, m) \in ActiveType
<1> DEFINE wt == IF m.kind = "status" THEN m.on ELSE a.waiting
           bf == IF m.kind = "buffering" THEN m.on ELSE a.buffering
           vf == a.verification \/ m.kind = "verification"
           bl == IF m.kind = "started" THEN a.blocking \cup (m.job \cap Blocking)
                 ELSE IF m.kind = "completed" THEN a.blocking \ m.job
                 ELSE a.blocking
           hk == IF m.kind \in {"started", "completed"}
                 THEN HooksAfter(a, m) ELSE a.interruptHooks
           b == [a EXCEPT !.waiting = wt, !.buffering = bf, !.verification = vf,
                          !.blocking = bl, !.interruptHooks = hk]
<1>1. wt \in BOOLEAN /\ bf \in BOOLEAN /\ vf \in BOOLEAN
  BY Zenon DEF ActiveType, MessageType
<1>2. bl \in SUBSET Blocking
  BY DEF ActiveType, MessageType, Blocking
<1>3. hk \in Nat
  BY DEF ActiveType, HooksAfter
<1>4. b \in ActiveType
  <2> HIDE DEF wt, bf, vf, bl, hk
  <2> QED BY <1>1, <1>2, <1>3, Zenon DEF ActiveType
<1>5. Observe(a, m) = IF ~matchesActiveTurn(a, m) THEN a ELSE recordActivity(b)
  BY Zenon DEF Observe
<1> HIDE DEF b
<1> QED BY <1>4, <1>5, ActivityType

-----------------------------------------------------------------------------
(* Type correctness.                                                       *)

\* The app-server and the user keep the types.
LEMMA CodexTypes ==
    ASSUME TypeOK, Codex PROVE TypeOK'
<1> USE DEF TypeOK
<1>1. ASSUME NEW m \in MessageType, Sends(m)
      PROVE  messages' \in Seq(MessageType)
  BY <1>1 DEF Sends
<1>2. ASSUME NEW kind \in {"turn/started", "turn/completed", "activity",
                           "verification", "buffering", "started", "completed"},
             NEW t \in Turn, NEW job \in SUBSET Jobs, NEW on \in BOOLEAN
      PROVE  Message(kind, t, job, on) \in MessageType
  BY <1>2, Zenon DEF Message, MessageType
<1>3. codex.turn # None => codex.turn \in Turn
  BY DEF CodexType, TurnOrNone, Turn, None
<1>4. ASSUME UserStartsTurn PROVE TypeOK'
  <2>1. codex.next + 1 \in Turn /\ codex.next + 1 \in TurnOrNone
    BY <1>4, WatchdogAssumption
       DEF UserStartsTurn, StartsTurn, CodexType, TurnOrNone, Turn
  <2>2. codex' \in CodexType
    <3>1. {} \in SUBSET Jobs /\ 0 \in Nat
      OBVIOUS
    <3> QED BY <1>4, <2>1, <3>1, Zenon DEF UserStartsTurn, StartsTurn, CodexType
  <2> QED BY <1>1, <1>2, <1>4, <2>1, <2>2 DEF UserStartsTurn, StartsTurn
<1>5. ASSUME JobStarts PROVE TypeOK'
  <2>1. PICK j \in Jobs :
          /\ Sends(Message("started", codex.turn, {j}, FALSE))
          /\ codex' = [codex EXCEPT !.running = @ \cup {j}, !.sent = @ + 1]
    BY <1>5, Zenon DEF JobStarts
  <2>2. codex' \in CodexType
    <3>1. codex.running \cup {j} \in SUBSET Jobs /\ codex.sent + 1 \in Nat
      BY DEF CodexType
    <3> QED BY <2>1, <3>1, Zenon DEF CodexType
  <2> QED BY <1>1, <1>2, <1>3, <1>5, <2>1, <2>2 DEF JobStarts, Runs
<1>6. ASSUME JobCompletes PROVE TypeOK'
  <2>1. PICK j \in codex.running :
          /\ Sends(Message("completed", codex.turn, {j}, FALSE))
          /\ codex' = [codex EXCEPT !.running = @ \ {j}]
    BY <1>6, Zenon DEF JobCompletes
  <2>2. codex' \in CodexType /\ j \in Jobs
    <3>1. codex.running \ {j} \in SUBSET Jobs /\ j \in Jobs
      BY DEF CodexType
    <3> QED BY <2>1, <3>1, Zenon DEF CodexType
  <2> QED BY <1>1, <1>2, <1>3, <1>6, <2>1, <2>2 DEF JobCompletes
<1>7. ASSUME CodexWaits PROVE TypeOK'
  <2>1. codex' \in CodexType
    <3>1. codex.sent + 1 \in Nat
      BY DEF CodexType
    <3>2. (~codex.waiting) \in BOOLEAN
      OBVIOUS
    <3> QED BY <1>7, <3>1, <3>2, Zenon DEF CodexWaits, CodexType
  <2>2. Message("status", None, {}, ~codex.waiting) \in MessageType
    BY Zenon DEF Message, MessageType
  <2> QED BY <1>1, <1>7, <2>1, <2>2 DEF CodexWaits, Runs
<1>8. ASSUME CodexProgresses PROVE TypeOK'
  <2>1. codex' \in CodexType
    <3>1. codex.sent + 1 \in Nat
      BY DEF CodexType
    <3> QED BY <1>8, <3>1, Zenon DEF CodexProgresses, CodexType
  <2>2. messages' \in Seq(MessageType)
    <3>1. {} \in SUBSET Jobs
      OBVIOUS
    <3>2. PICK kind \in {"activity", "verification", "buffering"}, on \in BOOLEAN :
            Sends(About(kind, on))
      BY <1>8, Zenon DEF CodexProgresses
    <3>3. About(kind, on) \in MessageType
      BY <1>2, <1>3, <1>8, <3>1, Zenon DEF CodexProgresses, Runs, About
    <3> QED BY <1>1, <3>2, <3>3
  <2> QED BY <1>8, <2>1, <2>2 DEF CodexProgresses, Runs
<1>9. ASSUME TurnCompletes PROVE TypeOK'
  <2>1. codex' \in CodexType
    <3>1. {} \in SUBSET Jobs /\ None \in TurnOrNone
      BY WatchdogAssumption DEF TurnOrNone, None
    <3> QED BY <1>9, <3>1, Zenon DEF TurnCompletes, CodexType
  <2>2. About("turn/completed", codex.interrupted) \in MessageType
    <3>1. {} \in SUBSET Jobs /\ codex.interrupted \in BOOLEAN
      BY DEF CodexType
    <3> QED BY <1>2, <1>3, <1>9, <3>1, Zenon DEF TurnCompletes, About
  <2> QED BY <1>1, <1>9, <2>1, <2>2 DEF TurnCompletes
<1> QED BY <1>4, <1>5, <1>6, <1>7, <1>8, <1>9 DEF Codex

\* The event loop, the user's interrupt and the ticker keep the types.
LEMMA LoopTypes ==
    ASSUME TypeOK, Handle \/ HandleClientInterrupt \/ Tick \/ Elapse
    PROVE  TypeOK'
<1> USE DEF TypeOK
<1>1. ASSUME Handle PROVE TypeOK'
  <2> DEFINE m == Head(messages)
  <2>1. m \in MessageType /\ messages' \in Seq(MessageType)
    BY <1>1 DEF Handle
  <2>2. m.kind # "status" => m.turn \in Turn
    BY <2>1 DEF MessageType
  <2>3. active' \in ActiveType
    <3>1. CASE m.kind = "turn/started"
      BY <1>1, <2>2, <3>1, StartedType DEF Handle
    <3>2. CASE m.kind = "turn/completed"
      BY <1>1, <2>1, <3>2, StartedType, ObservedType DEF Handle, CompleteTurn
    <3>3. CASE m.kind \notin {"turn/started", "turn/completed"}
      BY <1>1, <2>1, <3>3, ObservedType DEF Handle
    <3> QED BY <3>1, <3>2, <3>3
  <2>4. stall' \in StallType
    <3>1. NoStall \in StallType
      <4>1. None \in TurnOrNone /\ 0 \in Nat
        BY WatchdogAssumption DEF TurnOrNone, None
      <4> QED BY <4>1, Zenon DEF NoStall, StallType, StallPcs
    <3>2. /\ [stall EXCEPT !.pc = "resume"] \in StallType
          /\ [stall EXCEPT !.pc = "cancelled"] \in StallType
      BY Zenon DEF StallType, StallPcs
    <3>3. LeftBehind \in SUBSET StallType
      BY <3>2 DEF LeftBehind
    <3>4. StallAfter(m) \in SUBSET StallType
      BY <3>1, <3>2, <3>3 DEF StallAfter
    <3>5. stall' \in StallAfter(m)
      BY <1>1, Zenon DEF Handle
    <3> QED BY <3>4, <3>5
  <2>5. hist' \in HistoryType
    <3> DEFINE run == HeardAfter(m).running
               at == HeardAfter(m).heardAt
    <3>1. hist' = [running |-> run, heardAt |-> at, restartedAt |-> now]
      BY <1>1, Zenon DEF Handle, HeardAfter
    <3>2. run \in SUBSET (Turn \X Jobs)
      <4>1. m.kind = "started" => {m.turn} \X m.job \in SUBSET (Turn \X Jobs)
        BY <2>1 DEF MessageType
      <4> QED BY <4>1 DEF HeardAfter, HistoryType
    <3>3. at \in [Turn -> Nat]
      BY DEF HeardAfter, HistoryType
    <3> HIDE DEF run, at
    <3> QED BY <3>1, <3>2, <3>3, Zenon DEF HistoryType
  <2>6. attention' \in BOOLEAN
    <3>1. attention' \in AttentionAfter(m)
      BY <1>1, Zenon DEF Handle
    <3> QED BY <3>1 DEF AttentionAfter
  <2> QED BY <1>1, <2>1, <2>3, <2>4, <2>5, <2>6 DEF Handle
<1>2. ASSUME HandleClientInterrupt PROVE TypeOK'
  <2>1. active' \in ActiveType
    BY <1>2, ActivityType DEF HandleClientInterrupt
  <2>2. stall' \in StallType
    <3>1. [stall EXCEPT !.pc = "cancelled"] \in StallType
      BY Zenon DEF StallType, StallPcs
    <3> QED BY <1>2, <3>1 DEF HandleClientInterrupt, LeftBehind
  <2>3. codex' \in CodexType
    BY <1>2, Zenon DEF HandleClientInterrupt, CodexType
  <2>4. hist' \in HistoryType
    BY <1>2, Zenon DEF HandleClientInterrupt, HistoryType
  <2> QED BY <1>2, <2>1, <2>2, <2>3, <2>4 DEF HandleClientInterrupt
<1>3. ASSUME Tick PROVE TypeOK'
  <2>1. ASSUME Awake PROVE active' \in ActiveType /\ stall' \in StallType
    <3>1. Never \in Nat \cup {Never}
      OBVIOUS
    <3> QED BY <2>1, <3>1, Zenon DEF Awake, ActiveType
  <2>2. ASSUME Suspected PROVE active' \in ActiveType /\ stall' \in StallType
    <3>1. now \in Nat \cup {Never}
      OBVIOUS
    <3> QED BY <2>2, <3>1, Zenon DEF Suspected, ActiveType
  <2>3. ASSUME Confirmed PROVE active' \in ActiveType /\ stall' \in StallType
    <3>1. active' \in ActiveType
      BY <2>3, Zenon DEF Confirmed, ActiveType
    <3>2. stall' \in StallType
      <4>1. active.turn \in TurnOrNone /\ active.sequence \in Nat /\ 0 \in Nat
        BY Zenon DEF ActiveType
      <4> QED BY <2>3, <4>1, Zenon DEF Confirmed, NoStall, StallType, StallPcs
    <3> QED BY <3>1, <3>2
  <2>4. active' \in ActiveType /\ stall' \in StallType
    BY <1>3, <2>1, <2>2, <2>3, Zenon DEF Tick, Waits, Undecided
  <2> QED BY <1>3, <2>4 DEF Tick
<1>4. ASSUME Elapse PROVE TypeOK'
  BY <1>4 DEF Elapse
<1> QED BY <1>1, <1>2, <1>3, <1>4

\* The recovery goroutine and recordStartedTurnFromRequest keep the types.
LEMMA RecoveryTypes ==
    ASSUME TypeOK, Recovery PROVE TypeOK'
<1> USE DEF TypeOK
<1>0. /\ NoTurn \in ActiveType /\ NoStall \in StallType
      /\ CancelRecovery(active) \in ActiveType
      /\ [hist EXCEPT !.restartedAt = now] \in HistoryType
  <2>1. NoStall \in StallType
    <3>1. None \in TurnOrNone /\ 0 \in Nat
      BY WatchdogAssumption DEF TurnOrNone, None
    <3> QED BY <3>1, Zenon DEF NoStall, StallType, StallPcs
  <2>2. [hist EXCEPT !.restartedAt = now] \in HistoryType
    BY Zenon DEF HistoryType
  <2> QED BY <2>1, <2>2, StartedType, ActivityType
<1>1. ASSUME GivesUp, attention' \in BOOLEAN, codex' \in CodexType
      PROVE  TypeOK'
  BY <1>0, <1>1, Zenon DEF GivesUp, stallUnchanged
<1>2. ASSUME StallFails \/ StallOutdated \/ WaitExpires PROVE TypeOK'
  <2>1. attention' \in BOOLEAN /\ GivesUp
    BY <1>2 DEF StallFails, StallOutdated, WaitExpires
  <2>2. [codex EXCEPT !.interrupted = TRUE] \in CodexType
    BY Zenon DEF CodexType
  <2>3. codex' \in CodexType
    BY <1>2, <2>2 DEF StallFails, StallOutdated, WaitExpires
  <2> QED BY <1>1, <2>1, <2>3
<1>11. ASSUME StallLimited PROVE TypeOK'
  BY <1>0, <1>11 DEF StallLimited, stallUnchanged
<1>3. ASSUME StallCancelled PROVE TypeOK'
  BY <1>0, <1>3 DEF StallCancelled, stallUnchanged
<1>4. ASSUME StallIdle PROVE TypeOK'
  <2>1. active' \in ActiveType
    BY <1>0, <1>4, Zenon DEF StallIdle, CompleteTurn
  <2> QED BY <1>0, <1>4, <2>1, Zenon DEF StallIdle, stallUnchanged
<1>5. ASSUME StallWaiting PROVE TypeOK'
  BY <1>0, <1>5, ActivityType, Zenon DEF StallWaiting, stallUnchanged
<1>6. ASSUME StallInterrupt PROVE TypeOK'
  <2>1. stall' \in StallType
    BY <1>6, Zenon DEF StallInterrupt, StallType, StallPcs
  <2> QED BY <1>6, <2>1, Zenon DEF StallInterrupt, stallUnchanged
<1>7. ASSUME StallInterrupted PROVE TypeOK'
  <2>1. CASE codex.turn = stall.turn
    <3>1. stall' \in StallType
      BY <1>7, <2>1, Zenon DEF StallInterrupted, StallType, StallPcs
    <3>2. codex' \in CodexType
      <4>1. codex' = [codex EXCEPT !.interrupted = TRUE]
        BY <1>7, <2>1 DEF StallInterrupted
      <4> QED BY <4>1, Zenon DEF CodexType
    <3> QED BY <1>7, <2>1, <3>1, <3>2, Zenon DEF StallInterrupted, stallUnchanged
  <2>2. CASE codex.turn # stall.turn
    BY <1>0, <1>7, <2>2, Zenon DEF StallInterrupted, stallUnchanged
  <2> QED BY <2>1, <2>2
<1>8. ASSUME WaitExtended PROVE TypeOK'
  <2>1. stall' \in StallType
    BY <1>8, Zenon DEF WaitExtended, StallType
  <2> QED BY <1>8, <2>1, Zenon DEF WaitExtended, stallUnchanged
<1>9. ASSUME StallResumes PROVE TypeOK'
  <2>1. CASE codex.turn = None /\ codex.next < MaxTurns
    <3>0. StartsTurn
      BY <1>9, <2>1 DEF StallResumes
    <3>1. codex.next + 1 \in Turn /\ codex.next + 1 \in TurnOrNone
      BY <2>1, WatchdogAssumption DEF CodexType, TurnOrNone, Turn
    <3>2. codex' \in CodexType
      <4>1. {} \in SUBSET Jobs /\ 0 \in Nat
        OBVIOUS
      <4> QED BY <3>0, <3>1, <4>1, Zenon DEF StartsTurn, CodexType
    <3>3. messages' \in Seq(MessageType)
      <4>1. Message("turn/started", codex.next + 1, {}, FALSE) \in MessageType
        <5>1. {} \in SUBSET Jobs
          OBVIOUS
        <5> QED BY <3>1, <5>1, Zenon DEF Message, MessageType
      <4>2. messages' = Append(messages,
                            Message("turn/started", codex.next + 1, {}, FALSE))
        BY <3>0, Zenon DEF StartsTurn, Sends
      <4>3. ASSUME NEW m \in MessageType
            PROVE  Append(messages, m) \in Seq(MessageType)
        BY <4>3
      <4> QED BY <4>1, <4>2, <4>3, Zenon
    <3> QED BY <1>0, <1>9, <2>1, <3>1, <3>2, <3>3, Zenon DEF StallResumes
  <2>2. CASE ~(codex.turn = None /\ codex.next < MaxTurns)
    BY <1>0, <1>9, <2>2, Zenon DEF StallResumes
  <2> QED BY <2>1, <2>2
<1>10. ASSUME RecordStartedTurn PROVE TypeOK'
  <2>1. answer \in Turn /\ None \in TurnOrNone
    BY <1>10, WatchdogAssumption DEF RecordStartedTurn, TurnOrNone, Turn, None
  <2> QED BY <1>0, <1>10, <2>1, StartedType, Zenon
          DEF RecordStartedTurn, stallUnchanged
<1> QED BY <1>2, <1>3, <1>4, <1>5, <1>6, <1>7, <1>8, <1>9, <1>10,
        <1>11, Zenon DEF Recovery

\* Every reachable state has the declared types.
THEOREM TypeCorrect == Spec => []TypeOK
<1>1. Init => TypeOK
  <2> SUFFICES ASSUME Init PROVE TypeOK
    OBVIOUS
  <2>1. /\ None \in TurnOrNone /\ 0 \in TurnOrNone
        /\ 0 \in Nat /\ {} \in SUBSET Jobs
    BY WatchdogAssumption DEF TurnOrNone, None
  <2>2. stall \in StallType
    BY <2>1, Zenon DEF Init, NoStall, StallType, StallPcs
  <2>3. codex \in CodexType
    BY <2>1, Zenon DEF Init, CodexType
  <2>4. hist \in HistoryType
    <3>1. [t \in Turn |-> 0] \in [Turn -> Nat] /\ {} \in SUBSET (Turn \X Jobs)
      OBVIOUS
    <3> QED BY <2>1, <3>1, Zenon DEF Init, HistoryType
  <2>5. messages \in Seq(MessageType)
    BY DEF Init
  <2>6. now \in Nat
    BY DEF Init
  <2> QED BY <2>1, <2>2, <2>3, <2>4, <2>5, <2>6, StartedType, Zenon DEF Init, TypeOK
<1>2. TypeOK /\ [Next]_vars => TypeOK'
  <2>1. ASSUME TypeOK, UNCHANGED vars PROVE TypeOK'
    BY <2>1, Zenon DEF vars, TypeOK
  <2> QED BY <2>1, CodexTypes, LoopTypes, RecoveryTypes, Zenon DEF Next, Over
<1> QED BY <1>1, <1>2, PTL DEF Spec

-----------------------------------------------------------------------------
(* What the methods do to the fields the invariants are about.             *)

\* A turn that is started is neither suspected nor recovered.
LEMMA StartedFields ==
    /\ NoTurn.turn = None /\ NoTurn.suspectedAt = Never
    /\ NoTurn.recovering = FALSE /\ NoTurn.blocking = {}
    /\ \A t \in Turn :
        /\ StartTurn(t).turn = t /\ StartTurn(t).suspectedAt = Never
        /\ StartTurn(t).recovering = FALSE /\ StartTurn(t).blocking = {}
        /\ StartTurn(t).lastActivityAt = now
        /\ ~Paused(StartTurn(t))
BY Zenon DEF StartTurn, NoTurn, Paused

\* CancelRecovery clears suspicion and recovery of an active turn.
LEMMA CancelledFields ==
    ASSUME NEW a \in ActiveType
    PROVE  /\ a.turn = None => CancelRecovery(a) = a
           /\ CancelRecovery(a).turn = a.turn
           /\ CancelRecovery(a).sequence = a.sequence
           /\ CancelRecovery(a).blocking = a.blocking
           /\ CancelRecovery(a).lastActivityAt = a.lastActivityAt
           /\ Paused(CancelRecovery(a)) = Paused(a)
           /\ a.turn # None => /\ CancelRecovery(a).suspectedAt = Never
                               /\ CancelRecovery(a).recovering = FALSE
BY Zenon DEF CancelRecovery, ActiveType, Paused

\* SetWaitingFlags makes the active turn wait.
LEMMA WaitingFields ==
    ASSUME NEW a \in ActiveType, a.turn # None
    PROVE  /\ SetWaitingFlags(a).turn = a.turn
           /\ SetWaitingFlags(a).suspectedAt = Never
           /\ SetWaitingFlags(a).recovering = FALSE
           /\ SetWaitingFlags(a).blocking = a.blocking
           /\ SetWaitingFlags(a).lastActivityAt = now
           /\ Paused(SetWaitingFlags(a))
BY Zenon DEF SetWaitingFlags, recordActivity, ActiveType, Paused

\* Observe records activity of the active turn and follows its blocking jobs.
LEMMA ObservedFields ==
    ASSUME NEW a \in ActiveType, NEW m \in MessageType
    PROVE  /\ ~matchesActiveTurn(a, m) => Observe(a, m) = a
           /\ matchesActiveTurn(a, m) =>
                /\ Observe(a, m).turn = a.turn
                /\ Observe(a, m).suspectedAt = Never
                /\ Observe(a, m).recovering = a.recovering
                /\ Observe(a, m).sequence = a.sequence + 1
                /\ Observe(a, m).lastActivityAt = now
                /\ Observe(a, m).blocking =
                     IF m.kind = "started"
                     THEN a.blocking \cup (m.job \cap Blocking)
                     ELSE IF m.kind = "completed" THEN a.blocking \ m.job
                     ELSE a.blocking
BY Zenon DEF Observe, recordActivity, ActiveType

-----------------------------------------------------------------------------
(* The invariant.                                                          *)

\* A message ends the recovery that waits for the turn, or moves one on.
LEMMA StallAfterFields ==
    ASSUME TypeOK, Handle
    PROVE  \/ stall' = stall
           \/ stall' = NoStall /\ stall.turn = Head(messages).turn
           \/ /\ stall.pc # "off" /\ stall'.pc # "off"
              /\ stall'.turn = stall.turn /\ stall'.sequence = stall.sequence
<1>1. stall' \in StallAfter(Head(messages))
  BY Zenon DEF Handle
<1> QED BY <1>1 DEF StallAfter, LeftBehind, TypeOK, StallType

\* The event loop keeps the invariant.
LEMMA HandleInv ==
    ASSUME Inv, Handle PROVE SuspectedInTime' /\ StallOwned'
<1> USE DEF Inv, TypeOK
<1> DEFINE m == Head(messages)
<1>1. m \in MessageType /\ now' = now
  BY DEF Handle
<1>2. m.kind # "status" => m.turn \in Turn
  BY <1>1 DEF MessageType
<1>3. CASE m.kind = "turn/started"
  <2>1. active' = StartTurn(m.turn) /\ stall' = stall
    BY <1>3 DEF Handle, StallAfter
  <2> QED BY <1>2, <1>3, <2>1, StartedFields
          DEF SuspectedInTime, StallOwned, Turn, None
<1>4. CASE m.kind = "turn/completed"
  <2>1. active' = CompleteTurn(Observe(active, m), m.turn)
    BY <1>4 DEF Handle
  <2>2. matchesActiveTurn(active, m) <=> active.turn = m.turn
    BY <1>2, <1>4 DEF matchesActiveTurn, Turn, None
  <2>3. CASE active.turn = m.turn
    <3>1. active' = NoTurn
      BY <1>1, <2>1, <2>2, <2>3, ObservedFields DEF CompleteTurn
    <3>2. stall'.pc # "off" => stall'.turn = stall.turn /\ stall.pc # "off"
      BY StallAfterFields, StartedFields DEF NoStall
    <3> QED BY <1>1, <3>1, <3>2, StartedFields DEF SuspectedInTime, StallOwned
  <2>4. CASE active.turn # m.turn
    <3>1. active' = active
      BY <1>1, <2>1, <2>2, <2>4, ObservedFields DEF CompleteTurn
    <3>2. \/ stall'.pc = "off"
          \/ /\ stall.pc # "off" /\ stall'.turn = stall.turn
             /\ stall'.sequence = stall.sequence
      BY StallAfterFields DEF NoStall
    <3> QED BY <1>1, <3>1, <3>2 DEF SuspectedInTime, StallOwned
  <2> QED BY <2>3, <2>4
<1>5. CASE m.kind \notin {"turn/started", "turn/completed"}
  <2>1. active' = Observe(active, m) /\ stall' = stall
    BY <1>5 DEF Handle, StallAfter
  <2>2. CASE matchesActiveTurn(active, m)
    <3>1. active.turn # None /\ active'.turn = active.turn
      BY <1>1, <2>1, <2>2, ObservedFields DEF matchesActiveTurn
    <3>2. active'.suspectedAt = Never /\ active'.sequence = active.sequence + 1
      BY <1>1, <2>1, <2>2, ObservedFields
    <3>3. SuspectedInTime'
      BY <3>1, <3>2 DEF SuspectedInTime
    <3>4. active'.recovering = active.recovering
      BY <1>1, <2>1, <2>2, ObservedFields, Zenon
    <3>5. active'.sequence >= active.sequence /\ active.sequence \in Nat
          /\ active'.sequence \in Nat /\ stall.sequence \in Nat
      BY <3>2 DEF ActiveType, StallType
    <3>6. active.sequence >= stall.sequence => active'.sequence >= stall.sequence
      BY <3>5
    <3> QED BY <2>1, <3>1, <3>3, <3>4, <3>6, Zenon DEF StallOwned
  <2>3. CASE ~matchesActiveTurn(active, m)
    BY <1>1, <2>1, <2>3, ObservedFields DEF SuspectedInTime, StallOwned
  <2> QED BY <2>2, <2>3
<1> QED BY <1>3, <1>4, <1>5

\* A step that cancels the recovery or leaves the watchdog alone keeps the
\* invariant, when the goroutine ends or moves on.
LEMMA CancelledInv ==
    ASSUME Inv, now' = now, active' \in {active, CancelRecovery(active)},
           \/ stall' = NoStall
           \/ /\ stall'.turn = stall.turn /\ stall'.sequence = stall.sequence
              /\ stall.pc # "off"
    PROVE  SuspectedInTime' /\ StallOwned'
<1> USE DEF Inv, TypeOK
<1>1. CASE active' = active
  <2>1. SuspectedInTime'
    BY <1>1 DEF SuspectedInTime
  <2>2. CASE stall' = NoStall
    BY <2>1, <2>2 DEF StallOwned, NoStall
  <2>3. CASE stall' # NoStall
    BY <1>1, <2>1, <2>3 DEF StallOwned
  <2> QED BY <2>2, <2>3
<1>2. CASE active' = CancelRecovery(active) /\ active' # active
  <2>1. active.turn # None
    BY <1>2, CancelledFields
  <2>2. active'.turn # None /\ active'.suspectedAt = Never
    BY <1>2, <2>1, CancelledFields
  <2>3. ~active'.recovering
    BY <1>2, <2>1, CancelledFields, Zenon
  <2> QED BY <2>2, <2>3 DEF SuspectedInTime, StallOwned, NoStall
<1> QED BY <1>1, <1>2

\* The ticker keeps the invariant.
LEMMA TickInv ==
    ASSUME Inv, Tick PROVE SuspectedInTime' /\ StallOwned'
<1> USE DEF Inv, TypeOK
<1>1. now' = now
  BY DEF Tick
<1>2. CASE MayEvaluate /\ Awake
  <2>1. active.turn # None
    BY <1>2 DEF Awake, MayDecide
  <2>2. active'.turn = active.turn /\ active'.suspectedAt = Never
        /\ stall' = stall
    BY <1>2 DEF Awake, ActiveType
  <2> QED BY <1>2, <2>1, <2>2 DEF SuspectedInTime, StallOwned, MayEvaluate
<1>3. CASE MayEvaluate /\ Suspected
  <2>1. active.turn # None /\ Silent /\ stall' = stall
    BY <1>3 DEF Suspected, MayDecide
  <2>2. active'.turn = active.turn /\ active'.suspectedAt = now
        /\ active'.lastActivityAt = active.lastActivityAt
        /\ active'.blocking = active.blocking
    BY <1>3 DEF Suspected, ActiveType
  <2>3. Timeout(active) = Timeout(active')
    BY <2>2 DEF Timeout
  <2>4. now >= active.lastActivityAt + Timeout(active)
    BY <2>1, WatchdogAssumption DEF Silent, Timeout, ActiveType
  <2> QED BY <1>1, <1>3, <2>1, <2>2, <2>3, <2>4
          DEF SuspectedInTime, StallOwned, Timeout, MayEvaluate
<1>4. CASE MayEvaluate /\ Confirmed
  <2>1. active.turn # None /\ active' = [active EXCEPT !.recovering = TRUE]
        /\ stall' = [NoStall EXCEPT !.pc = "read", !.turn = active.turn,
                                    !.sequence = active.sequence]
    BY <1>4 DEF Confirmed, MayDecide
  <2>2. active'.turn = active.turn /\ active'.suspectedAt = active.suspectedAt
        /\ active'.lastActivityAt = active.lastActivityAt
        /\ active'.blocking = active.blocking
        /\ active'.sequence = active.sequence
    BY <2>1 DEF ActiveType
  <2>3. stall'.pc = "read" /\ stall'.turn = active.turn
        /\ stall'.sequence = active.sequence
    BY <2>1, Zenon DEF NoStall
  <2>4. SuspectedInTime'
    BY <1>1, <2>1, <2>2 DEF SuspectedInTime, Timeout
  <2>5. active.sequence >= active.sequence
    BY DEF ActiveType
  <2> QED BY <2>1, <2>2, <2>3, <2>4, <2>5 DEF StallOwned
<1>5. CASE UNCHANGED <<active, stall>>
  BY <1>1, <1>5 DEF SuspectedInTime, StallOwned
<1> QED BY <1>2, <1>3, <1>4, <1>5 DEF Tick, Waits, Undecided

\* The recovery goroutine keeps the invariant.
LEMMA RecoveryInv ==
    ASSUME Inv, Recovery PROVE SuspectedInTime' /\ StallOwned'
<1> USE DEF Inv
<1>1. ASSUME GivesUp PROVE SuspectedInTime' /\ StallOwned'
  BY <1>1, CancelledInv, Zenon DEF GivesUp, stallUnchanged
<1>10. ASSUME StallLimited PROVE SuspectedInTime' /\ StallOwned'
  BY <1>10, CancelledInv, Zenon DEF StallLimited, stallUnchanged
<1>2. ASSUME StallCancelled PROVE SuspectedInTime' /\ StallOwned'
  BY <1>2, CancelledInv, Zenon DEF StallCancelled, stallUnchanged
<1>3. ASSUME StallIdle PROVE SuspectedInTime' /\ StallOwned'
  <2>1. active' \in {active, NoTurn} /\ stall' = NoStall /\ now' = now
    BY <1>3, Zenon DEF StallIdle, CompleteTurn, stallUnchanged
  <2> QED BY <2>1, StartedFields DEF SuspectedInTime, StallOwned, NoStall
<1>4. ASSUME StallWaiting PROVE SuspectedInTime' /\ StallOwned'
  <2>1. active.turn # None
    BY <1>4 DEF StallWaiting, IsCurrent, StallOwned
  <2>2. active'.turn # None /\ active'.suspectedAt = Never /\ stall' = NoStall
    BY <1>4, <2>1, WaitingFields DEF StallWaiting, TypeOK
  <2> QED BY <2>2 DEF SuspectedInTime, StallOwned, NoStall
<1>5. ASSUME StallInterrupt PROVE SuspectedInTime' /\ StallOwned'
  BY <1>5, CancelledInv DEF StallInterrupt, stallUnchanged, StallType, TypeOK
<1>6. ASSUME StallInterrupted PROVE SuspectedInTime' /\ StallOwned'
  BY <1>6, CancelledInv DEF StallInterrupted, stallUnchanged, StallType, TypeOK
<1>7. ASSUME WaitExtended PROVE SuspectedInTime' /\ StallOwned'
  BY <1>7, CancelledInv DEF WaitExtended, stallUnchanged, StallType, TypeOK
<1>8. ASSUME StallResumes PROVE SuspectedInTime' /\ StallOwned'
  <2>1. active' \in {active, CancelRecovery(active)} /\ stall' = NoStall
        /\ now' = now
    BY <1>8 DEF StallResumes
  <2> QED BY <2>1, CancelledInv
<1>9. ASSUME RecordStartedTurn PROVE SuspectedInTime' /\ StallOwned'
  <2>1. answer \in Turn
    BY <1>9, WatchdogAssumption
       DEF RecordStartedTurn, TypeOK, TurnOrNone, Turn, None
  <2>2. active' = StartTurn(answer) /\ stall' = stall
    BY <1>9 DEF RecordStartedTurn
  <2> QED BY <2>1, <2>2, StartedFields
          DEF SuspectedInTime, StallOwned, Turn, None
<1> QED BY <1>1, <1>2, <1>3, <1>4, <1>5, <1>6, <1>7, <1>8, <1>9, <1>10, Zenon
        DEF Recovery, StallFails, StallOutdated, WaitExpires

\* The suspicions and the recovery goroutine are always consistent.
THEOREM InvCorrect == Spec => []Inv
<1>1. Init => SuspectedInTime /\ StallOwned
  BY StartedFields DEF Init, SuspectedInTime, StallOwned, NoStall
<1>2. Inv /\ [Next]_vars => SuspectedInTime' /\ StallOwned'
  <2>1. ASSUME Inv, Codex PROVE SuspectedInTime' /\ StallOwned'
    <3>1. UNCHANGED <<active, stall, now>>
      BY <2>1, Zenon DEF Codex, UserStartsTurn, JobStarts, JobCompletes, CodexWaits,
                         CodexProgresses, TurnCompletes, Runs
    <3> QED BY <2>1, <3>1 DEF Inv, SuspectedInTime, StallOwned
  <2>2. ASSUME Inv, HandleClientInterrupt PROVE SuspectedInTime' /\ StallOwned'
    <3>1. active' = CancelRecovery(active) /\ now' = now
      BY <2>2 DEF HandleClientInterrupt
    <3>2. CASE stall.pc = "off"
      <4>1. stall' = stall /\ stall.pc = "off"
        BY <2>2, <3>2 DEF HandleClientInterrupt, LeftBehind
      <4>2. SuspectedInTime'
        BY <2>2, <3>1, CancelledFields
           DEF Inv, TypeOK, SuspectedInTime
      <4> QED BY <4>1, <4>2 DEF StallOwned
    <3>3. CASE stall.pc # "off"
      BY <2>2, <3>1, <3>3, CancelledInv
         DEF HandleClientInterrupt, LeftBehind, Inv, TypeOK, StallType
    <3> QED BY <3>2, <3>3
  <2>3. ASSUME Inv, Elapse PROVE SuspectedInTime' /\ StallOwned'
    BY <2>3 DEF Elapse, Inv, TypeOK, SuspectedInTime, StallOwned, Timeout, ActiveType
  <2>4. ASSUME Inv, UNCHANGED vars PROVE SuspectedInTime' /\ StallOwned'
    BY <2>4 DEF vars, Inv, SuspectedInTime, StallOwned, Timeout
  <2> QED BY <2>1, <2>2, <2>3, <2>4, HandleInv, TickInv, RecoveryInv, Zenon
          DEF Next, Over
<1> QED BY <1>1, <1>2, TypeCorrect, PTL DEF Spec, Inv

-----------------------------------------------------------------------------
(* The watchdog decides in time.                                           *)

\* The ticker is never more than an interval behind, and the watched turn was
\* active no later than the history restarted.
Punctual ==
    /\ ticked <= now /\ now <= ticked + Interval
    /\ hist.restartedAt <= now
    /\ active.turn # None => active.lastActivityAt <= hist.restartedAt

\* Since the history restarted, a turn the watchdog may decide about was found
\* silent by the first tick that could find it so, and no tick came later than
\* its suspicion allows.
Vigil ==
    MayDecide /\ MayEvaluate =>
        /\ active.suspectedAt = Never =>
            \/ ticked <= hist.restartedAt
            \/ ticked < active.lastActivityAt + Timeout(active)
        /\ active.suspectedAt # Never =>
            /\ active.suspectedAt <= hist.restartedAt + Timeout(active) + Interval
            /\ \/ ticked <= hist.restartedAt
               \/ ticked < active.suspectedAt + ConfirmTimeout

VigilInv == Inv /\ Punctual /\ Vigil

\* The numbers the watch is about.
LEMMA Numbers ==
    ASSUME TypeOK
    PROVE  /\ now \in Nat /\ ticked \in Nat /\ hist.restartedAt \in Nat
           /\ active.lastActivityAt \in Nat /\ Timeout(active) \in Nat
           /\ active.suspectedAt \in Nat \cup {Never}
           /\ Interval \in Nat \ {0} /\ ConfirmTimeout \in Nat \ {0}
BY WatchdogAssumption DEF TypeOK, HistoryType, ActiveType, Timeout

\* A step that restarts the history keeps the watch.
LEMMA RestartKeeps ==
    ASSUME VigilInv, Inv', hist'.restartedAt = now, now' = now, ticked' = ticked,
           active'.turn # None =>
               active'.lastActivityAt \in {active.lastActivityAt, now},
           active'.turn # None => active.turn # None \/ active'.lastActivityAt = now
    PROVE  Punctual' /\ Vigil'
<1>1. now \in Nat /\ ticked \in Nat /\ hist.restartedAt \in Nat /\ Interval \in Nat
  BY Numbers DEF VigilInv, Inv
<1>2. active'.turn # None => active'.lastActivityAt <= now
  BY <1>1, Numbers DEF VigilInv, Inv, Punctual
<1>3. Punctual'
  BY <1>1, <1>2 DEF VigilInv, Punctual
<1>4. active'.suspectedAt # Never => active'.suspectedAt <= now
  BY DEF Inv, SuspectedInTime
<1>5. Timeout(active)' \in Nat /\ active'.suspectedAt \in Nat \cup {Never}
  BY WatchdogAssumption DEF Inv, TypeOK, ActiveType, Timeout
<1>6. active'.suspectedAt # Never =>
        active'.suspectedAt <= hist'.restartedAt + Timeout(active)' + Interval
  BY <1>1, <1>4, <1>5
<1>7. ticked' <= hist'.restartedAt
  BY DEF VigilInv, Punctual
<1> QED BY <1>3, <1>6, <1>7 DEF Vigil

\* A step that leaves watch and clock alone, and makes no decision possible,
\* keeps the watch.
LEMMA UnwatchedKeeps ==
    ASSUME VigilInv, UNCHANGED <<active, now, ticked, hist>>,
           MayEvaluate' => MayEvaluate
    PROVE  Punctual' /\ Vigil'
<1>1. Punctual'
  BY DEF VigilInv, Punctual
<1>2. MayDecide' = MayDecide /\ Timeout(active)' = Timeout(active)
  BY Zenon DEF MayDecide, Paused, Timeout
<1>3. ASSUME MayDecide', MayEvaluate' PROVE Vigil'
  <2>1. MayDecide /\ MayEvaluate
    BY <1>2, <1>3
  <2> QED BY <1>2, <2>1 DEF VigilInv, Vigil
<1> QED BY <1>1, <1>3 DEF Vigil

\* The ticker keeps the watch: it suspects a silent turn at the first tick
\* after the timeout, and confirms at the first one after the confirmation.
LEMMA TickKeeps ==
    ASSUME VigilInv, Tick PROVE Punctual' /\ Vigil'
<1>0. /\ now \in Nat /\ ticked \in Nat /\ hist.restartedAt \in Nat
      /\ active.lastActivityAt \in Nat /\ Timeout(active) \in Nat
      /\ active.suspectedAt \in Nat \cup {Never}
      /\ Interval \in Nat \ {0} /\ ConfirmTimeout \in Nat \ {0}
  BY Numbers DEF VigilInv, Inv
<1>1. /\ now' = now /\ ticked' = now /\ hist' = hist
      /\ answer' = answer /\ attention' = attention
  BY DEF Tick
<1>2. active'.turn = active.turn /\ active'.lastActivityAt = active.lastActivityAt
      /\ active'.blocking = active.blocking
  BY DEF Tick, Awake, Suspected, Waits, Confirmed, Undecided, VigilInv, Inv,
         TypeOK, ActiveType
<1>3. Timeout(active)' = Timeout(active)
  BY <1>2, Zenon DEF Timeout
<1>4. Punctual'
  BY <1>0, <1>1, <1>2 DEF VigilInv, Punctual
<1>5. CASE MayEvaluate /\ Awake
  <2>1. active'.suspectedAt = Never
    BY <1>5 DEF Awake, VigilInv, Inv, TypeOK, ActiveType
  <2>2. now < active.lastActivityAt + Timeout(active)
    BY <1>0, <1>5 DEF Awake, Silent
  <2> QED BY <1>1, <1>2, <1>3, <1>4, <2>1, <2>2 DEF Vigil
<1>6. CASE MayEvaluate /\ Suspected
  <2>1. active'.suspectedAt = now /\ active.suspectedAt = Never
        /\ MayDecide
    BY <1>6 DEF Suspected, VigilInv, Inv, TypeOK, ActiveType
  <2>2. active.lastActivityAt <= hist.restartedAt
    BY <2>1 DEF MayDecide, VigilInv, Punctual
  <2>3. \/ ticked <= hist.restartedAt
        \/ ticked < active.lastActivityAt + Timeout(active)
    BY <1>6, <2>1 DEF VigilInv, Vigil
  <2>4. now <= ticked + Interval
    BY DEF VigilInv, Punctual
  <2>5. now <= hist.restartedAt + Timeout(active) + Interval
    BY <1>0, <2>2, <2>3, <2>4
  <2>6. now < now + ConfirmTimeout /\ now # Never
    BY <1>0 DEF Never
  <2> QED BY <1>1, <1>2, <1>3, <1>4, <2>1, <2>5, <2>6 DEF Vigil
<1>7. CASE MayEvaluate /\ Waits
  <2>1. active' = active /\ active.suspectedAt # Never /\ MayDecide
    BY <1>7 DEF Waits
  <2>2. active.suspectedAt <= hist.restartedAt + Timeout(active) + Interval
    BY <1>7, <2>1 DEF VigilInv, Vigil
  <2>3. now < active.suspectedAt + ConfirmTimeout
    BY <1>0, <1>7, <2>1 DEF Waits, Elapsed
  <2> QED BY <1>1, <1>3, <1>4, <2>1, <2>2, <2>3 DEF Vigil
<1>8. CASE MayEvaluate /\ Confirmed
  <2>1. stall'.pc # "off"
    BY <1>8, Zenon DEF Confirmed, NoStall
  <2> QED BY <1>4, <2>1 DEF Vigil, MayEvaluate
<1>9. CASE Undecided
  <2>1. UNCHANGED <<active, stall>> /\ (~MayEvaluate \/ ~MayDecide)
    BY <1>9 DEF Undecided
  <2>2. MayDecide' = MayDecide /\ MayEvaluate' = MayEvaluate
    BY <1>1, <2>1, Zenon DEF MayDecide, MayEvaluate, Paused
  <2> QED BY <1>4, <2>1, <2>2 DEF Vigil
<1> QED BY <1>5, <1>6, <1>7, <1>8, <1>9 DEF Tick

\* Time passes no tick that is due, so the watch is kept.
LEMMA ElapseKeeps ==
    ASSUME VigilInv, Elapse PROVE Punctual' /\ Vigil'
<1>1. /\ now \in Nat /\ ticked \in Nat /\ hist.restartedAt \in Nat
      /\ Interval \in Nat \ {0}
  BY Numbers DEF VigilInv, Inv
<1>2. now' = now + 1 /\ UNCHANGED <<active, attention, stall, answer, ticked, hist>>
      /\ ~(now >= ticked + Interval)
  BY DEF Elapse, TickDue
<1>3. Punctual'
  BY <1>1, <1>2 DEF VigilInv, Punctual
<1>4. /\ MayDecide' = MayDecide /\ MayEvaluate' = MayEvaluate
      /\ Timeout(active)' = Timeout(active)
  BY <1>2, Zenon DEF MayDecide, MayEvaluate, Paused, Timeout
<1> QED BY <1>2, <1>3, <1>4 DEF VigilInv, Vigil

\* Every message the event loop handles restarts the history.
LEMMA HandleKeeps ==
    ASSUME VigilInv, Inv', Handle PROVE Punctual' /\ Vigil'
<1> USE DEF Inv, TypeOK
<1> DEFINE m == Head(messages)
<1>1. m \in MessageType /\ active \in ActiveType
  BY DEF VigilInv, Handle
<1>2. m.kind # "status" => m.turn \in Turn
  BY <1>1 DEF MessageType
<1>3. hist'.restartedAt = now /\ now' = now /\ ticked' = ticked
  BY Zenon DEF Handle, HeardAfter
<1>4. \/ Observe(active, m) = active
      \/ /\ active.turn # None /\ Observe(active, m).turn = active.turn
         /\ Observe(active, m).lastActivityAt = now
  BY <1>1, ObservedFields DEF matchesActiveTurn
<1>5. \/ active' \in {active, NoTurn, Observe(active, m)}
      \/ m.turn \in Turn /\ active' = StartTurn(m.turn)
  BY <1>1, <1>2, Zenon DEF Handle, CompleteTurn
<1>6. active'.turn # None =>
        /\ active'.lastActivityAt \in {active.lastActivityAt, now}
        /\ active.turn # None \/ active'.lastActivityAt = now
  BY <1>4, <1>5, StartedFields, Zenon
<1> QED BY <1>3, <1>6, RestartKeeps

\* The recovery goroutine restarts the history when it gives the turn back to
\* the watchdog; until then nothing is decided about it.
LEMMA RecoveryKeeps ==
    ASSUME VigilInv, Inv', Recovery PROVE Punctual' /\ Vigil'
<1>1. active \in ActiveType /\ now' = now /\ ticked' = ticked
      /\ hist \in HistoryType
  BY DEF VigilInv, Inv, TypeOK, Recovery, StallFails, StallLimited,
         StallOutdated, StallCancelled, StallIdle, StallWaiting, StallInterrupt,
         StallInterrupted, WaitExtended, WaitExpires, StallResumes,
         RecordStartedTurn, GivesUp, stallUnchanged
<1>2. ASSUME hist' = [hist EXCEPT !.restartedAt = now],
             active' \in {active, CancelRecovery(active)}
      PROVE  Punctual' /\ Vigil'
  <2>1. hist'.restartedAt = now
    BY <1>1, <1>2, Zenon DEF HistoryType
  <2>2. active'.turn = active.turn
        /\ active'.lastActivityAt = active.lastActivityAt
    BY <1>1, <1>2, CancelledFields
  <2> QED BY <1>1, <2>1, <2>2, RestartKeeps
<1>3. ASSUME StallFails \/ StallOutdated \/ WaitExpires
      PROVE  Punctual' /\ Vigil'
  BY <1>2, <1>3, Zenon DEF StallFails, StallOutdated, WaitExpires, GivesUp
<1>4. ASSUME StallCancelled PROVE Punctual' /\ Vigil'
  BY <1>2, <1>4, Zenon DEF StallCancelled
<1>5. ASSUME StallResumes PROVE Punctual' /\ Vigil'
  BY <1>2, <1>5, Zenon DEF StallResumes
<1>6. ASSUME StallLimited PROVE Punctual' /\ Vigil'
  <2>1. ~MayEvaluate' /\ UNCHANGED <<active, now, ticked, hist>>
    BY <1>6 DEF StallLimited, MayEvaluate, stallUnchanged
  <2> QED BY <2>1, UnwatchedKeeps
<1>7. ASSUME StallInterrupt PROVE Punctual' /\ Vigil'
  <2>1. stall'.pc # "off" /\ UNCHANGED <<active, now, ticked, hist>>
    BY <1>7 DEF StallInterrupt, stallUnchanged, VigilInv, Inv, TypeOK, StallType
  <2> QED BY <2>1, UnwatchedKeeps DEF MayEvaluate
<1>8. ASSUME WaitExtended PROVE Punctual' /\ Vigil'
  <2>1. stall'.pc # "off" /\ UNCHANGED <<active, now, ticked, hist>>
    BY <1>8 DEF WaitExtended, stallUnchanged, VigilInv, Inv, TypeOK, StallType
  <2> QED BY <2>1, UnwatchedKeeps DEF MayEvaluate
<1>9. ASSUME StallInterrupted PROVE Punctual' /\ Vigil'
  <2>1. CASE codex.turn = stall.turn
    <3>1. stall'.pc # "off" /\ UNCHANGED <<active, now, ticked, hist>>
      BY <1>9, <2>1
         DEF StallInterrupted, stallUnchanged, VigilInv, Inv, TypeOK, StallType
    <3> QED BY <3>1, UnwatchedKeeps DEF MayEvaluate
  <2>2. CASE codex.turn # stall.turn
    BY <1>2, <1>9, <2>2, Zenon DEF StallInterrupted
  <2> QED BY <2>1, <2>2
<1>10. ASSUME StallIdle PROVE Punctual' /\ Vigil'
  <2>1. active' = NoTurn /\ hist' = hist
    BY <1>10, Zenon DEF StallIdle, IsCurrent, CompleteTurn
  <2>2. active'.turn = None
    BY <2>1, StartedFields, Zenon
  <2>3. Punctual'
    BY <1>1, <2>1, <2>2 DEF VigilInv, Punctual
  <2> QED BY <2>2, <2>3 DEF Vigil, MayDecide
<1>11. ASSUME StallWaiting PROVE Punctual' /\ Vigil'
  <2>1. active.turn # None
    BY <1>11 DEF StallWaiting, IsCurrent, VigilInv, Inv, StallOwned
  <2>2. active'.lastActivityAt = now
    BY <1>1, <1>11, <2>1, WaitingFields, Zenon DEF StallWaiting
  <2>3. hist'.restartedAt = now
    BY <1>1, <1>11, Zenon DEF StallWaiting, HistoryType
  <2> QED BY <1>1, <2>1, <2>2, <2>3, RestartKeeps
<1>12. ASSUME RecordStartedTurn PROVE Punctual' /\ Vigil'
  <2>1. answer \in Turn
    BY <1>12, WatchdogAssumption
       DEF RecordStartedTurn, VigilInv, Inv, TypeOK, TurnOrNone, Turn, None
  <2>2. active'.lastActivityAt = now
    BY <1>12, <2>1, StartedFields, Zenon DEF RecordStartedTurn
  <2>3. hist'.restartedAt = now
    BY <1>1, <1>12, Zenon DEF RecordStartedTurn, HistoryType
  <2> QED BY <1>1, <2>2, <2>3, RestartKeeps
<1> QED BY <1>3, <1>4, <1>5, <1>6, <1>7, <1>8, <1>9, <1>10, <1>11, <1>12, Zenon
        DEF Recovery

\* Every step keeps the watch.
LEMMA NextKeeps ==
    ASSUME VigilInv, Inv', [Next]_vars PROVE Punctual' /\ Vigil'
<1>1. ASSUME Codex PROVE Punctual' /\ Vigil'
  <2>1. UNCHANGED <<active, attention, stall, answer, now, ticked, hist>>
    BY <1>1, Zenon DEF Codex, UserStartsTurn, JobStarts, JobCompletes, CodexWaits,
                       CodexProgresses, TurnCompletes, Runs
  <2> QED BY <2>1, UnwatchedKeeps DEF MayEvaluate
<1>2. ASSUME HandleClientInterrupt PROVE Punctual' /\ Vigil'
  <2>1. active \in ActiveType /\ hist \in HistoryType
    BY DEF VigilInv, Inv, TypeOK
  <2>2. active'.turn = active.turn
        /\ active'.lastActivityAt = active.lastActivityAt
    BY <1>2, <2>1, CancelledFields DEF HandleClientInterrupt
  <2>3. hist'.restartedAt = now /\ now' = now /\ ticked' = ticked
    BY <1>2, <2>1, Zenon DEF HandleClientInterrupt, HistoryType
  <2> QED BY <2>2, <2>3, RestartKeeps
<1>3. ASSUME UNCHANGED vars PROVE Punctual' /\ Vigil'
  BY <1>3, UnwatchedKeeps DEF vars, MayEvaluate
<1> QED BY <1>1, <1>2, <1>3, HandleKeeps, TickKeeps, RecoveryKeeps, ElapseKeeps,
           Zenon DEF Next, Over

\* Whatever the turn, its jobs and its messages do, a turn the watchdog may
\* decide about is recovered or moves on within its timeout, the confirmation
\* and two ticks.
THEOREM StallsDecidedInTime == Spec => []DecidesInTime
<1>1. Init => Punctual /\ Vigil
  <2> SUFFICES ASSUME Init PROVE Punctual /\ Vigil
    OBVIOUS
  <2>1. active.turn = None
    BY StartedFields, Zenon DEF Init
  <2>2. now = 0 /\ ticked = 0 /\ hist.restartedAt = 0
    BY Zenon DEF Init
  <2> QED BY <2>1, <2>2, WatchdogAssumption DEF Punctual, Vigil, MayDecide
<1>2. VigilInv /\ Inv' /\ [Next]_vars => Punctual' /\ Vigil'
  BY NextKeeps
<1>3. VigilInv => DecidesInTime
  <2> SUFFICES ASSUME VigilInv, MayDecide, MayEvaluate
               PROVE  now <= hist.restartedAt + Timeout(active)
                                 + ConfirmTimeout + 2 * Interval
    BY DEF DecidesInTime
  <2>1. /\ now \in Nat /\ ticked \in Nat /\ hist.restartedAt \in Nat
        /\ active.lastActivityAt \in Nat /\ Timeout(active) \in Nat
        /\ active.suspectedAt \in Nat \cup {Never}
        /\ Interval \in Nat \ {0} /\ ConfirmTimeout \in Nat \ {0}
    BY Numbers DEF VigilInv, Inv
  <2>2. now <= ticked + Interval /\ active.lastActivityAt <= hist.restartedAt
    BY DEF VigilInv, Punctual, MayDecide
  <2>3. CASE active.suspectedAt = Never
    BY <2>1, <2>2, <2>3 DEF VigilInv, Vigil
  <2>4. CASE active.suspectedAt # Never
    BY <2>1, <2>2, <2>4 DEF VigilInv, Vigil
  <2> QED BY <2>3, <2>4
<1> QED BY <1>1, <1>2, <1>3, InvCorrect, PTL DEF Spec, VigilInv

-----------------------------------------------------------------------------
(* The watchdog implements its contract.                                   *)

\* A step that changes neither the active turn nor what is current is no step
\* of the contract.
LEMMA RefinesStutter ==
    ASSUME active' = active, Current' <=> Current
    PROVE  UNCHANGED Contract!watchVars
<1>1. Current' \in BOOLEAN /\ Current \in BOOLEAN
  BY Zenon DEF Current
<1>2. Current' = Current
  BY <1>1
<1>3. Paused(active)' = Paused(active)
  BY Zenon DEF Paused
<1>4. Suspicion' = Suspicion
  BY Zenon DEF Suspicion
<1> QED BY <1>2, <1>3, <1>4, Zenon DEF Contract!watchVars

\* A started turn is a start for the contract.
LEMMA RefinesStart ==
    ASSUME NEW t \in Turn, active' = StartTurn(t)
    PROVE  Contract!Next
<1>1. /\ ~Paused(active)' /\ active'.suspectedAt = Never
      /\ active'.recovering = FALSE /\ active'.turn = t
  BY StartedFields, Zenon
<1>2. ~Current' /\ ~Suspicion'
  BY <1>1, Zenon DEF Current, IsCurrent, Suspicion
<1>3. Current' = FALSE /\ Suspicion' = FALSE /\ Paused(active)' = FALSE
  BY <1>1, <1>2
<1>4. Contract!Watches(t)
  BY <1>1, <1>3, Zenon DEF Contract!Watches
<1> QED BY <1>4, Zenon DEF Contract!Next, Contract!Start, Contract!Turn, Turn

\* A turn that is given up for good completes for the contract.
LEMMA RefinesComplete ==
    ASSUME active' = NoTurn
    PROVE  Contract!Next
<1>1. /\ ~Paused(active)' /\ active'.suspectedAt = Never
      /\ active'.recovering = FALSE /\ active'.turn = None
  BY Zenon DEF NoTurn, Paused
<1>2. ~Current' /\ ~Suspicion'
  BY <1>1, Zenon DEF Current, IsCurrent, Suspicion
<1>3. Current' = FALSE /\ Suspicion' = FALSE /\ Paused(active)' = FALSE
  BY <1>1, <1>2
<1>4. Contract!Complete
  BY <1>1, <1>3, Zenon
     DEF Contract!Watches, Contract!Complete, Contract!None, None
<1> QED BY <1>4, Zenon DEF Contract!Next

\* A cancelled recovery is a cancellation for the contract.
LEMMA RefinesCancel ==
    ASSUME Inv, active' = CancelRecovery(active)
    PROVE  Contract!Next
<1>1. active'.turn = active.turn /\ Paused(active)' = Paused(active)
  BY CancelledFields, Zenon DEF Inv, TypeOK, Paused
<1>2. active'.suspectedAt = Never /\ active'.recovering = FALSE
  <2>1. CASE active.turn = None
    <3>1. active' = NoTurn
      BY <2>1, CancelledFields DEF Inv, TypeOK, SuspectedInTime
    <3> QED BY <3>1, StartedFields, Zenon
  <2>2. CASE active.turn # None
    BY <2>2, CancelledFields, Zenon DEF Inv, TypeOK
  <2> QED BY <2>1, <2>2
<1>3. ~Current' /\ ~Suspicion'
  BY <1>2, Zenon DEF Current, IsCurrent, Suspicion
<1>4. Current' = FALSE /\ Suspicion' = FALSE
  BY <1>3
<1>5. Contract!Cancel
  BY <1>1, <1>2, <1>4, Zenon DEF Contract!Cancel
<1> QED BY <1>5, Zenon DEF Contract!Next

\* Every step of the ticker is one of the contract's or none.
LEMMA TickRefines ==
    ASSUME Inv, Tick
    PROVE  Contract!Next \/ UNCHANGED Contract!watchVars
<1> USE DEF Inv, TypeOK
<1>0. active.turn # None => Contract!None # active.turn
  BY DEF Contract!None, None
<1>1. CASE MayEvaluate /\ Awake
  <2>1. active.suspectedAt = Never
    <3>1. CASE active.suspectedAt # Never
      <4>1. now >= active.lastActivityAt + Timeout(active)
        BY <3>1, WatchdogAssumption DEF SuspectedInTime, Timeout, ActiveType
      <4>2. now - active.lastActivityAt >= Timeout(active)
        BY <4>1, WatchdogAssumption DEF Timeout, ActiveType
      <4> QED BY <1>1, <4>2 DEF Awake, Silent
    <3> QED BY <3>1
  <2>2. active' = active /\ stall' = stall
    BY <1>1, <2>1 DEF Awake, ActiveType
  <2>3. Current' <=> Current
    BY <2>2, Zenon DEF Current, IsCurrent
  <2> QED BY <2>2, <2>3, RefinesStutter
<1>2. CASE MayEvaluate /\ Suspected
  <2>1. active' = [active EXCEPT !.suspectedAt = now] /\ stall' = stall
    BY <1>2 DEF Suspected
  <2>2. /\ active'.turn = active.turn /\ active'.suspectedAt # Never
        /\ active'.recovering = active.recovering
        /\ Paused(active)' = Paused(active)
    <3>1. now # Never
      BY DEF Never
    <3> QED BY <2>1, <3>1, Zenon DEF ActiveType, Paused
  <2>3. ~Current' /\ ~Current
    BY <1>2, <2>1 DEF Current, MayEvaluate
  <2>4. Suspicion' = TRUE /\ Current' = Current /\ ~Suspicion
    <3>1. Suspicion' /\ ~Suspicion
      BY <1>2, <2>2, Zenon DEF Suspicion, Suspected
    <3> QED BY <2>3, <3>1 DEF Current, Suspicion
  <2>5. active.turn # Contract!None /\ ~Paused(active) /\ ~active.recovering
    BY <1>0, <1>2, Zenon DEF Suspected, MayDecide
  <2>6. Contract!Suspect
    BY <2>2, <2>4, <2>5, Zenon DEF Contract!Suspect, Contract!MayDecide
  <2> QED BY <2>6, Zenon DEF Contract!Next
<1>3. CASE MayEvaluate /\ Confirmed
  <2>1. /\ active' = [active EXCEPT !.recovering = TRUE]
        /\ stall' = [NoStall EXCEPT !.pc = "read", !.turn = active.turn,
                                    !.sequence = active.sequence]
    BY <1>3 DEF Confirmed
  <2>2. /\ active'.turn = active.turn
        /\ active'.suspectedAt = active.suspectedAt
        /\ active'.sequence = active.sequence
        /\ active'.recovering = TRUE
        /\ Paused(active)' = Paused(active)
    BY <2>1, Zenon DEF ActiveType, Paused
  <2>3. stall'.pc = "read" /\ stall'.turn = active.turn
        /\ stall'.sequence = active.sequence
    BY <2>1, Zenon DEF NoStall
  <2>4. Current'
    BY <2>2, <2>3 DEF Current, IsCurrent
  <2>5. Current' = TRUE /\ Suspicion' = Suspicion /\ Suspicion
    BY <1>3, <2>2, <2>4 DEF Suspicion, Confirmed
  <2>6. active.turn # Contract!None /\ ~Paused(active) /\ ~active.recovering
    BY <1>0, <1>3, Zenon DEF Confirmed, MayDecide
  <2>7. Contract!Confirm
    BY <2>2, <2>5, <2>6, Zenon DEF Contract!Confirm, Contract!MayDecide
  <2> QED BY <2>7, Zenon DEF Contract!Next
<1>4. CASE UNCHANGED <<active, stall>>
  <2>1. Current' <=> Current
    BY <1>4, Zenon DEF Current, IsCurrent
  <2> QED BY <1>4, <2>1, RefinesStutter
<1> QED BY <1>1, <1>2, <1>3, <1>4 DEF Tick, Waits, Undecided

\* Every message the event loop handles is a step of the contract or none.
LEMMA HandleRefines ==
    ASSUME Inv, Handle
    PROVE  Contract!Next \/ UNCHANGED Contract!watchVars
<1> USE DEF Inv, TypeOK
<1> DEFINE m == Head(messages)
<1>1. m \in MessageType
  BY DEF Handle
<1>2. m.kind # "status" => m.turn \in Turn
  BY <1>1 DEF MessageType
<1>3. CASE m.kind = "turn/started"
  <2>1. active' = StartTurn(m.turn)
    BY <1>3 DEF Handle
  <2> QED BY <1>2, <1>3, <2>1, RefinesStart
<1>4. CASE m.kind = "turn/completed"
  <2>1. active' = CompleteTurn(Observe(active, m), m.turn)
    BY <1>4 DEF Handle
  <2>2. matchesActiveTurn(active, m) <=> active.turn = m.turn
    BY <1>2, <1>4 DEF matchesActiveTurn, Turn, None
  <2>3. CASE active.turn = m.turn
    <3>1. active' = NoTurn
      BY <1>1, <2>1, <2>2, <2>3, ObservedFields DEF CompleteTurn
    <3> QED BY <3>1, RefinesComplete
  <2>4. CASE active.turn # m.turn
    <3>1. active' = active
      BY <1>1, <2>1, <2>2, <2>4, ObservedFields DEF CompleteTurn
    <3>2. \/ stall' = stall
          \/ stall' = NoStall /\ stall.turn = m.turn
          \/ /\ stall.pc # "off" /\ stall'.pc # "off"
             /\ stall'.turn = stall.turn /\ stall'.sequence = stall.sequence
      BY StallAfterFields
    <3>3. CASE ~(stall' = NoStall /\ stall.turn = m.turn)
      <4>1. Current' <=> Current
        BY <3>1, <3>2, <3>3, Zenon DEF Current, IsCurrent
      <4> QED BY <3>1, <4>1, RefinesStutter
    <3>4. CASE stall' = NoStall /\ stall.turn = m.turn
      <4>1. ~Current
        BY <2>4, <3>2, <3>4 DEF Current, IsCurrent
      <4>2. ~Current'
        BY <2>4, <3>1, <3>2, <3>4
           DEF Current, IsCurrent, NoStall, StallType
      <4> QED BY <3>1, <4>1, <4>2, RefinesStutter
    <3> QED BY <3>3, <3>4
  <2> QED BY <2>3, <2>4
<1>5. CASE m.kind \notin {"turn/started", "turn/completed"}
  <2>1. active' = Observe(active, m) /\ stall' = stall
    BY <1>5 DEF Handle, StallAfter
  <2>2. CASE matchesActiveTurn(active, m)
    <3>1. /\ active.turn # None /\ active'.turn = active.turn
          /\ active'.suspectedAt = Never
          /\ active'.sequence = active.sequence + 1
      BY <1>1, <2>1, <2>2, ObservedFields DEF matchesActiveTurn
    <3>2. active'.recovering = active.recovering
      BY <1>1, <2>1, <2>2, ObservedFields, Zenon
    <3>3. ~Current'
      <4>1. active.sequence >= stall.sequence => active'.sequence # stall.sequence
        BY <3>1 DEF ActiveType, StallType
      <4> QED BY <2>1, <3>2, <4>1 DEF Current, IsCurrent, StallOwned
    <3>4. Current' = FALSE /\ Suspicion' = FALSE
      BY <3>1, <3>3 DEF Suspicion
    <3>5. Paused(active)' \in BOOLEAN
      BY Zenon DEF Paused
    <3>6. Contract!Activity
      BY <3>1, <3>2, <3>4, <3>5, Zenon DEF Contract!Activity, Contract!None, None
    <3> QED BY <3>6, Zenon DEF Contract!Next
  <2>3. CASE ~matchesActiveTurn(active, m)
    <3>1. active' = active
      BY <1>1, <2>1, <2>3, ObservedFields
    <3>2. Current' <=> Current
      BY <2>1, <3>1, Zenon DEF Current, IsCurrent
    <3> QED BY <3>1, <3>2, RefinesStutter
  <2> QED BY <2>2, <2>3
<1> QED BY <1>3, <1>4, <1>5

\* Every step of the recovery goroutine is a step of the contract or none.
LEMMA RecoveryRefines ==
    ASSUME Inv, Recovery
    PROVE  Contract!Next \/ UNCHANGED Contract!watchVars
<1> USE DEF Inv, TypeOK
<1>1. ASSUME GivesUp PROVE Contract!Next
  BY <1>1, RefinesCancel DEF GivesUp
<1>2. ASSUME active' = active, stall' = NoStall
      PROVE  Contract!Next \/ UNCHANGED Contract!watchVars
  <2>1. ~Current'
    BY <1>2 DEF Current, NoStall
  <2>2. CASE ~Current
    BY <1>2, <2>1, <2>2, RefinesStutter
  <2>3. CASE Current
    <3>1. Current = TRUE /\ Current' = FALSE /\ active.recovering
      BY <2>1, <2>3 DEF Current, IsCurrent
    <3>2. Paused(active)' = Paused(active) /\ Suspicion' = Suspicion
      BY <1>2, Zenon DEF Paused, Suspicion
    <3>3. Contract!Abandon
      BY <1>2, <3>1, <3>2, Zenon DEF Contract!Abandon
    <3> QED BY <3>3, Zenon DEF Contract!Next
  <2> QED BY <2>2, <2>3
<1>3. ASSUME active' = active, stall.pc # "off", stall'.pc # "off",
             stall'.turn = stall.turn, stall'.sequence = stall.sequence
      PROVE  UNCHANGED Contract!watchVars
  <2>1. Current' <=> Current
    BY <1>3 DEF Current, IsCurrent
  <2> QED BY <1>3, <2>1, RefinesStutter
<1>4. ASSUME StallCancelled
      PROVE  Contract!Next \/ UNCHANGED Contract!watchVars
  <2>1. stall' = NoStall /\ active' \in {active, CancelRecovery(active)}
    BY <1>4 DEF StallCancelled
  <2> QED BY <1>2, <2>1, RefinesCancel
<1>12. ASSUME StallLimited
       PROVE  Contract!Next \/ UNCHANGED Contract!watchVars
  BY <1>2, <1>12 DEF StallLimited
<1>5. ASSUME StallIdle PROVE Contract!Next
  <2>1. active' = NoTurn
    BY <1>5 DEF StallIdle, IsCurrent, CompleteTurn
  <2> QED BY <2>1, RefinesComplete
<1>6. ASSUME StallWaiting PROVE Contract!Next
  <2>1. active' = SetWaitingFlags(active) /\ active.turn # None
    BY <1>6 DEF StallWaiting, IsCurrent, StallOwned
  <2>2. /\ active'.turn = active.turn /\ active'.suspectedAt = Never
        /\ active'.recovering = FALSE /\ Paused(active)'
    BY <2>1, WaitingFields, Zenon DEF Paused
  <2>3. Paused(active)' = TRUE /\ Suspicion' = FALSE /\ Current' = FALSE
    BY <2>2 DEF Suspicion, Current, IsCurrent
  <2>4. Contract!WaitForUser
    BY <2>1, <2>2, <2>3, Zenon DEF Contract!WaitForUser, Contract!None, None
  <2> QED BY <2>4, Zenon DEF Contract!Next
<1>7. ASSUME StallInterrupt PROVE UNCHANGED Contract!watchVars
  BY <1>3, <1>7 DEF StallInterrupt, StallType
<1>8. ASSUME StallInterrupted
      PROVE  Contract!Next \/ UNCHANGED Contract!watchVars
  <2>1. CASE codex.turn = stall.turn
    BY <1>3, <1>8, <2>1 DEF StallInterrupted, StallType
  <2>2. CASE codex.turn # stall.turn
    BY <1>8, <2>2, RefinesCancel DEF StallInterrupted
  <2> QED BY <2>1, <2>2
<1>9. ASSUME WaitExtended PROVE UNCHANGED Contract!watchVars
  BY <1>3, <1>9 DEF WaitExtended, StallType
<1>10. ASSUME StallResumes
       PROVE  Contract!Next \/ UNCHANGED Contract!watchVars
  <2>1. stall' = NoStall /\ active' \in {active, CancelRecovery(active)}
    BY <1>10 DEF StallResumes
  <2> QED BY <1>2, <2>1, RefinesCancel
<1>11. ASSUME RecordStartedTurn PROVE Contract!Next
  <2>1. answer \in Turn /\ active' = StartTurn(answer)
    BY <1>11, WatchdogAssumption
       DEF RecordStartedTurn, TurnOrNone, Turn, None
  <2> QED BY <2>1, RefinesStart
<1> QED BY <1>1, <1>4, <1>5, <1>6, <1>7, <1>8, <1>9, <1>10, <1>11,
        <1>12, Zenon DEF Recovery, StallFails, StallOutdated, WaitExpires

\* The timed watchdog with its messages, jobs and recovery goroutine implements
\* the contract the rest of the supervisor relies on.
THEOREM ContractKept == Spec => KeepsContract
<1>1. Init => Contract!Init
  <2> SUFFICES ASSUME Init PROVE Contract!Init
    OBVIOUS
  <2>1. active = NoTurn /\ stall = NoStall
    BY DEF Init
  <2>2. /\ ~Paused(active) /\ active.turn = None /\ active.recovering = FALSE
        /\ ~(active.suspectedAt # Never)
    BY <2>1, Zenon DEF NoTurn, Paused
  <2>3. stall.pc = "off"
    BY <2>1, Zenon DEF NoStall
  <2>4. Paused(active) = FALSE /\ Suspicion = FALSE /\ Current = FALSE
    BY <2>2, <2>3 DEF Suspicion, Current
  <2> QED BY <2>2, <2>4, Zenon DEF Contract!Init, Contract!None, None
<1>2. Inv /\ [Next]_vars => [Contract!Next]_(Contract!watchVars)
  <2> SUFFICES ASSUME Inv, [Next]_vars
               PROVE  Contract!Next \/ UNCHANGED Contract!watchVars
    OBVIOUS
  <2>1. ASSUME UNCHANGED <<active, stall>> PROVE UNCHANGED Contract!watchVars
    <3>1. Current' <=> Current
      BY <2>1, Zenon DEF Current, IsCurrent
    <3> QED BY <2>1, <3>1, RefinesStutter
  <2>2. CASE Codex
    <3>1. UNCHANGED <<active, stall>>
      BY <2>2, Zenon DEF Codex, UserStartsTurn, JobStarts, JobCompletes, CodexWaits,
                         CodexProgresses, TurnCompletes, Runs
    <3> QED BY <2>1, <3>1
  <2>3. CASE HandleClientInterrupt
    BY <2>3, RefinesCancel DEF HandleClientInterrupt
  <2>4. CASE Elapse \/ Over \/ UNCHANGED vars
    BY <2>1, <2>4, Zenon DEF Elapse, Over, vars
  <2> QED BY <2>2, <2>3, <2>4, HandleRefines, TickRefines, RecoveryRefines, Zenon
          DEF Next
<1> QED BY <1>1, <1>2, InvCorrect, PTL DEF Spec, KeepsContract, Contract!Spec

-----------------------------------------------------------------------------
(* No stall is confirmed before the turn was silent long enough.           *)

Hears == TypeOK /\ HeardAfterStart

\* What the event loop has heard of a turn after it handled a message.
LEMMA HeardNext ==
    ASSUME TypeOK, Handle, NEW t \in Turn
    PROVE  LET m == Head(messages)
           IN /\ HeardRunning(t)' =
                   IF m.turn # t THEN HeardRunning(t)
                   ELSE IF m.kind = "started" THEN HeardRunning(t) \cup m.job
                   ELSE IF m.kind = "completed" THEN HeardRunning(t) \ m.job
                   ELSE IF m.kind \in {"turn/started", "turn/completed"} THEN {}
                   ELSE HeardRunning(t)
              /\ hist'.heardAt[t] =
                   IF t = m.turn \/ (m.turn = None /\ t = active.turn)
                   THEN now ELSE hist.heardAt[t]
<1> DEFINE m == Head(messages)
<1>1. m \in MessageType
  BY DEF Handle, TypeOK
<1>2. hist' = HeardAfter(m)
  BY Zenon DEF Handle
<1>3. hist'.heardAt[t] = IF t = m.turn \/ (m.turn = None /\ t = active.turn)
                         THEN now ELSE hist.heardAt[t]
  BY <1>2, Zenon DEF HeardAfter
<1>4. m.job \in SUBSET Jobs
  BY <1>1 DEF MessageType
<1>5. CASE m.kind = "started"
  <2>1. hist'.running = hist.running \cup ({m.turn} \X m.job)
    BY <1>2, <1>5 DEF HeardAfter
  <2> QED BY <1>3, <1>4, <1>5, <2>1 DEF HeardRunning
<1>6. CASE m.kind = "completed"
  <2>1. hist'.running = hist.running \ ({m.turn} \X m.job)
    BY <1>2, <1>6 DEF HeardAfter
  <2> QED BY <1>3, <1>4, <1>6, <2>1 DEF HeardRunning
<1>7. CASE m.kind \in {"turn/started", "turn/completed"}
  <2>1. hist'.running = {r \in hist.running : r[1] # m.turn}
    BY <1>2, <1>7 DEF HeardAfter
  <2> QED BY <1>3, <1>7, <2>1 DEF HeardRunning
<1>8. CASE m.kind \notin {"started", "completed", "turn/started", "turn/completed"}
  <2>1. hist'.running = hist.running
    BY <1>2, <1>8 DEF HeardAfter
  <2> QED BY <1>3, <1>8, <2>1 DEF HeardRunning
<1> QED BY <1>5, <1>6, <1>7, <1>8

\* A message of a turn that has started is one of a turn that has started.
LEMMA SentHeard ==
    ASSUME Hears, NEW m \in MessageType, messages' = Append(messages, m),
           codex'.next \in Nat, codex'.next >= codex.next, m.turn <= codex'.next
    PROVE  \A i \in 1 .. Len(messages') : messages'[i].turn <= codex'.next
<1> USE DEF Hears, TypeOK, HeardAfterStart
<1> TAKE i \in 1 .. Len(messages')
<1>1. Len(messages') = Len(messages) + 1 /\ messages \in Seq(MessageType)
  OBVIOUS
<1>2. CASE i = Len(messages) + 1
  <2>1. messages'[i] = m
    BY <1>1, <1>2
  <2> QED BY <2>1
<1>3. CASE i \in 1 .. Len(messages)
  <2>1. messages'[i] = messages[i] /\ messages[i] \in MessageType
    BY <1>1, <1>3
  <2>2. messages[i].turn <= codex.next /\ messages[i].turn \in TurnOrNone
    BY <1>3, <2>1, WatchdogAssumption
       DEF MessageType, Turn, TurnOrNone, None
  <2> QED BY <2>1, <2>2 DEF CodexType, TurnOrNone
<1> QED BY <1>1, <1>2, <1>3

\* Nothing is heard of a turn before it starts: what Codex sends.
LEMMA CodexHeard ==
    ASSUME Hears, Codex PROVE HeardAfterStart'
<1> USE DEF Hears, TypeOK
<1>1. hist' = hist /\ now' = now
  BY Zenon DEF Codex, UserStartsTurn, JobStarts, JobCompletes, CodexWaits,
               CodexProgresses, TurnCompletes, Runs
<1>2. /\ codex.next \in Nat /\ codex.turn \in Nat
      /\ codex.turn <= codex.next
  BY DEF CodexType, TurnOrNone, HeardAfterStart
<1>3. ASSUME NEW m \in MessageType, Sends(m), codex'.next = codex.next,
             codex'.turn \in {codex.turn, None}, m.turn \in {codex.turn, None}
      PROVE  HeardAfterStart'
  <2>1. messages' = Append(messages, m)
    BY <1>3, Zenon DEF Sends
  <2>2. m.turn <= codex'.next /\ codex'.turn <= codex'.next
    BY <1>2, <1>3 DEF None
  <2>3. \A i \in 1 .. Len(messages') : messages'[i].turn <= codex'.next
    BY <1>2, <1>3, <2>1, <2>2, SentHeard
  <2> QED BY <1>1, <1>3, <2>2, <2>3 DEF HeardAfterStart, HeardRunning
<1>4. CASE UserStartsTurn
  <2> DEFINE m == Message("turn/started", codex.next + 1, {}, FALSE)
  <2>1. /\ codex'.next = codex.next + 1 /\ codex'.turn = codex.next + 1
        /\ messages' = Append(messages, m)
    BY <1>4, Zenon DEF UserStartsTurn, StartsTurn, Sends
  <2>2. codex.next + 1 \in Turn
    BY <1>4, WatchdogAssumption
       DEF UserStartsTurn, StartsTurn, CodexType, TurnOrNone, Turn
  <2>3. m \in MessageType /\ m.turn = codex.next + 1
    <3>1. {} \in SUBSET Jobs
      OBVIOUS
    <3> QED BY <2>2, <3>1, Zenon DEF Message, MessageType
  <2>4. \A i \in 1 .. Len(messages') : messages'[i].turn <= codex'.next
    <3> HIDE DEF m
    <3> QED BY <1>2, <2>1, <2>3, SentHeard
  <2>5. \A t \in Turn : t <= codex.next => t <= codex'.next
    BY <1>2, <2>1 DEF Turn
  <2>6. codex'.turn <= codex'.next
    BY <1>2, <2>1
  <2> HIDE DEF m
  <2> QED BY <1>1, <2>4, <2>5, <2>6, Zenon DEF HeardAfterStart, HeardRunning
<1>5. ASSUME NEW kind, NEW job, NEW on
      PROVE  Message(kind, codex.turn, job, on).turn = codex.turn
  BY Zenon DEF Message
<1>6. codex.turn # None => codex.turn \in Turn
  BY DEF CodexType, TurnOrNone, Turn, None
<1>7. ASSUME NEW kind \in {"turn/completed", "activity", "verification",
                           "buffering", "started", "completed"},
             NEW job \in SUBSET Jobs, NEW on \in BOOLEAN, codex.turn # None
      PROVE  Message(kind, codex.turn, job, on) \in MessageType
  BY <1>6, <1>7, Zenon DEF Message, MessageType
<1>8. CASE JobStarts
  <2>1. PICK j \in Jobs :
          /\ Sends(Message("started", codex.turn, {j}, FALSE))
          /\ codex' = [codex EXCEPT !.running = @ \cup {j}, !.sent = @ + 1]
    BY <1>8, Zenon DEF JobStarts
  <2>2. codex'.next = codex.next /\ codex'.turn = codex.turn
        /\ codex.turn # None /\ {j} \in SUBSET Jobs
    BY <1>8, <2>1 DEF JobStarts, Runs, CodexType
  <2> QED BY <1>3, <1>5, <1>7, <2>1, <2>2
<1>9. CASE JobCompletes
  <2>1. PICK j \in codex.running :
          /\ Sends(Message("completed", codex.turn, {j}, FALSE))
          /\ codex' = [codex EXCEPT !.running = @ \ {j}]
    BY <1>9, Zenon DEF JobCompletes
  <2>2. codex'.next = codex.next /\ codex'.turn = codex.turn
        /\ codex.turn # None /\ {j} \in SUBSET Jobs
    BY <1>9, <2>1 DEF JobCompletes, CodexType
  <2> QED BY <1>3, <1>5, <1>7, <2>1, <2>2
<1>10. CASE CodexWaits
  <2> DEFINE m == Message("status", None, {}, ~codex.waiting)
  <2>1. m \in MessageType /\ m.turn = None
    <3>1. (~codex.waiting) \in BOOLEAN
      OBVIOUS
    <3> QED BY <3>1, Zenon DEF Message, MessageType
  <2>2. codex'.next = codex.next /\ codex'.turn = codex.turn
    BY <1>10, Zenon DEF CodexWaits, CodexType
  <2>3. Sends(m)
    BY <1>10, Zenon DEF CodexWaits
  <2> HIDE DEF m
  <2> QED BY <1>3, <2>1, <2>2, <2>3
<1>11. CASE CodexProgresses
  <2>1. PICK kind \in {"activity", "verification", "buffering"}, on \in BOOLEAN :
          Sends(Message(kind, codex.turn, {}, on))
    BY <1>11, Zenon DEF CodexProgresses, About
  <2>2. codex'.next = codex.next /\ codex'.turn = codex.turn
        /\ codex.turn # None /\ {} \in SUBSET Jobs
    BY <1>11 DEF CodexProgresses, Runs, CodexType
  <2> QED BY <1>3, <1>5, <1>7, <2>1, <2>2
<1>12. CASE TurnCompletes
  <2>1. Sends(Message("turn/completed", codex.turn, {}, codex.interrupted))
    BY <1>12, Zenon DEF TurnCompletes, About
  <2>2. codex'.next = codex.next /\ codex'.turn = None
        /\ codex.turn # None /\ {} \in SUBSET Jobs
    BY <1>12 DEF TurnCompletes, CodexType
  <2>3. codex.interrupted \in BOOLEAN
    BY Zenon DEF CodexType
  <2> QED BY <1>3, <1>5, <1>7, <2>1, <2>2, <2>3
<1> QED BY <1>4, <1>8, <1>9, <1>10, <1>11, <1>12 DEF Codex

\* Nothing is heard of a turn before it starts: what the event loop handles.
LEMMA HandleHeard ==
    ASSUME Hears, Handle PROVE HeardAfterStart'
<1> USE DEF Hears, TypeOK
<1> DEFINE m == Head(messages)
<1>1. m \in MessageType /\ messages' = Tail(messages) /\ codex' = codex
      /\ now' = now /\ messages # <<>>
  BY DEF Handle
<1>2. m.turn <= codex.next
  BY <1>1 DEF HeardAfterStart
<1>3. \A i \in 1 .. Len(messages') : messages'[i].turn <= codex'.next
  <2> TAKE i \in 1 .. Len(messages')
  <2>1. messages'[i] = messages[i + 1] /\ i + 1 \in 1 .. Len(messages)
    BY <1>1
  <2> QED BY <1>1, <2>1 DEF HeardAfterStart
<1>4. ASSUME NEW t \in Turn, HeardRunning(t)' # {} PROVE t <= codex'.next
  <2>1. CASE m.turn = t
    BY <1>1, <1>2, <2>1
  <2>2. CASE m.turn # t
    BY <1>1, <1>4, <2>2, HeardNext DEF HeardAfterStart
  <2> QED BY <2>1, <2>2
<1>5. ASSUME NEW t \in Turn PROVE hist'.heardAt[t] <= now'
  BY <1>1, HeardNext DEF HeardAfterStart, HistoryType
<1>6. codex'.turn <= codex'.next
  BY <1>1 DEF HeardAfterStart
<1> QED BY <1>3, <1>4, <1>5, <1>6, Zenon DEF HeardAfterStart

\* Nothing is heard of a turn before it starts: every other step.
LEMMA OthersHeard ==
    ASSUME Hears, HandleClientInterrupt \/ Tick \/ Recovery \/ Elapse
    PROVE  HeardAfterStart'
<1> USE DEF Hears, TypeOK
<1>1. hist'.running = hist.running /\ hist'.heardAt = hist.heardAt
  BY DEF HandleClientInterrupt, Tick, Elapse, Recovery, StallFails, StallLimited,
         StallOutdated, WaitExpires, GivesUp, StallCancelled, StallIdle, StallWaiting,
         StallInterrupt, StallInterrupted, WaitExtended, StallResumes,
         RecordStartedTurn, HistoryType
<1>2. now' = now \/ now' = now + 1
  BY DEF HandleClientInterrupt, Tick, Elapse, Recovery, StallFails, StallLimited,
         StallOutdated, WaitExpires, GivesUp, StallCancelled, StallIdle, StallWaiting,
         StallInterrupt, StallInterrupted, WaitExtended, StallResumes,
         RecordStartedTurn, stallUnchanged
<1>3. \A t \in Turn : hist'.heardAt[t] <= now'
  <2> TAKE t \in Turn
  <2>1. hist.heardAt[t] <= now /\ hist.heardAt[t] \in Nat
    BY DEF HeardAfterStart, HistoryType
  <2> QED BY <1>1, <1>2, <2>1
<1>4. CASE StallResumes /\ codex'.next # codex.next
  <2> DEFINE m == Message("turn/started", codex.next + 1, {}, FALSE)
  <2>1. StartsTurn
    BY <1>4 DEF StallResumes
  <2>2. /\ codex'.next = codex.next + 1 /\ codex'.turn = codex.next + 1
        /\ messages' = Append(messages, m)
    BY <2>1, Zenon DEF StartsTurn, Sends
  <2>3. codex.next + 1 \in Turn /\ codex.next \in Nat
    BY <2>1, WatchdogAssumption DEF StartsTurn, CodexType, TurnOrNone, Turn
  <2>4. m \in MessageType /\ m.turn = codex.next + 1
    <3>1. {} \in SUBSET Jobs
      OBVIOUS
    <3> QED BY <2>3, <3>1, Zenon DEF Message, MessageType
  <2> HIDE DEF m
  <2>5. \A i \in 1 .. Len(messages') : messages'[i].turn <= codex'.next
    BY <2>2, <2>3, <2>4, SentHeard
  <2>6. \A t \in Turn : t <= codex.next => t <= codex'.next
    BY <2>2, <2>3 DEF Turn
  <2>7. codex'.turn <= codex'.next
    BY <2>2, <2>3
  <2> QED BY <1>1, <1>3, <2>5, <2>6, <2>7, Zenon DEF HeardAfterStart, HeardRunning
<1>5. CASE ~(StallResumes /\ codex'.next # codex.next)
  <2>1. messages' = messages /\ codex'.next = codex.next
        /\ codex'.turn = codex.turn
    <3>1. ASSUME StartsTurn PROVE codex'.next # codex.next
      <4>1. codex'.next = codex.next + 1
        BY <3>1, Zenon DEF StartsTurn
      <4> QED BY <4>1 DEF CodexType, TurnOrNone
    <3>2. ASSUME StallResumes, ~StartsTurn
          PROVE  messages' = messages /\ codex' = codex
      BY <3>2 DEF StallResumes
    <3>3. CASE StallResumes
      BY <1>5, <3>1, <3>2, <3>3
    <3>4. CASE ~StallResumes
      BY <3>4 DEF HandleClientInterrupt, Tick, Elapse, Recovery, StallFails, StallLimited,
           StallOutdated, WaitExpires, GivesUp, StallCancelled, StallIdle,
           StallWaiting, StallInterrupt, StallInterrupted, WaitExtended,
           RecordStartedTurn, stallUnchanged, CodexType
    <3> QED BY <3>3, <3>4
  <2> QED BY <1>1, <1>3, <2>1, Zenon DEF HeardAfterStart, HeardRunning
<1> QED BY <1>4, <1>5

\* What the watchdog knows stays true when neither it nor what the event loop
\* has heard changes, or it knows of no turn.
LEMMA KnowsKept ==
    ASSUME Hears, Knows, now' \in Nat, now' >= now,
           hist'.running = hist.running, hist'.heardAt = hist.heardAt,
           \/ active'.turn = None
           \/ /\ active'.turn = active.turn /\ active'.blocking = active.blocking
              /\ active'.lastActivityAt \in {active.lastActivityAt, now},
           answer' = None \/ HeardRunning(answer') = {}
    PROVE  Knows'
<1> USE DEF Hears, TypeOK
<1>1. \A t : HeardRunning(t)' = HeardRunning(t)
  BY Zenon DEF HeardRunning
<1>2. answer' # None => HeardRunning(answer)' = {}
  BY Zenon DEF HeardRunning
<1>3. ASSUME active'.turn # None
      PROVE  /\ active'.blocking = HeardRunning(active.turn)' \cap Blocking
             /\ active'.lastActivityAt >= hist'.heardAt[active'.turn]
  <2>1. active'.turn = active.turn /\ active.turn \in Turn
    BY <1>3 DEF ActiveType, TurnOrNone, Turn, None
  <2>2. HeardRunning(active.turn)' = HeardRunning(active.turn)
    BY <2>1, Zenon DEF HeardRunning
  <2>3. now >= hist.heardAt[active.turn]
        /\ active.lastActivityAt >= hist.heardAt[active.turn]
    BY <1>3, <2>1 DEF HeardAfterStart, HistoryType, Knows
  <2> QED BY <1>3, <2>1, <2>2, <2>3 DEF Knows
<1> QED BY <1>2, <1>3, Zenon DEF Knows

\* The event loop tells the watchdog all it hears, in the order in which the
\* answers to its own requests and the messages come.
LEMMA HandleKnows ==
    ASSUME Inv, Hears, Knows, Handle, "lateAnswer" \notin Inputs
    PROVE  Knows'
<1> USE DEF Hears, TypeOK
<1> DEFINE m == Head(messages)
<1>1. /\ m \in MessageType /\ answer' = answer /\ now' = now
      /\ InOrder(m) \/ m.kind = "turn/started"
  BY DEF Handle
<1>2. m.kind # "status" => m.turn \in Turn
  BY <1>1 DEF MessageType
<1>3. ASSUME answer # None PROVE HeardRunning(answer)' = {}
  <2>1. answer \in Turn
    BY <1>3 DEF TurnOrNone, Turn, None
  <2>2. m.turn # answer \/ m.kind = "turn/started"
    BY <1>1, <1>3 DEF InOrder
  <2>3. HeardRunning(answer) = {}
    BY <1>3 DEF Knows
  <2>4. ASSUME NEW t \in Turn, t = answer PROVE HeardRunning(t)' = {}
    BY <2>2, <2>3, <2>4, HeardNext
  <2>5. \A t \in Turn : t = answer => HeardRunning(t)' = {}
    BY <2>4
  <2> QED BY <1>1, <2>1, <2>5, Zenon DEF HeardRunning
<1>4. ASSUME active'.turn # None
      PROVE  /\ active'.blocking = HeardRunning(active.turn)' \cap Blocking
             /\ active'.lastActivityAt >= hist'.heardAt[active'.turn]
  <2>1. ASSUME NEW t \in Turn, t = active'.turn
        PROVE  /\ active'.blocking = HeardRunning(t)' \cap Blocking
               /\ active'.lastActivityAt >= hist'.heardAt[t]
    <3>1. CASE m.kind = "turn/started"
      <4>1. active' = StartTurn(m.turn) /\ t = m.turn
        BY <1>2, <2>1, <3>1, StartedFields DEF Handle
      <4>2. HeardRunning(t)' = {} /\ hist'.heardAt[t] = now
        BY <3>1, <4>1, HeardNext
      <4> QED BY <1>2, <3>1, <4>1, <4>2, StartedFields
    <3>2. CASE m.kind # "turn/started" /\ active' = active
               /\ ~matchesActiveTurn(active, m)
      <4>1. m.turn # t /\ ~(m.turn = None /\ t = active.turn)
        BY <2>1, <3>2 DEF matchesActiveTurn, Turn, None
      <4>2. HeardRunning(t)' = HeardRunning(t)
            /\ hist'.heardAt[t] = hist.heardAt[t]
        BY <4>1, HeardNext
      <4> QED BY <2>1, <3>2, <4>2 DEF Knows, Turn, None
    <3>3. CASE m.kind \notin {"turn/started", "turn/completed"}
               /\ matchesActiveTurn(active, m)
      <4>1. active' = Observe(active, m)
        BY <3>3 DEF Handle
      <4>2. /\ active.turn = t /\ active'.lastActivityAt = now
            /\ active'.blocking =
                 IF m.kind = "started"
                 THEN active.blocking \cup (m.job \cap Blocking)
                 ELSE IF m.kind = "completed" THEN active.blocking \ m.job
                 ELSE active.blocking
        BY <1>1, <2>1, <3>3, <4>1, ObservedFields
      <4>3. m.turn \in {t, None} /\ (m.turn = None => m.kind = "status")
        BY <1>2, <3>3, <4>2 DEF matchesActiveTurn, Turn, None
      <4>4. active.blocking = HeardRunning(t) \cap Blocking
        BY <4>2 DEF Knows, Turn, None
      <4>5. active'.blocking = HeardRunning(t)' \cap Blocking
        <5>1. CASE m.turn = None
          <6>1. HeardRunning(t)' = HeardRunning(t)
            BY <5>1, HeardNext DEF Turn, None
          <6> QED BY <4>2, <4>3, <4>4, <5>1, <6>1
        <5>2. CASE m.turn = t
          <6>1. HeardRunning(t)' =
                  IF m.kind = "started" THEN HeardRunning(t) \cup m.job
                  ELSE IF m.kind = "completed" THEN HeardRunning(t) \ m.job
                  ELSE HeardRunning(t)
            BY <3>3, <5>2, HeardNext
          <6> DEFINE H == HeardRunning(t)
                     H1 == HeardRunning(t)'
          <6>2. H1 = IF m.kind = "started" THEN H \cup m.job
                     ELSE IF m.kind = "completed" THEN H \ m.job ELSE H
            BY <6>1
          <6>3. active.blocking = H \cap Blocking
            BY <4>4
          <6> HIDE DEF H, H1
          <6>4. active'.blocking = H1 \cap Blocking
            <7>1. CASE m.kind = "started"
              <8>1. active'.blocking =
                      active.blocking \cup (m.job \cap Blocking)
                BY <4>2, <7>1
              <8>2. H1 = H \cup m.job
                BY <6>2, <7>1
              <8> QED BY <6>3, <8>1, <8>2
            <7>2. CASE m.kind = "completed"
              <8>1. active'.blocking = active.blocking \ m.job
                BY <4>2, <7>2
              <8>2. H1 = H \ m.job
                BY <6>2, <7>2
              <8> QED BY <6>3, <8>1, <8>2
            <7>3. CASE m.kind \notin {"started", "completed"}
              BY <4>2, <6>2, <6>3, <7>3
            <7> QED BY <7>1, <7>2, <7>3
          <6> QED BY <6>4 DEF H1
        <5> QED BY <4>3, <5>1, <5>2
      <4>6. hist'.heardAt[t] = now
        <5>1. m.turn = t \/ (m.turn = None /\ t = active.turn)
          BY <4>2, <4>3
        <5> QED BY <5>1, HeardNext
      <4> QED BY <4>2, <4>5, <4>6
    <3>4. \/ active' = active /\ ~matchesActiveTurn(active, m)
          \/ m.kind = "turn/started"
          \/ /\ m.kind \notin {"turn/started", "turn/completed"}
             /\ matchesActiveTurn(active, m)
      <4>1. CASE m.kind = "turn/completed"
        <5>1. active' = CompleteTurn(Observe(active, m), m.turn)
          BY <4>1 DEF Handle
        <5>2. matchesActiveTurn(active, m) <=> active.turn = m.turn
          BY <1>2, <4>1 DEF matchesActiveTurn, Turn, None
        <5>3. matchesActiveTurn(active, m) => active' = NoTurn
          BY <1>1, <5>1, <5>2, ObservedFields DEF CompleteTurn
        <5>4. ~matchesActiveTurn(active, m)
          BY <1>4, <5>3, StartedFields
        <5> QED BY <1>1, <5>1, <5>2, <5>4, ObservedFields DEF CompleteTurn
      <4>2. CASE m.kind # "turn/completed"
        BY <1>1, <4>2, ObservedFields DEF Handle
      <4> QED BY <4>1, <4>2
    <3> QED BY <3>1, <3>2, <3>3, <3>4
  <2>2. active'.turn \in Turn
    <3>1. active' \in ActiveType
      BY LoopTypes
    <3> QED BY <1>4, <3>1 DEF ActiveType, TurnOrNone, Turn, None
  <2>3. \A t \in Turn : t = active'.turn =>
            /\ active'.blocking = HeardRunning(t)' \cap Blocking
            /\ active'.lastActivityAt >= hist'.heardAt[t]
    BY <2>1
  <2> QED BY <2>2, <2>3, Zenon DEF HeardRunning
<1> QED BY <1>1, <1>3, <1>4, Zenon DEF Knows

\* A turn whose recovery or pause is cancelled is known as before.
LEMMA CancelKnows ==
    ASSUME Hears, Knows, now' = now,
           hist'.running = hist.running, hist'.heardAt = hist.heardAt,
           active' \in {active, CancelRecovery(active)},
           answer' = answer
    PROVE  Knows'
<1> USE DEF Hears, TypeOK
<1>1. /\ active'.turn = active.turn /\ active'.blocking = active.blocking
      /\ active'.lastActivityAt = active.lastActivityAt
  BY CancelledFields
<1>2. answer' = None \/ HeardRunning(answer') = {}
  BY Zenon DEF Knows
<1> QED BY <1>1, <1>2, KnowsKept

\* Every other step keeps what the watchdog knows.
LEMMA OthersKnow ==
    ASSUME Hears, Knows,
           Codex \/ HandleClientInterrupt \/ Tick \/ Elapse \/ Recovery
    PROVE  Knows'
<1> USE DEF Hears, TypeOK
<1>1. hist'.running = hist.running /\ hist'.heardAt = hist.heardAt
  BY DEF Codex, UserStartsTurn, JobStarts, JobCompletes, CodexWaits,
         CodexProgresses, TurnCompletes, Runs, HandleClientInterrupt, Tick,
         Elapse, Recovery, StallFails, StallLimited, StallOutdated, WaitExpires, GivesUp,
         StallCancelled, StallIdle, StallWaiting, StallInterrupt,
         StallInterrupted, WaitExtended, StallResumes, RecordStartedTurn,
         HistoryType
<1>3. answer = None \/ HeardRunning(answer) = {}
  BY Zenon DEF Knows
<1>4. CASE Codex
  <2>1. active' = active /\ answer' = answer /\ now' = now
    BY <1>4 DEF Codex, UserStartsTurn, JobStarts, JobCompletes, CodexWaits,
         CodexProgresses, TurnCompletes, Runs
  <2> QED BY <1>1, <2>1, CancelKnows
<1>5. CASE HandleClientInterrupt
  BY <1>1, <1>5, CancelKnows DEF HandleClientInterrupt
<1>6. CASE Tick
  <2>1. answer' = answer /\ now' = now
    BY <1>6 DEF Tick
  <2>2. /\ active'.turn = active.turn /\ active'.blocking = active.blocking
        /\ active'.lastActivityAt = active.lastActivityAt
    BY <1>6 DEF Tick, Awake, Suspected, Waits, Confirmed, Undecided, ActiveType
  <2> QED BY <1>1, <1>3, <2>1, <2>2, KnowsKept
<1>7. CASE Elapse
  <2>1. active' = active /\ answer' = answer /\ now' = now + 1
    BY <1>7 DEF Elapse
  <2> QED BY <1>1, <1>3, <2>1, KnowsKept
<1>8. CASE Recovery
  <2>1. now' = now
    BY <1>8 DEF Recovery, StallFails, StallLimited, StallOutdated, WaitExpires, GivesUp,
         StallCancelled, StallIdle, StallWaiting, StallInterrupt,
         StallInterrupted, WaitExtended, StallResumes, RecordStartedTurn,
         stallUnchanged
  <2>2. CASE StallIdle
    <3>1. active'.turn = None /\ answer' = answer
      BY <2>2, StartedFields DEF StallIdle, IsCurrent, CompleteTurn
    <3> QED BY <1>1, <1>3, <2>1, <3>1, KnowsKept
  <2>3. CASE StallWaiting
    <3>1. active' = SetWaitingFlags(active) /\ answer' = answer
      BY <2>3 DEF StallWaiting
    <3>2. CASE active.turn = None
      BY <1>1, <2>1, <3>1, <3>2, CancelKnows DEF SetWaitingFlags
    <3>3. CASE active.turn # None
      <4>1. /\ active'.turn = active.turn
            /\ active'.blocking = active.blocking
            /\ active'.lastActivityAt = now
        BY <3>1, <3>3, WaitingFields
      <4> QED BY <1>1, <1>3, <2>1, <3>1, <4>1, KnowsKept
    <3> QED BY <3>2, <3>3
  <2>4. CASE StallResumes /\ answer' # answer
    <3>1. active' = active /\ StartsTurn /\ answer' = codex.next + 1
      BY <2>4 DEF StallResumes
    <3>2. codex.next + 1 \in Turn /\ ~(codex.next + 1 <= codex.next)
      BY <3>1, WatchdogAssumption DEF StartsTurn, CodexType, TurnOrNone, Turn
    <3>3. HeardRunning(codex.next + 1) = {}
      BY <3>2 DEF HeardAfterStart
    <3> QED BY <1>1, <2>1, <3>1, <3>3, KnowsKept
  <2>5. CASE RecordStartedTurn
    <3>1. answer \in Turn /\ active' = StartTurn(answer) /\ answer' = None
      BY <2>5 DEF RecordStartedTurn, TurnOrNone, Turn, None
    <3>2. HeardRunning(answer) = {} /\ hist.heardAt[answer] <= now
      BY <1>3, <3>1 DEF HeardAfterStart, Turn, None
    <3>3. \A t : HeardRunning(t)' = HeardRunning(t)
      BY <1>1, Zenon DEF HeardRunning
    <3>4. /\ active'.turn = answer /\ active'.blocking = {}
          /\ active'.lastActivityAt = now
      BY <3>1, StartedFields
    <3>5. HeardRunning(active.turn)' = HeardRunning(answer)
      BY <1>1, <3>4, Zenon DEF HeardRunning
    <3>6. /\ active'.blocking = HeardRunning(active.turn)' \cap Blocking
          /\ active'.lastActivityAt >= hist'.heardAt[active'.turn]
      BY <1>1, <3>2, <3>4, <3>5 DEF HistoryType
    <3> QED BY <3>1, <3>6, Zenon DEF Knows
  <2>6. CASE /\ ~StallIdle /\ ~StallWaiting /\ ~RecordStartedTurn
             /\ answer' = answer
    <3>1. active' \in {active, CancelRecovery(active)}
      BY <1>8, <2>6 DEF Recovery, StallFails, StallLimited, StallOutdated, WaitExpires,
           GivesUp, StallCancelled, StallInterrupt, StallInterrupted,
           WaitExtended, StallResumes
    <3> QED BY <1>1, <2>1, <2>6, <3>1, CancelKnows
  <2>7. answer' = answer \/ StallResumes \/ RecordStartedTurn
    BY <1>8 DEF Recovery, StallFails, StallLimited, StallOutdated, WaitExpires, GivesUp,
         StallCancelled, StallIdle, StallWaiting, StallInterrupt,
         StallInterrupted, WaitExtended
  <2> QED BY <2>2, <2>3, <2>4, <2>5, <2>6, <2>7
<1> QED BY <1>4, <1>5, <1>6, <1>7, <1>8

\* What the event loop has heard of the turns: nothing before they start.
LEMMA HearsCorrect == Spec => []HeardAfterStart
<1>1. Init => HeardAfterStart
  <2> SUFFICES ASSUME Init PROVE HeardAfterStart
    OBVIOUS
  <2>1. codex.turn = None /\ codex.next = 0 /\ now = 0 /\ messages = <<>>
    BY Zenon DEF Init
  <2>2. hist.running = {} /\ hist.heardAt = [t \in Turn |-> 0]
    BY Zenon DEF Init
  <2>3. \A t \in Turn : HeardRunning(t) = {} /\ hist.heardAt[t] = 0
    BY <2>2 DEF HeardRunning
  <2> QED BY <2>1, <2>3 DEF HeardAfterStart, None
<1>2. TypeOK /\ HeardAfterStart /\ [Next]_vars => HeardAfterStart'
  <2> SUFFICES ASSUME Hears, [Next]_vars PROVE HeardAfterStart'
    BY DEF Hears
  <2>1. CASE Codex
    BY <2>1, CodexHeard
  <2>2. CASE Handle
    BY <2>2, HandleHeard
  <2>3. CASE HandleClientInterrupt \/ Tick \/ Recovery \/ Elapse
    BY <2>3, OthersHeard
  <2>4. CASE Over \/ UNCHANGED vars
    BY <2>4, Zenon DEF Over, vars, Hears, HeardAfterStart, HeardRunning
  <2> QED BY <2>1, <2>2, <2>3, <2>4, Zenon DEF Next
<1> QED BY <1>1, <1>2, TypeCorrect, PTL DEF Spec

\* When the answer to a request comes before the messages of the turn that it
\* started, the watchdog knows of its turn what the event loop has heard.
LEMMA KnowsCorrect ==
    ASSUME "lateAnswer" \notin Inputs PROVE Spec => []Knows
<1>1. Init => Knows
  BY StartedFields DEF Init, Knows
<1>2. Inv /\ HeardAfterStart /\ Knows /\ [Next]_vars => Knows'
  <2> SUFFICES ASSUME Inv, Hears, Knows, [Next]_vars PROVE Knows'
    BY DEF Inv, Hears
  <2>1. CASE Handle
    BY <2>1, HandleKnows
  <2>2. CASE Codex \/ HandleClientInterrupt \/ Tick \/ Elapse \/ Recovery
    BY <2>2, OthersKnow
  <2>3. CASE Over \/ UNCHANGED vars
    BY <2>3, Zenon DEF Over, vars, Knows, HeardRunning
  <2> QED BY <2>1, <2>2, <2>3, Zenon DEF Next
<1> QED BY <1>1, <1>2, InvCorrect, HearsCorrect, PTL DEF Spec

\* When the answer to a request comes before the messages of the turn that it
\* started, a stall is confirmed only after the turn was silent for as long as
\* the options say, and never while a tool is heard to run that may run as
\* long as it likes.
THEOREM SilenceRespected ==
    ASSUME "lateAnswer" \notin Inputs PROVE Spec => SilentLongEnough
<1>1. Inv /\ Knows /\ [Next]_vars =>
        (Confirmed =>
            LET t == active.turn
            IN IF HeardRunning(t) \cap Blocking = {}
               THEN now >= hist.heardAt[t] + StallTimeout + ConfirmTimeout
               ELSE /\ ToolStallTimeout # 0
                    /\ now >= hist.heardAt[t] + ToolStallTimeout
                                  + ConfirmTimeout)
  <2> SUFFICES ASSUME Inv, Knows, Confirmed
               PROVE  IF HeardRunning(active.turn) \cap Blocking = {}
                      THEN now >= hist.heardAt[active.turn]
                                    + StallTimeout + ConfirmTimeout
                      ELSE /\ ToolStallTimeout # 0
                           /\ now >= hist.heardAt[active.turn]
                                       + ToolStallTimeout + ConfirmTimeout
    OBVIOUS
  <2>1. active.turn # None /\ active.suspectedAt # Never /\ Elapsed
        /\ ~Paused(active)
    BY DEF Confirmed, MayDecide
  <2>2. /\ active.blocking = HeardRunning(active.turn) \cap Blocking
        /\ active.lastActivityAt >= hist.heardAt[active.turn]
    BY <2>1 DEF Knows
  <2>3. /\ active.lastActivityAt \in Nat /\ active.suspectedAt \in Int
        /\ hist.heardAt[active.turn] \in Nat /\ now \in Nat
        /\ ToolStallTimeout \in Nat /\ StallTimeout \in Nat
        /\ ConfirmTimeout \in Nat
    BY <2>1, WatchdogAssumption
       DEF Inv, TypeOK, ActiveType, HistoryType, TurnOrNone, Turn, None, Never
  <2>4. active.suspectedAt >= active.lastActivityAt + Timeout(active)
    BY <2>1 DEF Inv, SuspectedInTime
  <2>5. CASE active.blocking = {}
    BY <2>1, <2>2, <2>3, <2>4, <2>5 DEF Timeout, Elapsed
  <2>6. CASE active.blocking # {}
    <3>1. ToolStallTimeout # 0
      BY <2>1, <2>6 DEF Paused
    <3> QED BY <2>1, <2>2, <2>3, <2>4, <2>6, <3>1 DEF Timeout, Elapsed
  <2> QED BY <2>5, <2>6
<1>2. Spec => []Knows
  BY KnowsCorrect
<1> QED BY <1>1, <1>2, InvCorrect, PTL DEF SilentLongEnough, Spec

-----------------------------------------------------------------------------
(* The wait for an interrupted turn lasts while its interrupt hook runs.   *)

\* Message m starts job j of turn t, or ends it, alone or with its turn.
Starts(m, t, j) == m.kind = "started" /\ m.turn = t /\ j \in m.job

Stops(m, t, j) ==
    /\ m.turn = t
    /\ \/ m.kind = "completed" /\ j \in m.job
       \/ m.kind \in {"turn/started", "turn/completed"}

\* Job j of turn t runs for one who heard `heard` and then n messages of q.
RunsAfter(q, heard, n, t, j) ==
    \/ <<t, j>> \in heard /\ \A i \in 1 .. n : ~Stops(q[i], t, j)
    \/ \E k \in 1 .. n :
        Starts(q[k], t, j) /\ \A i \in k + 1 .. n : ~Stops(q[i], t, j)

\* Messages start and complete one job each, and complete only what runs.
Completes(q, heard, n, m) ==
    /\ m.kind \in {"started", "completed"} => \E j \in Jobs : m.job = {j}
    /\ m.kind = "completed" => \A j \in m.job : RunsAfter(q, heard, n, m.turn, j)

InTurns(q, heard) == \A i \in 1 .. Len(q) : Completes(q, heard, i - 1, q[i])

\* So it is in the channel, and what Codex runs was started there or before.
Announced ==
    /\ InTurns(messages, hist.running)
    /\ codex.turn # None =>
        \A j \in codex.running :
            RunsAfter(messages, hist.running, Len(messages), codex.turn, j)

\* The watchdog's counter is no less than the interrupt hooks that were heard
\* to run.
HooksKnown ==
    active.turn # None =>
        Cardinality(HeardRunning(active.turn) \cap InterruptHooks)
            <= active.interruptHooks

\* A message at the end of the channel changes nothing for those before it.
LEMMA AppendedRuns ==
    ASSUME NEW q \in Seq(MessageType), NEW m \in MessageType, NEW heard,
           NEW n \in 0 .. Len(q), NEW t, NEW j
    PROVE  RunsAfter(Append(q, m), heard, n, t, j) <=> RunsAfter(q, heard, n, t, j)
<1>1. \A i \in 1 .. n : Append(q, m)[i] = q[i]
  OBVIOUS
<1> QED BY <1>1 DEF RunsAfter

\* A job runs on after a message that does not stop it, and after its start.
LEMMA RunsOn ==
    ASSUME NEW q \in Seq(MessageType), NEW m \in MessageType, NEW heard,
           NEW t, NEW j,
           \/ RunsAfter(q, heard, Len(q), t, j) /\ ~Stops(m, t, j)
           \/ Starts(m, t, j)
    PROVE  RunsAfter(Append(q, m), heard, Len(q) + 1, t, j)
<1> DEFINE n == Len(q) + 1
           p == Append(q, m)
<1>1. n \in Nat /\ n \in 1 .. n /\ p[n] = m /\ Len(q) \in Nat
      /\ \A i \in 1 .. Len(q) : p[i] = q[i]
  OBVIOUS
<1>2. \A i \in 1 .. n : i = n \/ i \in 1 .. Len(q)
  BY <1>1
<1> HIDE DEF p
<1>3. CASE Starts(m, t, j)
  <2>1. \A i \in n + 1 .. n : ~Stops(p[i], t, j)
    BY <1>1
  <2>2. Starts(p[n], t, j)
    BY <1>1, <1>3
  <2>3. RunsAfter(p, heard, n, t, j)
    BY <1>1, <2>1, <2>2, Zenon DEF RunsAfter
  <2> QED BY <2>3 DEF p
<1>4. CASE RunsAfter(q, heard, Len(q), t, j) /\ ~Stops(m, t, j)
  <2>1. CASE <<t, j>> \in heard /\ \A i \in 1 .. Len(q) : ~Stops(q[i], t, j)
    <3>1. \A i \in 1 .. n : ~Stops(p[i], t, j)
      BY <1>1, <1>2, <1>4, <2>1
    <3>2. RunsAfter(p, heard, n, t, j)
      BY <2>1, <3>1 DEF RunsAfter
    <3> QED BY <3>2 DEF p
  <2>2. ASSUME NEW k \in 1 .. Len(q), Starts(q[k], t, j),
               \A i \in k + 1 .. Len(q) : ~Stops(q[i], t, j)
        PROVE  RunsAfter(p, heard, n, t, j)
    <3>1. k \in 1 .. n /\ Starts(p[k], t, j)
      BY <1>1, <2>2
    <3>2. \A i \in k + 1 .. n : ~Stops(p[i], t, j)
      <4> TAKE i \in k + 1 .. n
      <4>1. CASE i = n
        BY <1>1, <1>4, <4>1
      <4>2. CASE i # n
        <5>1. i \in k + 1 .. Len(q) /\ i \in 1 .. Len(q)
          BY <1>1, <4>2
        <5> QED BY <1>1, <2>2, <5>1
      <4> QED BY <4>1, <4>2
    <3> QED BY <3>1, <3>2 DEF RunsAfter
  <2> QED BY <1>4, <2>1, <2>2 DEF RunsAfter, p
<1> QED BY <1>3, <1>4

\* A message that completes only what runs may join the channel.
LEMMA AppendedInTurns ==
    ASSUME NEW q \in Seq(MessageType), NEW m \in MessageType, NEW heard,
           InTurns(q, heard), Completes(q, heard, Len(q), m)
    PROVE  InTurns(Append(q, m), heard)
<1> DEFINE p == Append(q, m)
<1>1. Len(p) = Len(q) + 1 /\ Len(q) \in Nat /\ p[Len(q) + 1] = m
      /\ \A i \in 1 .. Len(q) : p[i] = q[i]
  OBVIOUS
<1>2. \A n \in 0 .. Len(q) : \A t, j :
        RunsAfter(p, heard, n, t, j) <=> RunsAfter(q, heard, n, t, j)
  BY AppendedRuns
<1> HIDE DEF p
<1>3. ASSUME NEW i \in 1 .. Len(p) PROVE Completes(p, heard, i - 1, p[i])
  <2>1. i - 1 \in 0 .. Len(q)
    BY <1>1
  <2>2. Completes(q, heard, i - 1, p[i])
    <3>1. CASE i = Len(q) + 1
      <4>1. i - 1 = Len(q) /\ p[i] = m
        BY <1>1, <3>1
      <4> QED BY <4>1
    <3>2. CASE i # Len(q) + 1
      <4>1. i \in 1 .. Len(q)
        BY <1>1, <3>2
      <4> QED BY <1>1, <4>1 DEF InTurns
    <3> QED BY <3>1, <3>2
  <2> QED BY <1>2, <2>1, <2>2, Zenon DEF Completes
<1> QED BY <1>3 DEF InTurns, p

\* What runs after n messages runs after the same messages for one who has
\* heard the first of them already.
LEMMA HeardRuns ==
    ASSUME NEW q \in Seq(MessageType), q # <<>>, NEW heard, NEW after,
           NEW n \in 1 .. Len(q), NEW t, NEW j,
           RunsAfter(q, heard, n, t, j),
           <<t, j>> \in heard /\ ~Stops(Head(q), t, j) => <<t, j>> \in after,
           Starts(Head(q), t, j) => <<t, j>> \in after
    PROVE  RunsAfter(Tail(q), after, n - 1, t, j)
<1> DEFINE p == Tail(q)
<1>1. \A i \in 1 .. n - 1 : p[i] = q[i + 1]
  OBVIOUS
<1>2. Head(q) = q[1] /\ n \in Nat /\ 1 \in 1 .. n
  OBVIOUS
<1> HIDE DEF p
<1>3. CASE <<t, j>> \in heard /\ \A i \in 1 .. n : ~Stops(q[i], t, j)
  <2>1. <<t, j>> \in after
    BY <1>2, <1>3
  <2>2. \A i \in 1 .. n - 1 : ~Stops(p[i], t, j)
    <3> TAKE i \in 1 .. n - 1
    <3>1. i + 1 \in 1 .. n
      BY <1>2
    <3> QED BY <1>1, <1>3, <3>1
  <2> QED BY <2>1, <2>2 DEF RunsAfter, p
<1>4. ASSUME NEW k \in 1 .. n, Starts(q[k], t, j),
             \A i \in k + 1 .. n : ~Stops(q[i], t, j)
      PROVE  RunsAfter(p, after, n - 1, t, j)
  <2>1. CASE k = 1
    <3>1. <<t, j>> \in after
      BY <1>2, <1>4, <2>1
    <3>2. \A i \in 1 .. n - 1 : ~Stops(p[i], t, j)
      <4> TAKE i \in 1 .. n - 1
      <4>1. i + 1 \in k + 1 .. n
        BY <1>2, <2>1
      <4> QED BY <1>1, <1>4, <4>1
    <3> QED BY <3>1, <3>2 DEF RunsAfter
  <2>2. CASE k # 1
    <3>1. k - 1 \in 1 .. n - 1 /\ k - 1 + 1 = k
      BY <1>2, <2>2
    <3>2. Starts(p[k - 1], t, j)
      BY <1>1, <1>4, <3>1
    <3>3. \A i \in k - 1 + 1 .. n - 1 : ~Stops(p[i], t, j)
      <4> TAKE i \in k - 1 + 1 .. n - 1
      <4>1. i + 1 \in k + 1 .. n /\ i \in 1 .. n - 1
        BY <1>2, <2>2
      <4> QED BY <1>1, <1>4, <4>1
    <3> QED BY <3>1, <3>2, <3>3 DEF RunsAfter
  <2> QED BY <2>1, <2>2
<1> QED BY <1>3, <1>4 DEF RunsAfter, p

\* The event loop hears what it handles.
LEMMA HandledRuns ==
    ASSUME TypeOK, Handle, NEW n \in 1 .. Len(messages), NEW t, NEW j,
           RunsAfter(messages, hist.running, n, t, j)
    PROVE  RunsAfter(Tail(messages), hist'.running, n - 1, t, j)
<1> DEFINE m == Head(messages)
<1>1. messages \in Seq(MessageType) /\ messages # <<>>
  BY DEF Handle, TypeOK
<1>2. hist' = HeardAfter(m)
  BY Zenon DEF Handle
<1>3. hist'.running =
        IF m.kind = "started" THEN hist.running \cup ({m.turn} \X m.job)
        ELSE IF m.kind = "completed" THEN hist.running \ ({m.turn} \X m.job)
        ELSE IF m.kind \in {"turn/started", "turn/completed"}
        THEN {r \in hist.running : r[1] # m.turn}
        ELSE hist.running
  BY <1>2, Zenon DEF HeardAfter
<1> HIDE DEF m
<1>4. Starts(m, t, j) => <<t, j>> \in hist'.running
  BY <1>3 DEF Starts
<1>5. <<t, j>> \in hist.running /\ ~Stops(m, t, j) => <<t, j>> \in hist'.running
  BY <1>3 DEF Stops
<1> QED BY <1>1, <1>4, <1>5, HeardRuns, Zenon DEF m

\* Codex completes only what it started: a message it appends.
LEMMA SentAnnounced ==
    ASSUME TypeOK, Announced, NEW m \in MessageType, Sends(m),
           hist'.running = hist.running,
           Completes(messages, hist.running, Len(messages), m),
           codex'.turn # None =>
               \A j \in codex'.running :
                   \/ Starts(m, codex'.turn, j)
                   \/ /\ j \in codex.running /\ codex'.turn = codex.turn
                      /\ ~Stops(m, codex'.turn, j)
    PROVE  Announced'
<1>1. messages \in Seq(MessageType) /\ messages' = Append(messages, m)
  BY Zenon DEF TypeOK, Sends
<1>2. InTurns(messages', hist'.running)
  BY <1>1, AppendedInTurns DEF Announced
<1>3. ASSUME codex'.turn # None, NEW j \in codex'.running
      PROVE  RunsAfter(messages', hist'.running, Len(messages'), codex'.turn, j)
  <2>1. Len(messages') = Len(messages) + 1
    BY <1>1
  <2>2. \/ Starts(m, codex'.turn, j)
        \/ /\ RunsAfter(messages, hist.running, Len(messages), codex'.turn, j)
           /\ ~Stops(m, codex'.turn, j)
    BY <1>3, Zenon DEF Announced
  <2>3. RunsAfter(Append(messages, m), hist.running, Len(messages) + 1,
                  codex'.turn, j)
    BY <1>1, <2>2, RunsOn, Zenon
  <2> QED BY <1>1, <2>1, <2>3
<1> QED BY <1>2, <1>3, Zenon DEF Announced

\* A turn that starts has no jobs yet.
LEMMA StartAnnounced ==
    ASSUME TypeOK, Announced, StartsTurn, hist'.running = hist.running
    PROVE  Announced'
<1> DEFINE m == Message("turn/started", codex.next + 1, {}, FALSE)
<1>1. Sends(m) /\ codex'.running = {} /\ m.kind = "turn/started"
  BY Zenon DEF StartsTurn, Message
<1>2. m \in MessageType
  <2>1. codex.next + 1 \in Turn /\ {} \in SUBSET Jobs
    BY WatchdogAssumption DEF StartsTurn, TypeOK, CodexType, TurnOrNone, Turn
  <2> QED BY <2>1, Zenon DEF Message, MessageType
<1> HIDE DEF m
<1>3. Completes(messages, hist.running, Len(messages), m)
  BY <1>1 DEF Completes
<1> QED BY <1>1, <1>2, <1>3, SentAnnounced

\* Codex completes only what it started: every step of Codex.
LEMMA CodexAnnounced ==
    ASSUME TypeOK, Announced, Codex PROVE Announced'
<1> USE DEF TypeOK
<1>1. hist'.running = hist.running
  BY DEF Codex, UserStartsTurn, JobStarts, JobCompletes, CodexWaits,
         CodexProgresses, TurnCompletes, Runs
<1>2. codex.turn # None => codex.turn \in Turn
  BY DEF CodexType, TurnOrNone, Turn, None
<1>3. ASSUME NEW kind \in {"turn/completed", "activity", "verification",
                           "buffering", "started", "completed"},
             NEW job \in SUBSET Jobs, NEW on \in BOOLEAN, codex.turn # None
      PROVE  /\ Message(kind, codex.turn, job, on) \in MessageType
             /\ Message(kind, codex.turn, job, on).kind = kind
             /\ Message(kind, codex.turn, job, on).turn = codex.turn
             /\ Message(kind, codex.turn, job, on).job = job
  BY <1>2, <1>3, Zenon DEF Message, MessageType
<1>4. CASE UserStartsTurn
  BY <1>1, <1>4, StartAnnounced DEF UserStartsTurn
<1>5. CASE JobStarts
  <2>1. PICK j \in Jobs :
          /\ Sends(Message("started", codex.turn, {j}, FALSE))
          /\ codex' = [codex EXCEPT !.running = @ \cup {j}, !.sent = @ + 1]
    BY <1>5, Zenon DEF JobStarts
  <2> DEFINE m == Message("started", codex.turn, {j}, FALSE)
  <2>2. codex'.running = codex.running \cup {j} /\ codex'.turn = codex.turn
        /\ codex.turn # None /\ {j} \in SUBSET Jobs
    BY <1>5, <2>1 DEF JobStarts, Runs, CodexType
  <2>3. m \in MessageType /\ m.kind = "started" /\ m.turn = codex.turn
        /\ m.job = {j} /\ Sends(m)
    BY <1>3, <2>1, <2>2
  <2> HIDE DEF m
  <2>4. Completes(messages, hist.running, Len(messages), m)
    BY <2>3 DEF Completes
  <2>5. \A i \in codex'.running :
            \/ Starts(m, codex'.turn, i)
            \/ i \in codex.running /\ ~Stops(m, codex'.turn, i)
    BY <2>2, <2>3 DEF Starts, Stops
  <2> QED BY <1>1, <2>2, <2>3, <2>4, <2>5, SentAnnounced
<1>6. CASE JobCompletes
  <2>1. PICK j \in codex.running :
          /\ Sends(Message("completed", codex.turn, {j}, FALSE))
          /\ codex' = [codex EXCEPT !.running = @ \ {j}]
    BY <1>6, Zenon DEF JobCompletes
  <2> DEFINE m == Message("completed", codex.turn, {j}, FALSE)
  <2>2. codex'.running = codex.running \ {j} /\ codex'.turn = codex.turn
        /\ codex.turn # None /\ {j} \in SUBSET Jobs /\ j \in Jobs
    BY <1>6, <2>1 DEF JobCompletes, CodexType
  <2>3. m \in MessageType /\ m.kind = "completed" /\ m.turn = codex.turn
        /\ m.job = {j} /\ Sends(m)
    BY <1>3, <2>1, <2>2
  <2> HIDE DEF m
  <2>4. Completes(messages, hist.running, Len(messages), m)
    BY <2>2, <2>3 DEF Completes, Announced
  <2>5. \A i \in codex'.running :
            i \in codex.running /\ ~Stops(m, codex'.turn, i)
    BY <2>2, <2>3 DEF Stops
  <2> QED BY <1>1, <2>2, <2>3, <2>4, <2>5, SentAnnounced
<1>7. CASE CodexWaits
  <2> DEFINE m == Message("status", None, {}, ~codex.waiting)
  <2>1. m \in MessageType /\ m.kind = "status"
    <3>1. (~codex.waiting) \in BOOLEAN
      OBVIOUS
    <3> QED BY <3>1, Zenon DEF Message, MessageType
  <2>2. codex'.running = codex.running /\ codex'.turn = codex.turn
    BY <1>7, Zenon DEF CodexWaits, CodexType
  <2>3. Sends(m)
    BY <1>7, Zenon DEF CodexWaits
  <2> HIDE DEF m
  <2>4. Completes(messages, hist.running, Len(messages), m)
        /\ \A t, j : ~Stops(m, t, j)
    BY <2>1 DEF Completes, Stops
  <2> QED BY <1>1, <2>1, <2>2, <2>3, <2>4, SentAnnounced
<1>8. CASE CodexProgresses
  <2>1. PICK kind \in {"activity", "verification", "buffering"}, on \in BOOLEAN :
          Sends(Message(kind, codex.turn, {}, on))
    BY <1>8, Zenon DEF CodexProgresses, About
  <2> DEFINE m == Message(kind, codex.turn, {}, on)
  <2>2. codex'.running = codex.running /\ codex'.turn = codex.turn
        /\ codex.turn # None /\ {} \in SUBSET Jobs
    BY <1>8 DEF CodexProgresses, Runs, CodexType
  <2>3. m \in MessageType /\ m.kind = kind /\ Sends(m)
    BY <1>3, <2>1, <2>2
  <2> HIDE DEF m
  <2>4. Completes(messages, hist.running, Len(messages), m)
        /\ \A t, j : ~Stops(m, t, j)
    BY <2>3 DEF Completes, Stops
  <2> QED BY <1>1, <2>2, <2>3, <2>4, SentAnnounced
<1>9. CASE TurnCompletes
  <2> DEFINE m == Message("turn/completed", codex.turn, {}, codex.interrupted)
  <2>1. Sends(m) /\ codex.interrupted \in BOOLEAN
    BY <1>9, Zenon DEF TurnCompletes, About, CodexType
  <2>2. codex'.turn = None /\ codex.turn # None /\ {} \in SUBSET Jobs
    BY <1>9 DEF TurnCompletes, CodexType
  <2>3. m \in MessageType /\ m.kind = "turn/completed"
    BY <1>3, <2>1, <2>2
  <2> HIDE DEF m
  <2>4. Completes(messages, hist.running, Len(messages), m)
    BY <2>3 DEF Completes
  <2> QED BY <1>1, <2>1, <2>2, <2>3, <2>4, SentAnnounced
<1> QED BY <1>4, <1>5, <1>6, <1>7, <1>8, <1>9 DEF Codex

\* Codex completes only what it started: what the event loop leaves.
LEMMA HandleAnnounced ==
    ASSUME TypeOK, Announced, Handle PROVE Announced'
<1>1. /\ messages \in Seq(MessageType) /\ messages # <<>>
      /\ messages' = Tail(messages) /\ codex' = codex
  BY DEF TypeOK, Handle
<1>2. Len(messages') = Len(messages) - 1 /\ Len(messages) \in 1 .. Len(messages)
  BY <1>1
<1>3. ASSUME NEW i \in 1 .. Len(messages')
      PROVE  Completes(messages', hist'.running, i - 1, messages'[i])
  <2>1. messages'[i] = messages[i + 1] /\ i + 1 \in 1 .. Len(messages)
        /\ i \in 1 .. Len(messages) /\ i + 1 - 1 = i
    BY <1>1
  <2>2. Completes(messages, hist.running, i, messages[i + 1])
    BY <2>1 DEF Announced, InTurns
  <2>3. \A t, j : RunsAfter(messages, hist.running, i, t, j) =>
                    RunsAfter(messages', hist'.running, i - 1, t, j)
    BY <1>1, <2>1, HandledRuns
  <2> QED BY <2>1, <2>2, <2>3, Zenon DEF Completes
<1>4. ASSUME codex'.turn # None, NEW j \in codex'.running
      PROVE  RunsAfter(messages', hist'.running, Len(messages'), codex'.turn, j)
  <2>1. RunsAfter(messages, hist.running, Len(messages), codex.turn, j)
    BY <1>1, <1>4, Zenon DEF Announced
  <2>2. RunsAfter(Tail(messages), hist'.running, Len(messages) - 1, codex.turn, j)
    BY <1>2, <2>1, HandledRuns, Zenon
  <2> QED BY <1>1, <1>2, <2>2
<1> QED BY <1>3, <1>4, Zenon DEF Announced, InTurns

\* Codex completes only what it started: every other step.
LEMMA OthersAnnounced ==
    ASSUME TypeOK, Announced, HandleClientInterrupt \/ Tick \/ Recovery \/ Elapse
    PROVE  Announced'
<1> USE DEF TypeOK
<1>1. hist'.running = hist.running
  BY DEF HandleClientInterrupt, Tick, Elapse, Recovery, StallFails, StallLimited,
         StallOutdated, WaitExpires, GivesUp, StallCancelled, StallIdle,
         StallWaiting, StallInterrupt, StallInterrupted, WaitExtended,
         StallResumes, RecordStartedTurn, HistoryType
<1>2. CASE StallResumes /\ StartsTurn
  BY <1>1, <1>2, StartAnnounced
<1>3. CASE ~(StallResumes /\ StartsTurn)
  <2>1. messages' = messages /\ codex'.turn = codex.turn
        /\ codex'.running = codex.running
    <3>1. CASE StallResumes
      BY <1>3, <3>1 DEF StallResumes
    <3>2. CASE ~StallResumes
      BY <3>2 DEF HandleClientInterrupt, Tick, Elapse, Recovery, StallFails,
           StallLimited, StallOutdated, WaitExpires, GivesUp, StallCancelled,
           StallIdle, StallWaiting, StallInterrupt, StallInterrupted,
           WaitExtended, RecordStartedTurn, stallUnchanged, CodexType
    <3> QED BY <3>1, <3>2
  <2> QED BY <1>1, <2>1, Zenon DEF Announced
<1> QED BY <1>2, <1>3

\* Codex completes only what it started, whatever is under way to the loop.
LEMMA AnnouncedCorrect == Spec => []Announced
<1>1. Init => Announced
  <2> SUFFICES ASSUME Init PROVE Announced
    OBVIOUS
  <2>1. codex.turn = None /\ messages = <<>>
    BY Zenon DEF Init
  <2> QED BY <2>1 DEF Announced, InTurns
<1>2. TypeOK /\ Announced /\ [Next]_vars => Announced'
  <2>1. ASSUME Announced, Over \/ UNCHANGED vars PROVE Announced'
    BY <2>1, Zenon DEF Over, vars, Announced
  <2> QED BY <2>1, CodexAnnounced, HandleAnnounced, OthersAnnounced, Zenon
          DEF Next
<1> QED BY <1>1, <1>2, TypeCorrect, PTL DEF Spec

\* A set of hooks is finite, and counts one more or less with a hook.
LEMMA HookCount ==
    ASSUME NEW H \in SUBSET Jobs, NEW j \in Jobs
    PROVE  /\ Cardinality(H \cap InterruptHooks) \in Nat
           /\ Cardinality({} \cap InterruptHooks) = 0
           /\ Cardinality(H \cap InterruptHooks) = 0 =>
                H \cap InterruptHooks = {}
           /\ j \notin InterruptHooks =>
                /\ (H \cup {j}) \cap InterruptHooks = H \cap InterruptHooks
                /\ (H \ {j}) \cap InterruptHooks = H \cap InterruptHooks
           /\ j \in InterruptHooks =>
                /\ Cardinality((H \cup {j}) \cap InterruptHooks)
                     <= Cardinality(H \cap InterruptHooks) + 1
                /\ j \in H => Cardinality((H \ {j}) \cap InterruptHooks)
                                = Cardinality(H \cap InterruptHooks) - 1
<1> DEFINE S == H \cap InterruptHooks
<1>1. IsFiniteSet(S)
  <2>1. S \in SUBSET Jobs
    OBVIOUS
  <2> QED BY <2>1, WatchdogAssumption, FS_Subset
<1>2. Cardinality(S) \in Nat
  BY <1>1, FS_CardinalityType
<1>3. Cardinality({} \cap InterruptHooks) = 0
  <2>1. {} \cap InterruptHooks = {}
    OBVIOUS
  <2> QED BY <2>1, FS_EmptySet
<1>4. Cardinality(S) = 0 => S = {}
  BY <1>1, FS_EmptySet
<1>5. ASSUME j \in InterruptHooks
      PROVE  /\ Cardinality((H \cup {j}) \cap InterruptHooks)
                  <= Cardinality(S) + 1
             /\ j \in H => Cardinality((H \ {j}) \cap InterruptHooks)
                             = Cardinality(S) - 1
  <2>1. (H \cup {j}) \cap InterruptHooks = S \cup {j}
        /\ (H \ {j}) \cap InterruptHooks = S \ {j}
        /\ (j \in H => j \in S)
    BY <1>5
  <2> HIDE DEF S
  <2>2. Cardinality(S \cup {j}) =
          IF j \in S THEN Cardinality(S) ELSE Cardinality(S) + 1
    BY <1>1, FS_AddElement
  <2>3. Cardinality(S \ {j}) =
          IF j \in S THEN Cardinality(S) - 1 ELSE Cardinality(S)
    BY <1>1, FS_RemoveElement
  <2>4. /\ Cardinality((H \cup {j}) \cap InterruptHooks) = Cardinality(S \cup {j})
        /\ Cardinality((H \ {j}) \cap InterruptHooks) = Cardinality(S \ {j})
    BY <2>1, Zenon
  <2>5. Cardinality(S \cup {j}) <= Cardinality(S) + 1
    BY <1>2, <2>2
  <2>6. j \in H => Cardinality(S \ {j}) = Cardinality(S) - 1
    BY <2>1, <2>3
  <2> QED BY <2>4, <2>5, <2>6
<1> QED BY <1>2, <1>3, <1>4, <1>5

\* The counter follows the hooks that the event loop hears of.
LEMMA HandleHooks ==
    ASSUME Inv, Announced, HooksKnown, Handle PROVE HooksKnown'
<1> USE DEF Inv, TypeOK
<1> DEFINE m == Head(messages)
           Count(S) == Cardinality(S \cap InterruptHooks)
<1>1. m \in MessageType /\ messages # <<>>
  BY DEF Handle
<1>2. m.kind # "status" => m.turn \in Turn
  BY <1>1 DEF MessageType
<1>3. Completes(messages, hist.running, 0, m)
  BY DEF Announced, InTurns, Handle
<1>4. ASSUME NEW t \in Turn, t = active'.turn
      PROVE  Count(HeardRunning(t)') <= active'.interruptHooks
  <2>0. HeardRunning(t) \in SUBSET Jobs
    BY DEF HeardRunning
  <2>1. CASE m.kind = "turn/started"
    <3>1. active' = StartTurn(m.turn)
      BY <2>1 DEF Handle
    <3>2. active'.turn = m.turn /\ active'.interruptHooks = 0
      BY <3>1, Zenon DEF StartTurn, NoTurn
    <3>3. HeardRunning(t)' = {}
      BY <1>4, <2>1, <3>2, HeardNext
    <3>4. Cardinality({} \cap InterruptHooks) = 0
      <4>1. {} \cap InterruptHooks = {}
        OBVIOUS
      <4> QED BY <4>1, FS_EmptySet
    <3> QED BY <3>2, <3>3, <3>4
  <2>2. CASE active' = active /\ ~matchesActiveTurn(active, m)
    <3>1. m.turn # t
      BY <1>4, <2>2 DEF matchesActiveTurn, Turn, None
    <3>2. HeardRunning(t)' = HeardRunning(t)
      BY <3>1, HeardNext
    <3>3. active.turn = t /\ active.turn # None
      BY <1>4, <2>2 DEF Turn, None
    <3>4. Count(HeardRunning(t)) <= active.interruptHooks
      BY <3>3, Zenon DEF HooksKnown
    <3> QED BY <2>2, <3>2, <3>4, Zenon
  <2>3. CASE m.kind \notin {"turn/started", "turn/completed"}
             /\ matchesActiveTurn(active, m)
    <3>1. active' = Observe(active, m)
      BY <2>3 DEF Handle
    <3>2. /\ active'.turn = active.turn
          /\ active'.interruptHooks =
               IF m.kind \in {"started", "completed"}
               THEN HooksAfter(active, m) ELSE active.interruptHooks
      BY <2>3, <3>1, Zenon DEF Observe, recordActivity, ActiveType
    <3>3. Count(HeardRunning(t)) <= active.interruptHooks
          /\ active.interruptHooks \in Nat
      BY <1>4, <3>2 DEF HooksKnown, Turn, None, ActiveType
    <3>4. CASE m.kind \notin {"started", "completed"}
      <4>1. HeardRunning(t)' = HeardRunning(t)
        BY <2>3, <3>4, HeardNext
      <4> QED BY <3>2, <3>3, <3>4, <4>1
    <3>5. ASSUME m.kind \in {"started", "completed"}, NEW j \in Jobs, m.job = {j}
          PROVE  Count(HeardRunning(t)') <= active'.interruptHooks
      <4>1. m.turn = t
        BY <1>2, <1>4, <2>3, <3>2, <3>5 DEF matchesActiveTurn, Turn, None
      <4>2. HeardRunning(t)' = IF m.kind = "started" THEN HeardRunning(t) \cup {j}
                               ELSE HeardRunning(t) \ {j}
        BY <3>5, <4>1, HeardNext
      <4>3. m.kind = "completed" => j \in HeardRunning(t)
        BY <1>3, <3>5, <4>1 DEF Completes, RunsAfter, HeardRunning
      <4>4. active'.interruptHooks = HooksAfter(active, m)
        BY <3>2, <3>5
      <4> DEFINE H == HeardRunning(t)
                 H1 == HeardRunning(t)'
      <4>5. /\ H \in SUBSET Jobs /\ Count(H) <= active.interruptHooks
            /\ H1 = IF m.kind = "started" THEN H \cup {j} ELSE H \ {j}
            /\ m.kind = "completed" => j \in H
        BY <2>0, <3>3, <4>2, <4>3
      <4> HIDE DEF H, H1
      <4>6. CASE j \notin InterruptHooks
        <5>1. HooksAfter(active, m) = active.interruptHooks
          BY <3>5, <4>6 DEF HooksAfter
        <5>2. H1 \cap InterruptHooks = H \cap InterruptHooks
          BY <4>5, <4>6
        <5> QED BY <4>4, <4>5, <5>1, <5>2 DEF H1
      <4>7. CASE j \in InterruptHooks /\ m.kind = "started"
        <5>1. HooksAfter(active, m) = active.interruptHooks + 1
          BY <3>5, <4>7 DEF HooksAfter
        <5>2. Count(H1) <= Count(H) + 1 /\ Count(H) \in Nat /\ H1 \in SUBSET Jobs
          BY <4>5, <4>7, HookCount
        <5>3. Count(H1) \in Nat
          BY <5>2, HookCount
        <5> HIDE DEF Count
        <5>4. Count(H1) <= active'.interruptHooks
          BY <3>3, <4>4, <4>5, <5>1, <5>2, <5>3
        <5> QED BY <5>4 DEF H1, Count
      <4>8. CASE j \in InterruptHooks /\ m.kind = "completed"
        <5>1. Count(H1) = Count(H) - 1 /\ Count(H) \in Nat /\ H1 \in SUBSET Jobs
          BY <4>5, <4>8, HookCount
        <5>2. Count(H1) \in Nat
          BY <5>1, HookCount
        <5>3. m.kind # "started" /\ m.job \cap InterruptHooks # {}
          BY <3>5, <4>8
        <5> HIDE DEF Count
        <5>4. active.interruptHooks > 0
          BY <3>3, <4>5, <5>1, <5>2
        <5>5. HooksAfter(active, m) = active.interruptHooks - 1
          BY <5>3, <5>4 DEF HooksAfter
        <5>6. Count(H1) <= active'.interruptHooks
          BY <3>3, <4>4, <4>5, <5>1, <5>2, <5>5
        <5> QED BY <5>6 DEF H1, Count
      <4> QED BY <3>5, <4>6, <4>7, <4>8
    <3>6. m.kind \in {"started", "completed"} => \E j \in Jobs : m.job = {j}
      BY <1>3 DEF Completes
    <3> QED BY <3>4, <3>5, <3>6
  <2>4. \/ active' = active /\ ~matchesActiveTurn(active, m)
        \/ m.kind = "turn/started"
        \/ /\ m.kind \notin {"turn/started", "turn/completed"}
           /\ matchesActiveTurn(active, m)
    <3>1. CASE m.kind = "turn/completed"
      <4>1. active' = CompleteTurn(Observe(active, m), m.turn)
        BY <3>1 DEF Handle
      <4>2. matchesActiveTurn(active, m) <=> active.turn = m.turn
        BY <1>2, <3>1 DEF matchesActiveTurn, Turn, None
      <4>3. matchesActiveTurn(active, m) => active' = NoTurn
        BY <1>1, <4>1, <4>2, ObservedFields DEF CompleteTurn
      <4>4. ~matchesActiveTurn(active, m)
        BY <1>4, <4>3, StartedFields DEF Turn, None
      <4> QED BY <1>1, <4>1, <4>2, <4>4, ObservedFields DEF CompleteTurn
    <3>2. CASE m.kind # "turn/completed"
      BY <1>1, <3>2, ObservedFields DEF Handle
    <3> QED BY <3>1, <3>2
  <2> QED BY <2>1, <2>2, <2>3, <2>4
<1>5. active'.turn # None => active'.turn \in Turn
  <2>1. active' \in ActiveType
    BY LoopTypes
  <2> QED BY <2>1 DEF ActiveType, TurnOrNone, Turn, None
<1>6. \A t \in Turn : t = active'.turn =>
          Count(HeardRunning(t)') <= active'.interruptHooks
  BY <1>4
<1> QED BY <1>5, <1>6, Zenon DEF HooksKnown, HeardRunning

\* Every other step leaves the counter and the hooks it counts alone, or
\* starts a turn of which nothing has been heard.
LEMMA OthersHooks ==
    ASSUME TypeOK, Knows, HooksKnown,
           Codex \/ HandleClientInterrupt \/ Tick \/ Elapse \/ Recovery
    PROVE  HooksKnown'
<1> USE DEF TypeOK
<1>1. hist'.running = hist.running
  BY DEF Codex, UserStartsTurn, JobStarts, JobCompletes, CodexWaits,
         CodexProgresses, TurnCompletes, Runs, HandleClientInterrupt, Tick,
         Elapse, Recovery, StallFails, StallLimited, StallOutdated, WaitExpires,
         GivesUp, StallCancelled, StallIdle, StallWaiting, StallInterrupt,
         StallInterrupted, WaitExtended, StallResumes, RecordStartedTurn,
         HistoryType
<1>2. \A t : HeardRunning(t)' = HeardRunning(t)
  BY <1>1, Zenon DEF HeardRunning
<1>3. CASE RecordStartedTurn
  <2>1. answer # None /\ active' = StartTurn(answer)
    BY <1>3 DEF RecordStartedTurn
  <2>2. active'.turn = answer /\ active'.interruptHooks = 0
    BY <2>1, Zenon DEF StartTurn, NoTurn
  <2>3. hist'.running = hist.running /\ HeardRunning(answer) = {}
    BY <1>1, <2>1 DEF Knows
  <2>4. HeardRunning(active.turn)' = {}
    BY <2>2, <2>3, Zenon DEF HeardRunning
  <2>5. HeardRunning(active.turn)' \cap InterruptHooks = {}
    BY <2>4
  <2>6. Cardinality(HeardRunning(active.turn)' \cap InterruptHooks) = 0
    BY <2>5, FS_EmptySet, Zenon
  <2>7. Cardinality(HeardRunning(active.turn)' \cap InterruptHooks) <= 0
    BY <2>6
  <2> QED BY <2>2, <2>7, Zenon DEF HooksKnown
<1>4. CASE ~RecordStartedTurn
  <2>1. ASSUME active.turn # None
        PROVE  /\ CancelRecovery(active).turn = active.turn
               /\ CancelRecovery(active).interruptHooks = active.interruptHooks
               /\ SetWaitingFlags(active).turn = active.turn
               /\ SetWaitingFlags(active).interruptHooks = active.interruptHooks
    BY <2>1, Zenon
       DEF CancelRecovery, SetWaitingFlags, recordActivity, ActiveType
  <2>2. active.turn = None => CancelRecovery(active) = active
                              /\ SetWaitingFlags(active) = active
    BY DEF CancelRecovery, SetWaitingFlags
  <2>3. \/ active' \in {active, NoTurn, CancelRecovery(active),
                        SetWaitingFlags(active)}
        \/ /\ active'.turn = active.turn
           /\ active'.interruptHooks = active.interruptHooks
    <3>1. CASE Codex \/ HandleClientInterrupt \/ Elapse
      BY <3>1 DEF Codex, UserStartsTurn, JobStarts, JobCompletes, CodexWaits,
           CodexProgresses, TurnCompletes, Runs, HandleClientInterrupt, Elapse
    <3>2. CASE Tick
      BY <3>2 DEF Tick, Awake, Suspected, Waits, Confirmed, Undecided, ActiveType
    <3>3. CASE Recovery
      BY <1>4, <3>3 DEF Recovery, StallFails, StallLimited, StallOutdated,
           WaitExpires, GivesUp, StallCancelled, StallIdle, StallWaiting,
           StallInterrupt, StallInterrupted, WaitExtended, StallResumes,
           CompleteTurn
    <3> QED BY <3>1, <3>2, <3>3
  <2>4. NoTurn.turn = None
    BY StartedFields
  <2>5. active'.turn # None =>
          active'.turn = active.turn
          /\ active'.interruptHooks = active.interruptHooks
    BY <2>1, <2>2, <2>3, <2>4
  <2>6. HeardRunning(active.turn)' = HeardRunning(active'.turn)
    BY <1>1, Zenon DEF HeardRunning
  <2> QED BY <2>5, <2>6, Zenon DEF HooksKnown
<1> QED BY <1>3, <1>4

\* When the answer to a request comes before the messages of the turn that it
\* started, the wait for an interrupted turn is given up only after the long
\* deadline, or while no interrupt hook of the turn is heard to run.
THEOREM HooksAwaited ==
    ASSUME "lateAnswer" \notin Inputs PROVE Spec => HookAwaited
<1>1. Init => HooksKnown
  BY StartedFields DEF Init, HooksKnown
<1>2. Inv /\ Knows /\ Announced /\ HooksKnown /\ [Next]_vars => HooksKnown'
  <2>1. ASSUME HooksKnown, Over \/ UNCHANGED vars PROVE HooksKnown'
    BY <2>1, Zenon DEF Over, vars, HooksKnown, HeardRunning
  <2> QED BY <2>1, HandleHooks, OthersHooks, Zenon DEF Next, Inv
<1>3. Inv /\ HooksKnown /\ [Next]_vars =>
        (WaitExpires => \/ HeardRunning(stall.turn) \cap InterruptHooks = {}
                        \/ active.turn # stall.turn
                        \/ stall.extended)
  <2> SUFFICES ASSUME Inv, HooksKnown, WaitExpires, active.turn = stall.turn,
                      ~stall.extended
               PROVE  HeardRunning(stall.turn) \cap InterruptHooks = {}
    OBVIOUS
  <2>1. ~(active.interruptHooks > 0) /\ stall.pc = "wait"
    BY DEF WaitExpires, Extends, InterruptHookActive
  <2>2. active.interruptHooks \in Nat /\ active.turn # None
    BY <2>1 DEF Inv, TypeOK, ActiveType, StallOwned
  <2> DEFINE S == HeardRunning(active.turn) \cap InterruptHooks
  <2>3. Cardinality(S) <= active.interruptHooks
    BY <2>2 DEF HooksKnown
  <2>4. IsFiniteSet(S)
    <3>1. S \in SUBSET Jobs
      BY DEF HeardRunning
    <3> QED BY <3>1, WatchdogAssumption, FS_Subset
  <2>5. Cardinality(S) \in Nat
    BY <2>4, FS_CardinalityType
  <2> HIDE DEF S
  <2>6. Cardinality(S) = 0
    BY <2>1, <2>2, <2>3, <2>5
  <2>7. S = {}
    BY <2>4, <2>6, FS_EmptySet
  <2> QED BY <2>7 DEF S
<1>4. Spec => []Knows
  BY KnowsCorrect
<1> QED BY <1>1, <1>2, <1>3, <1>4, InvCorrect, AnnouncedCorrect, PTL
        DEF HookAwaited, Spec

=============================================================================
