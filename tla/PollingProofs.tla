--------------------------- MODULE PollingProofs ---------------------------
(***************************************************************************)
(* Proofs about the controllers that poll a chat service: the Telegram     *)
(* poller with its lock and its offset, and the WeChat controller with its *)
(* credentials.                                                            *)
(***************************************************************************)
EXTENDS MCPolling, TLAPS, FiniteSetTheorems, WellFoundedInduction

\* A non-empty set of naturals has a least element.
LEMMA LeastElement ==
  ASSUME NEW S, S \subseteq Nat, S # {}
  PROVE  \E u \in S : \A v \in S : u <= v
<1>1. IsWellFoundedOn(OpToRel(<, Nat), Nat)
  BY NatLessThanWellFounded
<1>2. PICK u \in S : \A v \in S : ~(<<v, u>> \in OpToRel(<, Nat))
  BY <1>1, WFMin
<1>3. \A v \in S : ~(v < u)
  BY <1>2 DEF OpToRel
<1>4. QED
  BY <1>3

-----------------------------------------------------------------------------
(* The Telegram poller: offsets *)

\* The updates before an offset were handled, and so were those before a batch.
HandledBefore(n) == \A v \in Updates : v < n => v \in handled
OffsetCommitted(p) ==
    /\ HandledBefore(proc[p].offset)
    /\ proc[p].pc = "handle" => proc[p].batch # {}
    /\ \A u \in proc[p].batch, v \in Updates : v < u => v \in handled \cup proc[p].batch

\* What is below the committed offset, or the offset of a process, was handled.
Committed ==
    /\ HandledBefore(forgotten) /\ HandledBefore(file)
    /\ \A p \in Processes : OffsetCommitted(p)

\* An attempt is left to the process that acquires the lock.
AttemptsLeft ==
    \A p \in Processes :
        proc[p].pc \in {"loaded", "create", "read", "remove"} => proc[p].attempt < MaxAttempts

Points == {"new", "loaded", "create", "write", "read", "remove", "poll", "handle",
           "save", "release", "unlink", "ended", "dead"}
Process == [pc : Points, offset : Offsets, batch : SUBSET Updates, attempt : 0..MaxAttempts, cancelled : BOOLEAN]

\* A process that moves leaves the others alone.
LEMMA Moves ==
  ASSUME TypeOK, NEW p \in Processes, NEW r \in Process, Goes(p, r)
  PROVE  /\ proc' \in [Processes -> Process] /\ proc'[p] = r
         /\ \A q \in Processes : q # p => proc'[q] = proc[q]
BY DEF TypeOK, Goes, Process, Points

\* A batch that is not empty has a next update.
LEMMA NextUpdate ==
  ASSUME NEW batch, batch \subseteq Updates, batch # {}
  PROVE  Next1(batch) \in batch /\ \A v \in batch : Next1(batch) <= v
<1>1. batch \subseteq Nat
  BY DEF Updates
<1>2. QED
  BY <1>1, LeastElement DEF Next1

\* Where a process starts.
LEMMA NotStartedTyped ==
  /\ NotStarted \in Process /\ NotStarted.pc = "new" /\ NotStarted.offset = 1
  /\ NotStarted.batch = {} /\ NotStarted.attempt = 0
BY PollerAssumption DEF NotStarted, Process, Points, Offsets, Updates

\* A process goes on: it is at another point, and the rest of it stays as it is.
LEMMA PointMoves ==
  ASSUME TypeOK, NEW p \in Processes, NEW pc \in Points, Goes(p, [proc[p] EXCEPT !.pc = pc])
  PROVE  /\ proc' \in [Processes -> Process]
         /\ proc'[p].pc = pc /\ proc'[p].offset = proc[p].offset /\ proc'[p].batch = proc[p].batch
         /\ proc'[p].attempt = proc[p].attempt
         /\ \A q \in Processes : q # p => proc'[q] = proc[q]
<1>1. proc[p] \in Process
  BY DEF TypeOK, Process, Points
<1>2. [proc[p] EXCEPT !.pc = pc] \in Process
  BY <1>1 DEF Process, Points
<1>3. QED
  BY <1>1, <1>2, Moves DEF Process

\* What an action of a process that is not polling does to it.
LEMMA ProcessEffect ==
  ASSUME TypeOK, AttemptsLeft, NEW p \in Processes,
         \/ Load(p) \/ Acquire(p) \/ RunEnds(p) \/ AskFails(p)
         \/ Stop(p) \/ Release(p) \/ Unlink(p) \/ Crash(p)
  PROVE  /\ proc' \in [Processes -> Process]
         /\ \A q \in Processes : q # p => proc'[q] = proc[q]
         /\ \/ proc'[p].offset = proc[p].offset /\ proc'[p].batch = proc[p].batch
            \/ proc'[p].offset \in {1, file} /\ proc'[p].batch = {}
         /\ proc'[p].pc = "handle" => proc[p].pc = "handle" /\ proc'[p].batch = proc[p].batch
         /\ proc'[p].pc \in {"loaded", "create", "read", "remove"} => proc'[p].attempt < MaxAttempts
<1>0. /\ proc[p] \in Process /\ file \in Offsets /\ MaxAttempts \in Nat /\ MaxAttempts > 0
      /\ proc \in [Processes -> Process] /\ proc[p].attempt \in Nat
  BY PollerAssumption DEF TypeOK, Process, Points
<1>1. CASE Load(p)
  <2> DEFINE r == [NotStarted EXCEPT !.pc = "loaded", !.offset = file]
  <2>1. r \in Process /\ r.pc = "loaded" /\ r.offset = file /\ r.batch = {} /\ r.attempt = 0
    BY <1>0, NotStartedTyped DEF Process, Points
  <2>2. Goes(p, r)
    BY <1>1 DEF Load
  <2>3. QED
    BY <1>0, <2>1, <2>2, Moves
<1>2. CASE BeginAcquire(p) \/ CreateLock(p) \/ ReadLock(p)
  <2>1. PICK pc \in {"create", "write", "read", "ended", "remove"} : Goes(p, [proc[p] EXCEPT !.pc = pc])
    BY <1>2 DEF BeginAcquire, CreateLock, ReadLock
  <2>2. proc[p].attempt < MaxAttempts
    BY <1>2 DEF BeginAcquire, CreateLock, ReadLock, AttemptsLeft
  <2>3. QED
    BY <1>0, <2>1, <2>2, PointMoves DEF Points
<1>3. CASE RemoveLock(p)
  <2> DEFINE pc == IF proc[p].attempt + 1 < MaxAttempts THEN "create" ELSE "ended"
             r == [proc[p] EXCEPT !.attempt = @ + 1, !.pc = pc]
  <2>1. proc[p].attempt < MaxAttempts /\ Goes(p, r)
    BY <1>3 DEF RemoveLock, AttemptsLeft
  <2>2. /\ r \in Process /\ r.pc = pc /\ r.offset = proc[p].offset /\ r.batch = proc[p].batch
        /\ r.attempt = proc[p].attempt + 1
    <3>1. pc \in Points /\ proc[p].attempt + 1 \in 0..MaxAttempts
      BY <1>0, <2>1 DEF Points
    <3> HIDE DEF pc
    <3>2. QED
      BY <1>0, <3>1 DEF Process
  <2>3. pc \in {"create", "ended"} /\ (pc = "create" => proc[p].attempt + 1 < MaxAttempts)
    OBVIOUS
  <2> HIDE DEF pc, r
  <2>4. QED
    BY <1>0, <2>1, <2>2, <2>3, Moves
<1>4. CASE WriteLock(p) \/ WriteLockFails(p) \/ RunEnds(p) \/ Release(p) \/ Unlink(p)
  <2>1. PICK pc \in {"poll", "ended", "release", "unlink"} : Goes(p, [proc[p] EXCEPT !.pc = pc])
    BY <1>4 DEF WriteLock, WriteLockFails, RunEnds, Release, Unlink
  <2>2. QED
    BY <2>1, PointMoves DEF Points
<1>5. CASE Stop(p)
  <2> DEFINE r == [proc[p] EXCEPT !.cancelled = TRUE]
  <2>1. Goes(p, r) /\ Polling(p)
    BY <1>5 DEF Stop
  <2>2. /\ r \in Process /\ r.pc = proc[p].pc /\ r.offset = proc[p].offset /\ r.batch = proc[p].batch
    BY <1>0 DEF Process
  <2>3. QED
    BY <2>1, <2>2, Moves DEF Polling
<1>6. CASE AskFails(p)
  BY <1>0, <1>6 DEF AskFails
<1>7. CASE Crash(p)
  <2> DEFINE r == [NotStarted EXCEPT !.pc = "dead"]
  <2>1. r \in Process /\ r.pc = "dead" /\ r.offset = 1 /\ r.batch = {}
    BY NotStartedTyped DEF Process, Points
  <2>2. Goes(p, r)
    BY <1>7 DEF Crash
  <2>3. QED
    BY <2>1, <2>2, Moves
<1>8. QED
  BY <1>1, <1>2, <1>3, <1>4, <1>5, <1>6, <1>7 DEF Acquire

\* What one that polls does: its offset moves past an update only when that was handled.
LEMMA PollingEffect ==
  ASSUME TypeOK, Committed, NEW p \in Processes, Ask(p) \/ Handle(p) \/ SaveOffset(p)
  PROVE  /\ proc' \in [Processes -> Process]
         /\ \A q \in Processes : q # p => proc'[q] = proc[q]
         /\ proc'[p].pc \in {"poll", "handle", "save", "release"}
         /\ handled \subseteq handled' /\ handled' \subseteq Updates
         /\ OffsetCommitted(p)'
<1>0. /\ proc[p] \in Process /\ file \in Offsets /\ MaxUpdates \in Nat
      /\ proc \in [Processes -> Process] /\ proc[p].batch \subseteq Updates
      /\ proc[p].offset \in Nat /\ handled \subseteq Updates /\ forgotten \in Nat /\ arrived \in Nat
      /\ HandledBefore(forgotten) /\ OffsetCommitted(p)
  BY PollerAssumption DEF TypeOK, Process, Points, Offsets, Committed
<1>1. CASE Ask(p)
  <2> DEFINE left == {u \in Updates : proc[p].offset <= u /\ forgotten <= u /\ u <= arrived}
             pc == IF left = {} THEN "poll" ELSE "handle"
             r == [proc[p] EXCEPT !.batch = left, !.pc = pc]
  <2>1. Goes(p, r) /\ handled' = handled
    BY <1>1 DEF Ask
  <2>2. r \in Process /\ r.pc = pc /\ r.batch = left /\ r.offset = proc[p].offset
    BY <1>0 DEF Process, Points
  <2>3. \A u \in left, v \in Updates : v < u => v \in handled \cup left
    BY <1>0 DEF Updates, HandledBefore, OffsetCommitted
  <2>4. QED
    <3>1. proc' \in [Processes -> Process] /\ proc'[p] = r /\ \A q \in Processes : q # p => proc'[q] = proc[q]
      BY <2>1, <2>2, Moves
    <3>2. pc \in {"poll", "handle"} /\ (pc = "handle" => left # {})
      OBVIOUS
    <3>3. HandledBefore(proc[p].offset)'
      BY <1>0, <2>1, <2>2, <3>1 DEF OffsetCommitted, HandledBefore
    <3> HIDE DEF r, left, pc
    <3>4. QED
      BY <1>0, <2>1, <2>2, <2>3, <3>1, <3>2, <3>3 DEF OffsetCommitted
<1>2. CASE Handle(p) /\ proc[p].cancelled
  <2> DEFINE r == [proc[p] EXCEPT !.pc = "release", !.batch = {}]
  <2>1. Goes(p, r) /\ handled' = handled
    BY <1>2 DEF Handle
  <2>2. r \in Process /\ r.pc = "release" /\ r.batch = {} /\ r.offset = proc[p].offset
    BY <1>0 DEF Process, Points
  <2>3. QED
    BY <1>0, <2>1, <2>2, Moves DEF OffsetCommitted, HandledBefore
<1>3. CASE Handle(p) /\ ~proc[p].cancelled
  <2> DEFINE batch == proc[p].batch
             u == Next1(batch)
             r == [proc[p] EXCEPT !.offset = u + 1, !.pc = "save", !.batch = @ \ {u}]
  <2>1. Goes(p, r) /\ handled' = handled \cup {u} /\ batch # {}
    BY <1>0, <1>3 DEF Handle, OffsetCommitted
  <2>2. u \in batch /\ u \in Updates /\ u \in Nat /\ \A v \in batch : u <= v
    BY <1>0, <2>1, NextUpdate DEF Updates
  <2>3. u + 1 \in Offsets
    BY <1>0, <2>2 DEF Updates, Offsets
  <2>4. r \in Process /\ r.pc = "save" /\ r.batch = batch \ {u} /\ r.offset = u + 1
    BY <1>0, <2>3 DEF Process, Points
  <2>5. \A v \in Updates : v < u + 1 => v \in handled'
    BY <1>0, <2>1, <2>2 DEF Updates, OffsetCommitted
  <2>6. \A w \in batch \ {u}, v \in Updates : v < w => v \in handled' \cup (batch \ {u})
    BY <1>0, <2>1, <2>2 DEF OffsetCommitted
  <2>7. QED
    BY <1>0, <2>1, <2>2, <2>4, <2>5, <2>6, Moves DEF OffsetCommitted, HandledBefore
<1>4. CASE SaveOffset(p)
  <2> DEFINE r == IF proc[p].cancelled THEN [proc[p] EXCEPT !.pc = "release", !.batch = {}]
                  ELSE [proc[p] EXCEPT !.pc = AfterBatch(proc[p].batch)]
  <2>1. Goes(p, r) /\ handled' = handled
    BY <1>4 DEF SaveOffset
  <2>2. /\ r \in Process /\ r.pc \in {"poll", "handle", "release"} /\ r.offset = proc[p].offset
        /\ r.batch \in {{}, proc[p].batch} /\ (r.pc = "handle" => r.batch # {})
    BY <1>0 DEF Process, Points, AfterBatch
  <2>3. QED
    BY <1>0, <2>1, <2>2, Moves DEF OffsetCommitted, HandledBefore
<1>5. QED
  BY <1>1, <1>2, <1>3, <1>4
Lock == [by : Processes \cup {0}, written : BOOLEAN]

\* The lock file that is not there.
LEMMA NoLockTyped == NoLock \in Lock /\ NoLock.by = 0 /\ ~NoLock.written
BY DEF NoLock, Lock

\* What becomes of the lock file.
LEMMA LockEffect ==
  ASSUME lock \in Lock, NEW p \in Processes,
         \/ Load(p) \/ Acquire(p) \/ RunEnds(p) \/ AskFails(p)
         \/ Stop(p) \/ Release(p) \/ Unlink(p) \/ Crash(p)
  PROVE  /\ lock' \in Lock
         /\ lock' # lock => \/ CreateLock(p) /\ lock = NoLock /\ lock'.by = p /\ ~lock'.written
                            \/ WriteLock(p) /\ lock.by = p /\ lock'.by = p /\ lock'.written
                            \/ (WriteLockFails(p) \/ RemoveLock(p) \/ Unlink(p)) /\ lock' = NoLock
<1>1. CASE CreateLock(p)
  <2> DEFINE l == [by |-> p, written |-> FALSE]
  <2>1. l \in Lock /\ l.by = p /\ ~l.written
    BY DEF Lock
  <2>2. lock' = lock \/ (lock = NoLock /\ lock' = l)
    BY <1>1, Zenon DEF CreateLock
  <2> HIDE DEF l
  <2>3. QED
    BY <1>1, <2>1, <2>2, Zenon
<1>2. CASE WriteLock(p)
  <2> DEFINE l == [lock EXCEPT !.written = TRUE]
  <2>1. l \in Lock /\ l.by = lock.by /\ l.written
    BY DEF Lock
  <2>2. lock' = lock \/ (lock.by = p /\ lock' = l)
    BY <1>2, Zenon DEF WriteLock
  <2> HIDE DEF l
  <2>3. QED
    BY <1>2, <2>1, <2>2, Zenon
<1>3. CASE WriteLockFails(p) \/ RemoveLock(p) \/ Unlink(p)
  BY <1>3, NoLockTyped DEF WriteLockFails, RemoveLock, Unlink
<1>4. CASE ~CreateLock(p) /\ ~WriteLock(p) /\ ~WriteLockFails(p) /\ ~RemoveLock(p) /\ ~Unlink(p)
  BY <1>4 DEF Load, Acquire, BeginAcquire, ReadLock, RunEnds, AskFails, Stop, Release, Crash
<1>5. QED
  BY <1>1, <1>2, <1>3, <1>4

\* Each step moves one process, and what it commits was handled.
LEMMA PollerStep ==
  ASSUME TypeOK, AttemptsLeft, Committed, [Next]_vars
  PROVE  TypeOK' /\ AttemptsLeft' /\ Committed'
<1>0. /\ proc \in [Processes -> Process] /\ arrived \in 0..MaxUpdates /\ forgotten \in Offsets /\ file \in Offsets
      /\ failures \in 0..MaxFailures /\ lock \in [by : Processes \cup {0}, written : BOOLEAN]
      /\ handled \subseteq Updates /\ contended \in BOOLEAN
      /\ MaxUpdates \in Nat /\ MaxFailures \in Nat
      /\ \A p \in Processes : proc[p].offset \in Offsets
      /\ HandledBefore(1)
  BY PollerAssumption DEF TypeOK, Process, Points, HandledBefore, Updates
<1>1. CASE UNCHANGED vars
  BY <1>1 DEF vars, TypeOK, AttemptsLeft, Committed, OffsetCommitted, HandledBefore
<1>2. CASE Arrive
  <2>1. arrived' \in 0..MaxUpdates
    BY <1>0, <1>2 DEF Arrive
  <2>2. QED
    BY <1>2, <2>1 DEF Arrive, TypeOK, AttemptsLeft, Committed, OffsetCommitted, HandledBefore
<1>3. ASSUME NEW p \in Processes,
             \/ Load(p) \/ Acquire(p) \/ RunEnds(p) \/ AskFails(p)
             \/ Stop(p) \/ Release(p) \/ Unlink(p) \/ Crash(p)
      PROVE  TypeOK' /\ AttemptsLeft' /\ Committed'
  <2>1. arrived' = arrived /\ file' = file /\ handled' = handled
    BY <1>3 DEF Load, Acquire, BeginAcquire, CreateLock, WriteLock, WriteLockFails, ReadLock, RemoveLock,
       RunEnds, AskFails, Stop, Release, Unlink, Crash, service
  <2>2. failures' \in 0..MaxFailures /\ forgotten' \in {forgotten, Max2(forgotten, proc[p].offset)}
    <3>1. CASE AskFails(p)
      BY <1>0, <3>1 DEF AskFails
    <3>2. CASE ~AskFails(p)
      BY <1>0, <1>3, <3>2 DEF Load, Acquire, BeginAcquire, CreateLock, WriteLock, WriteLockFails, ReadLock, RemoveLock,
         RunEnds, Stop, Release, Unlink, Crash, service
    <3>3. QED
      BY <3>1, <3>2
  <2>3. lock' \in Lock
    BY <1>3, LockEffect DEF TypeOK, Lock
  <2>4. contended' \in BOOLEAN
    <3>1. CASE BeginAcquire(p)
      BY <1>0, <3>1, Zenon DEF BeginAcquire
    <3>2. CASE ~BeginAcquire(p)
      BY <1>0, <1>3, <3>2 DEF Load, Acquire, CreateLock, WriteLock, WriteLockFails, ReadLock, RemoveLock,
         RunEnds, AskFails, Stop, Release, Unlink, Crash
    <3>3. QED
      BY <3>1, <3>2
  <2>5. forgotten' \in Offsets /\ HandledBefore(forgotten)'
    BY <1>0, <2>1, <2>2 DEF Max2, Committed, HandledBefore, OffsetCommitted
  <2>6. /\ proc' \in [Processes -> Process]
        /\ \A q \in Processes : q # p => proc'[q] = proc[q]
        /\ \/ proc'[p].offset = proc[p].offset /\ proc'[p].batch = proc[p].batch
           \/ proc'[p].offset \in {1, file} /\ proc'[p].batch = {}
        /\ proc'[p].pc = "handle" => proc[p].pc = "handle" /\ proc'[p].batch = proc[p].batch
        /\ proc'[p].pc \in {"loaded", "create", "read", "remove"} => proc'[p].attempt < MaxAttempts
    BY <1>3, ProcessEffect
  <2>7. TypeOK'
    BY <1>0, <2>1, <2>2, <2>3, <2>4, <2>5, <2>6 DEF TypeOK, Process, Points, Lock
  <2>8. AttemptsLeft'
    BY <2>6 DEF AttemptsLeft
  <2>9. ASSUME NEW q \in Processes PROVE OffsetCommitted(q)'
    <3>1. HandledBefore(proc'[q].offset)
      BY <1>0, <2>6 DEF Committed, OffsetCommitted
    <3>2. proc'[q].pc = "handle" => proc'[q].batch # {}
      BY <2>6 DEF Committed, OffsetCommitted
    <3>3. \A u \in proc'[q].batch, v \in Updates : v < u => v \in handled \cup proc'[q].batch
      BY <2>6 DEF Committed, OffsetCommitted
    <3>4. QED
      BY <2>1, <3>1, <3>2, <3>3 DEF OffsetCommitted, HandledBefore
  <2>10. QED
    BY <2>1, <2>5, <2>7, <2>8, <2>9 DEF Committed, HandledBefore
<1>4. ASSUME NEW p \in Processes, Ask(p) \/ Handle(p) \/ SaveOffset(p)
      PROVE  TypeOK' /\ AttemptsLeft' /\ Committed'
  <2>1. /\ arrived' = arrived /\ failures' = failures /\ lock' = lock /\ contended' = contended
        /\ forgotten' \in {forgotten, Max2(forgotten, proc[p].offset)} /\ file' \in {file, proc[p].offset}
    BY <1>4 DEF Ask, Handle, SaveOffset, service
  <2>2. /\ proc' \in [Processes -> Process]
        /\ \A q \in Processes : q # p => proc'[q] = proc[q]
        /\ proc'[p].pc \in {"poll", "handle", "save", "release"}
        /\ handled \subseteq handled' /\ handled' \subseteq Updates
        /\ OffsetCommitted(p)'
    BY <1>4, PollingEffect
  <2>3. forgotten' \in Offsets /\ file' \in Offsets
    BY <1>0, <2>1 DEF Max2
  <2>4. TypeOK'
    BY <1>0, <2>1, <2>2, <2>3 DEF TypeOK, Process, Points
  <2>5. AttemptsLeft'
    BY <2>2 DEF AttemptsLeft
  <2>6. \A n : HandledBefore(n) => HandledBefore(n)'
    BY <2>2 DEF HandledBefore
  <2>7. HandledBefore(forgotten)' /\ HandledBefore(file)'
    <3>1. HandledBefore(forgotten) /\ HandledBefore(file) /\ HandledBefore(proc[p].offset)
      BY DEF Committed, OffsetCommitted
    <3>2. QED
      BY <2>1, <2>2, <3>1 DEF HandledBefore, Max2
  <2>8. ASSUME NEW q \in Processes, q # p PROVE OffsetCommitted(q)'
    <3>1. proc'[q] = proc[q] /\ OffsetCommitted(q)
      BY <2>2, <2>8 DEF Committed
    <3>2. QED
      BY <2>2, <3>1 DEF OffsetCommitted, HandledBefore
  <2>9. QED
    BY <2>2, <2>4, <2>5, <2>7, <2>8 DEF Committed
<1>5. QED
  BY <1>1, <1>2, <1>3, <1>4 DEF Next, Run

\* Offsets never pass an update that was not handled.
LEMMA PollerInvariant == Spec => [](TypeOK /\ AttemptsLeft /\ Committed)
<1>1. Init => TypeOK /\ AttemptsLeft /\ Committed
  <2> SUFFICES ASSUME Init PROVE TypeOK /\ AttemptsLeft /\ Committed
    OBVIOUS
  <2>1. \A p \in Processes : proc[p] = NotStarted
    BY DEF Init
  <2>2. proc \in [Processes -> Process]
    BY NotStartedTyped DEF Init
  <2>3. lock \in Lock
    BY NoLockTyped DEF Init
  <2>4. HandledBefore(1)
    BY DEF HandledBefore, Updates
  <2>5. TypeOK
    <3>1. /\ arrived = 0 /\ forgotten = 1 /\ failures = 0 /\ file = 1 /\ handled = {}
          /\ contended \in BOOLEAN
      BY DEF Init
    <3>2. QED
      BY PollerAssumption, <2>2, <2>3, <3>1 DEF TypeOK, Process, Points, Lock, Offsets
  <2>6. AttemptsLeft
    BY <2>1, NotStartedTyped DEF AttemptsLeft
  <2>7. Committed
    BY <2>1, <2>4, NotStartedTyped DEF Init, Committed, OffsetCommitted
  <2>8. QED
    BY <2>5, <2>6, <2>7
<1>2. TypeOK /\ AttemptsLeft /\ Committed /\ [Next]_vars => (TypeOK /\ AttemptsLeft /\ Committed)'
  BY PollerStep
<1>3. QED
  BY <1>1, <1>2, PTL DEF Spec

\* The variables of the Telegram poller keep their types.
THEOREM PollerTypes == Spec => []TypeOK
BY PollerInvariant, PTL

\* telegram.go:651: no update is lost.  What the Bot API has forgotten was asked with an offset
\* that some process had in memory, from its file or after a handler, and each of those was
\* committed by a handler that ran to its end.
THEOREM NothingLost == Spec => []NothingForgotten
<1>1. Committed => NothingForgotten
  BY DEF Committed, HandledBefore, NothingForgotten
<1>2. QED
  BY <1>1, PollerInvariant, PTL
-----------------------------------------------------------------------------
(* The Telegram poller: the lock *)

\* As long as no two processes acquired the lock at the same time, it belongs to the one that
\* holds it or that writes it, and nobody is about to remove the lock of a holder.
LockOwned ==
    /\ \A p, q \in Processes : Acquiring(p) /\ Acquiring(q) => p = q
    /\ \A p \in Processes :
        /\ Holds(p) => lock.by = p /\ lock.written
        /\ proc[p].pc = "write" => lock.by = p /\ ~lock.written
        /\ proc[p].pc = "remove" => \A q \in Processes : ~Holds(q)

OthersStay(p) == \A q \in Processes : q # p => proc'[q].pc = proc[q].pc

\* Steps that neither take the lock nor give it away.
LEMMA OwnedKept ==
  ASSUME LockOwned, NEW p \in Processes, OthersStay(p), lock' = lock,
         Acquiring(p)' => Acquiring(p), Holds(p)' => Holds(p),
         proc'[p].pc = "write" => proc[p].pc = "write",
         proc'[p].pc = "remove" => proc[p].pc = "remove"
  PROVE  LockOwned'
<1>1. \A q \in Processes : /\ Acquiring(q)' => Acquiring(q)
                           /\ Holds(q)' => Holds(q)
                           /\ proc'[q].pc = "write" => proc[q].pc = "write"
                           /\ proc'[q].pc = "remove" => proc[q].pc = "remove"
  BY DEF OthersStay, Acquiring, Holds, Polling
<1>2. QED
  BY <1>1, Zenon DEF LockOwned

\* A process that acquires the lock while nobody else does.
LEMMA AcquireStep ==
  ASSUME TypeOK, AttemptsLeft, Committed, LockOwned, ~contended', NEW p \in Processes, Acquire(p)
  PROVE  LockOwned'
<1>0. lock \in Lock /\ lock' \in Lock
  BY LockEffect DEF TypeOK, Lock
<1>1. OthersStay(p) /\ proc' \in [Processes -> Process]
  BY ProcessEffect DEF OthersStay
<1>2. CASE BeginAcquire(p)
  <2>1. proc'[p].pc = "create" /\ lock' = lock
    BY <1>2, PointMoves DEF BeginAcquire, Points
  <2>2. \A q \in Processes : ~Acquiring(q)
    BY <1>2 DEF BeginAcquire
  <2>3. \A q \in Processes : /\ Acquiring(q)' => q = p
                             /\ Holds(q)' => Holds(q)
                             /\ proc'[q].pc # "write" /\ proc'[q].pc # "remove"
    BY <1>1, <2>1, <2>2 DEF OthersStay, Acquiring, Holds, Polling
  <2>4. QED
    BY <2>1, <2>3, Zenon DEF LockOwned
<1>3. CASE ~BeginAcquire(p)
  <2>1. Acquiring(p) /\ \A q \in Processes : Acquiring(q) => q = p
    BY <1>3 DEF Acquire, CreateLock, WriteLock, WriteLockFails, ReadLock, RemoveLock, Acquiring, LockOwned
  <2>2. \A q \in Processes : q # p => /\ ~Acquiring(q)' /\ (Holds(q)' <=> Holds(q))
                                      /\ proc'[q].pc # "write" /\ proc'[q].pc # "remove"
    BY <1>1, <2>1 DEF OthersStay, Acquiring, Holds, Polling
  <2>3. CASE CreateLock(p) /\ lock = NoLock
    <3>1. proc'[p].pc = "write"
      BY <2>3, PointMoves DEF CreateLock, Points
    <3>2. lock'.by = p /\ ~lock'.written
      <4> DEFINE l == [by |-> p, written |-> FALSE]
      <4>1. l.by = p /\ ~l.written
        OBVIOUS
      <4>2. lock' = l
        BY <2>3, Zenon DEF CreateLock
      <4> HIDE DEF l
      <4>3. QED
        BY <4>1, <4>2
    <3>3. \A q \in Processes : ~Holds(q)
      BY <2>3, NoLockTyped DEF LockOwned
    <3>4. ~Holds(p)'
      BY <3>1 DEF Holds, Polling
    <3>5. QED
      BY <2>2, <3>1, <3>2, <3>3, <3>4 DEF LockOwned
  <2>4. CASE CreateLock(p) /\ lock # NoLock
    <3>1. proc'[p].pc = "read" /\ lock' = lock
      BY <2>4, PointMoves DEF CreateLock, Points
    <3>2. QED
      BY <1>1, <2>1, <3>1, OwnedKept DEF Holds, Polling
  <2>5. CASE WriteLock(p)
    <3>1. proc'[p].pc = "poll"
      BY <2>5, PointMoves DEF WriteLock, Points
    <3>2. lock.by = p /\ ~lock.written
      BY <2>5 DEF WriteLock, LockOwned
    <3>3. lock'.by = p /\ lock'.written
      <4> DEFINE l == [lock EXCEPT !.written = TRUE]
      <4>1. l.by = lock.by /\ l.written
        BY <1>0 DEF Lock
      <4>2. lock' = l
        BY <2>5, <3>2, Zenon DEF WriteLock
      <4> HIDE DEF l
      <4>3. QED
        BY <3>2, <4>1, <4>2
    <3>4. \A q \in Processes : q # p => ~Holds(q)
      BY <3>2 DEF LockOwned
    <3>5. ~Acquiring(p)'
      BY <3>1 DEF Acquiring
    <3>6. QED
      BY <2>2, <3>1, <3>3, <3>4, <3>5 DEF LockOwned
  <2>6. CASE WriteLockFails(p) \/ RemoveLock(p)
    <3>1. proc'[p].pc \in {"ended", "create"}
      <4>1. CASE WriteLockFails(p)
        BY <4>1, PointMoves DEF WriteLockFails, Points
      <4>2. CASE RemoveLock(p)
        BY <4>2 DEF RemoveLock, Goes, TypeOK
      <4>3. QED
        BY <2>6, <4>1, <4>2
    <3>2. \A q \in Processes : ~Holds(q)
      BY <2>6 DEF WriteLockFails, RemoveLock, LockOwned
    <3>3. ~Holds(p)'
      BY <3>1 DEF Holds, Polling
    <3>4. QED
      BY <2>2, <3>1, <3>2, <3>3 DEF LockOwned
  <2>7. CASE ReadLock(p)
    <3>1. proc'[p].pc = (IF lock.written /\ Exists(lock.by) THEN "ended" ELSE "remove") /\ lock' = lock
      BY <2>7, PointMoves DEF ReadLock, Points
    <3>2. ASSUME NEW q \in Processes, Holds(q) PROVE proc'[p].pc = "ended"
      BY <3>1, <3>2 DEF LockOwned, Holds, Polling, Exists
    <3>3. QED
      BY <2>2, <3>1, <3>2 DEF LockOwned, Holds, Polling
  <2>8. QED
    BY <1>3, <2>3, <2>4, <2>5, <2>6, <2>7 DEF Acquire
<1>4. QED
  BY <1>2, <1>3

\* While nobody contends, every step leaves the lock with its owner.
LEMMA LockStep ==
  ASSUME TypeOK, AttemptsLeft, Committed, contended \/ LockOwned, [Next]_vars
  PROVE  contended' \/ LockOwned'
<1> SUFFICES ASSUME ~contended' PROVE LockOwned'
  OBVIOUS
<1>1. ASSUME NEW p \in Processes, Acquire(p) PROVE LockOwned'
  <2>1. ~contended
    BY <1>1 DEF Acquire, BeginAcquire, CreateLock, WriteLock, WriteLockFails, ReadLock, RemoveLock
  <2>2. QED
    BY <1>1, <2>1, AcquireStep
<1>2. ASSUME NEW p \in Processes, Unlink(p) PROVE LockOwned'
  <2>1. LockOwned /\ Holds(p)
    BY <1>2 DEF Unlink, Holds
  <2>2. OthersStay(p) /\ proc'[p].pc = "ended"
    BY <1>2, PointMoves DEF Unlink, OthersStay, Points
  <2>3. \A q \in Processes : q # p => ~Holds(q)
    BY <2>1 DEF LockOwned
  <2>4. \A q \in Processes : proc[q].pc # "write"
    BY <2>1 DEF LockOwned
  <2>5. \A q \in Processes : /\ ~Holds(q)' /\ proc'[q].pc # "write"
                             /\ Acquiring(q)' => Acquiring(q)
    BY <2>2, <2>3, <2>4 DEF OthersStay, Holds, Polling, Acquiring
  <2>6. QED
    BY <2>1, <2>5 DEF LockOwned
<1>3. ASSUME NEW p \in Processes,
             Load(p) \/ Run(p) \/ AskFails(p) \/ Stop(p) \/ Release(p) \/ Crash(p)
      PROVE  LockOwned'
  <2>1. contended' = contended /\ lock' = lock
    BY <1>3 DEF Load, Run, Ask, Handle, SaveOffset, RunEnds, AskFails, Stop, Release, Crash
  <2>2. OthersStay(p)
    BY <1>3, ProcessEffect, PollingEffect DEF OthersStay, Run
  <2>3. \/ proc'[p].pc \in {"loaded", "ended", "dead"}
        \/ Holds(p) /\ Holds(p)'
    <3>0. proc[p] \in Process /\ \A r : Goes(p, r) => proc'[p] = r
      BY DEF TypeOK, Process, Points, Goes
    <3>1. CASE Load(p) \/ Crash(p) \/ Stop(p) \/ AskFails(p)
      <4>1. Load(p) => proc'[p].pc = "loaded"
        BY <3>0, NotStartedTyped DEF Load, Process
      <4>2. Crash(p) => proc'[p].pc = "dead"
        BY <3>0, NotStartedTyped DEF Crash, Process
      <4>3. Stop(p) => Holds(p) /\ proc'[p].pc = proc[p].pc
        BY <3>0 DEF Stop, Process, Holds
      <4>4. AskFails(p) => Holds(p) /\ proc' = proc
        BY DEF AskFails, Holds, Polling
      <4>5. QED
        BY <3>1, <4>1, <4>2, <4>3, <4>4 DEF Holds, Polling
    <3>2. CASE RunEnds(p) \/ Release(p)
      <4>1. PICK pc \in {"release", "unlink", "ended"} : Goes(p, [proc[p] EXCEPT !.pc = pc])
        BY <3>2 DEF RunEnds, Release
      <4>2. QED
        BY <3>2, <4>1, PointMoves DEF Points, RunEnds, Release, Holds, Polling
    <3>3. CASE Ask(p) \/ Handle(p) \/ SaveOffset(p)
      BY <3>3, PollingEffect DEF Ask, Handle, SaveOffset, Holds, Polling
    <3>4. QED
      BY <1>3, <3>1, <3>2, <3>3 DEF Run
  <2>4. QED
    BY <2>1, <2>2, <2>3, OwnedKept DEF Acquiring, Holds, Polling
<1>4. CASE Arrive \/ UNCHANGED vars
  BY <1>4 DEF Arrive, vars, LockOwned, Acquiring, Holds, Polling
<1>5. QED
  BY <1>1, <1>2, <1>3, <1>4 DEF Next

\* telegram.go:61: two processes poll the bot only if they acquired its lock at the same time.
THEOREM OneAtATime == Spec => []PollsAlone
<1>1. Init => contended \/ LockOwned
  BY NotStartedTyped DEF Init, LockOwned, Acquiring, Holds, Polling
<1>2. TypeOK /\ AttemptsLeft /\ Committed /\ (contended \/ LockOwned) /\ [Next]_vars => (contended \/ LockOwned)'
  BY LockStep
<1>3. contended \/ LockOwned => PollsAlone
  <2> SUFFICES ASSUME LockOwned PROVE Cardinality({p \in Processes : Holds(p)}) <= 1
    <3>1. IsFiniteSet({p \in Processes : Holds(p)})
      <4>1. IsFiniteSet(Processes)
        BY PollerAssumption, FS_Interval DEF Processes
      <4>2. QED
        BY <4>1, FS_Subset
    <3>2. Cardinality({p \in Processes : Holds(p)}) \in Nat
      BY <3>1, FS_CardinalityType
    <3>3. QED
      BY <3>2 DEF PollsAlone
  <2>1. CASE {p \in Processes : Holds(p)} = {}
    BY <2>1, FS_EmptySet
  <2>2. ASSUME NEW p \in Processes, Holds(p) PROVE Cardinality({q \in Processes : Holds(q)}) <= 1
    <3>1. {q \in Processes : Holds(q)} = {p}
      BY <2>2 DEF LockOwned
    <3>2. Cardinality({p}) = 1
      BY FS_Singleton
    <3>3. QED
      BY <3>1, <3>2
  <2>3. QED
    BY <2>1, <2>2
<1>4. QED
  BY <1>1, <1>2, <1>3, PollerInvariant, PTL DEF Spec

-----------------------------------------------------------------------------
(* The WeChat controller: types *)

PollerPoints == {"none", "poll", "asked", "answered", "unlink", "handle", "typing", "execute",
                 "expired", "wait", "ended"}
Poller == [pc : PollerPoints, asked : WeChat!Credentials, batch : SUBSET WeChat!Numbers]
Sender == [pc : {"none", "loop", "send", "unlink", "ended"}, asked : WeChat!Credentials]

\* The cursor that an answer moves to: the last one of the messages it brings.
BatchEnds ==
    poller.pc = "answered" =>
        /\ poller.asked.cursor + Cardinality(poller.batch) <= MaxMessages
        /\ \A n \in poller.batch : n <= poller.asked.cursor + Cardinality(poller.batch)

\* Where WeChat's poller starts, and without credentials.
LEMMA RestingTyped ==
  /\ WeChat!NoCredentials \in WeChat!Credentials
  /\ WeChat!NoCredentials.token = 0 /\ WeChat!NoCredentials.cursor = 0
  /\ WeChat!Resting \in Poller /\ WeChat!Resting.batch = {} /\ WeChat!Resting.pc = "none"
  /\ WeChat!Resting.asked = WeChat!NoCredentials
BY MCAssumption DEF WeChat!WeChatAssumption, WeChat!NoCredentials, WeChat!Credentials, WeChat!Resting,
   Poller, PollerPoints

\* The batch of an answer is an interval of numbers.
LEMMA BatchCounted ==
  ASSUME NEW a \in 0..MaxMessages, NEW b \in 0..MaxMessages
  PROVE  LET batch == {n \in WeChat!Numbers : a < n /\ n <= b}
         IN  /\ a + Cardinality(batch) <= MaxMessages
             /\ \A n \in batch : n <= a + Cardinality(batch)
<1> DEFINE batch == {n \in WeChat!Numbers : a < n /\ n <= b}
<1>1. batch = (a + 1)..b
  BY MCAssumption DEF WeChat!WeChatAssumption, WeChat!Numbers
<1>0. a \in Nat /\ b \in Nat /\ a <= MaxMessages /\ b <= MaxMessages /\ MaxMessages \in Nat
  BY MCAssumption DEF WeChat!WeChatAssumption
<1>2. Cardinality((a + 1)..b) = IF a + 1 > b THEN 0 ELSE b - (a + 1) + 1
  BY <1>0, FS_Interval
<1> HIDE DEF batch
<1>3. a + Cardinality(batch) <= MaxMessages /\ \A n \in batch : n <= a + Cardinality(batch)
  BY <1>0, <1>1, <1>2
<1>4. QED
  BY <1>3 DEF batch

\* The first message of a batch is one of it.
LEMMA FirstOfBatch ==
  ASSUME NEW batch, batch \subseteq WeChat!Numbers, batch # {}
  PROVE  WeChat!First(batch) \in batch
<1>1. batch \subseteq Nat
  BY MCAssumption DEF WeChat!Numbers, WeChat!WeChatAssumption
<1>2. QED
  BY <1>1, LeastElement DEF WeChat!First

\* What the service, the commands and the process do.
LEMMA OutsideEffect ==
  ASSUME \/ WeChat!MessageArrives \/ WeChat!TokenExpires
         \/ WeChat!Login \/ WeChat!LoginConfirmed \/ WeChat!LoginGivesUp \/ WeChat!Logout \/ WeChat!LogoutRemoves
         \/ WeChat!Start \/ WeChat!Stop \/ WeChat!Exit
  PROVE  /\ UNCHANGED <<executed, removed>>
         /\ \/ UNCHANGED <<credentials, mem, issued, poller, sender, out>> /\ valid' \subseteq valid
               /\ (live' = live)
            \/ /\ credentials' = WeChat!NoCredentials
               /\ UNCHANGED <<mem, issued, valid, live, poller, sender, out>>
            \/ /\ issued < MaxTokens /\ issued' = issued + 1 /\ valid' = valid \cup {issued + 1}
               /\ credentials' \in {[token |-> issued + 1, cursor |-> 0], credentials}
               /\ UNCHANGED <<mem, live, poller, sender, out>>
            \/ /\ ~live /\ live' /\ mem' = credentials /\ out' = 0
               /\ poller' \in {poller, [WeChat!Resting EXCEPT !.pc = "poll"]}
               /\ sender' \in {sender, [sender EXCEPT !.pc = "loop"]}
               /\ UNCHANGED <<credentials, issued, valid>>
            \/ /\ live /\ ~live' /\ mem' = WeChat!NoCredentials /\ out' = 0
               /\ poller' = WeChat!Resting /\ sender' = [pc |-> "none", asked |-> WeChat!NoCredentials]
               /\ UNCHANGED <<credentials, issued, valid>>
<1>1. CASE \/ WeChat!MessageArrives \/ WeChat!TokenExpires \/ WeChat!Login \/ WeChat!LoginGivesUp
           \/ WeChat!Logout \/ WeChat!Stop
  BY <1>1 DEF WeChat!MessageArrives, WeChat!TokenExpires, WeChat!Login, WeChat!LoginGivesUp, WeChat!Logout, WeChat!Stop,
     WeChat!service, WeChat!process, WeChat!polling, WeChat!history
<1>2. CASE WeChat!LogoutRemoves \/ WeChat!LoginConfirmed
  BY <1>2 DEF WeChat!LogoutRemoves, WeChat!LoginConfirmed, WeChat!service, WeChat!process, WeChat!polling, WeChat!history
<1>3. CASE WeChat!Start
  BY <1>3, Zenon DEF WeChat!Start, WeChat!service, WeChat!history
<1>4. CASE WeChat!Exit
  BY <1>4, Zenon DEF WeChat!Exit, WeChat!service, WeChat!history
<1>5. QED
  BY <1>1, <1>2, <1>3, <1>4

\* They bring no answer.
LEMMA OutsideMoves ==
  ASSUME \/ WeChat!MessageArrives \/ WeChat!TokenExpires
         \/ WeChat!Login \/ WeChat!LoginConfirmed \/ WeChat!LoginGivesUp \/ WeChat!Logout \/ WeChat!LogoutRemoves
         \/ WeChat!Start \/ WeChat!Stop \/ WeChat!Exit
  PROVE  \/ moves' = moves
         \/ moves' = FALSE /\ poller' = WeChat!Resting
         \/ /\ moves' = FALSE /\ ~live
            /\ poller' = poller \/ poller' = [WeChat!Resting EXCEPT !.pc = "poll"]
BY Zenon DEF WeChat!MessageArrives, WeChat!TokenExpires, WeChat!Login, WeChat!LoginConfirmed, WeChat!LoginGivesUp,
   WeChat!Logout, WeChat!LogoutRemoves, WeChat!Start, WeChat!Stop, WeChat!Exit, WeChat!polling

\* What the sender does.
LEMMA SenderEffect ==
  ASSUME WeChat!SenderRuns
  PROVE  /\ UNCHANGED <<issued, valid, messages, live, poller, moves, cli, executed>>
         /\ sender.pc # "none"
         /\ \/ /\ UNCHANGED <<credentials, mem, removed>>
               /\ \/ out > 0 /\ out' = out - 1 /\ sender' = [pc |-> "send", asked |-> mem]
                  \/ out' = out /\ sender' \in {[sender EXCEPT !.pc = "loop"], [sender EXCEPT !.pc = "ended"]}
            \/ /\ mem' = WeChat!NoCredentials /\ UNCHANGED <<credentials, removed, out>>
               /\ sender.asked.token \notin valid /\ sender' = [sender EXCEPT !.pc = "unlink"]
            \/ /\ sender.pc = "unlink" /\ credentials' = WeChat!NoCredentials /\ UNCHANGED <<mem, out>>
               /\ removed' = removed \cup ({sender.asked.token} \ {0})
               /\ sender' \in {[sender EXCEPT !.pc = "loop"], [sender EXCEPT !.pc = "ended"]}
BY Zenon DEF WeChat!SenderRuns, WeChat!SenderTakes, WeChat!SenderSends, WeChat!SendExpired,
   WeChat!SenderUnlinks, WeChat!SenderEnds, WeChat!Clears, WeChat!process, WeChat!polling, WeChat!history,
   WeChat!service

\* A poller goes on with the rest of its batch.
LEMMA RestOfBatch ==
  ASSUME NEW r \in Poller
  PROVE  LET left == r.batch \ {WeChat!First(r.batch)}
         IN  /\ WeChat!Rest(r) \in Poller /\ WeChat!Rest(r).pc = r.pc
             /\ WeChat!Rest(r).asked = r.asked /\ WeChat!Rest(r).batch = left
             /\ WeChat!Continues(r) \in Poller /\ WeChat!Continues(r).asked = r.asked
             /\ WeChat!Continues(r).batch = left
             /\ WeChat!Continues(r).pc = (IF left = {} THEN "poll" ELSE "handle")
<1> DEFINE left == r.batch \ {WeChat!First(r.batch)}
           rest == [r EXCEPT !.batch = left]
<1>1. rest \in Poller /\ rest.pc = r.pc /\ rest.asked = r.asked /\ rest.batch = left
  BY DEF Poller
<1>2. WeChat!Rest(r) = rest
  BY DEF WeChat!Rest
<1> HIDE DEF rest
<1>3. WeChat!Continues(r) = [rest EXCEPT !.pc = IF left = {} THEN "poll" ELSE "handle"]
  BY <1>1, <1>2 DEF WeChat!Continues
<1>4. (IF left = {} THEN "poll" ELSE "handle") \in PollerPoints
  BY DEF PollerPoints
<1> HIDE DEF left
<1>5. QED
  BY <1>1, <1>2, <1>3, <1>4 DEF Poller, left

\* The poller keeps its type.
LEMMA PollerTyped ==
  ASSUME WeChat!TypeOK, WeChat!PollerRuns
  PROVE  poller' \in Poller /\ moves' \in BOOLEAN
<1> SUFFICES poller' \in Poller
  <2>1. moves \in BOOLEAN
    BY Zenon DEF WeChat!TypeOK
  <2>2. moves' \in BOOLEAN \/ \E r : WeChat!Polls(r)
    BY Zenon DEF WeChat!PollerRuns, WeChat!Poll, WeChat!ServiceAnswers, WeChat!Updates, WeChat!UpdatesUnmoved,
       WeChat!UpdatesFail, WeChat!UpdatesExpired, WeChat!PollerUnlinks, WeChat!ExpiredCancels, WeChat!HandleIgnored,
       WeChat!HandleCommand, WeChat!Typing, WeChat!Execute, WeChat!PollerEnds
  <2>3. (\E r : WeChat!Polls(r)) => moves' \in BOOLEAN
    BY <2>1, Zenon DEF WeChat!Polls
  <2>4. QED
    BY <2>2, <2>3
<1>0. poller \in Poller /\ mem \in WeChat!Credentials
  BY DEF WeChat!TypeOK, Poller, PollerPoints
<1>1. \A pc \in PollerPoints : [WeChat!Resting EXCEPT !.pc = pc] \in Poller
  BY RestingTyped DEF Poller
<1>2. \A r \in Poller, pc \in PollerPoints : [r EXCEPT !.pc = pc] \in Poller
  BY DEF Poller
<1>3. ASSUME NEW r \in Poller PROVE WeChat!Rest(r) \in Poller /\ WeChat!Continues(r) \in Poller
  BY <1>3, RestOfBatch
<1>4. WeChat!ToPoll \in Poller /\ WeChat!ToHandle \in Poller
  BY <1>0, <1>1, <1>2 DEF WeChat!ToPoll, WeChat!ToHandle, PollerPoints
<1>5. CASE WeChat!Poll
  BY <1>0, <1>1, <1>5 DEF WeChat!Poll, WeChat!Polls, Poller, PollerPoints
<1>6. CASE WeChat!ServiceAnswers
  BY <1>0, <1>6 DEF WeChat!ServiceAnswers, WeChat!Polls, Poller, PollerPoints
<1>7. CASE WeChat!Updates \/ WeChat!UpdatesUnmoved \/ WeChat!UpdatesFail
  BY <1>4, <1>7 DEF WeChat!Updates, WeChat!UpdatesUnmoved, WeChat!UpdatesFail, WeChat!Polls
<1>8. CASE WeChat!UpdatesExpired
  BY <1>0, <1>8 DEF WeChat!UpdatesExpired, WeChat!Polls, Poller, PollerPoints
<1>9. CASE WeChat!PollerUnlinks \/ WeChat!HandleCommand \/ WeChat!PollerEnds \/ WeChat!ExpiredCancels
  BY <1>0, <1>1, <1>2, <1>9 DEF WeChat!PollerUnlinks, WeChat!HandleCommand, WeChat!PollerEnds, WeChat!ExpiredCancels,
     WeChat!Polls, PollerPoints
<1>10. CASE WeChat!HandleIgnored \/ WeChat!Execute
  BY <1>0, <1>3, <1>10 DEF WeChat!HandleIgnored, WeChat!Execute, WeChat!Polls
<1>11. CASE WeChat!Typing
  BY <1>0, <1>2, <1>3, <1>11 DEF WeChat!Typing, WeChat!Polls, PollerPoints
<1>12. QED
  BY <1>5, <1>6, <1>7, <1>8, <1>9, <1>10, <1>11 DEF WeChat!PollerRuns
\* What the poller does to the credentials.
LEMMA PollerEffect ==
  ASSUME WeChat!TypeOK, WeChat!PollerRuns
  PROVE  /\ UNCHANGED <<issued, valid, messages, live, sender, cli>>
         /\ poller.pc # "none"
         /\ \/ UNCHANGED <<credentials, mem, removed>>
            \/ /\ WeChat!Updates /\ mem' = WeChat!Moved(mem) /\ removed' = removed
               /\ credentials' = credentials \/ (credentials' = mem' /\ mem'.token # 0)
            \/ /\ WeChat!UpdatesExpired \/ WeChat!Typing
               /\ mem' = WeChat!NoCredentials /\ UNCHANGED <<credentials, removed>>
               /\ poller.asked.token \notin valid /\ poller'.pc = "unlink"
            \/ /\ WeChat!PollerUnlinks /\ mem' = mem
               /\ credentials' = WeChat!NoCredentials /\ removed' = removed \cup ({poller.asked.token} \ {0})
            \/ /\ WeChat!HandleCommand /\ UNCHANGED <<mem, removed>>
               /\ credentials' = mem /\ mem.token # 0
         /\ ~(WeChat!Execute /\ moves) => executed' = executed
<1>0. poller \in Poller
  BY DEF WeChat!TypeOK, Poller, PollerPoints
<1>1. CASE WeChat!Poll \/ WeChat!ServiceAnswers \/ WeChat!UpdatesFail \/ WeChat!ExpiredCancels \/ WeChat!HandleIgnored
           \/ WeChat!PollerEnds \/ WeChat!UpdatesUnmoved
  BY <1>1 DEF WeChat!Poll, WeChat!ServiceAnswers, WeChat!UpdatesFail, WeChat!UpdatesUnmoved, WeChat!ExpiredCancels, WeChat!HandleIgnored,
     WeChat!PollerEnds, WeChat!service, WeChat!process, WeChat!history
<1>2. CASE WeChat!Updates
  BY <1>2 DEF WeChat!Updates, WeChat!Saves, WeChat!service, WeChat!process, WeChat!history
<1>3. CASE WeChat!UpdatesExpired
  BY <1>0, <1>3 DEF WeChat!UpdatesExpired, WeChat!Clears, WeChat!Polls, Poller, WeChat!service, WeChat!process, WeChat!history
<1>4. CASE WeChat!PollerUnlinks
  BY <1>4, Zenon DEF WeChat!PollerUnlinks, WeChat!service, WeChat!process
<1>5. CASE WeChat!HandleCommand
  BY <1>5 DEF WeChat!HandleCommand, WeChat!Saves, WeChat!service, WeChat!process, WeChat!history
<1>6. CASE WeChat!Typing
  <2>1. WeChat!Rest(poller) \in Poller
    BY <1>0, RestOfBatch
  <2>2. QED
    BY <1>6, <2>1 DEF WeChat!Typing, WeChat!Clears, WeChat!Polls, Poller, WeChat!service, WeChat!process, WeChat!history
<1>7. CASE WeChat!Execute
  BY <1>7 DEF WeChat!Execute, WeChat!service, WeChat!process
<1>8. QED
  BY <1>1, <1>2, <1>3, <1>4, <1>5, <1>6, <1>7 DEF WeChat!PollerRuns

\* The WeChat module counts as this one does.
LEMMA SameCount == \A S : WeChat!Cardinality(S) = Cardinality(S)
BY Zenon DEF WeChat!Cardinality, Cardinality

\* The credentials with a moved cursor.
LEMMA MovedTyped ==
  ASSUME WeChat!TypeOK, BatchEnds, poller.pc = "answered"
  PROVE  /\ WeChat!Moved(mem) \in WeChat!Credentials
         /\ WeChat!Moved(mem).token = mem.token
         /\ WeChat!Moved(mem).cursor = poller.asked.cursor + Cardinality(poller.batch)
<1>1. /\ poller \in Poller /\ mem \in WeChat!Credentials /\ MaxMessages \in Nat
      /\ poller.asked.cursor \in Nat
      /\ poller.batch \subseteq WeChat!Numbers
  BY MCAssumption DEF WeChat!TypeOK, Poller, PollerPoints, WeChat!WeChatAssumption, WeChat!Credentials
<1>2. IsFiniteSet(WeChat!Numbers)
  BY <1>1, FS_Interval DEF WeChat!Numbers
<1>3. Cardinality(poller.batch) \in Nat
  BY <1>1, <1>2, FS_Subset, FS_CardinalityType
<1>4. poller.asked.cursor + Cardinality(poller.batch) \in 0..MaxMessages
  BY <1>1, <1>3 DEF BatchEnds
<1>5. QED
  BY <1>1, <1>4, SameCount DEF WeChat!Moved, WeChat!Credentials

\* Every step of WeChat keeps the types.
LEMMA WeChatTypesStep ==
  ASSUME WeChat!TypeOK, BatchEnds, WeChat!Next
  PROVE  WeChat!TypeOK'
<1>0. /\ credentials \in WeChat!Credentials /\ mem \in WeChat!Credentials
      /\ issued \in WeChat!Tokens \cup {0} /\ valid \subseteq WeChat!Tokens
      /\ messages \in [WeChat!Tokens -> 0..MaxMessages]
      /\ live \in BOOLEAN /\ cancelled \in BOOLEAN
      /\ poller \in Poller /\ sender \in Sender /\ moves \in BOOLEAN /\ out \in 0..OutLimit
      /\ cli \in {"idle", "login", "logout"}
      /\ executed \in [WeChat!Tokens \X WeChat!Numbers -> 0..2] /\ removed \subseteq WeChat!Tokens
      /\ MaxTokens \in Nat /\ MaxMessages \in Nat /\ OutLimit \in Nat
  BY MCAssumption DEF WeChat!WeChatAssumption, WeChat!TypeOK, Poller, PollerPoints, Sender
<1> DEFINE Outside == \/ WeChat!MessageArrives \/ WeChat!TokenExpires
                      \/ WeChat!Login \/ WeChat!LoginConfirmed \/ WeChat!LoginGivesUp \/ WeChat!Logout
                      \/ WeChat!LogoutRemoves \/ WeChat!Start \/ WeChat!Stop \/ WeChat!Exit
<1>1. Outside \/ WeChat!PollerRuns \/ WeChat!SenderRuns
  BY DEF WeChat!Next
<1>2. /\ credentials' \in WeChat!Credentials /\ mem' \in WeChat!Credentials
      /\ issued' \in WeChat!Tokens \cup {0} /\ valid' \subseteq WeChat!Tokens
  <2>1. CASE Outside
    <3>1. [token |-> issued + 1, cursor |-> 0] \in WeChat!Credentials \/ issued = MaxTokens
      BY <1>0 DEF WeChat!Credentials, WeChat!Tokens
    <3>2. QED
      BY <1>0, <2>1, <3>1, OutsideEffect, RestingTyped DEF WeChat!Tokens
  <2>2. CASE WeChat!PollerRuns
    BY <1>0, <2>2, PollerEffect, RestingTyped, MovedTyped DEF WeChat!Updates
  <2>3. CASE WeChat!SenderRuns
    BY <1>0, <2>3, SenderEffect, RestingTyped
  <2>4. QED
    BY <1>1, <2>1, <2>2, <2>3
<1>3. poller' \in Poller /\ moves' \in BOOLEAN
  <2>1. [WeChat!Resting EXCEPT !.pc = "poll"] \in Poller
    BY RestingTyped DEF Poller, PollerPoints
  <2>2. QED
    BY <1>0, <1>1, <2>1, OutsideEffect, OutsideMoves, SenderEffect, PollerTyped, RestingTyped
<1>4. sender' \in Sender
  <2>1. /\ \A pc \in {"loop", "unlink", "ended"} : [sender EXCEPT !.pc = pc] \in Sender
        /\ [pc |-> "none", asked |-> WeChat!NoCredentials] \in Sender
        /\ [pc |-> "send", asked |-> mem] \in Sender
    BY <1>0, RestingTyped DEF Sender
  <2>2. CASE Outside
    BY <1>0, <2>1, <2>2, OutsideEffect
  <2>3. CASE WeChat!SenderRuns
    BY <1>0, <2>1, <2>3, SenderEffect
  <2>4. CASE WeChat!PollerRuns
    BY <1>0, <2>4, PollerEffect
  <2>5. QED
    BY <1>1, <2>2, <2>3, <2>4
<1>5. removed' \subseteq WeChat!Tokens
  <2>1. poller.asked.token \in WeChat!Tokens \cup {0} /\ sender.asked.token \in WeChat!Tokens \cup {0}
    BY <1>0 DEF Poller, Sender, WeChat!Credentials
  <2>2. CASE Outside
    BY <1>0, <2>2, OutsideEffect
  <2>3. CASE WeChat!SenderRuns
    BY <1>0, <2>1, <2>3, SenderEffect
  <2>4. CASE WeChat!PollerRuns
    BY <1>0, <2>1, <2>4, PollerEffect
  <2>5. QED
    BY <1>1, <2>2, <2>3, <2>4
<1>6. out' \in 0..OutLimit
  <2>1. CASE Outside
    BY <1>0, <2>1, OutsideEffect
  <2>2. CASE WeChat!SenderRuns
    BY <1>0, <2>2, SenderEffect
  <2>3. CASE WeChat!PollerRuns
    <3>1. CASE WeChat!HandleIgnored \/ WeChat!Execute
      BY <1>0, <3>1 DEF WeChat!HandleIgnored, WeChat!Execute
    <3>2. CASE ~WeChat!HandleIgnored /\ ~WeChat!Execute
      <4>1. out' = out
        BY <2>3, <3>2, Zenon DEF WeChat!PollerRuns, WeChat!Poll, WeChat!ServiceAnswers, WeChat!UpdatesFail,
           WeChat!ExpiredCancels, WeChat!PollerEnds, WeChat!Updates, WeChat!UpdatesUnmoved, WeChat!UpdatesExpired,
           WeChat!PollerUnlinks,
           WeChat!HandleCommand, WeChat!Typing
      <4>2. QED
        BY <1>0, <4>1
    <3>3. QED
      BY <3>1, <3>2
  <2>4. QED
    BY <1>1, <2>1, <2>2, <2>3
<1>7. messages' \in [WeChat!Tokens -> 0..MaxMessages]
  <2>1. CASE WeChat!MessageArrives
    <3>1. PICK t \in valid : messages[t] < MaxMessages /\ messages' = [messages EXCEPT ![t] = @ + 1]
      BY <2>1 DEF WeChat!MessageArrives
    <3>2. QED
      BY <1>0, <3>1
  <2>2. CASE Outside /\ ~WeChat!MessageArrives
    BY <1>0, <2>2 DEF WeChat!TokenExpires, WeChat!Login, WeChat!LoginConfirmed, WeChat!LoginGivesUp,
       WeChat!Logout, WeChat!LogoutRemoves, WeChat!Start, WeChat!Stop, WeChat!Exit, WeChat!service
  <2>3. CASE WeChat!SenderRuns \/ WeChat!PollerRuns
    BY <1>0, <2>3, SenderEffect, PollerEffect
  <2>4. QED
    BY <1>1, <2>1, <2>2, <2>3
<1>8. live' \in BOOLEAN /\ cancelled' \in BOOLEAN /\ cli' \in {"idle", "login", "logout"}
  <2>1. CASE Outside
    BY <1>0, <2>1 DEF WeChat!MessageArrives, WeChat!TokenExpires, WeChat!Login, WeChat!LoginConfirmed, WeChat!LoginGivesUp,
       WeChat!Logout, WeChat!LogoutRemoves, WeChat!Start, WeChat!Stop, WeChat!Exit, WeChat!process
  <2>2. CASE WeChat!SenderRuns
    BY <1>0, <2>2 DEF WeChat!SenderRuns, WeChat!SenderTakes, WeChat!SenderSends, WeChat!SendExpired,
       WeChat!SenderUnlinks, WeChat!SenderEnds, WeChat!process
  <2>3. CASE WeChat!PollerRuns
    BY <1>0, <2>3 DEF WeChat!PollerRuns, WeChat!Poll, WeChat!ServiceAnswers, WeChat!UpdatesFail, WeChat!ExpiredCancels,
       WeChat!HandleIgnored, WeChat!PollerEnds, WeChat!Updates, WeChat!UpdatesUnmoved, WeChat!UpdatesExpired,
       WeChat!PollerUnlinks,
       WeChat!HandleCommand, WeChat!Typing, WeChat!Execute, WeChat!process
  <2>4. QED
    BY <1>1, <2>1, <2>2, <2>3
<1>9. executed' \in [WeChat!Tokens \X WeChat!Numbers -> 0..2]
  <2>1. CASE WeChat!Execute /\ moves
    <3> DEFINE m == <<poller.asked.token, WeChat!First(poller.batch)>>
    <3>1. executed' = [executed EXCEPT ![m] = IF executed[m] < 2 THEN executed[m] + 1 ELSE executed[m]]
      BY <2>1, Zenon DEF WeChat!Execute
    <3> DEFINE D == WeChat!Tokens \X WeChat!Numbers
               more == IF executed[m] < 2 THEN executed[m] + 1 ELSE executed[m]
    <3> HIDE DEF m, D
    <3>2. executed \in [D -> 0..2]
      BY <1>0 DEF D
    <3>3. m \in D => more \in 0..2
      BY <3>2
    <3> HIDE DEF more
    <3>4. executed' = [executed EXCEPT ![m] = more]
      BY <3>1 DEF more
    <3>5. executed' \in [D -> 0..2]
      BY <3>2, <3>3, <3>4
    <3>6. QED
      BY <3>5 DEF D
  <2>2. CASE ~(WeChat!Execute /\ moves)
    BY <1>0, <1>1, <2>2, OutsideEffect, SenderEffect, PollerEffect
  <2>3. QED
    BY <2>1, <2>2
<1>10. QED
  BY <1>2, <1>3, <1>4, <1>5, <1>6, <1>7, <1>8, <1>9 DEF WeChat!TypeOK, Poller, PollerPoints, Sender

-----------------------------------------------------------------------------
(* The WeChat controller: expired credentials *)

\* The token that the service called expired is not in memory any more when it is removed, and
\* is neither in memory nor in the file afterwards.
Gone ==
    /\ ExpiredStayGone /\ mem.token \notin removed
    /\ removed \subseteq 1..issued
    /\ poller.pc = "unlink" => mem.token = 0
    /\ sender.pc = "unlink" => mem.token = 0
    /\ ~live => poller.pc = "none" /\ sender.pc = "none"

\* No token is known that was not issued.
Issued ==
    /\ credentials.token <= issued /\ mem.token <= issued
    /\ poller.asked.token <= issued /\ sender.asked.token <= issued

\* Where the poller goes: with what it was asked with and a batch, or without either.
PollerIs(r, pc, asked, batch) == r.pc = pc /\ r.asked = asked /\ r.batch = batch
PollerRests(r, pc) == PollerIs(r, pc, WeChat!NoCredentials, {})
PollerGoes(r, pc) == PollerIs(r, pc, poller.asked, poller.batch)

\* What each step of WeChat's poller does to its program counter and its batch.
LEMMA PollerMoves ==
  ASSUME WeChat!TypeOK, BatchEnds, WeChat!PollerRuns
  PROVE  LET left == poller.batch \ {WeChat!First(poller.batch)}
         IN  \/ /\ WeChat!Poll
                /\ PollerRests(poller', "wait") \/ PollerIs(poller', "asked", mem, poller.batch)
             \/ /\ WeChat!ServiceAnswers
                /\ PollerIs(poller', "answered", poller.asked,
                        {n \in WeChat!Numbers : poller.asked.cursor < n /\ n <= messages[poller.asked.token]})
             \/ /\ WeChat!Updates
                /\ \/ PollerRests(poller', "poll")
                   \/ /\ PollerGoes(poller', "handle") /\ poller.batch # {} /\ mem.token # 0
                      /\ credentials' = mem'
             \/ /\ WeChat!UpdatesUnmoved
                /\ PollerRests(poller', "poll") \/ (PollerGoes(poller', "handle") /\ poller.batch # {})
             \/ WeChat!UpdatesFail /\ PollerRests(poller', "poll")
             \/ WeChat!UpdatesExpired /\ PollerIs(poller', "unlink", poller.asked, {})
             \/ WeChat!PollerUnlinks /\ PollerGoes(poller', "expired")
             \/ /\ WeChat!ExpiredCancels
                /\ PollerRests(poller', "wait") \/ (PollerGoes(poller', "handle") /\ poller.batch # {})
             \/ /\ WeChat!HandleIgnored \/ WeChat!Execute
                /\ PollerIs(poller', IF left = {} THEN "poll" ELSE "handle", poller.asked, left)
             \/ WeChat!HandleCommand /\ PollerGoes(poller', "typing")
             \/ /\ WeChat!Typing
                /\ \/ PollerGoes(poller', "execute")
                   \/ PollerIs(poller', "unlink", poller.asked, left) /\ mem' = WeChat!NoCredentials
             \/ WeChat!PollerEnds /\ PollerRests(poller', "ended")
<1>0. poller \in Poller /\ mem \in WeChat!Credentials
  BY DEF WeChat!TypeOK, Poller, PollerPoints
<1>1. /\ PollerRests([WeChat!Resting EXCEPT !.pc = "wait"], "wait")
      /\ PollerRests([WeChat!Resting EXCEPT !.pc = "ended"], "ended")
      /\ PollerRests(WeChat!ToPoll, "poll")
  BY RestingTyped DEF Poller, PollerRests, PollerIs, WeChat!ToPoll
<1>2. /\ PollerGoes([poller EXCEPT !.pc = "handle"], "handle")
      /\ PollerGoes([poller EXCEPT !.pc = "typing"], "typing")
      /\ PollerGoes([poller EXCEPT !.pc = "execute"], "execute")
      /\ PollerGoes([poller EXCEPT !.pc = "expired"], "expired")
  BY <1>0 DEF Poller, PollerGoes, PollerIs
<1>3. CASE WeChat!Poll
  <2>1. PollerIs([poller EXCEPT !.pc = "asked", !.asked = mem], "asked", mem, poller.batch)
    BY <1>0 DEF Poller, PollerIs
  <2>2. QED
    BY <1>1, <1>3, <2>1, Zenon DEF WeChat!Poll, WeChat!Polls
<1>4. CASE WeChat!ServiceAnswers
  <2> DEFINE batch == {n \in WeChat!Numbers : poller.asked.cursor < n /\ n <= messages[poller.asked.token]}
  <2>1. PollerIs([poller EXCEPT !.pc = "answered", !.batch = batch], "answered", poller.asked, batch)
    BY <1>0 DEF Poller, PollerIs
  <2>2. poller' = [poller EXCEPT !.pc = "answered", !.batch = batch]
    BY <1>4, Zenon DEF WeChat!ServiceAnswers, WeChat!Polls
  <2>3. QED
    BY <1>4, <2>1, <2>2, Zenon
<1>5. CASE WeChat!Updates
  <2>1. poller' = WeChat!ToPoll \/ (poller' = WeChat!ToHandle /\ mem.token # 0
                                     /\ (poller.batch # {} => credentials' = mem'))
    <3>1. PICK saved \in BOOLEAN :
            /\ WeChat!Saves(mem', saved)
            /\ poller' = IF saved /\ mem.token # 0 /\ ~cancelled THEN WeChat!ToHandle ELSE WeChat!ToPoll
      BY <1>5, Zenon DEF WeChat!Updates, WeChat!Polls
    <3>2. mem'.token = mem.token
      BY <1>5, MovedTyped DEF WeChat!Updates
    <3>3. QED
      BY <3>1, <3>2 DEF WeChat!Saves
  <2>2. WeChat!ToHandle = WeChat!ToPoll \/ (poller.batch # {} /\ PollerGoes(WeChat!ToHandle, "handle"))
    BY <1>2, Zenon DEF WeChat!ToHandle
  <2>3. QED
    BY <1>1, <1>5, <2>1, <2>2, Zenon
<1>6. CASE WeChat!UpdatesFail
  BY <1>1, <1>6, Zenon DEF WeChat!UpdatesFail, WeChat!Polls
<1>7. CASE WeChat!UpdatesExpired
  <2>1. PollerIs([poller EXCEPT !.pc = "unlink", !.batch = {}], "unlink", poller.asked, {})
    BY <1>0 DEF Poller, PollerIs
  <2>2. QED
    BY <1>7, <2>1, Zenon DEF WeChat!UpdatesExpired, WeChat!Polls
<1>8. CASE WeChat!PollerUnlinks
  BY <1>2, <1>8, Zenon DEF WeChat!PollerUnlinks, WeChat!Polls
<1>9. CASE WeChat!ExpiredCancels
  BY <1>1, <1>2, <1>9, Zenon DEF WeChat!ExpiredCancels, WeChat!Polls
<1>10. CASE WeChat!HandleIgnored \/ WeChat!Execute
  <2>1. poller' = WeChat!Continues(poller)
    BY <1>10, Zenon DEF WeChat!HandleIgnored, WeChat!Execute, WeChat!Polls
  <2>2. QED
    BY <1>0, <1>10, <2>1, RestOfBatch DEF PollerIs
<1>11. CASE WeChat!HandleCommand
  BY <1>2, <1>11, Zenon DEF WeChat!HandleCommand, WeChat!Polls
<1>12. CASE WeChat!Typing
  <2> DEFINE left == poller.batch \ {WeChat!First(poller.batch)}
  <2>1. PollerIs([WeChat!Rest(poller) EXCEPT !.pc = "unlink"], "unlink", poller.asked, left)
    BY <1>0, RestOfBatch DEF Poller, PollerIs
  <2>2. QED
    BY <1>2, <1>12, <2>1, Zenon DEF WeChat!Typing, WeChat!Polls, WeChat!Clears
<1>13. CASE WeChat!PollerEnds
  BY <1>1, <1>13, Zenon DEF WeChat!PollerEnds, WeChat!Polls
<1>14. CASE WeChat!UpdatesUnmoved
  <2>1. poller' = WeChat!ToPoll \/ poller' = WeChat!ToHandle
    BY <1>14, Zenon DEF WeChat!UpdatesUnmoved, WeChat!Polls
  <2>2. WeChat!ToHandle = WeChat!ToPoll \/ (poller.batch # {} /\ PollerGoes(WeChat!ToHandle, "handle"))
    BY <1>2, Zenon DEF WeChat!ToHandle
  <2>3. QED
    BY <1>1, <1>14, <2>1, <2>2, Zenon
<1>15. QED
  BY <1>3, <1>4, <1>5, <1>6, <1>7, <1>8, <1>9, <1>10, <1>11, <1>12, <1>13, <1>14, Zenon DEF WeChat!PollerRuns

\* How the messages came is kept as long as there are any.
LEMMA MovesKept ==
  ASSUME WeChat!TypeOK, WeChat!PollerRuns, ~WeChat!ServiceAnswers, poller'.batch # {}
  PROVE  moves' = moves
<1>1. moves \in BOOLEAN
  BY Zenon DEF WeChat!TypeOK
<1>2. WeChat!Polls(poller')
  BY Zenon DEF WeChat!PollerRuns, WeChat!Poll, WeChat!Updates, WeChat!UpdatesUnmoved, WeChat!UpdatesFail,
     WeChat!UpdatesExpired, WeChat!PollerUnlinks, WeChat!ExpiredCancels, WeChat!HandleIgnored, WeChat!HandleCommand,
     WeChat!Typing, WeChat!Execute, WeChat!PollerEnds, WeChat!Polls
<1>3. moves' = (moves /\ poller'.batch # {})
  BY <1>2, Zenon DEF WeChat!Polls
<1>4. QED
  BY <1>1, <1>3, Zenon

\* What the poller was asked with, and when it goes to remove the file.
LEMMA PollerAsked ==
  ASSUME WeChat!TypeOK, BatchEnds, WeChat!PollerRuns
  PROVE  /\ poller'.asked \in {poller.asked, mem, WeChat!NoCredentials}
         /\ poller'.pc = "unlink" => mem' = WeChat!NoCredentials
<1>1. WeChat!UpdatesExpired => mem' = WeChat!NoCredentials
  BY DEF WeChat!UpdatesExpired, WeChat!Clears
<1>2. QED
  BY <1>1, PollerMoves DEF PollerIs, PollerRests, PollerGoes

\* The tokens the process knows, and those that may be removed next.
LEMMA TokensTyped ==
  ASSUME WeChat!TypeOK
  PROVE  /\ credentials \in WeChat!Credentials /\ mem \in WeChat!Credentials
         /\ poller \in Poller /\ sender \in Sender
         /\ issued \in Nat /\ credentials.token \in Nat /\ mem.token \in Nat
         /\ poller.asked.token \in Nat /\ sender.asked.token \in Nat
<1>1. /\ credentials \in WeChat!Credentials /\ mem \in WeChat!Credentials
      /\ poller \in Poller /\ sender \in Sender /\ issued \in WeChat!Tokens \cup {0}
  BY DEF WeChat!TypeOK, Poller, PollerPoints, Sender
<1>2. WeChat!Tokens \cup {0} \subseteq Nat
  BY MCAssumption DEF WeChat!WeChatAssumption, WeChat!Tokens
<1>3. \A c \in WeChat!Credentials : c.token \in WeChat!Tokens \cup {0}
  BY DEF WeChat!Credentials
<1>4. poller.asked \in WeChat!Credentials /\ sender.asked \in WeChat!Credentials
  BY <1>1 DEF Poller, Sender
<1>5. QED
  BY <1>1, <1>2, <1>3, <1>4

\* Only a login issues a token.
LEMMA IssuedStep ==
  ASSUME WeChat!TypeOK, BatchEnds, Issued, WeChat!Next
  PROVE  Issued'
<1>0. /\ issued \in Nat /\ credentials.token \in Nat /\ mem.token \in Nat
      /\ poller.asked.token \in Nat /\ sender.asked.token \in Nat
      /\ poller \in Poller /\ sender \in Sender
  BY TokensTyped
<1>1. WeChat!NoCredentials.token = 0
  BY RestingTyped
<1>2. CASE \/ WeChat!MessageArrives \/ WeChat!TokenExpires
           \/ WeChat!Login \/ WeChat!LoginConfirmed \/ WeChat!LoginGivesUp \/ WeChat!Logout \/ WeChat!LogoutRemoves
           \/ WeChat!Start \/ WeChat!Stop \/ WeChat!Exit
  <2>1. /\ [WeChat!Resting EXCEPT !.pc = "poll"].asked.token = 0
        /\ [sender EXCEPT !.pc = "loop"].asked = sender.asked
        /\ WeChat!Resting.asked.token = 0
        /\ [pc |-> "none", asked |-> WeChat!NoCredentials].asked.token = 0
        /\ [token |-> issued + 1, cursor |-> 0].token = issued + 1
    BY <1>0, RestingTyped DEF Poller, Sender
  <2>2. /\ issued' = issued \/ issued' = issued + 1
        /\ credentials'.token \in {credentials.token, 0} \/ credentials'.token = issued'
        /\ mem'.token \in {mem.token, credentials.token, 0}
        /\ poller'.asked.token \in {poller.asked.token, 0} /\ sender'.asked.token \in {sender.asked.token, 0}
    BY <1>1, <1>2, <2>1, OutsideEffect
  <2>3. QED
    BY <1>0, <2>2 DEF Issued
<1>3. CASE WeChat!SenderRuns
  <2>1. \A pc \in {"loop", "unlink", "ended"} : [sender EXCEPT !.pc = pc].asked = sender.asked
    BY <1>0 DEF Sender
  <2>2. [pc |-> "send", asked |-> mem].asked = mem
    OBVIOUS
  <2>3. /\ issued' = issued /\ poller' = poller
        /\ credentials'.token \in {credentials.token, 0} /\ mem'.token \in {mem.token, 0}
        /\ sender'.asked \in {sender.asked, mem}
    BY <1>1, <1>3, <2>1, <2>2, SenderEffect
  <2>4. QED
    BY <1>0, <2>3 DEF Issued
<1>4. CASE WeChat!PollerRuns
  <2>1. WeChat!Updates => WeChat!Moved(mem).token = mem.token
    BY MovedTyped DEF WeChat!Updates
  <2>2. /\ issued' = issued /\ sender' = sender
        /\ credentials'.token \in {credentials.token, 0, mem.token} /\ mem'.token \in {mem.token, 0}
    BY <1>1, <1>4, <2>1, PollerEffect
  <2>3. poller'.asked.token \in {poller.asked.token, mem.token, 0}
    BY <1>1, <1>4, PollerAsked
  <2>4. QED
    BY <1>0, <2>2, <2>3 DEF Issued
<1>5. QED
  BY <1>2, <1>3, <1>4 DEF WeChat!Next

\* No step brings expired credentials back.
LEMMA GoneStep ==
  ASSUME WeChat!TypeOK, BatchEnds, Gone, Issued, WeChat!Next
  PROVE  Gone'
<1>0. /\ issued \in Nat /\ credentials.token \in Nat /\ mem.token \in Nat
      /\ poller.asked.token \in Nat /\ sender.asked.token \in Nat
      /\ poller \in Poller /\ sender \in Sender
  BY TokensTyped
<1>1. 0 \notin removed /\ issued + 1 \notin removed /\ WeChat!NoCredentials.token = 0
  BY <1>0, RestingTyped DEF Gone
<1>2. CASE \/ WeChat!MessageArrives \/ WeChat!TokenExpires
           \/ WeChat!Login \/ WeChat!LoginConfirmed \/ WeChat!LoginGivesUp \/ WeChat!Logout \/ WeChat!LogoutRemoves
           \/ WeChat!Start \/ WeChat!Stop \/ WeChat!Exit
  <2>1. /\ [WeChat!Resting EXCEPT !.pc = "poll"].pc = "poll" /\ [sender EXCEPT !.pc = "loop"].pc = "loop"
        /\ WeChat!Resting.pc = "none" /\ [pc |-> "none", asked |-> WeChat!NoCredentials].pc = "none"
        /\ [token |-> issued + 1, cursor |-> 0].token = issued + 1
    BY <1>0, RestingTyped DEF Poller, Sender
  <2>2. removed' = removed /\ issued' \in {issued, issued + 1}
    BY <1>2, OutsideEffect
  <2>3. /\ credentials'.token \in {credentials.token, 0, issued + 1}
        /\ mem'.token \in {mem.token, credentials.token, 0}
    BY <1>1, <1>2, <2>1, OutsideEffect
  <2>4. \/ UNCHANGED <<mem, live, poller, sender>>
        \/ ~live /\ live' /\ poller'.pc \in {poller.pc, "poll"} /\ sender'.pc \in {sender.pc, "loop"}
        \/ poller'.pc = "none" /\ sender'.pc = "none"
    BY <1>2, <2>1, OutsideEffect
  <2>5. credentials'.token \notin removed' /\ mem'.token \notin removed' /\ removed' \subseteq 1..issued'
    BY <1>0, <1>1, <2>2, <2>3 DEF Gone, ExpiredStayGone, WeChat!ExpiredStayGone
  <2>6. QED
    BY <2>4, <2>5 DEF Gone, ExpiredStayGone, WeChat!ExpiredStayGone
<1>3. CASE WeChat!SenderRuns
  <2>1. \A pc \in {"loop", "unlink", "ended"} : [sender EXCEPT !.pc = pc].pc = pc
    BY <1>0 DEF Sender
  <2>2. [pc |-> "send", asked |-> mem].pc = "send" /\ WeChat!NoCredentials.token = 0
    BY RestingTyped
  <2>3. live /\ live' = live /\ poller' = poller /\ issued' = issued
    BY <1>3, SenderEffect DEF Gone
  <2>4. /\ credentials'.token \in {credentials.token, 0} /\ mem'.token \in {mem.token, 0}
        /\ sender'.pc = "unlink" => mem'.token = 0
        /\ removed' # removed => mem'.token = 0 /\ credentials'.token = 0
        /\ removed' \subseteq removed \cup ({sender.asked.token} \ {0})
    BY <1>3, <2>1, <2>2, SenderEffect DEF Gone
  <2>5. credentials'.token \notin removed' /\ mem'.token \notin removed' /\ removed' \subseteq 1..issued'
    BY <1>0, <1>1, <2>3, <2>4 DEF Gone, ExpiredStayGone, WeChat!ExpiredStayGone, Issued
  <2>6. QED
    BY <2>3, <2>4, <2>5 DEF Gone, ExpiredStayGone, WeChat!ExpiredStayGone
<1>4. CASE WeChat!PollerRuns
  <2>1. live /\ live' = live /\ sender' = sender /\ issued' = issued
    BY <1>4, PollerEffect DEF Gone
  <2>2. /\ credentials'.token \in {credentials.token, 0, mem.token} /\ mem'.token \in {mem.token, 0}
        /\ poller'.pc = "unlink" => mem'.token = 0
        /\ removed' # removed => mem'.token = 0 /\ credentials'.token = 0
        /\ removed' \subseteq removed \cup ({poller.asked.token} \ {0})
    <3>1. WeChat!Updates => WeChat!Moved(mem).token = mem.token
      BY MovedTyped DEF WeChat!Updates
    <3>2. WeChat!PollerUnlinks => mem.token = 0
      BY DEF WeChat!PollerUnlinks, Gone
    <3>3. poller'.pc = "unlink" => mem'.token = 0
      BY <1>1, <1>4, PollerAsked
    <3>4. QED
      BY <1>1, <1>4, <3>1, <3>2, <3>3, PollerEffect
  <2>3. credentials'.token \notin removed' /\ mem'.token \notin removed' /\ removed' \subseteq 1..issued'
    BY <1>0, <1>1, <2>1, <2>2 DEF Gone, ExpiredStayGone, WeChat!ExpiredStayGone, Issued
  <2>4. QED
    BY <2>1, <2>2, <2>3 DEF Gone, ExpiredStayGone, WeChat!ExpiredStayGone
<1>5. QED
  BY <1>2, <1>3, <1>4 DEF WeChat!Next

-----------------------------------------------------------------------------
(* The WeChat controller: the cursor *)

\* A message that was executed is not after a cursor that belongs to its token.
Ran(t, n) == <<t, n>> \in DOMAIN executed /\ executed[<<t, n>>] > 0
Covers(c) == \A n \in WeChat!Numbers : Ran(c.token, n) => n <= c.cursor

\* The messages of a batch that came with a new cursor are covered by every cursor, though they
\* were not executed.
Fresh ==
    /\ poller.batch # {} =>
          poller.asked.token # 0 /\ poller.pc \in {"answered", "unlink", "handle", "typing", "execute", "expired"}
    /\ poller.pc \in {"handle", "typing", "execute"} => poller.batch # {}
    /\ \A n \in poller.batch : ~Ran(poller.asked.token, n)
    /\ poller.pc # "answered" /\ moves => \A n \in poller.batch :
          /\ mem.token = poller.asked.token => n <= mem.cursor
          /\ credentials.token = poller.asked.token => n <= credentials.cursor

\* Every cursor in use covers the messages that ran with its token.
Cursors ==
    /\ AtMostOnce
    /\ \A t \in WeChat!Tokens, n \in WeChat!Numbers : Ran(t, n) => t <= issued
    /\ Covers(credentials) /\ Covers(mem)
    /\ poller.pc \in {"asked", "answered"} => Covers(poller.asked) /\ (mem.token = 0 \/ mem = poller.asked)
    /\ Fresh

\* The batch of an answer that just came.
LEMMA BatchStep ==
  ASSUME WeChat!TypeOK, BatchEnds, WeChat!Next
  PROVE  BatchEnds'
<1>0. poller \in Poller /\ sender \in Sender
  BY TokensTyped
<1>1. CASE WeChat!SenderRuns
  BY <1>1, SenderEffect DEF BatchEnds
<1>2. CASE WeChat!PollerRuns
  <2>1. CASE WeChat!ServiceAnswers
    <3>1. poller.asked.token \in valid /\ poller.pc = "asked"
      BY <2>1 DEF WeChat!ServiceAnswers
    <3>2. poller.asked.cursor \in 0..MaxMessages /\ messages[poller.asked.token] \in 0..MaxMessages
      BY <1>0, <3>1 DEF WeChat!TypeOK, Poller, WeChat!Credentials
    <3> DEFINE batch == {n \in WeChat!Numbers : poller.asked.cursor < n /\ n <= messages[poller.asked.token]}
    <3>3. PollerIs(poller', "answered", poller.asked, batch)
      <4>1. poller' = [poller EXCEPT !.pc = "answered", !.batch = batch]
        BY <2>1, Zenon DEF WeChat!ServiceAnswers, WeChat!Polls
      <4> HIDE DEF batch
      <4>2. QED
        BY <1>0, <4>1 DEF Poller, PollerIs
    <3>4. /\ poller.asked.cursor + Cardinality(batch) <= MaxMessages
          /\ \A n \in batch : n <= poller.asked.cursor + Cardinality(batch)
      BY <3>2, BatchCounted
    <3> HIDE DEF batch
    <3>5. QED
      BY <3>3, <3>4 DEF BatchEnds, PollerIs
  <2>2. CASE ~WeChat!ServiceAnswers
    BY <1>2, <2>2, PollerMoves DEF BatchEnds, PollerIs, PollerRests, PollerGoes
  <2>3. QED
    BY <2>1, <2>2
<1>3. CASE ~WeChat!SenderRuns /\ ~WeChat!PollerRuns
  <2>1. poller' \in {poller, [WeChat!Resting EXCEPT !.pc = "poll"], WeChat!Resting}
    BY <1>3, OutsideEffect DEF WeChat!Next
  <2>2. [WeChat!Resting EXCEPT !.pc = "poll"].pc = "poll" /\ WeChat!Resting.pc = "none"
    BY RestingTyped DEF Poller
  <2>3. QED
    BY <2>1, <2>2 DEF BatchEnds
<1>4. QED
  BY <1>1, <1>2, <1>3

\* Nobody executed a message of no token, or of one that is not issued yet.
LEMMA RanIssued ==
  ASSUME WeChat!TypeOK, Cursors
  PROVE  /\ DOMAIN executed = WeChat!Tokens \X WeChat!Numbers
         /\ \A n : ~Ran(0, n) /\ ~Ran(issued + 1, n)
<1>0. issued \in Nat
  BY TokensTyped
<1>1. DOMAIN executed = WeChat!Tokens \X WeChat!Numbers
  BY DEF WeChat!TypeOK
<1>2. \A t, n : Ran(t, n) => t \in WeChat!Tokens /\ t <= issued
  BY <1>1 DEF Ran, Cursors
<1>3. 0 \notin WeChat!Tokens
  BY DEF WeChat!Tokens
<1>4. QED
  BY <1>0, <1>1, <1>2, <1>3

\* What is left to show of a step that executes nothing.
LEMMA CursorsKept ==
  ASSUME WeChat!TypeOK, Cursors, executed' = executed, issued' \in {issued, issued + 1},
         Covers(credentials'), Covers(mem'),
         poller'.pc \in {"asked", "answered"} => Covers(poller'.asked) /\ (mem'.token = 0 \/ mem' = poller'.asked),
         Fresh'
  PROVE  Cursors'
<1>1. \A t, n : Ran(t, n)' <=> Ran(t, n)
  BY DEF Ran
<1>2. issued \in Nat
  BY TokensTyped
<1>3. \A t \in WeChat!Tokens, n \in WeChat!Numbers : Ran(t, n)' => t <= issued'
  <2>1. \A t \in WeChat!Tokens, n \in WeChat!Numbers : Ran(t, n) => t <= issued /\ t \in Nat
    BY MCAssumption DEF Cursors, WeChat!Tokens, WeChat!WeChatAssumption
  <2>2. QED
    BY <1>1, <1>2, <2>1
<1>4. AtMostOnce'
  BY DEF Cursors, AtMostOnce, WeChat!AtMostOnce
<1>5. QED
  BY <1>1, <1>3, <1>4 DEF Cursors, Covers

\* Steps outside the poller: the credentials change to none, or to those of a new token.
LEMMA CursorsOutside ==
  ASSUME WeChat!TypeOK, Gone, Issued, Cursors,
         \/ WeChat!MessageArrives \/ WeChat!TokenExpires
         \/ WeChat!Login \/ WeChat!LoginConfirmed \/ WeChat!LoginGivesUp \/ WeChat!Logout \/ WeChat!LogoutRemoves
         \/ WeChat!Start \/ WeChat!Stop \/ WeChat!Exit
  PROVE  Cursors'
<1>0. /\ issued \in Nat /\ credentials.token \in Nat /\ mem.token \in Nat
      /\ poller.asked.token \in Nat /\ sender.asked.token \in Nat
      /\ poller \in Poller /\ sender \in Sender
  BY TokensTyped
<1>1. executed' = executed /\ issued' \in {issued, issued + 1}
  BY OutsideEffect
<1>2. \A n : ~Ran(0, n) /\ ~Ran(issued + 1, n)
  BY RanIssued
<1>3. \A t, n : Ran(t, n)' <=> Ran(t, n)
  BY <1>1 DEF Ran
<1>4. issued' \in Nat
  BY <1>0, <1>1
<1>5. poller'.batch = {} \/ moves' = moves
  <2>1. WeChat!Resting.batch = {} /\ [WeChat!Resting EXCEPT !.pc = "poll"].batch = {}
    BY RestingTyped DEF Poller
  <2>2. ~live => poller.batch = {}
    BY DEF Gone, Cursors, Fresh
  <2>3. QED
    BY <2>1, <2>2, OutsideMoves
<1>6. CASE UNCHANGED <<credentials, mem, poller>>
  <2>1. Fresh'
    BY <1>3, <1>5, <1>6 DEF Cursors, Fresh
  <2>2. QED
    BY <1>1, CursorsKept, <1>6, <2>1 DEF Cursors
<1>7. CASE /\ UNCHANGED <<mem, poller>>
           /\ credentials' \in {WeChat!NoCredentials, [token |-> issued + 1, cursor |-> 0]}
  <2>1. credentials'.token = 0 \/ credentials'.token = issued + 1
    BY <1>7, RestingTyped
  <2>2. Covers(credentials')
    BY <1>2, <2>1 DEF Covers
  <2>3. Fresh'
    BY <1>0, <1>3, <1>5, <1>7, <2>1 DEF Cursors, Fresh, Issued
  <2>4. QED
    BY <1>1, CursorsKept, <1>7, <2>2, <2>3 DEF Cursors
<1>8. CASE /\ ~live /\ mem' = credentials /\ credentials' = credentials
           /\ poller' \in {poller, [WeChat!Resting EXCEPT !.pc = "poll"]}
  <2>1. poller.batch = {} /\ poller.pc = "none"
    BY <1>8 DEF Gone, Cursors, Fresh
  <2>2. poller'.batch = {} /\ poller'.pc \in {"none", "poll"}
    BY <1>8, <2>1, RestingTyped DEF Poller
  <2>3. Fresh'
    BY <2>2 DEF Fresh
  <2>4. QED
    BY <1>1, CursorsKept, <1>8, <2>2, <2>3 DEF Cursors
<1>9. CASE mem' = WeChat!NoCredentials /\ credentials' = credentials /\ poller' = WeChat!Resting
  <2>1. poller'.batch = {} /\ poller'.pc = "none"
    BY <1>9, RestingTyped
  <2>2. Fresh'
    BY <2>1 DEF Fresh
  <2>3. Covers(mem')
    BY <1>2, <1>9, RestingTyped DEF Covers
  <2>4. QED
    BY <1>1, CursorsKept, <1>9, <2>1, <2>2, <2>3 DEF Cursors
<1>10. QED
  BY <1>6, <1>7, <1>8, <1>9, OutsideEffect

\* Steps of either goroutine that bring no new messages and execute none.
LEMMA CursorsQuiet ==
  ASSUME WeChat!TypeOK, Cursors, executed' = executed, issued' = issued,
         mem' \in {mem, WeChat!NoCredentials}, credentials' \in {credentials, WeChat!NoCredentials, mem},
         poller'.batch # {} => moves' = moves,
         poller' = poller \/ poller.pc # "answered",
         \/ poller' = poller
         \/ poller'.batch = {} /\ poller'.pc \notin {"handle", "typing", "execute"}
         \/ /\ poller'.asked = poller.asked /\ poller'.batch \subseteq poller.batch
            /\ poller'.batch # {} => poller'.pc \in {"unlink", "handle", "typing", "execute", "expired"}
            /\ poller'.pc \in {"handle", "typing", "execute"} => poller'.batch # {},
         poller'.pc \in {"asked", "answered"} => \/ poller' = poller
                                                 \/ poller'.asked = mem /\ mem' = mem
  PROVE  Cursors'
<1>1. \A n : ~Ran(0, n)
  BY RanIssued
<1>2. \A t, n : Ran(t, n)' <=> Ran(t, n)
  BY DEF Ran
<1>3. Covers(credentials') /\ Covers(mem')
  BY <1>1, RestingTyped DEF Cursors, Covers
<1>4. poller'.pc \in {"asked", "answered"} => Covers(poller'.asked) /\ (mem'.token = 0 \/ mem' = poller'.asked)
  BY RestingTyped DEF Cursors
<1>5. Fresh'
  <2>1. CASE poller' = poller
    BY <1>2, <2>1, RestingTyped DEF Cursors, Fresh
  <2>2. CASE poller'.batch = {} /\ poller'.pc \notin {"handle", "typing", "execute"}
    BY <2>2 DEF Fresh
  <2>3. CASE /\ poller'.asked = poller.asked /\ poller'.batch \subseteq poller.batch
             /\ poller'.batch # {} => poller'.pc \in {"unlink", "handle", "typing", "execute", "expired"}
             /\ poller'.pc \in {"handle", "typing", "execute"} => poller'.batch # {}
             /\ poller.pc # "answered"
    BY <1>2, <2>3, RestingTyped DEF Cursors, Fresh
  <2>4. QED
    BY <2>1, <2>2, <2>3
<1>6. QED
  BY <1>3, <1>4, <1>5, CursorsKept

\* The sender's steps keep the cursors.
LEMMA CursorsSender ==
  ASSUME WeChat!TypeOK, Cursors, WeChat!SenderRuns
  PROVE  Cursors'
BY SenderEffect, CursorsQuiet

\* A new answer: what it brings was not executed, for the cursor it was asked with covers that.
LEMMA CursorsAnswered ==
  ASSUME WeChat!TypeOK, BatchEnds, Cursors, WeChat!ServiceAnswers
  PROVE  Cursors'
<1> DEFINE batch == {n \in WeChat!Numbers : poller.asked.cursor < n /\ n <= messages[poller.asked.token]}
<1>1. PollerIs(poller', "answered", poller.asked, batch)
  <2>1. poller' = [poller EXCEPT !.pc = "answered", !.batch = batch]
    BY Zenon DEF WeChat!ServiceAnswers, WeChat!Polls
  <2> HIDE DEF batch
  <2>2. QED
    BY TokensTyped, <2>1 DEF Poller, PollerIs
<1>2. /\ executed' = executed /\ issued' = issued /\ mem' = mem /\ credentials' = credentials
      /\ poller.pc = "asked" /\ poller.asked.token \in valid
  BY DEF WeChat!ServiceAnswers, WeChat!service, WeChat!history
<1>3. Covers(poller.asked) /\ (mem.token = 0 \/ mem = poller.asked)
  BY <1>2 DEF Cursors
<1>4. poller.asked.token # 0 /\ poller.asked.cursor \in Nat
  <2>1. poller \in Poller /\ valid \subseteq WeChat!Tokens
    BY DEF WeChat!TypeOK, Poller, PollerPoints
  <2>2. 0 \notin WeChat!Tokens /\ 0..MaxMessages \subseteq Nat
    BY MCAssumption DEF WeChat!WeChatAssumption, WeChat!Tokens
  <2>3. QED
    BY <1>2, <2>1, <2>2 DEF Poller, WeChat!Credentials
<1>5. \A n \in batch : ~Ran(poller.asked.token, n)
  <2> SUFFICES ASSUME NEW n \in WeChat!Numbers, poller.asked.cursor < n, Ran(poller.asked.token, n)
               PROVE  FALSE
    OBVIOUS
  <2>1. n <= poller.asked.cursor
    BY <1>3 DEF Covers
  <2>2. n \in Nat
    BY MCAssumption DEF WeChat!Numbers, WeChat!WeChatAssumption
  <2>3. QED
    BY <1>4, <2>1, <2>2
<1> HIDE DEF batch
<1>6. \A t, n : Ran(t, n)' <=> Ran(t, n)
  BY <1>2 DEF Ran
<1>7. Fresh'
  BY <1>1, <1>4, <1>5, <1>6 DEF Fresh, PollerIs
<1>8. QED
  BY <1>1, <1>2, <1>3, <1>7, CursorsKept DEF Cursors, PollerIs

\* The answer is taken: the cursor moves past it before any of it is handled.
LEMMA CursorsUpdated ==
  ASSUME WeChat!TypeOK, BatchEnds, Cursors, WeChat!Updates
  PROVE  Cursors'
<1>0. /\ poller \in Poller /\ mem \in WeChat!Credentials
      /\ poller.asked.cursor \in Nat /\ Cardinality(poller.batch) \in Nat
  <2>1. IsFiniteSet(WeChat!Numbers)
    BY MCAssumption, FS_Interval DEF WeChat!WeChatAssumption, WeChat!Numbers
  <2>2. poller.batch \subseteq WeChat!Numbers /\ poller.asked \in WeChat!Credentials
    BY TokensTyped DEF Poller
  <2>3. QED
    BY <2>1, <2>2, FS_Subset, FS_CardinalityType, TokensTyped, MCAssumption
    DEF WeChat!Credentials, WeChat!WeChatAssumption
<1>1. /\ poller.pc = "answered" /\ executed' = executed /\ issued' = issued
      /\ mem' = WeChat!Moved(mem)
      /\ credentials' \in {credentials, mem'}
  BY DEF WeChat!Updates, WeChat!Saves, WeChat!service, WeChat!history
<1>2. /\ WeChat!Moved(mem).token = mem.token
      /\ WeChat!Moved(mem).cursor = poller.asked.cursor + Cardinality(poller.batch)
  BY <1>1, MovedTyped
<1>3. \/ PollerRests(poller', "poll")
      \/ /\ PollerGoes(poller', "handle") /\ poller.batch # {} /\ mem.token # 0
         /\ credentials' = mem'
  <2>1. ~WeChat!UpdatesUnmoved
    BY Zenon DEF WeChat!Updates, WeChat!UpdatesUnmoved
  <2>2. QED
    BY <1>1, <2>1, PollerMoves DEF WeChat!PollerRuns, WeChat!Poll, WeChat!ServiceAnswers, WeChat!UpdatesFail,
       WeChat!UpdatesExpired, WeChat!PollerUnlinks, WeChat!ExpiredCancels, WeChat!HandleIgnored,
       WeChat!Execute, WeChat!HandleCommand, WeChat!Typing, WeChat!PollerEnds
<1>4. Covers(poller.asked) /\ (mem.token = 0 \/ mem = poller.asked)
  BY <1>1 DEF Cursors
<1>5. Covers(WeChat!Moved(mem))
  <2>1. CASE mem.token = 0
    BY <1>2, <2>1, RanIssued DEF Covers
  <2>2. CASE mem = poller.asked
    <3> SUFFICES ASSUME NEW n \in WeChat!Numbers, Ran(mem.token, n)
                 PROVE  n <= poller.asked.cursor + Cardinality(poller.batch)
      BY <1>2 DEF Covers
    <3>1. n <= poller.asked.cursor /\ n \in Nat
      BY <1>4, <2>2, MCAssumption DEF Covers, WeChat!Numbers, WeChat!WeChatAssumption
    <3>2. QED
      BY <1>0, <3>1
  <2>3. QED
    BY <1>4, <2>1, <2>2
<1>6. Covers(mem') /\ Covers(credentials')
  BY <1>1, <1>5 DEF Cursors
<1>7. \A t, n : Ran(t, n)' <=> Ran(t, n)
  BY <1>1 DEF Ran
<1>8. poller'.pc \in {"poll", "handle"}
  BY <1>3 DEF PollerRests, PollerGoes, PollerIs
<1>9. Fresh'
  <2>1. CASE PollerRests(poller', "poll")
    BY <2>1 DEF PollerRests, PollerIs, Fresh
  <2>2. CASE /\ PollerGoes(poller', "handle") /\ poller.batch # {} /\ mem.token # 0
             /\ credentials' = mem'
    <3>1. \A n \in poller.batch : n <= WeChat!Moved(mem).cursor
      BY <1>1, <1>2 DEF BatchEnds
    <3>2. poller.asked.token # 0 /\ \A n \in poller.batch : ~Ran(poller.asked.token, n)
      BY <2>2 DEF Cursors, Fresh
    <3>3. mem' = WeChat!Moved(mem) /\ credentials' = WeChat!Moved(mem)
      BY <1>1, <2>2
    <3>4. QED
      BY <1>7, <2>2, <3>1, <3>2, <3>3 DEF PollerGoes, PollerIs, Fresh
  <2>3. QED
    BY <1>3, <2>1, <2>2
<1>10. QED
  BY <1>1, <1>6, <1>8, <1>9, CursorsKept

\* The answer is taken and moves no cursor.
LEMMA CursorsUnmoved ==
  ASSUME WeChat!TypeOK, BatchEnds, Cursors, WeChat!UpdatesUnmoved
  PROVE  Cursors'
<1>1. /\ poller.pc = "answered" /\ moves = FALSE /\ executed' = executed /\ issued' = issued
      /\ mem' = mem /\ credentials' = credentials
  <2>1. moves \in BOOLEAN
    BY Zenon DEF WeChat!TypeOK
  <2>2. ~moves
    BY Zenon DEF WeChat!UpdatesUnmoved
  <2>3. QED
    BY <2>1, <2>2 DEF WeChat!UpdatesUnmoved, WeChat!service, WeChat!history
<1>2. PollerRests(poller', "poll") \/ (PollerGoes(poller', "handle") /\ poller.batch # {})
  BY <1>1, PollerMoves DEF WeChat!PollerRuns, WeChat!Poll, WeChat!ServiceAnswers, WeChat!Updates,
     WeChat!UpdatesFail, WeChat!UpdatesExpired, WeChat!PollerUnlinks, WeChat!ExpiredCancels, WeChat!HandleIgnored,
     WeChat!Execute, WeChat!HandleCommand, WeChat!Typing, WeChat!PollerEnds
<1>3. moves' = FALSE
  <2>1. WeChat!Polls(poller')
    BY Zenon DEF WeChat!UpdatesUnmoved, WeChat!Polls
  <2>2. QED
    BY <1>1, <2>1, Zenon DEF WeChat!Polls
<1>4. \A t, n : Ran(t, n)' <=> Ran(t, n)
  BY <1>1 DEF Ran
<1>5. poller'.pc \in {"poll", "handle"}
  BY <1>2 DEF PollerRests, PollerGoes, PollerIs
<1>6. Fresh'
  BY <1>1, <1>2, <1>3, <1>4 DEF Cursors, Fresh, PollerRests, PollerGoes, PollerIs
<1>7. QED
  BY <1>1, <1>5, <1>6, CursorsKept DEF Cursors

\* The first message of a batch that came with a new cursor is executed for the first time.
LEMMA CursorsExecuted ==
  ASSUME WeChat!TypeOK, BatchEnds, Issued, Cursors, WeChat!Execute, moves
  PROVE  Cursors'
<1> DEFINE first == WeChat!First(poller.batch)
           left == poller.batch \ {first}
           m == <<poller.asked.token, first>>
<1>1. /\ poller.pc = "execute" /\ mem' = mem /\ credentials' = credentials /\ issued' = issued
      /\ executed' = [executed EXCEPT ![m] = IF @ < 2 THEN @ + 1 ELSE @]
  BY Zenon DEF WeChat!Execute, WeChat!service
<1>2. /\ poller'.pc \in {"poll", "handle"} /\ poller'.asked = poller.asked /\ poller'.batch = left
      /\ poller'.pc = "handle" => left # {}
  <2>1. poller' = WeChat!Continues(poller)
    BY Zenon DEF WeChat!Execute, WeChat!Polls
  <2>2. QED
    BY <2>1, TokensTyped, RestOfBatch
<1>3. poller.batch # {} /\ poller.asked.token # 0 /\ poller.batch \subseteq WeChat!Numbers
  BY <1>1, TokensTyped DEF Cursors, Fresh, Poller
<1>4. first \in poller.batch /\ poller.asked.token \in WeChat!Tokens
  BY <1>3, FirstOfBatch, TokensTyped DEF Poller, WeChat!Credentials
<1>5. /\ executed \in [WeChat!Tokens \X WeChat!Numbers -> 0..2]
      /\ m \in WeChat!Tokens \X WeChat!Numbers
  BY <1>3, <1>4 DEF WeChat!TypeOK
<1>6. executed[m] = 0
  <2>1. ~Ran(poller.asked.token, first)
    BY <1>4 DEF Cursors, Fresh
  <2>2. ~(executed[m] > 0) /\ executed[m] \in 0..2
    BY <1>5, <2>1 DEF Ran
  <2>3. QED
    BY <2>2
<1> HIDE DEF first
<1>7. /\ DOMAIN executed' = DOMAIN executed /\ DOMAIN executed = WeChat!Tokens \X WeChat!Numbers
      /\ executed'[m] = 1
      /\ \A k \in DOMAIN executed : k # m => executed'[k] = executed[k]
  BY <1>1, <1>5, <1>6
<1>8. \A t, n : Ran(t, n)' => Ran(t, n) \/ (t = poller.asked.token /\ n = first)
  BY <1>7 DEF Ran
<1>9. AtMostOnce'
  BY <1>7 DEF Cursors, AtMostOnce, WeChat!AtMostOnce
<1>10. \A t \in WeChat!Tokens, n \in WeChat!Numbers : Ran(t, n)' => t <= issued'
  BY <1>1, <1>8 DEF Cursors, Issued
<1>11. /\ mem.token = poller.asked.token => first <= mem.cursor
       /\ credentials.token = poller.asked.token => first <= credentials.cursor
  BY <1>1, <1>4 DEF Cursors, Fresh
<1>12. Covers(credentials)' /\ Covers(mem)'
  BY <1>1, <1>8, <1>11 DEF Cursors, Covers
<1>13. Fresh'
  <2>1. \A n \in left : ~Ran(poller.asked.token, n)'
    BY <1>2, <1>8 DEF Cursors, Fresh
  <2>2. \A n \in left : /\ mem.token = poller.asked.token => n <= mem.cursor
                        /\ credentials.token = poller.asked.token => n <= credentials.cursor
    BY <1>1 DEF Cursors, Fresh
  <2>3. left = {} => poller'.pc # "handle"
    BY <1>2
  <2>4. left # {} => poller'.pc = "handle"
    <3>1. poller'.pc = IF left = {} THEN "poll" ELSE "handle"
      BY TokensTyped, RestOfBatch, Zenon DEF WeChat!Execute, WeChat!Polls, first
    <3>2. QED
      BY <3>1
  <2> HIDE DEF left
  <2>5. QED
    BY <1>1, <1>2, <1>3, <2>1, <2>2, <2>3, <2>4 DEF Fresh
<1>14. QED
  BY <1>2, <1>9, <1>10, <1>12, <1>13 DEF Cursors

\* The poller's other steps run nothing and take no cursor back.
LEMMA CursorsPoller ==
  ASSUME WeChat!TypeOK, BatchEnds, Gone, Issued, Cursors, WeChat!PollerRuns,
         ~WeChat!ServiceAnswers, ~WeChat!Updates, ~WeChat!UpdatesUnmoved, ~(WeChat!Execute /\ moves)
  PROVE  Cursors'
<1>1. executed' = executed /\ issued' = issued
  BY PollerEffect
<1>2. mem' \in {mem, WeChat!NoCredentials} /\ credentials' \in {credentials, WeChat!NoCredentials, mem}
  BY PollerEffect
<1>3. poller.pc # "answered"
  BY DEF WeChat!PollerRuns, WeChat!Poll, WeChat!UpdatesFail, WeChat!UpdatesExpired, WeChat!PollerUnlinks,
     WeChat!ExpiredCancels, WeChat!HandleIgnored, WeChat!HandleCommand, WeChat!Typing, WeChat!Execute,
     WeChat!PollerEnds
<1>4. poller.batch # {} => poller.pc \in {"unlink", "handle", "typing", "execute", "expired"}
  BY <1>3 DEF Cursors, Fresh
<1>5. CASE WeChat!Poll
  <2>1. mem' = mem /\ poller.batch = {}
    BY <1>4, <1>5 DEF WeChat!Poll
  <2>2. PollerRests(poller', "wait") \/ PollerIs(poller', "asked", mem, poller.batch)
    BY <1>5, PollerMoves DEF WeChat!Poll, WeChat!ServiceAnswers, WeChat!Updates, WeChat!UpdatesFail,
       WeChat!UpdatesExpired, WeChat!PollerUnlinks, WeChat!ExpiredCancels, WeChat!HandleIgnored,
       WeChat!Execute, WeChat!HandleCommand, WeChat!Typing, WeChat!PollerEnds
  <2>3. QED
    BY <1>1, <1>2, <1>3, <2>1, <2>2, MovesKept, CursorsQuiet DEF PollerRests, PollerIs
<1>6. CASE ~WeChat!Poll
  <2> DEFINE left == poller.batch \ {WeChat!First(poller.batch)}
  <2>1. \/ \E pc \in {"poll", "wait", "ended"} : PollerRests(poller', pc)
        \/ PollerIs(poller', "unlink", poller.asked, {})
        \/ PollerGoes(poller', "expired") /\ poller.pc = "unlink"
        \/ PollerGoes(poller', "handle") /\ poller.batch # {}
        \/ PollerIs(poller', IF left = {} THEN "poll" ELSE "handle", poller.asked, left)
        \/ PollerGoes(poller', "typing") /\ poller.pc = "handle"
        \/ PollerGoes(poller', "execute") /\ poller.pc = "typing"
        \/ PollerIs(poller', "unlink", poller.asked, left)
    BY <1>6, PollerMoves DEF WeChat!PollerUnlinks, WeChat!HandleCommand, WeChat!Typing
  <2>2. poller.pc \in {"handle", "typing", "execute"} => poller.batch # {}
    BY DEF Cursors, Fresh
  <2>3. left \subseteq poller.batch
    OBVIOUS
  <2> HIDE DEF left
  <2>4. \/ poller'.batch = {} /\ poller'.pc \notin {"handle", "typing", "execute"}
        \/ /\ poller'.asked = poller.asked /\ poller'.batch \subseteq poller.batch
           /\ poller'.batch # {} => poller'.pc \in {"unlink", "handle", "typing", "execute", "expired"}
           /\ poller'.pc \in {"handle", "typing", "execute"} => poller'.batch # {}
    BY <2>1, <2>2, <2>3 DEF PollerRests, PollerGoes, PollerIs
  <2>5. poller'.pc \notin {"asked", "answered"}
    BY <2>1 DEF PollerRests, PollerGoes, PollerIs
  <2>6. QED
    BY <1>1, <1>2, <1>3, <2>4, <2>5, MovesKept, CursorsQuiet
<1>7. QED
  BY <1>5, <1>6

\* Every step of WeChat keeps the cursors.
LEMMA CursorsStep ==
  ASSUME WeChat!TypeOK, BatchEnds, Gone, Issued, Cursors, WeChat!Next
  PROVE  Cursors'
BY CursorsPoller, CursorsAnswered, CursorsUpdated, CursorsUnmoved, CursorsExecuted, CursorsSender, CursorsOutside
DEF WeChat!Next, WeChat!PollerRuns

\* The inductive invariant of the WeChat controller.
LEMMA WeChatInvariant == WeChat!Spec => [](WeChat!TypeOK /\ BatchEnds /\ Issued /\ Gone /\ Cursors)
<1> DEFINE Inv == WeChat!TypeOK /\ BatchEnds /\ Issued /\ Gone /\ Cursors
<1>1. WeChat!Init => Inv
  <2> SUFFICES ASSUME WeChat!Init PROVE Inv
    OBVIOUS
  <2>1. /\ credentials = WeChat!NoCredentials /\ mem = WeChat!NoCredentials /\ issued = 0 /\ moves = FALSE
        /\ poller = WeChat!Resting /\ sender = [pc |-> "none", asked |-> WeChat!NoCredentials]
        /\ executed = [m \in WeChat!Tokens \X WeChat!Numbers |-> 0] /\ removed = {}
    BY DEF WeChat!Init
  <2>2. WeChat!TypeOK
    <3>1. credentials \in WeChat!Credentials /\ mem \in WeChat!Credentials
      BY <2>1, RestingTyped
    <3>2. poller \in Poller /\ sender \in Sender
      BY <2>1, RestingTyped DEF Sender
    <3>3. issued \in WeChat!Tokens \cup {0} /\ valid \subseteq WeChat!Tokens
          /\ messages \in [WeChat!Tokens -> 0..MaxMessages] /\ out \in 0..OutLimit
          /\ cli \in {"idle", "login", "logout"} /\ removed \subseteq WeChat!Tokens
          /\ executed \in [WeChat!Tokens \X WeChat!Numbers -> 0..2]
      BY MCAssumption DEF WeChat!Init, WeChat!WeChatAssumption
    <3>4. live \in BOOLEAN /\ cancelled \in BOOLEAN /\ moves \in BOOLEAN
      BY Zenon DEF WeChat!Init
    <3>5. QED
      BY <3>1, <3>2, <3>3, <3>4 DEF WeChat!TypeOK, Poller, PollerPoints, Sender
  <2>3. BatchEnds
    BY <2>1, RestingTyped DEF BatchEnds
  <2>4. Issued
    BY <2>1, RestingTyped DEF Issued
  <2>5. Gone
    BY <2>1, RestingTyped DEF Gone, ExpiredStayGone, WeChat!ExpiredStayGone
  <2>6. \A t, n : ~Ran(t, n)
    BY <2>1 DEF Ran
  <2>7. Cursors
    BY <2>1, <2>6, RestingTyped DEF Cursors, Covers, Fresh, AtMostOnce, WeChat!AtMostOnce
  <2>8. QED
    BY <2>2, <2>3, <2>4, <2>5, <2>7
<1>2. Inv /\ [WeChat!Next]_WeChat!vars => Inv'
  <2>1. ASSUME Inv, WeChat!Next PROVE Inv'
    BY <2>1, WeChatTypesStep, BatchStep, IssuedStep, GoneStep, CursorsStep
  <2>2. ASSUME Inv, UNCHANGED WeChat!vars PROVE Inv'
    <3>1. UNCHANGED <<credentials, mem, issued, valid, messages, live, cancelled, poller, sender, moves,
                      out, cli, executed, removed>>
      BY <2>2 DEF WeChat!vars
    <3>2. WeChat!TypeOK'
      BY <2>2, <3>1 DEF WeChat!TypeOK
    <3>3. BatchEnds' /\ Issued' /\ Gone'
      BY <2>2, <3>1 DEF BatchEnds, Issued, Gone, ExpiredStayGone, WeChat!ExpiredStayGone
    <3>4. Cursors'
      BY <2>2, <3>1 DEF Cursors, Covers, Ran, Fresh, AtMostOnce, WeChat!AtMostOnce
    <3>5. QED
      BY <3>2, <3>3, <3>4
  <2>3. QED
    BY <2>1, <2>2
<1>3. QED
  BY <1>1, <1>2, PTL DEF WeChat!Spec

\* Type correctness of the WeChat controller (wechat.go).
THEOREM WeChatTypes == WeChat!Spec => []WeChat!TypeOK
BY WeChatInvariant, PTL

\* wechat.go:300: of the answers with a new cursor a message is executed at most once, whatever restarts, failed saves and
\* logins come between: before the first of a batch is executed the cursors of that token, in
\* memory and on disk, are past all of the batch.
THEOREM ExecutedOnce == WeChat!Spec => []AtMostOnce
<1>1. Cursors => AtMostOnce
  BY DEF Cursors
<1>2. QED
  BY <1>1, WeChatInvariant, PTL

\* wechat.go:390: credentials that were removed because the service called them expired are not
\* written again by a cursor or a context token that was on its way.
THEOREM RemovedForGood == WeChat!Spec => []ExpiredStayGone
<1>1. Gone => ExpiredStayGone
  BY DEF Gone
<1>2. QED
  BY <1>1, WeChatInvariant, PTL
=============================================================================
