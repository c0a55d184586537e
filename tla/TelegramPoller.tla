--------------------------- MODULE TelegramPoller ---------------------------
(***************************************************************************)
(* The processes that want to poll one Telegram bot (telegram.go): each    *)
(* loads the saved offset, takes the lock file of the bot, then asks for   *)
(* updates, handles each and saves the offset after it.  The Bot API       *)
(* (external) forgets the updates below an offset that it is asked with.   *)
(* Every file operation of the lock is a step of its own.                  *)
(***************************************************************************)
EXTENDS Naturals, FiniteSets

CONSTANTS
    MaxProcesses,   \* bound: processes started, one after the other
    MaxUpdates,     \* bound: updates of the bot
    MaxFailures,    \* bound: requests that fail
    MaxAttempts     \* attempts to take the lock

ASSUME PollerAssumption ==
    MaxProcesses \in Nat /\ MaxUpdates \in Nat /\ MaxFailures \in Nat /\ MaxAttempts \in Nat \ {0}

VARIABLES
    arrived,        \* the last update that the Bot API received
    forgotten,      \* updates below this offset are forgotten by the Bot API
    failures,
    file,           \* the offset file
    lock,           \* the lock file
    proc,           \* the processes
    handled,        \* history: updates whose handler ran to its end
    contended       \* history: two processes were acquiring at the same time

vars == <<arrived, forgotten, failures, file, lock, proc, handled, contended>>

Processes == 1..MaxProcesses
Updates == 1..MaxUpdates
Offsets == 1..(MaxUpdates + 1)
NoLock == [by |-> 0, written |-> FALSE]
NotStarted == [pc |-> "new", offset |-> 1, batch |-> {}, attempt |-> 0, cancelled |-> FALSE]

TypeOK ==
    /\ arrived \in 0..MaxUpdates /\ forgotten \in Offsets /\ file \in Offsets
    /\ failures \in 0..MaxFailures
    /\ lock \in [by : Processes \cup {0}, written : BOOLEAN]
    /\ proc \in [Processes ->
            [pc : {"new", "loaded", "create", "write", "read", "remove", "poll", "handle",
                   "save", "release", "unlink", "ended", "dead"},
             offset : Offsets, batch : SUBSET Updates, attempt : 0..MaxAttempts,
             cancelled : BOOLEAN]]
    /\ handled \subseteq Updates /\ contended \in BOOLEAN

Init ==
    /\ arrived = 0 /\ forgotten = 1 /\ failures = 0 /\ file = 1 /\ lock = NoLock
    /\ proc = [p \in Processes |-> NotStarted]
    /\ handled = {} /\ contended = FALSE

Goes(p, r) == proc' = [proc EXCEPT ![p] = r]
Max2(a, b) == IF a > b THEN a ELSE b
service == <<arrived, forgotten, failures>>

Acquiring(p) == proc[p].pc \in {"create", "write", "read", "remove"}
Polling(p) == proc[p].pc \in {"poll", "handle", "save"}
Holds(p) == Polling(p) \/ proc[p].pc \in {"release", "unlink"}
Exists(p) == proc[p].pc \notin {"new", "dead"}

Arrive ==
    /\ arrived < MaxUpdates /\ arrived' = arrived + 1
    /\ UNCHANGED <<forgotten, failures, file, lock, proc, handled, contended>>

-----------------------------------------------------------------------------
(* The start of a process and its lock *)

\* newTelegramController loads the offset before the lock is taken.
Load(p) ==
    /\ proc[p].pc = "new" /\ \A q \in Processes : q < p => proc[q].pc # "new"
    /\ Goes(p, [NotStarted EXCEPT !.pc = "loaded", !.offset = file])
    /\ UNCHANGED <<service, file, lock, handled, contended>>

BeginAcquire(p) ==
    /\ proc[p].pc = "loaded"
    /\ Goes(p, [proc[p] EXCEPT !.pc = "create"])
    /\ contended' = (contended \/ \E q \in Processes : Acquiring(q))
    /\ UNCHANGED <<service, file, lock, handled>>

CreateLock(p) ==
    /\ proc[p].pc = "create"
    /\ IF lock = NoLock
       THEN lock' = [by |-> p, written |-> FALSE] /\ Goes(p, [proc[p] EXCEPT !.pc = "write"])
       ELSE UNCHANGED lock /\ Goes(p, [proc[p] EXCEPT !.pc = "read"])
    /\ UNCHANGED <<service, file, handled, contended>>

\* The value goes to the file that was created, which may be gone by now.
WriteLock(p) ==
    /\ proc[p].pc = "write"
    /\ lock' = IF lock.by = p THEN [lock EXCEPT !.written = TRUE] ELSE lock
    /\ Goes(p, [proc[p] EXCEPT !.pc = "poll"])
    /\ UNCHANGED <<service, file, handled, contended>>

\* WriteString or Close fails: whatever file has the name is removed.
WriteLockFails(p) ==
    /\ proc[p].pc = "write"
    /\ lock' = NoLock
    /\ Goes(p, [proc[p] EXCEPT !.pc = "ended"])
    /\ UNCHANGED <<service, file, handled, contended>>

\* Mutant: the process that the lock names is not looked for.
ReadLockUnchecked(p) ==
    /\ proc[p].pc = "read"
    /\ Goes(p, [proc[p] EXCEPT !.pc = "remove"])
    /\ UNCHANGED <<service, file, lock, handled, contended>>

\* An empty or a missing file names no process.
ReadLock(p) ==
    /\ proc[p].pc = "read"
    /\ Goes(p, [proc[p] EXCEPT !.pc =
            IF lock.written /\ Exists(lock.by) THEN "ended" ELSE "remove"])
    /\ UNCHANGED <<service, file, lock, handled, contended>>

RemoveLock(p) ==
    /\ proc[p].pc = "remove"
    /\ lock' = NoLock
    /\ Goes(p, [proc[p] EXCEPT !.attempt = @ + 1,
            !.pc = IF proc[p].attempt + 1 < MaxAttempts THEN "create" ELSE "ended"])
    /\ UNCHANGED <<service, file, handled, contended>>

-----------------------------------------------------------------------------
(* Run *)

\* GetUpdates: the API forgets what is below the offset, and answers the rest.
Ask(p) ==
    LET r == proc[p]
        left == {u \in Updates : r.offset <= u /\ forgotten <= u /\ u <= arrived}
    IN  /\ r.pc = "poll" /\ ~r.cancelled
        /\ forgotten' = Max2(forgotten, r.offset)
        /\ Goes(p, [r EXCEPT !.batch = left, !.pc = IF left = {} THEN "poll" ELSE "handle"])
        /\ UNCHANGED <<arrived, failures, file, lock, handled, contended>>

\* Mutant: an error that is not retryable ends the controller.
AskFailsForGood(p) ==
    /\ proc[p].pc = "poll" /\ ~proc[p].cancelled
    /\ failures < MaxFailures /\ failures' = failures + 1
    /\ forgotten' \in {forgotten, Max2(forgotten, proc[p].offset)}
    /\ Goes(p, [proc[p] EXCEPT !.pc = "release"])
    /\ UNCHANGED <<arrived, file, lock, handled, contended>>

\* The request fails, before or after the API took it.  Run waits and asks
\* again; after an error that is not retryable the controller runs it again.
AskFails(p) ==
    /\ proc[p].pc = "poll" /\ ~proc[p].cancelled
    /\ failures < MaxFailures /\ failures' = failures + 1
    /\ forgotten' \in {forgotten, Max2(forgotten, proc[p].offset)}
    /\ UNCHANGED <<arrived, file, lock, proc, handled, contended>>

Next1(batch) == CHOOSE u \in batch : \A v \in batch : u <= v
AfterBatch(batch) == IF batch = {} THEN "poll" ELSE "handle"

\* Mutant: an update that a shutdown cut short is committed.
HandleCommitsAlways(p) ==
    LET r == proc[p]
        u == Next1(r.batch)
    IN  /\ r.pc = "handle"
        /\ handled' = IF r.cancelled THEN handled ELSE handled \cup {u}
        /\ Goes(p, [r EXCEPT !.offset = u + 1, !.pc = "save", !.batch = @ \ {u}])
        /\ UNCHANGED <<service, file, lock, contended>>

\* beginUpdate, the handler, finishUpdate: the offset moves unless the context
\* was cancelled while the handler ran; then Run returns.
Handle(p) ==
    LET r == proc[p]
        u == Next1(r.batch)
    IN  /\ r.pc = "handle"
        /\ IF r.cancelled
           THEN UNCHANGED handled /\ Goes(p, [r EXCEPT !.pc = "release", !.batch = {}])
           ELSE /\ handled' = handled \cup {u}
                /\ Goes(p, [r EXCEPT !.offset = u + 1, !.pc = "save", !.batch = @ \ {u}])
        /\ UNCHANGED <<service, file, lock, contended>>

\* onCommit: the offset is saved, or an error is logged.
SaveOffset(p) ==
    LET r == proc[p]
    IN  /\ r.pc = "save"
        /\ file' \in {file, r.offset}
        /\ Goes(p, IF r.cancelled THEN [r EXCEPT !.pc = "release", !.batch = {}]
                   ELSE [r EXCEPT !.pc = AfterBatch(r.batch)])
        /\ UNCHANGED <<service, lock, handled, contended>>

-----------------------------------------------------------------------------
(* The end of a process *)

Stop(p) ==
    /\ Polling(p) /\ ~proc[p].cancelled
    /\ Goes(p, [proc[p] EXCEPT !.cancelled = TRUE])
    /\ UNCHANGED <<service, file, lock, handled, contended>>

RunEnds(p) ==
    /\ proc[p].pc = "poll" /\ proc[p].cancelled
    /\ Goes(p, [proc[p] EXCEPT !.pc = "release"])
    /\ UNCHANGED <<service, file, lock, handled, contended>>

\* Release: only the lock with the own value is removed.
Release(p) ==
    /\ proc[p].pc = "release"
    /\ Goes(p, [proc[p] EXCEPT !.pc =
            IF lock = [by |-> p, written |-> TRUE] THEN "unlink" ELSE "ended"])
    /\ UNCHANGED <<service, file, lock, handled, contended>>

Unlink(p) ==
    /\ proc[p].pc = "unlink"
    /\ lock' = NoLock
    /\ Goes(p, [proc[p] EXCEPT !.pc = "ended"])
    /\ UNCHANGED <<service, file, handled, contended>>

Crash(p) ==
    /\ Exists(p) /\ proc[p].pc # "ended"
    /\ Goes(p, [NotStarted EXCEPT !.pc = "dead"])
    /\ UNCHANGED <<service, file, lock, handled, contended>>

-----------------------------------------------------------------------------
Run(p) == Ask(p) \/ Handle(p) \/ SaveOffset(p) \/ RunEnds(p)
Acquire(p) ==
    \/ BeginAcquire(p) \/ CreateLock(p) \/ WriteLock(p) \/ WriteLockFails(p)
    \/ ReadLock(p) \/ RemoveLock(p)

Next ==
    \/ Arrive
    \/ \E p \in Processes :
        \/ Load(p) \/ Acquire(p) \/ Run(p) \/ AskFails(p)
        \/ Stop(p) \/ Release(p) \/ Unlink(p) \/ Crash(p)

Spec == Init /\ [][Next]_vars

\* A poller runs on: a long poll is answered or fails, a handler ends.
Fairness == \A p \in Processes : WF_vars(Run(p))
FairSpec == Spec /\ Fairness

-----------------------------------------------------------------------------
\* No update is lost: the Bot API has forgotten only updates whose handler ran
\* to its end, in this process or in an earlier one, whatever crashes, is cut
\* short or is not saved (telegram.go:651).
NothingForgotten == \A u \in Updates : u < forgotten => u \in handled

\* Two processes poll the bot only if they acquired the lock at the same time:
\* nobody takes the lock of a live process, or leaves it to two, otherwise
\* (telegram.go:61).
PollsAlone == Cardinality({p \in Processes : Holds(p)}) > 1 => contended

\* What the manual says of the lock (docs/user-manual.md:675).
OnePoller == Cardinality({p \in Processes : Polling(p)}) <= 1

\* A poller that is not stopped handles every update (telegram.go:629).
Unhandled ==
    /\ \E p \in Processes : Holds(p) /\ ~proc[p].cancelled
    /\ \E u \in 1..arrived : u \notin handled
UpdatesHandled == Unhandled ~> ~Unhandled
=============================================================================
