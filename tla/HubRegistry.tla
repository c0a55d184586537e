---------------------------- MODULE HubRegistry ----------------------------
(***************************************************************************)
(* The Telegram hub's registry (telegram_hub.go): sessions by alias, each  *)
(* user's selection, the subscriptions of a chat, and the queue of every   *)
(* session's commands.  Registrations come over HTTP, each in a goroutine  *)
(* of its own; commands come from the one poller.  Whoever changes the     *)
(* registry saves it before answering; the hub may stop, or crash, and     *)
(* start again from telegram-hub.json.                                     *)
(***************************************************************************)
EXTENDS Naturals, FiniteSets

CONSTANTS
    Aliases, Workspaces, Actors,
    Handlers,       \* goroutines of the hub's control server
    NoOne,          \* no workspace, no alias, no goroutine
    QueueLimit,     \* telegramHubCommandLimit
    MaxOps          \* bound: changes and commands

ASSUME HubAssumption ==
    /\ NoOne \notin Aliases \cup Workspaces \cup Handlers \cup {"chat", "main"}
    /\ QueueLimit \in Nat /\ MaxOps \in Nat

VARIABLES
    phase,          \* state.Phase; "down" when no hub runs
    mem,            \* the registry in memory
    disk,           \* telegram-hub.json
    saver,          \* the holder of persistMu
    proc,           \* the goroutines that change the registry
    queue,          \* commands in the channel of a session's worker
    worker,         \* sessionCommandWorker
    acked,          \* history: registrations that were answered and stand
    ops

vars == <<phase, mem, disk, saver, proc, queue, worker, acked, ops>>

Procs == Handlers \cup {"chat", "main"}
Up == phase # "down"
NoRegistry ==
    [sessions |-> [a \in Aliases |-> NoOne],
     selections |-> [x \in Actors |-> NoOne],
     watch |-> [all |-> TRUE, aliases |-> {}, excluded |-> {}]]
Idle == [pc |-> "idle", alias |-> NoOne, snap |-> NoRegistry, request |-> "none"]

Registries ==
    [sessions : [Aliases -> Workspaces \cup {NoOne}],
     selections : [Actors -> Aliases \cup {NoOne}],
     watch : [all : BOOLEAN, aliases : SUBSET Aliases, excluded : SUBSET Aliases]]

TypeOK ==
    /\ phase \in {"down", "running", "stopping"}
    /\ mem \in Registries /\ disk \in Registries
    /\ saver \in Procs \cup {NoOne}
    /\ proc \in [Procs -> [pc : {"idle", "persist", "write", "enqueue", "wait", "exit"},
                           alias : Aliases \cup {NoOne}, snap : Registries,
                           request : {"none", "register", "undone", "command", "stop", "exit"}]]
    /\ queue \in [Aliases -> 0..QueueLimit]
    /\ worker \in [Aliases -> {"none", "idle", "busy"}]
    /\ acked \subseteq Aliases \X Workspaces
    /\ ops \in 0..MaxOps

Init ==
    /\ phase = "running" /\ mem = NoRegistry /\ disk = NoRegistry
    /\ saver = NoOne /\ proc = [p \in Procs |-> Idle]
    /\ queue = [a \in Aliases |-> 0] /\ worker = [a \in Aliases |-> "none"]
    /\ acked = {} /\ ops = 0

Registered(r) == {a \in Aliases : r.sessions[a] # NoOne}
workVars == <<queue, worker>>

\* A goroutine of the hub begins with a change of the registry; the hub may be stopping.
ToEnqueue(alias) == [Idle EXCEPT !.pc = "enqueue", !.alias = alias]
Persisting(alias, request) ==
    [Idle EXCEPT !.pc = "persist", !.alias = alias, !.request = request]
Begins(p, changed) ==
    /\ Up /\ proc[p].pc = "idle"
    /\ ops < MaxOps /\ ops' = ops + 1
    /\ mem' = changed
    /\ UNCHANGED <<phase, disk, saver, workVars>>

-----------------------------------------------------------------------------
(* Registrations *)

\* registerSessionWithPhase: one alias per workspace and one workspace per alias,
\* and none while the hub stops.
Register(h) == phase = "running" /\
    \E a \in Aliases, w \in Workspaces :
        /\ mem.sessions[a] \in {NoOne, w}
        /\ \A b \in Aliases \ {a} : mem.sessions[b] # w
        /\ Begins(h, [mem EXCEPT !.sessions[a] = w])
        /\ proc' = [proc EXCEPT ![h] = Persisting(a, "register")]
        /\ UNCHANGED acked

\* Mutant: the selections of a removed session stay.
WithoutSession(r, a) == [r EXCEPT !.sessions[a] = NoOne, !.watch.aliases = @ \ {a},
                                  !.watch.excluded = @ \ {a}]

\* What unregisterSession removes with a session.
Without(r, a) ==
    [sessions |-> [r.sessions EXCEPT ![a] = NoOne],
     selections |-> [x \in Actors |-> IF r.selections[x] = a THEN NoOne ELSE r.selections[x]],
     watch |-> [r.watch EXCEPT !.aliases = @ \ {a}, !.excluded = @ \ {a}]]

Unregister(h) ==
    \E a \in Registered(mem) :
        /\ Begins(h, Without(mem, a))
        /\ proc' = [p \in Procs |->
                CASE p = h -> Persisting(a, "none")
                  [] proc[p].request = "register" /\ proc[p].alias = a ->
                        [proc[p] EXCEPT !.request = "undone"]
                  [] OTHER -> proc[p]]
        /\ acked' = {r \in acked : r[1] # a}

-----------------------------------------------------------------------------
(* The commands that the hub handles itself *)

UseSession(x) ==
    \E a \in Registered(mem) :
        /\ Begins("chat", [mem EXCEPT !.selections[x] = a])
        /\ proc' = [proc EXCEPT !["chat"] = Persisting(a, "none")]
        /\ UNCHANGED acked

\* /watch and /unwatch, for all sessions or for some that are named.
Watch(all, aliases, excluded) == [all |-> all, aliases |-> aliases, excluded |-> excluded]
NewWatches(names) ==
    IF names = {} THEN {Watch(TRUE, {}, {}), Watch(FALSE, {}, {})}
    ELSE {Watch(FALSE, names, {}),
          IF mem.watch.all THEN [mem.watch EXCEPT !.excluded = @ \cup names]
          ELSE [mem.watch EXCEPT !.aliases = @ \ names]}

UpdateWatch ==
    \E names \in SUBSET Registered(mem) :
        /\ \E watch \in NewWatches(names) : Begins("chat", [mem EXCEPT !.watch = watch])
        /\ proc' = [proc EXCEPT !["chat"] = Persisting(NoOne, "none")]
        /\ UNCHANGED acked

-----------------------------------------------------------------------------
(* persist *)

\* Mutant: the registry is copied before persistMu is taken.
TakeCopyUnlocked(p) ==
    /\ Up /\ proc[p].pc = "persist"
    /\ saver' = p
    /\ proc' = [proc EXCEPT ![p].pc = "write", ![p].snap = mem]
    /\ UNCHANGED <<phase, mem, disk, workVars, acked, ops>>

TakeCopy(p) ==
    /\ Up /\ proc[p].pc = "persist" /\ saver = NoOne
    /\ saver' = p
    /\ proc' = [proc EXCEPT ![p].pc = "write", ![p].snap = mem]
    /\ UNCHANGED <<phase, mem, disk, workVars, acked, ops>>

\* The answer of a registration tells whether the file was written; a command
\* goes on in either case, and so does main.
Write(p) ==
    /\ Up /\ proc[p].pc = "write"
    /\ saver' = NoOne
    /\ \E written \in BOOLEAN :
        /\ disk' = IF written THEN proc[p].snap ELSE disk
        /\ acked' = IF written /\ proc[p].request = "register"
                    THEN acked \cup {<<proc[p].alias, mem.sessions[proc[p].alias]>>}
                    ELSE acked
    /\ proc' = [proc EXCEPT ![p] =
                    CASE @.request = "stop" -> [Idle EXCEPT !.pc = "wait"]
                      [] @.request = "exit" -> [Idle EXCEPT !.pc = "exit"]
                      [] @.request = "command" -> ToEnqueue(@.alias)
                      [] OTHER -> Idle]
    /\ UNCHANGED <<phase, mem, workVars, ops>>

-----------------------------------------------------------------------------
(* Commands for a session *)

\* The selected session, or the one that /at names; an actor without a valid
\* selection gets the only session (selectedSession).
Command(x) ==
    \/ \E a \in Registered(mem) :
        /\ Begins("chat", mem)
        /\ proc' = [proc EXCEPT !["chat"] = ToEnqueue(a)]
        /\ UNCHANGED acked
    \/ \E a \in Aliases :
        /\ mem.selections[x] \notin Registered(mem) /\ Registered(mem) = {a}
        /\ Begins("chat", [mem EXCEPT !.selections[x] = a])
        /\ proc' = [proc EXCEPT !["chat"] = Persisting(a, "command")]
        /\ UNCHANGED acked

\* enqueueSessionCommand: a full queue refuses the command.
Enqueue ==
    LET a == proc["chat"].alias
        fits == a \in Registered(mem) /\ queue[a] < QueueLimit
    IN  /\ Up /\ proc["chat"].pc = "enqueue"
        /\ queue' = IF fits THEN [queue EXCEPT ![a] = @ + 1] ELSE queue
        /\ worker' = IF a \in Registered(mem) /\ worker[a] = "none"
                     THEN [worker EXCEPT ![a] = "idle"] ELSE worker
        /\ proc' = [proc EXCEPT !["chat"] = Idle]
        /\ UNCHANGED <<phase, mem, disk, saver, acked, ops>>

WorkerTakes(a) ==
    /\ Up /\ worker[a] = "idle" /\ queue[a] > 0
    /\ queue' = [queue EXCEPT ![a] = @ - 1]
    /\ worker' = [worker EXCEPT ![a] = "busy"]
    /\ UNCHANGED <<phase, mem, disk, saver, proc, acked, ops>>

\* executeSessionCommand ends, one way or the other, and the reply is queued.
WorkerReplies(a) ==
    /\ Up /\ worker[a] = "busy"
    /\ worker' = [worker EXCEPT ![a] = "idle"]
    /\ UNCHANGED <<phase, mem, disk, saver, proc, queue, acked, ops>>

-----------------------------------------------------------------------------
(* The end of the hub *)

\* /stop or a signal.
StopRequested ==
    /\ phase = "running" /\ phase' = "stopping"
    /\ proc' = [proc EXCEPT !["main"] = Persisting(NoOne, "stop")]
    /\ UNCHANGED <<mem, disk, saver, workVars, acked, ops>>

\* wg.Wait: the workers end; what is still queued is lost.
WorkersEnd ==
    /\ proc["main"].pc = "wait" /\ \A a \in Aliases : worker[a] # "busy"
    /\ worker' = [a \in Aliases |-> "none"] /\ queue' = [a \in Aliases |-> 0]
    /\ proc' = [proc EXCEPT !["main"] = Persisting(NoOne, "exit")]
    /\ UNCHANGED <<phase, mem, disk, saver, acked, ops>>

Down ==
    /\ phase' = "down" /\ saver' = NoOne
    /\ proc' = [p \in Procs |-> Idle]
    /\ queue' = [a \in Aliases |-> 0] /\ worker' = [a \in Aliases |-> "none"]
    /\ UNCHANGED <<mem, disk, acked, ops>>

Exits == proc["main"].pc = "exit" /\ Down
Crashes == Up /\ Down

Starts ==
    /\ phase = "down" /\ phase' = "running"
    /\ mem' = disk
    /\ UNCHANGED <<disk, saver, proc, workVars, acked, ops>>

-----------------------------------------------------------------------------
Next ==
    \/ \E h \in Handlers : Register(h) \/ Unregister(h)
    \/ \E x \in Actors : UseSession(x) \/ Command(x)
    \/ UpdateWatch \/ Enqueue
    \/ \E p \in Procs : TakeCopy(p) \/ Write(p)
    \/ \E a \in Aliases : WorkerTakes(a) \/ WorkerReplies(a)
    \/ StopRequested \/ WorkersEnd \/ Exits \/ Crashes \/ Starts

Spec == Init /\ [][Next]_vars

-----------------------------------------------------------------------------
\* A registration that was answered with success is in the file that the next
\* hub starts from, whatever else is saved at the same time (telegram_hub.go:429).
AckedIsDurable == \A r \in acked : disk.sessions[r[1]] = r[2]

\* In memory and on disk: a workspace has one alias, and selections and
\* subscriptions name registered sessions only (telegram_hub.go:648).
Consistent(r) ==
    /\ \A a, b \in Registered(r) : r.sessions[a] = r.sessions[b] => a = b
    /\ \A x \in Actors : r.selections[x] \in Registered(r) \cup {NoOne}
    /\ r.watch.aliases \cup r.watch.excluded \subseteq Registered(r)
RegistryConsistent == Consistent(mem) /\ Consistent(disk)
=============================================================================
