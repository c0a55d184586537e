# codexdog: a TLA+ model of the watchdog for Codex

codexdog runs `codex app-server`, puts a proxy between it and the Codex TUI, and
keeps an eye on the turns of the one thread the user works in. When a turn fails
because the model provider is down it waits until the provider answers again and
continues the turn. It retries turns that the cyber policy refused, interrupts and
continues turns that fall silent, and reconciles turns that announced an error and
never ended. Telegram, WeChat and a local HTTP server give commands to it.

All paths below are relative to the repository's root.

## 1. Inventory

| Component | Source | State | Operations | Talks to |
|---|---|---|---|---|
| Supervisor | `supervisor.go`, `failure.go` | struct `supervisor` under `mu`: persisted state (phase, active turn, counters, pause), `recoveryCancel`, `pendingRecovery`, flags, `pendingTerminalErrors`, `turnTerminalWaiters`, `handledTurns` | `eventLoop` and its handlers, `runRecovery`, `recoverCyberPolicy`, `confirmAndRecoverStall`, `reconcilePendingTerminalError`, `interruptPausedTurn`, `shutdown` | proxy (requests), proxy's event channel, watchdog, probe, health, store |
| Remote commands | `remote_control.go` | `remoteMu`: one command at a time | `/pause`, `/resume`, `/prompt`, `/goal`, `startContinuation` | supervisor's `mu`, proxy |
| Stall watchdog | `watchdog.go` | active turn, time of its last activity, blocking items and hooks, reasons to wait, suspicion, recovery | `StartTurn`, `CompleteTurn`, `Observe`, `Evaluate`, `CancelRecovery`, `SetWaitingFlags` | event loop, stall goroutine and a ticker |
| TUI proxy | `proxy.go` | bridges, the primary bridge, pending requests | `request`, forward in order, `removeBridge` | TUI, app-server, supervisor |
| JSON-RPC client | `jsonrpc.go`, `protocol.go` | pending requests by id, closed flag | `request`, `readLoop`, `rejectPending` | probe, subcommands |
| Provider probe | `probe.go` | its own app-server, waiters, completions, status failures in a row | `probe`, `waitForCompletion`, the gate on the status page | recovery goroutine |
| Health checks | `health.go` | none | `check` with its any/all policies | probe |
| Control server, notification broker | `control.go` | 256 notifications, their sequence number | `Publish`, `Wait`, HTTP handlers | remote commands, hub |
| Telegram controller | `telegram.go` | update offset, seen updates, lock file | poll, handle, commit; lock | remote commands |
| Telegram hub | `telegram_hub.go` | registrations, selections, follower cursors, lock file | register, select, follow | control servers of several codexdogs |
| WeChat controller | `wechat.go` | credentials and their file, update cursor, reply queue | poll, handle, send, token expiry, login, logout | remote commands |
| Queue commands | `queue.go` | none | `/queue ...`, `/queue start` | proxy, supervisor |
| State store | `state.go` | state file | load, atomic save; `supervisor.persist` | supervisor |
| Usage and MCP refresh | `usage.go`, `mcp.go` | snapshot, one refresh in flight, timer | refresh, schedule | event loop, proxy |
| Subagent threads | `supervisor.go` 629-962 | which threads accept direct input, origins of turns | classification of messages | event loop |
| Process supervision | `process_*.go`, `detached_*.go` | - | operating-system calls | |
| Command line, configuration, diagnostics | `main.go`, `commands.go`, `project_config.go`, `doctor.go`, `compatibility.go` | - | sequential parsing and reports | |
| Formatting and helpers | `timeline.go`, `hooks.go`, `logger.go`, `backoff.go` | - | text and delays | |

What is hard in it:

- **Concurrency.** The event loop, one goroutine per recovery, per cyber-policy
  retry, per stall, per reconciliation and per paused turn, the stall ticker and the
  remote commands share one mutex, and all of them release it around requests to the
  app-server. What was read before a request is used after it; generations
  (`stallGeneration`, `pending.Generation`), contexts and flags
  (`submittingResume`, `stallCheckInFlight`) are the code's answer.
- **Failure.** Requests fail, time out after the app-server obeyed, or end with the
  connection; a turn's `turn/completed` may never come.
- **Ordering.** A turn's notifications may be handled before the answer to the
  `turn/start` that created it; a deadline races the message it waits for.
- **Liveness.** A failure may wait in `pendingRecovery` behind another recovery; the
  watchdog and the reconciliation wait for recoveries to end.

What makes each component correct: every failed turn is continued at most once and,
if nobody takes over, continued or reported (supervisor); a pause holds until an
explicit resume and a command's flags are released (remote commands); a turn that
waits for its user or for a running tool is not called stalled (watchdog); every
request gets exactly one answer and the primary connection is the one that owns the
thread (proxy, JSON-RPC); a late completion belongs to its own probe and three
status failures in a row open the gate (probe); readers see each retained
notification once and in order (broker, hub); no Telegram update is lost and no
WeChat message runs twice; one process polls (locks); every change of the state that is
persisted or left to a timer is written (store); the usage shown is the current thread's. `PROJECT.json` lists the
hazards one by one, each at its line.

## 2. Modules

The core is one system, cut into modules the way the code is cut into methods:

| Module | What it is |
|---|---|
| `SupervisorState` | constants and their assumption, variables, record types, initial records |
| `SupervisorMethods` | the methods that run under `mu`, as operators from one supervisor record to the next, the watchdog's methods, and what the app-server may answer |
| `TurnEvents` | the app-server and the user as the environment; the event loop and its handlers |
| `ProviderRecovery` | `startRecovery`, `runRecovery`, `resumeThread` |
| `CyberRecovery` | `recoverCyberPolicy` |
| `StallRecovery` | the watchdog's tick, `confirmAndRecoverStall`, `resumeStalledThread` |
| `TerminalErrors` | the grace timer and `reconcilePendingTerminalError` |
| `RemoteControl` | pause, resume, prompt, `startContinuation`, interrupts of paused turns, shutdown |
| `Supervisor` | `Init`, `Next`, fairness, the properties |
| `MCSupervisor` | sets of inputs for TLC |
| `SupervisorTypes`, `SupervisorProofs` | theorems |

The watchdog is modelled a second time, in time and on its own:

| Module | What it is |
|---|---|
| `WatchdogContract` | what the rest of the supervisor may rely on: no time, no jobs; a turn is suspected before it is confirmed, a recovery stays current until activity, a cancellation or another turn ends it |
| `Watchdog` | `watchdog.go` with the clock, its ticker, the event loop that feeds it, and `confirmAndRecoverStall`, `waitForInterruptedTurn`, `resumeStalledThread` |
| `MCWatchdog` | sets of inputs for TLC |
| `WatchdogProofs` | theorems |

The rest of the system is modelled component by component, each in a module of its own:

| Module | What it is |
|---|---|
| `RequestContract` | what a caller may rely on when it sends a request: it ends once, with an answer the app-server gave to it or with an error |
| `JsonRpc` | `jsonrpc.go`: requests by id, the read loop, the loss of the connection, `Close` |
| `TuiProxy` | `proxy.go`: bridges and the primary one, injected requests, ordered forwarding, and the supervisor's event queue behind it |
| `Health` | `health.go`: the state of a source and the any/all policies, as operators |
| `Probe` | `probe.go` on `Health`: the gate with its count of failures, the canary turn, its completion table and waiters |
| `HubRegistry` | `telegram_hub.go`: registry, selections, watches and their file, command queues and workers, the end of the hub and its crash |
| `NotificationStream` | `control.go` and the hub's followers: the bounded history of a supervisor, its restarts, cursors in memory and on disk |
| `TelegramPoller` | `telegram.go`: processes, the lock of a bot's stream file operation by file operation, the update offset and its file |
| `WeChat` | `wechat.go`: poller and sender with the credentials they share, their file, login and logout from another process |
| `ThreadState` | `supervisor.go` and `usage.go`: which thread is the user's, which belong to agents, and whose usage is shown |
| `StateStore` | `persist`, the timer of turn activity, and `state.go` |
| `MCRequests`, `MCRecords`, `MCPolling` | two to four of them side by side for TLC: the variable `part` says which one a behaviour moves |
| `TuiProxyProofs` | theorems about `TuiProxy` |
| `ClientProofs`, `HubProofs`, `ThreadProofs`, `PollingProofs` | theorems about the transports and the probe, the hub, the threads, and the pollers, in the instances of `MCRequests`, `MCRecords` (twice) and `MCPolling` |

The components of one MC module share no state; a run of them together explores the
sum of their state spaces and not the product. An MC module extends its first component
and instantiates the others under a name (`Rpc` and `Canary` in `MCRequests`, `Stream`,
`Usage` and `Store` in `MCRecords`, `WeChat` in `MCPolling`); the theorems are about the
specification of one component each (`Rpc!Spec`, `Canary!Spec`, ...), in the same instances.

**State and code.** `s` holds the fields of struct `supervisor` that `mu` protects,
under their own names where TLA+ allows (`s.pending` is `pendingTerminalErrors`,
`s.recovery` is `recoveryCancel`, named by the turn of its goroutine,
`s.stallCurrent` says that `stallGeneration` is still the stall goroutine's). `w` is
the watchdog's active turn. `rec`, `cyb`, `chk`, `pz` and `sg` are the goroutines,
each a program counter and its local variables, and `rc` is the remote command that
holds `remoteMu`. `events` is the supervisor's channel and `ev` the part of
`handleTurnCompleted` that runs after it released `mu` for the first time. `srv` is
the app-server, external: it owns the thread, starts turns on request or to go on
with a goal, and reports what happens. `hist` is history for the properties.

**One action is one critical section**, with the request or wait that follows it as
the next program counter. Sections that nothing can distinguish are merged, and each
merger is one of these: the evaluation of a stall with its start of the goroutine,
`handleTurnError` with `schedulePendingTerminalError`, the sections of
`handleTurnStarted`, `setAttention` with its `cancelRecovery`, the end of a recovery
with the start of the queued one, the two requests of `resumeStalledThread`, the
check of a stalled thread's status with those of the generation and of the pause (1714,
1719; an Esc or a pause between them has the effect of one before them), the client's
`turn/start` with its handler. A request whose context is cancelled may still have
reached the app-server: the answer is then dropped and its effect stays. `handleTurnCompleted` stays in two steps because the
code combines a `ManualPaused` of the first with state of the second.

**What is abstracted.** Texts, models, delays and the wording of errors. How long a
turn has been silent and whether a grace timer has fired are choices, so every order
of timers and messages is covered. All reasons for which the watchdog waits are one
flag. Provider probes have three outcomes (healthy, failed, deferred). The fork of the
thread in the last cyber-policy retry moves no state that other parts read.

**The timed watchdog.** `active` is the watchdog's `activeTurnState`, with the items
and hooks that block it as a set of `Jobs`; `stall` is the goroutine that
`evaluateStall` starts, with the `stallContext` it was given; `answer` is its
`turn/start` until `recordStartedTurnFromRequest` has run, `attention` the phase
needs-attention, `messages` the events channel, `now` a clock, `ticked` the last run of
the ticker, and `codex` the app-server (external). `hist` keeps what the event loop has
heard of each turn, jobs that run and the time of the last message, so that the
properties compare what the watchdog believes with what it was told. The clock stops
for a tick that is due (the ticker is punctual); everything else may be late by any
time: messages in the channel, the goroutine, answers. Left out here, because the core
has them: pauses, provider recoveries and pending errors, which only keep
`evaluateStall` from running, and turns that fail. `turn/interrupt` reaches Codex in
one step with its answer, or is lost, or arrives with its answer lost; the two
requests of `resumeStalledThread` are one step that succeeds or fails as a whole.

**The other components.** One action is one critical section, one message of a channel
or one file operation; where a goroutine releases a mutex between two of them, another
may step in. `TuiProxy`: `bridge` is a connection's life, `pending` the map, `chan`
a request's response channel of one place, `rejecting` what `removeBridge` or `Close`
has taken out of the map and not yet answered, `wire` what the app-server sent and the
bridge has not read. `Probe`: `known`, `waiters`, `completions` and `handed` are the
tables of `probe.go`, `log` the recent results of the gate. `NotificationStream`: `broker` is a
supervisor's instance with its last sequence, `hub` the memory of the hub for one alias,
`disk` its file, `follower` the goroutines, also those that were cancelled and have not
noticed. `HubRegistry`: `mem` and `disk`, `saver` the holder of `persistMu`, `proc` the
goroutines that change the registry. `TelegramPoller`: `lock` and `file` are files,
`proc` the processes; `Crash` ends one at any step. `WeChat`: `mem` and `file` are the
credentials with cursor, and `moves` says whether the last answer brought another
cursor: without one nothing is saved and its messages are handled (297). `ThreadState`: `current`, `tokenUsage` and `estimate` name
threads, `refresh` is the goroutine that holds `usageRefreshInFlight`. `StateStore`: the
state is the number of its last change, a change is persisted, left to the timer of
activity, or neither (`SilentChange`: the user's `turn/interrupt`, 499-523, and the ends
of a stall check or of a terminal error that goes no further, which wait for whoever
persists next), `timer` is `activityTimer` and `orphans` the
timers it named before. Left out in them: the commands of the chats (the remote
commands are the core's), texts, backoff delays, and the contents of the state.

**Bounds.** `MaxTurns` (the app-server refuses to start more), `MaxEvents` (2; the
code has 1024: a full channel only delays the environment here), `MaxGeneration`
(generations of a pending error wrap; it exceeds what the activity and the errors of a
run can reach, so that no wrap is ever mistaken for a match), `MaxActivity` messages
per turn, one interrupt by the user per turn, of the latest one, running or ended, at most one reconciliation goroutine per
turn at a time. `Inputs` chooses what the environment does; the runs differ in it. Turns and their
completions happen in all of them; with `failure` a turn may fail without an error
notification before.
After the shutdown every request fails and the environment is still.

In the other components the bounds count what comes from outside: connections (2),
requests (2), notifications (3), canaries (3), starts of supervisors and processes (2
or 3), updates and messages (2), tokens (2), changes of the registry or the state (3),
messages about threads (4). They let each thing be replaced by its successor once,
while a goroutine or a message of the first is still under way, which is what every
property of these modules is about. `TuiProxy` itself bounds the notifications of one
connection (`MaxEvents`, 3), and `MCNotifications` their number in a run. The capacities
are small (a window of 2
notifications, queues of 1) so that they overflow. Constraints keep the product of two
inputs small and say so where they stand (`MCCanaries`, `MCNotifications`, `MCEvents`,
`MCBounds`).

## 3. Runs

The first five runs and `esc_overtaken` are `MCSupervisor` with the `.cfg` of their name,
`watchdog` and `tool_forgotten` are `MCWatchdog`. Deadlock is checked in these
eight; `Quiescent` is the stutter of a system that waits for input, and is enabled only
when no goroutine is under way, so a blocked goroutine shows as a deadlock. `Over` is
the end of the watchdog's bounded clock. `requests`, `records`, `polling` and `poll_lock`
are the MC modules of the other components; there the system really may stop, having
nothing to do, and what must go on is a liveness property.

| Run | Instance | Shows |
|---|---|---|
| `commands` | 2 turns; pause and resume at every point of a provider recovery, prompts until the second turn starts (`MCPromptEarly`); a goal that the app-server has saved or continues (`/goal` itself is not modelled) | `TypeOK`; `RecoveryOwned`: `recoveryCancel` belongs to a live goroutine and a failure is queued only behind one; `BusyOwned`: the two busy flags are set only while somebody will clear them |
| `answered` | 2 turns; failures of both kinds, pause, resume; fair | `OneResumePerFailure`; `FailureAnswered`: every failure is continued or reported unless somebody takes over; `RecoveryEnds` |
| `stalls` | 2 turns; silence, Esc before and after a turn's end, approvals, lost ends, failing requests, a shutdown while no provider recovery runs (`MCStopWithoutRecovery`) | `BusyOwned`; `WaitersOwned`: the event loop's send to a waiter never blocks; `EscCancelsStall`: an Esc handled before the recovery's last check stops it; `StallLimit`, although the count is compared long before it is raised |
| `errors` | 1 turn; final and retried errors, activity, approvals, lost ends, Esc, pause, shutdown; fair | `WaitersOwned`; `GraceRespected`: a late answer never ends a restarted grace period; `GraceEnds` |
| `errors_and_stalls` | 2 turns; failures, terminal errors, silence, a `/prompt` whose answer is recorded late (`MCPromptLate`) | `OneResumePerFailure` between the two detectors |
| `watchdog` | 2 turns, a tool and an interrupt hook, a clock of 7; activity, approvals, buffering, verification, Esc, failing requests, the limit | `SilentLongEnough`: no stall is confirmed before the silence the options ask for; `DecidesInTime`: none is missed; `HookAwaited`: the wait for an interrupted turn lasts while its interrupt hook runs; `KeepsContract`: the timed watchdog implements `WatchdogContract` |
| `requests` | 2 connections with a client message and injected requests; 2 requests of the direct client; 2 recoveries with 3 canaries, 2 sources | `KeepsContract`, `ClientKeepsContract`: both transports implement `RequestContract`; `RequestsEnd`: what was answered, or lost its connection, ends without a deadline; `EventsOfOneTui`: the supervisor handles the events of one TUI, in order; `ClientHandledFirst`: an Esc is handled before the end of the turn it caused; `NoAnswerMislaid`; `SendersHaveRoom`: neither the read loop nor `Close` blocks; `ResumesAfterCanaries`, `FallbackAtThird` |
| `records` | 2 aliases, 2 workspaces, 2 handlers, a crash; 2 instances of a supervisor, 2 followers, a window of 2; 2 threads of the user, 1 of an agent, 4 messages, 1 refresh from `/status`; 3 changes of the state, 2 timers, 1 failed write | `AckedIsDurable`: a registration that was answered is on disk; `RegistryConsistent`; `NothingPassedOver`: no cursor passes over a notification; `UsageOfCurrentThread`; `AgentsAreObserved`: an agent's thread becomes the current one only by the user; `NothingLeftOutstanding`: what is in the window of a followed session is sent and what is persisted or scheduled is written, in the end (`HubCatchesUp` and `ChangesReachStore`, of which a behaviour can break one) |
| `polling` | 3 processes, 2 updates, 1 failure; 2 WeChat tokens with 2 messages | `NothingForgotten`: the Bot API forgets only what was handled; `PollsAlone`: two processes poll only after they contended for the lock; `UpdatesHandled`; `AtMostOnce`, `ExpiredStayGone`, `ControllerEnds` of WeChat |
| `poll_lock` | violation; the instance of `polling` | two processes find one stale lock, the second removes the lock the first has just made, and both poll, which the lock "prevents" (docs/user-manual.md:675) |
| `tool_forgotten` | violation, with `lateAnswer` | the answer to the continuation's `turn/start` is recorded after an item of the new turn was observed; the watchdog starts the turn over, forgets the running tool and confirms a stall of it although "quiet active tools are never interrupted" (README.md:331) |
| `esc_overtaken` | violation, with `MCEscStall` | the end of a turn that the watchdog interrupted is queued, then the user's Esc on it (proxy.go:230, 193); the Esc is handled after `resumeStalledThread` has compared its generation for the last time (1796) and while `thread/resume` is under way: `turn/start` follows, although interruptions by the user "are never automatically continued" (README.md:333) |

No run has the input `errorAgain`, a second final error of one turn: the generation
protects a grace period that activity restarts, and fails for an entry that was deleted and
made again, because it starts over with the entry. With it `GraceRespected` and
`OneResumePerFailure` do not hold (below).

`AtMostOnce` counts what is executed of answers that move WeChat's cursor. An answer that
brings messages and the cursor it was asked with, or none, is taken without a save, and
the code executes its messages again with the next one (wechat.go:297); whether the
service ever answers so the repository does not say. `MCBounds` has such answers with the
first token only.

`watchdog` has no `lateAnswer`: there the messages of a turn are handled after the
answer to the `turn/start` that created it is recorded. The code does not guarantee
it, the event loop and the goroutine that asked being two goroutines, and
`tool_forgotten` shows what follows when it does not hold. Its clock of 7 lets a stall be
suspected and confirmed (3 ticks, 4 with a tool), interrupted, and either continued
and recorded or waited for until both deadlines have passed; the confirmation time is
two ticks, as `startStallWatchdog` makes it at least. One place in the channel is enough
for a message to be late by any time.

The bounds are enough for the questions asked: two turns let one recovery, retry or
stall be overtaken by another failure, queue it, cancel it or continue it; a limit of
one or two is reached; one turn meets every combination of its own timers, messages
and commands. A third turn was tried for failures without commands and showed nothing
new; it is too large with them.

Each property has a mutant in `PROJECT.json`, an operator next to the definition it
changes, that TLC finds out: a dropped guard, a missing reset, an off-by-one.

**Seen while modelling, without a run.** In the core, each with the fewest inputs that
reach it (`MCSupervisor`): a cyber-policy retry and a recovery that started below the
limit together exceed "five automatic resumptions" (README.md:311; `AutoLimit`,
`MCCyberGoal`); a stall recovery that compared its generation before a pause starts a
turn after "Paused automatic recovery" (remote_control.go:251; `PauseHolds`,
`MCStallPause`); a turn the user interrupted stays silent, becomes a stall and is
continued (README.md:333; `UserInterruptIsManual`, `MCEscStall`; the run `esc_overtaken`
has the other order); an error that was
retried and announced again gets a fresh entry at generation 1, and the answer asked for
the first entry ends the new grace period (README.md:305; `GraceRespected`,
`MCErrorAgain`), whereupon two checks of one turn may both lead to a continuation
(`OneResumePerFailure` with a failed turn). A recovery goroutine that leaves `waitContext`
as a pause cancels it writes "provider-down" or "probing" over "paused"
(supervisor.go:2045; the comment at 1374 says a pause owns the phase until an explicit
resume). `handleTurnCompleted` sets `ManualPaused` from what it read before an
intervening `/resume` (supervisor.go:1241, 1262). `recordStartedTurnFromRequest` makes
a turn active that the event loop has already completed (supervisor.go:1200), and
`/resume` then says that a turn is active. `remotePause` clears `ActiveTurnID` after its
interrupt was answered, whichever turn is active by then (remote_control.go:268). A grace
timer that fires while the supervisor is paused leaves `pending.Timer` set (1396).

Outside the core: a collab item of an agent that names its parent as the receiver marks
the user's thread as agent-managed, and its failures are no longer recovered
(supervisor.go:629; `CollabItem`). Of two goroutines in `persist` the one with the older
copy may write last (2276; `StateStore`), also over "stopped". A refresh of the usage
that is asked for while one is in flight is dropped (usage.go:364). A Telegram process
loads its offset before it has the lock (telegram.go:945), so that it may handle again what
the former holder handled last. A WeChat cursor that could not be saved has moved in
memory all the same, and the messages before it are never handled (wechat.go:303). A
command in the queue of a hub session is lost with the hub although its update was
committed, and runs in the workspace its alias has by then (telegram_hub.go:931).

**Fairness.** Weak fairness of the event loop, of each goroutine and of the command
under way: the Go scheduler runs what can run, timers fire, and requests are answered
or time out (every request of the code has a deadline or ends with the connection).
Strong fairness of a successful probe: the provider recovers in the end; without it
`runRecovery` probes for ever, as it should. Nothing is assumed of the user, the
app-server, the commands or the stall ticker. `Watchdog` needs no fairness:
`DecidesInTime` is a bound on the clock, and rests on the punctual ticker alone.

In the other components only goroutines that can run are made to run: nobody has to
call, to answer, to close or to lose a connection, and no deadline of a request has to
pass, so that `RequestsEnd` does not rest on timeouts. A long poll of Telegram or WeChat
is answered or fails, a handler ends, a timer fires (`StateStore`), and a mutex
is passed on. WeChat's sender has strong fairness of its end: its `select` chooses at
random between a reply and the cancelled context, and so notices the context in the end.

## 4. Proofs

TLAPS checks a theorem for every safety property of the passing runs: for every number
of turns, connections, requests, processes, updates and messages, for all limits and
timeouts, and for every set of inputs. The only hypotheses are the assumptions on the
constants, which TLC evaluates in the runs (`ConstantsAssumption`, `WatchdogAssumption`,
`HubAssumption`, `PollerAssumption`; those of instantiated modules, `ThreadsAssumption`
among them, through `MCAssumption`), for four theorems an input that the statement
excludes and this section names, and for `GraceKept` that the model's bound on a turn's
activity is below the one on generations. Every invariant below was checked by TLC in the instance
of its run before it was proved.

**The core** (`SupervisorTypes`, `SupervisorProofs`).

- `TypeCorrect`: `Spec => []TypeOK`, and `TypeInvariant` for the inductive
  `TypeInv == TypeOK /\ Located`. `TypeOK` alone is not inductive: a recovery that
  counts a success needs to have seen fewer than `ProbeSuccesses`, and a goroutine or
  handler at work needs to have a turn. `Located` says so. One lemma for each method
  and each outcome of a request, then one for each process.
- `RecoveryAlwaysOwned`: `RecoveryOwned` is inductive together with `TypeInv`.
  Every critical section leaves `recovery` and `pendingRecovery` alone,
  gives both up, or runs `startRecovery`, which either queues behind an owner or spawns
  the goroutine it names (`Keeps`, `OwnedStarted`); a recovery goroutine ends only after
  it gave up what it owns or found itself cancelled.
- The other theorems do not look at the fifty actions again. `StepEffect` sorts every
  step under one of some twenty *effects* (`Effect`): it completes a turn, starts or
  retries a recovery, asks, answers, registers or notifies a waiter, confirms or
  continues a stall, or does none of these (`Quiet`). The invariants are proved from
  the effects.
- `WaitersAlwaysOwned`, from `Waiting`: whoever takes a waiter out of the map tells its
  goroutine, and a goroutine has received nothing before it registers.
  `StallLimitKept`, from `Counted`: a stall recovery that compared the count with its
  limit is still below it, since nobody else raises the count and `stallCheckInFlight`
  allows one goroutine.
- `BusyAlwaysOwned`, from
  `CoreInv == TypeInv /\ Waiting /\ Entries /\ Answering /\ SubmitOwned`, and `ContinuedOnce`,
  without `errorAgain`, from
  `SingleInv == CoreInv /\ InOrder /\ Apart /\ Unshared /\ \A t : Once(t) /\ Alone(t) /\ Continued(t)`.
  `Answering` says that a failure is in one hand at a time: with the event loop
  (`AtHand`), behind another recovery (`Queued`), with a recovery goroutine (`Probes`) or a
  cyber-policy retry (`Retrying`); `Alone`, that a stall recovery that has seen its turn
  interrupted (`StallWon`) is not joined by one of them; `Continued`, that who has sent a
  continuation only ends. They need `Entries`, `Apart` and `Unshared`: a waiter and an
  entry of one turn do not both interrupt it; and `Once`: after the final error of a turn
  comes no other.
- `EscHonoured`: `EscCancelsStall`, from `EscInv == CoreInv /\ EscHeld`. A stall recovery goes
  on only when its waiter has told it that its turn was interrupted (`Answering`); an Esc
  handled before that, or later but before the last check of its generation, has taken
  that generation, and no later step gives it back to the same recovery (`EscHeld`). What
  an Esc handled after that check may still miss is `esc_overtaken`.
- `GraceKept`: `GraceRespected`, from `GraceInv`, without `errorAgain` and with
  `MaxActivity < MaxGeneration` (as in `errors`). The code compares generations, which are
  64 bits wide; the model's wrap above `MaxGeneration`, and would come round to the
  one that was read if a turn's messages were as many. `Delay` says how often an entry
  was armed since its goroutine read the generation, and `Slack` that this leaves room
  for the messages in the channel among the `MaxActivity` of their turn. `Once` says that
  an entry is made once: after a turn's final error comes no other, nor its start. That
  is what fails with `errorAgain`, where a new entry starts over at generation 1, and TLC
  finds the counterexample (section 3). `StepEntries` sorts the steps by what they do to
  the entries, as `StepEffect` does for the other theorems.

**The timed watchdog** (`WatchdogProofs`).

- `TypeCorrect` and `InvCorrect`: `Inv == TypeOK /\ SuspectedInTime /\ StallOwned`. A
  suspicion was taken when the silence had lasted for the timeout that counts now (a
  job that starts or completes would change it, but is itself activity and lifts the
  suspicion), and a recovery under way is the goroutine's, with a sequence of
  activities that is not older than the goroutine's.
- `StallsDecidedInTime`: `DecidesInTime`, from `VigilInv`. `Punctual` says when the
  ticker ran last and when it is due, `Vigil` bounds how old a silence or a suspicion
  may be at that tick: none can be missed by a tick that found it due.
- `ContractKept`: `Spec => KeepsContract`, the refinement of `WatchdogContract`. Every
  action maps to one of the contract's or to none; `Inv` is needed where a tick finds a
  silent turn that is not silent any more (it never lifts a suspicion that counts) and
  where a message makes a recovery outdated.
- `SilenceRespected`: without `lateAnswer`, `Spec => SilentLongEnough`. It needs
  `KnowsCorrect`, that the watchdog's blocking jobs and last activity are those the event
  loop has heard of its turn, which in turn needs `HearsCorrect`, that nothing is heard
  of a turn that has not started; the violation `tool_forgotten` is why the assumption
  on `Inputs` cannot be dropped.
- `HooksAwaited`: without `lateAnswer`, `Spec => HookAwaited`. What runs is what the
  messages say in turns, started and completed (`InTurns`, `Announced`); `HooksKnown` then
  counts the hooks of an interrupted turn as the goroutine that waits for it does.

**The transports** (`TuiProxyProofs`, `ClientProofs`).

- `TuiProxyProofs.TypeCorrect` needs `Placed`: a request that is under way has a
  connection. `AnswersArrive` (`NoAnswerMislaid`) and `ContractKept` (`KeepsContract`) follow
  from `RequestInv == Channels /\ Answers /\ NoAnswerMislaid`: a request is in `pending`, or
  its channel has been taken from there and nothing was sent to it, or it was sent to;
  an answer that was not read yet is the only one of its request.
- `OneTui` and `ClientFirst`, from `EventInv`: nothing was heard on a bridge that is not
  registered yet (`Bridged`); what the loop has handled, what is queued and what the
  bridge has not read are, in this order, all notifications of the primary connection,
  and since its first none of another was handled (`Stream`); what the app-server does
  because of a client's message is read after that message was queued (`Reactions`).
- For `jsonrpc.go`, `SendersNeverBlock` from `OnePlace`: the channel of a request is in the
  map, with the read loop, with `Close` or with its caller, and empty until the one who
  took it sends. `ContractKept` (`ClientKeepsContract`) from that and `Honest`.
- For `probe.go`, `ResumedWithReason` and `FallbackIsThird` from
  `CanaryInv == TypeOK /\ Counted(log, gate) /\ CallInv`: the gate's count is the number of
  entries for its target at the end of the log unless the last one ran a canary, and the
  successes of a caller are the last canaries of its own, whose turns no other has.

**Hub and pollers** (`HubProofs`, `PollingProofs`).

- `AckedSurvives` and `RegistryStaysConsistent`, from `RegistryInv`: `persistMu` is held over
  the copy and the write, so that the one who writes has every registration that was
  answered. `NonePassedOver`, from `StreamInv`: the batch of a follower begins where its
  cursor is, and below every cursor all was sent or had left the window.
- `NothingLost`, from `Committed` (below an offset, in memory or in a file, everything was
  handled) and `AttemptsLeft`. `OneAtATime`, from `LockOwned`: until two processes contend
  for it, the lock file names the one that polls. `ExecutedOnce` and `RemovedForGood`, from the
  cursors: the cursor of a token, in memory, in the file or in the poller's request, covers
  every message that ran with it, and the messages of a batch before they run (`Cursors`);
  and a token that expired is not in memory any more when it is removed (`Gone`), so
  that nobody saves it again, with `Issued` to tell it from those of later logins.

**Threads** (`ThreadProofs`). `UsageIsCurrent`: every writer of `current` resets what was shown
of another thread, and the refresh compares it again. `AgentsOnlyObserved` needs that a
thread that declared itself an agent's is known as one (`AgentsDeclared`).

The proof changed the form of three definitions: the guards of a `CASE` in `Decision`,
`Outcome` (`Probe`) and `GateState` (`Health`) overlapped, where TLA+ promises no order; they
are exclusive now, as the branches of the code are.

**Only model-checked.** Everything under fairness, which is out of the prover's reach:
`FailureAnswered`, `RecoveryEnds`, `GraceEnds`, `RequestsEnd`, `UpdatesHandled`,
`ControllerEnds` and `NothingLeftOutstanding`, which has the only property of `StateStore`.

## 5. Plan

Every component that keeps state of its own has its module, and every safety property
its theorem. What is left: theorems about the pure operators of the usage refresh and the
health gate, and the safety half of `ChangesReachStore`.

## 6. Not modelled

- Process supervision, the command line, configuration, diagnostics, formatting: no state
  that other parts read, or operating-system calls.
- `/queue`: requests that pass through; `/queue start` records its turn as
  `startContinuation` does. The hub's and the chats' menus and texts.
- The list of subagents with their status, the MCP status, account totals and rate
  limits: the last answer wins, and only reports read them.
- Startup in `Run`, `CheckNow` and the preparation of the probe's configuration; how
  failures are classified by their texts; HTTP, the parsing of status pages, QR codes.
- The lock file of the hub (telegram_hub.go:157), which works as the poll lock does.
