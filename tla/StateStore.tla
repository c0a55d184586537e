----------------------------- MODULE StateStore -----------------------------
(***************************************************************************)
(* How changes of the supervisor's state reach its file (supervisor.go     *)
(* persist and scheduleActivityPersist, state.go).  The state is a         *)
(* version; activity of the turn waits for a timer, most other changes are *)
(* written by the goroutine that made them, and some are left to whoever   *)
(* writes next.  A copy is taken under the supervisor's mutex and written  *)
(* under the store's, so that a copy may be overtaken on its way.          *)
(***************************************************************************)
EXTENDS Naturals, FiniteSets

CONSTANTS
    Goroutines,     \* those that change the state and persist it
    Callbacks,      \* goroutines that run the callback of an activity timer
    MaxChanges,     \* bound: changes of the state
    MaxFailures     \* bound: writes that fail

VARIABLES
    version,        \* the state in memory: the number of its last change
    due,            \* history: the newest version that its change persists or schedules
    timer,          \* activityTimer and whether it has fired
    orphans,        \* armed timers that activityTimer no longer names
    fired,          \* callbacks that have not yet taken the mutex
    needs,          \* goroutines in persist that have not yet copied the state
    copy,           \* goroutine -> the version it has copied and not written, or 0
    disk,           \* the version in the state file
    life,           \* "running", "stopping" in shutdown, "stopped" after it, "exited"
    failures,       \* writes that failed
    attempted       \* history: the newest version that a write was tried with

vars == <<version, due, timer, orphans, fired, needs, copy, disk, life, failures, attempted>>
timers == <<timer, orphans, fired>>
stored == <<copy, disk, failures, attempted>>

shutdown == "shutdown"      \* the goroutine of shutdown
Writers == Goroutines \cup Callbacks \cup {shutdown}
Versions == 0..(MaxChanges + 2)

TypeOK ==
    /\ version \in Versions /\ due \in Versions /\ disk \in Versions /\ attempted \in Versions
    /\ timer \in {"none", "armed", "fired"} /\ orphans \in Nat /\ fired \in Nat
    /\ needs \subseteq Writers /\ copy \in [Writers -> Versions]
    /\ life \in {"running", "stopping", "stopped", "exited"} /\ failures \in 0..MaxFailures

Init ==
    /\ version = 1 /\ due = 1 /\ disk = 1 /\ attempted = 1
    /\ timer = "none" /\ orphans = 0 /\ fired = 0
    /\ needs = {} /\ copy = [g \in Writers |-> 0]
    /\ life = "running" /\ failures = 0

Lives == life # "exited"
Free(g) == copy[g] = 0 /\ g \notin needs
Changes == Lives /\ version <= MaxChanges /\ version' = version + 1

\* A change that is neither persisted nor scheduled: the user's turn/interrupt, the end of
\* a terminal error or a stall check that goes no further, the watchdog's times.
SilentChange ==
    /\ Changes
    /\ UNCHANGED <<due, timers, needs, stored, life>>

\* modifyState, then persist.
Change(g) ==
    /\ Free(g) /\ Changes /\ due' = version'
    /\ needs' = needs \cup {g}
    /\ UNCHANGED <<timers, stored, life>>

\* Activity of the turn: syncStallState, then scheduleActivityPersist.
Activity ==
    /\ Changes /\ due' = version'
    /\ timer' = IF timer = "none" THEN "armed" ELSE timer
    /\ UNCHANGED <<orphans, fired, needs, stored, life>>

TimerFires ==
    /\ Lives /\ timer = "armed"
    /\ timer' = "fired" /\ fired' = fired + 1
    /\ UNCHANGED <<version, due, orphans, needs, stored, life>>
OrphanFires ==
    /\ Lives /\ orphans > 0
    /\ orphans' = orphans - 1 /\ fired' = fired + 1
    /\ UNCHANGED <<version, due, timer, needs, stored, life>>

\* The callback clears activityTimer, which may name a newer timer by now.
Callback(g) ==
    /\ Lives /\ fired > 0 /\ Free(g)
    /\ fired' = fired - 1 /\ timer' = "none"
    /\ orphans' = IF timer = "armed" THEN orphans + 1 ELSE orphans
    /\ needs' = needs \cup {g}
    /\ UNCHANGED <<version, due, stored, life>>

\* The first section of persist: no timer is needed for what is copied now.
Copy(g) ==
    /\ Lives /\ g \in needs /\ needs' = needs \ {g}
    /\ copy' = [copy EXCEPT ![g] = version]
    /\ timer' = "none"
    /\ UNCHANGED <<version, due, orphans, fired, disk, life, failures, attempted>>

\* stateStore.Write, one at a time: the file is replaced as a whole or stays.
Tried(g) ==
    /\ Lives /\ copy[g] # 0
    /\ copy' = [copy EXCEPT ![g] = 0]
    /\ attempted' = IF copy[g] > attempted THEN copy[g] ELSE attempted
    /\ life' = IF g = shutdown THEN "stopped" ELSE life
WriteStopsTimer(g) ==
    /\ Tried(g) /\ disk' = copy[g] /\ timer' = "none"
    /\ UNCHANGED <<version, due, orphans, fired, needs, failures>>
Write(g) ==
    /\ Tried(g) /\ disk' = copy[g]
    /\ UNCHANGED <<version, due, timers, needs, failures>>
WriteFails(g) ==
    /\ Tried(g) /\ failures < MaxFailures /\ failures' = failures + 1
    /\ UNCHANGED <<version, due, timers, needs, disk>>

\* shutdown stops the timer, makes the last change and persists it.
Shutdown ==
    /\ life = "running" /\ life' = "stopping"
    /\ version' = version + 1 /\ due' = version' /\ timer' = "none"
    /\ needs' = needs \cup {shutdown}
    /\ UNCHANGED <<orphans, fired, stored>>

\* Run returns; the goroutines that still run end with the process.
Exit ==
    /\ life = "stopped" /\ life' = "exited"
    /\ UNCHANGED <<version, due, timers, needs, stored>>

Next ==
    \/ \E g \in Goroutines : Change(g)
    \/ \E g \in Callbacks : Callback(g)
    \/ \E g \in Writers : Copy(g) \/ Write(g) \/ WriteFails(g)
    \/ Activity \/ SilentChange \/ TimerFires \/ OrphanFires \/ Shutdown \/ Exit

\* Timers fire; goroutines go on; the store's mutex is passed on (sync.Mutex is fair).
Fairness ==
    /\ WF_vars(TimerFires) /\ WF_vars(OrphanFires)
    /\ WF_vars(\E g \in Callbacks : Callback(g))
    /\ \A g \in Writers : WF_vars(Copy(g)) /\ WF_vars(Write(g) \/ WriteFails(g))

Spec == Init /\ [][Next]_vars /\ Fairness

-----------------------------------------------------------------------------
\* Every change that the code persists or leaves to the timer of turn activity is in a
\* copy that is given to the store, unless the process exits first, whatever persist of
\* another goroutine stops the timer (persist, scheduleActivityPersist).
Unwritten == attempted < due /\ Lives
ChangesReachStore == Unwritten ~> ~Unwritten
=============================================================================
