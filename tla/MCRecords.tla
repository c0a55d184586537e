----------------------------- MODULE MCRecords -----------------------------
(***************************************************************************)
(* What codexdog records, for TLC: the hub's registry and its cursors in   *)
(* the notifications, the supervisor's current thread with its usage, and  *)
(* the state file, side by side: each behaviour moves one of them only.    *)
(***************************************************************************)
EXTENDS HubRegistry

CONSTANTS
    Limit, MaxInstances, MaxEvents, MaxFollowers,   \* NotificationStream
    Own, Agents, None, MaxMessages, MaxRefreshes,   \* ThreadState
    Goroutines, Callbacks, MaxChanges, MaxFailures  \* StateStore

VARIABLES
    part,
    broker, up, hubUp, hub, cursors, handler, follower, sent, gone,
    started, directInput, current, tokenUsage, estimate, resuming, refreshTimer, callers,
    refresh, owes, shuttingDown, messages, asked,
    version, due, timer, orphans, fired, needs, copy, stateFile, life, failures, attempted

Stream == INSTANCE NotificationStream WITH disk <- cursors
Usage == INSTANCE ThreadState
Store == INSTANCE StateStore WITH disk <- stateFile

ASSUME MCAssumption == Stream!StreamAssumption /\ Usage!ThreadsAssumption

streamVars == <<broker, up, hubUp, hub, cursors, handler, follower, sent, gone>>
usageVars == <<started, directInput, current, tokenUsage, estimate, resuming, refreshTimer, callers,
               refresh, owes, shuttingDown, messages, asked>>
storeVars == <<version, due, timer, orphans, fired, needs, copy, stateFile, life, failures, attempted>>

MCInit ==
    /\ part \in {"registry", "stream", "usage", "store"}
    /\ Init /\ Stream!Init /\ Usage!Init /\ Store!Init

MCNext ==
    /\ \/ part = "registry" /\ Next /\ UNCHANGED <<streamVars, usageVars, storeVars>>
       \/ part = "stream" /\ Stream!Next /\ UNCHANGED <<vars, usageVars, storeVars>>
       \/ part = "usage" /\ Usage!Next /\ UNCHANGED <<vars, streamVars, storeVars>>
       \/ part = "store" /\ Store!Next /\ UNCHANGED <<vars, streamVars, usageVars>>
    /\ part' = part

MCSpec ==
    /\ MCInit /\ [][MCNext]_<<part, vars, streamVars, usageVars, storeVars>>
    /\ Stream!Fairness /\ Store!Fairness

\* Bound: three notifications of one instance, or one of each of two, and the second
\* instance does not stop.
MCEvents == broker.inst * broker.next <= 3 /\ (broker.inst = MaxInstances => up)

-----------------------------------------------------------------------------
\* No notification is passed over below a cursor (NotificationStream).
NothingPassedOver == Stream!NothingPassedOver

\* The usage in the state is the current thread's (ThreadState).
UsageOfCurrentThread == Usage!UsageOfCurrentThread

\* An agent's thread becomes current by the user only (ThreadState).
AgentsAreObserved == Usage!AgentsAreObserved

\* The notifications in the window of a followed session are sent, and the changes that
\* are persisted or scheduled reach the store (NotificationStream, StateStore).
Outstanding == Stream!Behind \/ Store!Unwritten
NothingLeftOutstanding == Outstanding ~> ~Outstanding
=============================================================================
