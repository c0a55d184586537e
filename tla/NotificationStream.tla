------------------------- MODULE NotificationStream -------------------------
(***************************************************************************)
(* The lifecycle notifications of one session: the broker of its           *)
(* supervisor (control.go), which keeps the last Limit of them, and the    *)
(* Telegram hub's followers of the session (telegram_hub.go:686) with the  *)
(* cursor that the hub saves.  The supervisor restarts with a new broker,  *)
(* the hub crashes and restarts, the session is removed and registered     *)
(* again.                                                                  *)
(***************************************************************************)
EXTENDS Naturals, FiniteSets

CONSTANTS
    Limit,          \* remoteNotificationLimit
    MaxInstances,   \* bound: starts of the supervisor
    MaxEvents,      \* bound: notifications of one instance
    MaxFollowers    \* bound: followers started, by registrations and restarts

StreamAssumption ==
    Limit \in Nat /\ MaxInstances \in Nat /\ MaxEvents \in Nat /\ MaxFollowers \in Nat

VARIABLES
    broker,         \* the broker: instanceID (0 before the first) and next
    up,             \* does the supervisor's control server answer?
    hubUp,
    hub,            \* the hub's memory: Sessions, EventCursors, watchers
    disk,           \* telegram-hub.json
    handler,        \* the request to register or to remove the session
    follower,       \* the goroutines of followSession
    sent,           \* history: notifications handed to the chats
    gone            \* history: those that had left the window when they were asked for

vars == <<broker, up, hubUp, hub, disk, handler, follower, sent, gone>>

Followers == 1..MaxFollowers
NoFollower == 0
NoCursor == [inst |-> 0, seq |-> 0]
Cursors == [inst : 0..MaxInstances, seq : 0..MaxEvents]
Events == [inst : 1..MaxInstances, seq : 1..MaxEvents]
NewFollower == [pc |-> "none", cancelled |-> FALSE,
                target |-> 0, cursor |-> NoCursor, batch |-> {}]

TypeOK ==
    /\ broker \in [inst : 0..MaxInstances, next : 0..MaxEvents]
    /\ up \in BOOLEAN /\ hubUp \in BOOLEAN
    /\ hub \in [registered : BOOLEAN, cursor : Cursors, watcher : {NoFollower} \cup Followers]
    /\ disk \in [registered : BOOLEAN, cursor : Cursors]
    /\ handler \in {"idle", "registered", "watch", "removed"}
    /\ follower \in [Followers ->
            [pc : {"none", "find", "ask", "notify", "save", "persist", "ended"},
             cancelled : BOOLEAN,
             target : 0..MaxInstances, cursor : Cursors, batch : SUBSET Events]]
    /\ sent \subseteq Events /\ gone \subseteq Events

Init ==
    /\ broker = [inst |-> 0, next |-> 0]
    /\ up = FALSE /\ hubUp = TRUE
    /\ hub = [registered |-> FALSE, cursor |-> NoCursor, watcher |-> NoFollower]
    /\ disk = [registered |-> FALSE, cursor |-> NoCursor]
    /\ handler = "idle"
    /\ follower = [f \in Followers |-> NewFollower]
    /\ sent = {} /\ gone = {}

hubVars == <<hubUp, hub, disk, handler>>
history == <<sent, gone>>

-----------------------------------------------------------------------------
(* The supervisor and its broker *)

SupervisorStarts ==
    /\ ~up /\ broker.inst < MaxInstances
    /\ up' = TRUE
    /\ broker' = [inst |-> broker.inst + 1, next |-> 0]
    /\ UNCHANGED <<hubVars, follower, history>>

SupervisorStops ==
    /\ up /\ up' = FALSE
    /\ UNCHANGED <<broker, hubVars, follower, history>>

Publish ==
    /\ up /\ broker.next < MaxEvents
    /\ broker' = [broker EXCEPT !.next = @ + 1]
    /\ UNCHANGED <<up, hubVars, follower, history>>

Of(n) == [inst |-> broker.inst, seq |-> n]
Window == {n \in 1..broker.next : n + Limit > broker.next}

\* What Wait answers to a cursor: a cursor of another instance starts over.
After(cursor) == IF cursor.inst \in {0, broker.inst} THEN cursor.seq ELSE 0
Unread(cursor) == {Of(n) : n \in {n \in Window : n > After(cursor)}}
Missed(cursor) == {Of(n) : n \in {n \in 1..broker.next : n > After(cursor)}} \ Unread(cursor)

-----------------------------------------------------------------------------
(* Registration *)

Fresh == {f \in Followers : follower[f].pc = "none"}

\* syncSessionWatchers, for this session.
SyncWatchers(h) ==
    LET f == CHOOSE f \in Fresh : \A g \in Fresh : f <= g
    IN  IF h.registered /\ h.watcher = NoFollower
        THEN /\ Fresh # {}
             /\ hub' = [h EXCEPT !.watcher = f]
             /\ follower' = [follower EXCEPT ![f].pc = "find", ![f].cursor = h.cursor]
        ELSE hub' = h /\ UNCHANGED follower

Saved == [registered |-> hub.registered, cursor |-> hub.cursor]

Register ==
    /\ hubUp /\ handler = "idle"
    /\ hub' = [hub EXCEPT !.registered = TRUE]
    /\ handler' = "registered"
    /\ UNCHANGED <<broker, up, hubUp, disk, follower, history>>

\* Mutant: the cancelled follower stays in watchers.
UnregisterKeepsWatcher ==
    /\ hubUp /\ handler = "idle" /\ hub.registered
    /\ hub' = [hub EXCEPT !.registered = FALSE, !.cursor = NoCursor]
    /\ follower' = [f \in Followers |->
            [follower[f] EXCEPT !.cancelled = @ \/ f = hub.watcher]]
    /\ handler' = "removed"
    /\ UNCHANGED <<broker, up, hubUp, disk, history>>

Unregister ==
    /\ hubUp /\ handler = "idle" /\ hub.registered
    /\ hub' = [registered |-> FALSE, cursor |-> NoCursor, watcher |-> NoFollower]
    /\ follower' = [f \in Followers |->
            [follower[f] EXCEPT !.cancelled = @ \/ f = hub.watcher]]
    /\ handler' = "removed"
    /\ UNCHANGED <<broker, up, hubUp, disk, history>>

\* A registration that could not be saved starts no follower.
HandlerPersists ==
    /\ hubUp /\ handler \in {"registered", "removed"}
    /\ \E written \in BOOLEAN :
        /\ disk' = IF written THEN Saved ELSE disk
        /\ handler' = IF written /\ handler = "registered" THEN "watch" ELSE "idle"
    /\ UNCHANGED <<broker, up, hubUp, hub, follower, history>>

HandlerWatches ==
    /\ hubUp /\ handler = "watch"
    /\ SyncWatchers(hub)
    /\ handler' = "idle"
    /\ UNCHANGED <<broker, up, hubUp, disk, history>>

HubCrashes ==
    /\ hubUp /\ hubUp' = FALSE
    /\ handler' = "idle"
    /\ follower' = [f \in Followers |->
            IF follower[f].pc = "none" THEN NewFollower
            ELSE [NewFollower EXCEPT !.pc = "ended"]]
    /\ UNCHANGED <<broker, up, hub, disk, history>>

HubStarts ==
    /\ ~hubUp /\ hubUp' = TRUE
    /\ SyncWatchers([registered |-> disk.registered, cursor |-> disk.cursor,
                     watcher |-> NoFollower])
    /\ UNCHANGED <<broker, up, disk, handler, history>>

-----------------------------------------------------------------------------
(* followSession *)

Step(f, r) == follower' = [follower EXCEPT ![f] = r]
Ended(f) == [NewFollower EXCEPT !.pc = "ended"]

FollowerEnds(f) ==
    /\ follower[f].pc \in {"find", "ask"} /\ follower[f].cancelled
    /\ Step(f, Ended(f))
    /\ UNCHANGED <<broker, up, hubVars, history>>

\* The state file and /status.  Until both answer there is a new try every
\* second; the notices "online" and "offline" are left out.
FindSession(f) ==
    /\ follower[f].pc = "find" /\ ~follower[f].cancelled /\ up
    /\ Step(f, [follower[f] EXCEPT !.pc = "ask", !.target = broker.inst])
    /\ UNCHANGED <<broker, up, hubVars, history>>

\* Mutant: a new instance keeps the sequence number of the last one.
AskKeepsSequence(f) ==
    LET r == follower[f]
        cursor == [r.cursor EXCEPT !.inst = broker.inst]
    IN  /\ r.pc = "ask" /\ up /\ r.target = broker.inst
        /\ Step(f, [r EXCEPT !.cursor = cursor, !.batch = Unread(r.cursor),
                             !.pc = CASE Unread(r.cursor) # {} -> "notify"
                                      [] Unread(r.cursor) = {} /\ cursor # r.cursor -> "save"
                                      [] OTHER -> "find"])
        /\ gone' = gone \cup (Missed(r.cursor) \ sent)
        /\ UNCHANGED <<broker, up, hubVars, sent>>

\* /events, answered with the notifications after the cursor, or with none when
\* the time is up; a new instance resets the cursor.
AskEvents(f) ==
    LET r == follower[f]
        cursor == IF broker.inst = r.cursor.inst THEN r.cursor
                  ELSE [inst |-> broker.inst, seq |-> 0]
    IN  /\ r.pc = "ask" /\ up /\ r.target = broker.inst
        /\ Step(f, [r EXCEPT !.cursor = cursor, !.batch = Unread(r.cursor),
                             !.pc = CASE Unread(r.cursor) # {} -> "notify"
                                      [] Unread(r.cursor) = {} /\ cursor # r.cursor -> "save"
                                      [] OTHER -> "find"])
        /\ gone' = gone \cup (Missed(r.cursor) \ sent)
        /\ UNCHANGED <<broker, up, hubVars, sent>>

AskFails(f) ==
    /\ follower[f].pc = "ask" /\ ~follower[f].cancelled
    /\ ~up \/ follower[f].target # broker.inst
    /\ Step(f, [follower[f] EXCEPT !.pc = "find"])
    /\ UNCHANGED <<broker, up, hubVars, history>>

First(batch) == CHOOSE e \in batch : \A d \in batch : e.seq <= d.seq

\* One round of the loop over the batch; a cancelled follower goes on.
NotifySession(f) ==
    LET r == follower[f]
        e == First(r.batch)
    IN  /\ r.pc = "notify"
        /\ sent' = sent \cup {e}
        /\ Step(f, [r EXCEPT !.cursor.seq = e.seq, !.batch = @ \ {e},
                             !.pc = IF r.batch = {e} THEN "save" ELSE "notify"])
        /\ UNCHANGED <<broker, up, hubVars, gone>>

SaveCursor(f) ==
    /\ follower[f].pc = "save"
    /\ hub' = IF hub.registered THEN [hub EXCEPT !.cursor = follower[f].cursor] ELSE hub
    /\ Step(f, [follower[f] EXCEPT !.pc = "persist"])
    /\ UNCHANGED <<broker, up, hubUp, disk, handler, history>>

FollowerPersists(f) ==
    /\ follower[f].pc = "persist"
    /\ disk' \in {Saved, disk}
    /\ Step(f, [follower[f] EXCEPT !.pc = "find"])
    /\ UNCHANGED <<broker, up, hubUp, hub, handler, history>>

-----------------------------------------------------------------------------
Follow(f) ==
    \/ FollowerEnds(f) \/ FindSession(f) \/ AskEvents(f) \/ AskFails(f)
    \/ NotifySession(f) \/ SaveCursor(f) \/ FollowerPersists(f)

Next ==
    \/ SupervisorStarts \/ SupervisorStops \/ Publish
    \/ Register \/ Unregister \/ HandlerPersists \/ HandlerWatches
    \/ HubCrashes \/ HubStarts
    \/ \E f \in Followers : Follow(f)

Spec == Init /\ [][Next]_vars

\* A goroutine runs on; requests are answered or fail.
Fairness == WF_vars(HandlerPersists \/ HandlerWatches) /\ \A f \in Followers : WF_vars(Follow(f))
FairSpec == Spec /\ Fairness

-----------------------------------------------------------------------------
\* No notification is passed over: below a cursor, be it a follower's, the hub's
\* or the one on disk that the next hub starts from, every notification was sent
\* or had left the broker's window before anybody asked (telegram_hub.go:743).
PassedOver(cursor) == {[inst |-> cursor.inst, seq |-> n] : n \in 1..cursor.seq} \ (sent \cup gone)
NothingPassedOver ==
    /\ PassedOver(hub.cursor) = {} /\ PassedOver(disk.cursor) = {}
    /\ \A f \in Followers : PassedOver(follower[f].cursor) = {}

\* The hub catches up: the notifications in the window of a followed session are
\* sent, unless the supervisor or the hub stops or the session is removed.
Behind ==
    /\ hubUp /\ up /\ hub.watcher # NoFollower
    /\ \E n \in Window : Of(n) \notin sent
HubCatchesUp == Behind ~> ~Behind
=============================================================================
