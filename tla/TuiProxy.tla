------------------------------ MODULE TuiProxy ------------------------------
(***************************************************************************)
(* The proxy between the TUI and the app-server (proxy.go): one bridge per *)
(* connection with two forwarding goroutines, requests the supervisor      *)
(* injects into the primary bridge, and the events the primary's messages  *)
(* become in the supervisor (supervisor.go:215, 463-486).                  *)
(***************************************************************************)
EXTENDS Naturals, Sequences, FiniteSets

CONSTANTS Conns, Requests, NoConn,
          MaxEvents     \* bound: notifications of each connection

ProxyAssumption == NoConn \notin Conns /\ MaxEvents \in Nat

VARIABLES
    bridge,     \* state of each connection's bridge
    lost,       \* connections one of whose sockets has failed
    primary,    \* tuiProxy.primary
    pending,    \* the keys of tuiProxy.pending
    req,        \* each injected request: where it stands and on which bridge
    chan,       \* its response channel, of capacity one
    rejecting,  \* channels removeBridge or Close have taken, by whom
    wire,       \* upstream messages of each bridge that were not read yet
    client,     \* answers of injected requests that went to the client
    said,       \* the message of each client: not sent, observed, forwarded
    events,     \* supervisor.events: notifications, and client messages (n = 0)
    seen,       \* notifications sent, and events handled, in order
    closing,    \* Close: idle, or what it does
    server      \* external: requests received and answered by the app-server

vars == <<bridge, lost, primary, pending, req, chan, rejecting, wire, client,
          said, events, seen, closing, server>>

Active == {"chosen", "registered", "waiting"}
Ended == {"answered", "failed"}
AnswerTo(r) == [kind |-> "answer", id |-> r]
Note(n, reacts) == [kind |-> "note", n |-> n, reacts |-> reacts]
Message == {AnswerTo(r) : r \in Requests} \cup [kind : {"note"}, n : 1..MaxEvents, reacts : BOOLEAN]
Event == [from : Conns, n : 0..MaxEvents, reacts : BOOLEAN]
Registered == {c \in Conns : bridge[c] \in {"open", "closed"}}

TypeOK ==
    /\ bridge \in [Conns -> {"none", "dialed", "open", "closed", "removed"}]
    /\ lost \subseteq Conns
    /\ primary \in Conns \cup {NoConn}
    /\ pending \subseteq Requests
    /\ req \in [Requests -> [pc : {"idle"} \cup Active \cup Ended, on : Conns \cup {NoConn}]]
    /\ chan \in [Requests -> {"empty", "answer", "error"}]
    /\ rejecting \in [Conns \cup {NoConn} -> SUBSET Requests]
    /\ wire \in [Conns -> Seq(Message)]
    /\ client \subseteq Requests
    /\ said \in [Conns -> [pc : {"no", "observed", "forwarded"}, told : BOOLEAN]]
    /\ events \in Seq(Event)
    /\ seen \in [sent : [Conns -> 0..MaxEvents], handled : Seq(Event)]
    /\ closing \in {"idle", "reject", "bridges", "done"}
    /\ server \in [got : SUBSET Requests, answered : SUBSET Requests]

Init ==
    /\ bridge = [c \in Conns |-> "none"]
    /\ lost = {}
    /\ primary = NoConn
    /\ pending = {}
    /\ req = [r \in Requests |-> [pc |-> "idle", on |-> NoConn]]
    /\ chan = [r \in Requests |-> "empty"]
    /\ rejecting = [c \in Conns \cup {NoConn} |-> {}]
    /\ wire = [c \in Conns |-> <<>>]
    /\ client = {}
    /\ said = [c \in Conns |-> [pc |-> "no", told |-> FALSE]]
    /\ events = <<>>
    /\ seen = [sent |-> [c \in Conns |-> 0], handled |-> <<>>]
    /\ closing = "idle"
    /\ server = [got |-> {}, answered |-> {}]

requestVars == <<pending, req, chan, rejecting>>
messageVars == <<wire, client, said, events, seen, server>>

-----------------------------------------------------------------------------
(* accept, and the end of a bridge *)

AcceptDials(c) ==
    /\ bridge[c] = "none"
    /\ bridge' = [bridge EXCEPT ![c] = "dialed"]
    /\ UNCHANGED <<lost, primary, requestVars, messageVars, closing>>

\* The first bridge to be registered while there is none becomes primary.
AcceptRegisters(c) ==
    /\ bridge[c] = "dialed"
    /\ IF closing # "idle"
       THEN /\ bridge' = [bridge EXCEPT ![c] = "removed"]
            /\ UNCHANGED primary
       ELSE /\ bridge' = [bridge EXCEPT ![c] = "open"]
            /\ primary' = IF primary = NoConn THEN c ELSE primary
    /\ UNCHANGED <<lost, requestVars, messageVars, closing>>

\* One of the two forwarding goroutines ended: accept closes the bridge.
BridgeCloses(c) ==
    /\ bridge[c] = "open" /\ c \in lost
    /\ bridge' = [bridge EXCEPT ![c] = "closed"]
    /\ UNCHANGED <<lost, primary, requestVars, messageVars, closing>>

BridgeRemoved(c) ==
    /\ bridge[c] = "closed"
    /\ bridge' = [bridge EXCEPT ![c] = "removed"]
    /\ primary' = IF primary = c THEN NoConn ELSE primary
    /\ UNCHANGED <<lost, requestVars, messageVars, closing>>

\* Mutant: rejects what belongs to the primary, which was forgotten just before.
BridgeTakesOfPrimary(c) ==
    /\ bridge[c] = "removed" /\ rejecting[c] = {}
    /\ LET mine == {r \in pending : req[r].on = primary}
       IN  /\ mine # {}
           /\ pending' = pending \ mine
           /\ rejecting' = [rejecting EXCEPT ![c] = mine]
    /\ UNCHANGED <<bridge, lost, primary, req, chan, messageVars, closing>>

\* rejectPending of removeBridge, in a section of its own.
BridgeTakesPending(c) ==
    /\ bridge[c] = "removed" /\ rejecting[c] = {}
    /\ LET mine == {r \in pending : req[r].on = c}
       IN  /\ mine # {}
           /\ pending' = pending \ mine
           /\ rejecting' = [rejecting EXCEPT ![c] = mine]
    /\ UNCHANGED <<bridge, lost, primary, req, chan, messageVars, closing>>

\* A taken channel gets its error; c = NoConn is Close.
Reject(c, r) ==
    /\ r \in rejecting[c]
    /\ chan[r] = "empty"
    /\ chan' = [chan EXCEPT ![r] = "error"]
    /\ rejecting' = [rejecting EXCEPT ![c] = @ \ {r}]
    /\ UNCHANGED <<bridge, lost, primary, pending, req, messageVars, closing>>

\* The TUI or the app-server ends a connection.
ConnectionLost(c) ==
    /\ bridge[c] = "open" /\ c \notin lost
    /\ lost' = lost \cup {c}
    /\ UNCHANGED <<bridge, primary, requestVars, messageVars, closing>>

-----------------------------------------------------------------------------
(* Request *)

ChoosePrimary(r) ==
    /\ req[r].pc = "idle"
    /\ req' = [req EXCEPT ![r] =
         IF primary # NoConn /\ bridge[primary] = "open"
         THEN [pc |-> "chosen", on |-> primary] ELSE [pc |-> "failed", on |-> NoConn]]
    /\ UNCHANGED <<bridge, lost, primary, pending, chan, rejecting, messageVars, closing>>

Register(r) ==
    /\ req[r].pc = "chosen"
    /\ req' = [req EXCEPT ![r].pc = "registered"]
    /\ pending' = pending \cup {r}
    /\ UNCHANGED <<bridge, lost, primary, chan, rejecting, messageVars, closing>>

WriteSucceeds(r) ==
    /\ req[r].pc = "registered" /\ bridge[req[r].on] = "open"
    /\ req' = [req EXCEPT ![r].pc = "waiting"]
    /\ server' = IF req[r].on \in lost THEN server ELSE [server EXCEPT !.got = @ \cup {r}]
    /\ UNCHANGED <<bridge, lost, primary, pending, chan, rejecting, wire, client,
                   said, events, seen, closing>>

\* On a closed bridge, a broken socket, or when the time is up.
WriteFails(r) ==
    /\ req[r].pc = "registered"
    /\ lost' \in {lost, lost \cup {req[r].on}}
    /\ req' = [req EXCEPT ![r].pc = "failed"]
    /\ pending' = pending \ {r}
    /\ UNCHANGED <<bridge, primary, chan, rejecting, messageVars, closing>>

\* Mutant: the error of a rejection is not looked at.
ReceiveIgnoresError(r) ==
    /\ req[r].pc = "waiting" /\ chan[r] # "empty"
    /\ req' = [req EXCEPT ![r].pc = "answered"]
    /\ chan' = [chan EXCEPT ![r] = "empty"]
    /\ UNCHANGED <<bridge, lost, primary, pending, rejecting, messageVars, closing>>

Receive(r) ==
    /\ req[r].pc = "waiting" /\ chan[r] # "empty"
    /\ req' = [req EXCEPT ![r].pc = IF chan[r] = "answer" THEN "answered" ELSE "failed"]
    /\ chan' = [chan EXCEPT ![r] = "empty"]
    /\ UNCHANGED <<bridge, lost, primary, pending, rejecting, messageVars, closing>>

RequestTimeout(r) ==
    /\ req[r].pc = "waiting"
    /\ req' = [req EXCEPT ![r].pc = "failed"]
    /\ pending' = pending \ {r}
    /\ UNCHANGED <<bridge, lost, primary, chan, rejecting, messageVars, closing>>

-----------------------------------------------------------------------------
(* forwardUpstream and the supervisor's event loop *)

\* The goroutine reads what arrived before the socket failed; a bridge that was
\* closed gives it no more.
Reads(c, kind) ==
    /\ bridge[c] = "open"
    /\ wire[c] # <<>> /\ Head(wire[c]).kind = kind
    /\ wire' = [wire EXCEPT ![c] = Tail(@)]

\* An answer nobody waits for is not told from one of the client's own.
ForwardAnswer(c) ==
    /\ Reads(c, "answer")
    /\ LET id == Head(wire[c]).id
       IN IF id \in pending
          THEN /\ pending' = pending \ {id}
               /\ chan[id] = "empty"
               /\ chan' = [chan EXCEPT ![id] = "answer"]
               /\ UNCHANGED client
          ELSE /\ client' = client \cup {id}
               /\ UNCHANGED <<pending, chan>>
    /\ UNCHANGED <<bridge, lost, primary, req, rejecting, said, events, seen, closing, server>>

ForwardNote(c) ==
    /\ Reads(c, "note")
    /\ events' = Append(events, [from |-> c, n |-> Head(wire[c]).n,
                                   reacts |-> Head(wire[c]).reacts])
    /\ UNCHANGED <<bridge, lost, primary, requestVars, client, said, seen, closing, server>>

IsPrimary(c) == primary = c /\ c \in Registered

\* Mutant: the message goes on and no observer is told.
ForwardUnobserved(c) ==
    /\ bridge[c] = "open" /\ c \notin lost /\ said[c].pc = "no"
    /\ said' = [said EXCEPT ![c] = [pc |-> "forwarded", told |-> IsPrimary(c)]]
    /\ UNCHANGED <<bridge, lost, primary, requestVars, wire, client, events, seen,
                   closing, server>>

\* forwardDownstream: the supervisor learns of the primary client's message
\* before it goes on to the app-server.  Bound: one message of each client.
ObserveClient(c) ==
    /\ bridge[c] = "open" /\ c \notin lost /\ said[c].pc = "no"
    /\ said' = [said EXCEPT ![c] = [pc |-> "observed", told |-> IsPrimary(c)]]
    /\ events' = IF IsPrimary(c)
                 THEN Append(events, [from |-> c, n |-> 0, reacts |-> FALSE]) ELSE events
    /\ UNCHANGED <<bridge, lost, primary, requestVars, wire, client, seen, closing, server>>

ForwardClient(c) ==
    /\ bridge[c] = "open" /\ c \notin lost /\ said[c].pc = "observed"
    /\ said' = [said EXCEPT ![c].pc = "forwarded"]
    /\ UNCHANGED <<bridge, lost, primary, requestVars, wire, client, events, seen,
                   closing, server>>

\* Mutant: events of every connection are handled.
HandleEventOfAny ==
    /\ events # <<>>
    /\ events' = Tail(events)
    /\ seen' = [seen EXCEPT !.handled = Append(@, Head(events))]
    /\ UNCHANGED <<bridge, lost, primary, requestVars, wire, client, said, closing, server>>

HandleEvent ==
    /\ events # <<>>
    /\ events' = Tail(events)
    /\ seen' = IF IsPrimary(Head(events).from)
               THEN [seen EXCEPT !.handled = Append(@, Head(events))] ELSE seen
    /\ UNCHANGED <<bridge, lost, primary, requestVars, wire, client, said, closing, server>>

-----------------------------------------------------------------------------
(* Close *)

CloseBegins ==
    /\ closing = "idle"
    /\ closing' = "reject"
    /\ UNCHANGED <<bridge, lost, primary, requestVars, messageVars>>

\* Mutant: Close empties the map and tells nobody.
CloseForgetsPending ==
    /\ closing = "reject"
    /\ pending' = {}
    /\ closing' = "bridges"
    /\ UNCHANGED <<bridge, lost, primary, req, chan, rejecting, messageVars>>

CloseTakesPending ==
    /\ closing = "reject"
    /\ rejecting' = [rejecting EXCEPT ![NoConn] = pending]
    /\ pending' = {}
    /\ closing' = "bridges"
    /\ UNCHANGED <<bridge, lost, primary, req, chan, messageVars>>

\* Close sends its rejections before it closes the bridges of its snapshot.
CloseBridges ==
    /\ closing = "bridges" /\ rejecting[NoConn] = {}
    /\ lost' = lost \cup Registered
    /\ bridge' = [c \in Conns |-> IF bridge[c] = "open" THEN "closed" ELSE bridge[c]]
    /\ closing' = "done"
    /\ UNCHANGED <<primary, requestVars, messageVars>>

-----------------------------------------------------------------------------
(* The app-server *)

ServerAnswers(r) ==
    /\ r \in server.got \ server.answered
    /\ req[r].on \notin lost /\ bridge[req[r].on] = "open"
    /\ server' = [server EXCEPT !.answered = @ \cup {r}]
    /\ wire' = [wire EXCEPT ![req[r].on] = Append(@, AnswerTo(r))]
    /\ UNCHANGED <<bridge, lost, primary, requestVars, client, said, events, seen, closing>>

ServerNotifies(c) ==
    /\ bridge[c] = "open" /\ c \notin lost
    /\ seen.sent[c] < MaxEvents
    /\ seen' = [seen EXCEPT !.sent[c] = @ + 1]
    /\ wire' = [wire EXCEPT ![c] = Append(@, Note(seen.sent[c] + 1, said[c].pc = "forwarded"))]
    /\ UNCHANGED <<bridge, lost, primary, requestVars, client, said, events, closing, server>>

-----------------------------------------------------------------------------
Bridges ==
    \E c \in Conns :
        \/ AcceptDials(c) \/ AcceptRegisters(c) \/ ConnectionLost(c)
        \/ BridgeCloses(c) \/ BridgeRemoved(c) \/ BridgeTakesPending(c)
        \/ ForwardAnswer(c) \/ ForwardNote(c) \/ ServerNotifies(c)
        \/ ObserveClient(c) \/ ForwardClient(c)

Request(r) ==
    \/ ChoosePrimary(r) \/ Register(r) \/ WriteSucceeds(r) \/ WriteFails(r)
    \/ Receive(r) \/ RequestTimeout(r) \/ ServerAnswers(r)
    \/ \E c \in Conns \cup {NoConn} : Reject(c, r)

Next ==
    \/ Bridges
    \/ \E r \in Requests : Request(r)
    \/ HandleEvent
    \/ CloseBegins \/ CloseTakesPending \/ CloseBridges

Spec == Init /\ [][Next]_vars

\* Goroutines that can run do run; connections, calls, answers, deadlines and
\* Close are up to others.
Fairness ==
    /\ \A r \in Requests :
        /\ WF_vars(Register(r)) /\ WF_vars(Receive(r))
        /\ WF_vars(WriteSucceeds(r) \/ WriteFails(r))
        /\ \A c \in Conns \cup {NoConn} : WF_vars(Reject(c, r))
    /\ \A c \in Conns :
        /\ WF_vars(BridgeCloses(c)) /\ WF_vars(BridgeRemoved(c))
        /\ WF_vars(BridgeTakesPending(c)) /\ WF_vars(ForwardAnswer(c) \/ ForwardNote(c))

-----------------------------------------------------------------------------
\* As in JsonRpc, for the requests the supervisor injects.
Contract == INSTANCE RequestContract WITH
    call <- [r \in Requests |-> IF req[r].pc \in Active THEN "open" ELSE req[r].pc],
    served <- server.answered

\* proxy.go:84-113 implements the contract of a request, also when the bridge
\* closes between its choice and the registration.
KeepsContract == Contract!Spec

\* Without any deadline, a request whose answer arrived or whose bridge ended
\* ends; the window between primaryBridge and the registration is closed by the
\* write to a bridge that was closed before it was removed.
Unended ==
    \E r \in Requests :
        req[r].pc \in Active /\ (req[r].on \in lost \/ r \in server.answered)

\* proxy.go:227: an injected request whose answer is passed on to the client was
\* given up, or has been taken to be rejected: its caller never waits in vain.
NoAnswerMislaid ==
    \A r \in client :
        \/ req[r].pc = "failed" \/ chan[r] = "error"
        \/ \E c \in DOMAIN rejecting : r \in rejecting[c]

\* proxy.go:163 and supervisor.go:474: of each connection the event loop handles
\* the notifications in order and without a gap, and none of a former primary
\* after one of its successor.
EventsOfOneTui ==
    LET H == seen.handled
    IN \A i, j \in DOMAIN H : i < j =>
        /\ (H[i].from = H[j].from /\ H[i].n > 0 /\ H[j].n > 0) =>
             \E k \in i+1..j : H[k].from = H[i].from /\ H[k].n = H[i].n + 1
        /\ H[i].from # H[j].from => \A k \in j..Len(H) : H[k].from # H[i].from

\* proxy.go:191: what the app-server sends because of a message of the primary
\* client, the end of a turn after Esc, is handled after that message.
ClientHandledFirst ==
    LET H == seen.handled
    IN \A j \in DOMAIN H : (H[j].reacts /\ said[H[j].from].told) =>
        \E i \in 1..j : H[i].from = H[j].from /\ H[i].n = 0
=============================================================================
