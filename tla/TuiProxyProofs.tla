--------------------------- MODULE TuiProxyProofs ---------------------------
(***************************************************************************)
(* The TUI proxy implements the contract of a request, mislays no answer,  *)
(* and hands the supervisor the events of one TUI, in order and after what *)
(* its user did, for every set of connections and requests.                *)
(***************************************************************************)
EXTENDS TuiProxy, SequenceTheorems, TLAPS

\* A request's channel has been taken from the map and nothing was sent to it yet.
Taken(r) == \E c \in Conns \cup {NoConn} : r \in rejecting[c]

\* A request is in the map or its channel has been taken or sent to, until its caller is told.
Channels ==
    /\ \A r \in pending : req[r].pc \in {"registered", "waiting"} /\ chan[r] = "empty" /\ ~Taken(r)
    /\ \A r \in Requests :
        /\ req[r].pc \in {"idle", "chosen"} => chan[r] = "empty" /\ ~Taken(r)
        /\ req[r].pc \in {"registered", "waiting"} /\ r \notin pending => chan[r] # "empty" \/ Taken(r)
    /\ closing \in {"idle", "reject"} => rejecting[NoConn] = {}

\* An answer that was not read yet is the only one of its request, and nobody was told of it.
Unread(c, i) ==
    LET r == wire[c][i].id
    IN  /\ r \in server.answered /\ req[r].on = c
        /\ req[r].pc # "answered" /\ chan[r] # "answer" /\ r \notin client
        /\ \A j \in DOMAIN wire[c] : wire[c][j] = wire[c][i] => j = i

Answers ==
    /\ server.answered \subseteq server.got
    /\ \A r \in server.got : req[r].pc \in {"waiting", "answered", "failed"} /\ req[r].on \in Conns
    /\ \A c \in Conns : \A i \in DOMAIN wire[c] : wire[c][i].kind = "answer" => Unread(c, i)
    /\ \A r \in Requests : chan[r] = "answer" \/ req[r].pc = "answered" \/ r \in client => r \in server.answered

\* The invariant of the requests.
RequestInv == Channels /\ Answers /\ NoAnswerMislaid

-----------------------------------------------------------------------------
\* The events the supervisor has handled, and the notifications among them.
H == seen.handled
IsNote(e, c) == e.from = c /\ e.n > 0

\* Nothing was heard on a bridge that is not registered yet.
Unheard(c) ==
    /\ primary # c /\ seen.sent[c] = 0 /\ wire[c] = <<>>
    /\ said[c].pc = "no" /\ ~said[c].told
    /\ \A i \in DOMAIN events : events[i].from # c
    /\ \A i \in DOMAIN H : H[i].from # c

\* The primary connection is registered, and nothing came from one that is not yet.
Bridged ==
    /\ primary # NoConn => bridge[primary] \in {"open", "closed"}
    /\ \A c \in Conns : bridge[c] \in {"none", "dialed"} => Unheard(c)

\* Each notification of the primary connection was handled, is an event, or was not read yet.
Complete(c) ==
    \A n \in 1..seen.sent[c] :
        \/ \E i \in DOMAIN H : H[i].from = c /\ H[i].n = n
        \/ \E i \in DOMAIN events : events[i].from = c /\ events[i].n = n
        \/ \E i \in DOMAIN wire[c] : wire[c][i].kind = "note" /\ wire[c][i].n = n

\* They are in the order they were sent in.
Ordered(c) ==
    /\ \A i \in DOMAIN H : IsNote(H[i], c) =>
        /\ \A j \in DOMAIN H : i < j /\ IsNote(H[j], c) => H[i].n < H[j].n
        /\ \A j \in DOMAIN events : IsNote(events[j], c) => H[i].n < events[j].n
        /\ \A j \in DOMAIN wire[c] : wire[c][j].kind = "note" => H[i].n < wire[c][j].n
    /\ \A i \in DOMAIN events : IsNote(events[i], c) =>
        /\ \A j \in DOMAIN events : i < j /\ IsNote(events[j], c) => events[i].n < events[j].n
        /\ \A j \in DOMAIN wire[c] : wire[c][j].kind = "note" => events[i].n < wire[c][j].n
    /\ \A i \in DOMAIN wire[c] : wire[c][i].kind = "note" =>
        /\ \A j \in DOMAIN wire[c] : i < j /\ wire[c][j].kind = "note" => wire[c][i].n < wire[c][j].n

\* No notification has a later number than the last one sent.
Sent(c) ==
    /\ \A i \in DOMAIN H : H[i].from = c => H[i].n <= seen.sent[c]
    /\ \A i \in DOMAIN events : events[i].from = c => events[i].n <= seen.sent[c]
    /\ \A i \in DOMAIN wire[c] : wire[c][i].kind = "note" => wire[c][i].n <= seen.sent[c]

\* Since the first event of the primary connection none of another was handled.
Alone(c) == \A i, j \in DOMAIN H : i < j /\ H[i].from = c => H[j].from = c

\* The stream of the primary connection.
Stream == primary # NoConn => Complete(primary) /\ Ordered(primary) /\ Sent(primary) /\ Alone(primary)

\* The app-server has reacted to no message that was not forwarded.
NoReaction(c) ==
    /\ \A i \in DOMAIN H : H[i].from = c => ~H[i].reacts
    /\ \A i \in DOMAIN events : events[i].from = c => ~events[i].reacts
    /\ \A i \in DOMAIN wire[c] : wire[c][i].kind = "note" => ~wire[c][i].reacts

\* The message of the primary client was handled, or is an event before all reactions to it.
Observed(c) ==
    \/ \E i \in DOMAIN H : H[i].from = c /\ H[i].n = 0
    \/ /\ \A i \in DOMAIN H : H[i].from = c => ~H[i].reacts
       /\ \E i \in DOMAIN events :
            /\ events[i].from = c /\ events[i].n = 0
            /\ \A j \in 1..i : events[j].from = c => ~events[j].reacts

\* A reaction comes from a message that was forwarded, and after it was observed.
Reactions ==
    /\ \A c \in Conns : said[c].pc # "forwarded" => NoReaction(c)
    /\ \A c \in Conns : said[c].told => said[c].pc # "no"
    /\ primary # NoConn /\ said[primary].told => Observed(primary)

\* The invariant of the events.
EventInv == Bridged /\ Stream /\ Reactions /\ EventsOfOneTui /\ ClientHandledFirst

(* Type correctness *)

\* The steps of a bridge's life.
BridgeSteps(c) ==
    \/ AcceptDials(c) \/ AcceptRegisters(c) \/ ConnectionLost(c)
    \/ BridgeCloses(c) \/ BridgeRemoved(c)

\* What a forwarding goroutine reads is one of the messages it was sent, and so is what is left.
LEMMA ReadsMessage ==
  ASSUME TypeOK, NEW c \in Conns, NEW kind, Reads(c, kind)
  PROVE  /\ Head(wire[c]) \in Message /\ Head(wire[c]) = wire[c][1]
         /\ wire' \in [Conns -> Seq(Message)] /\ wire'[c] = Tail(wire[c])
         /\ Len(wire[c]) \in Nat /\ Len(wire[c]) > 0 /\ Len(wire'[c]) = Len(wire[c]) - 1
         /\ \A i \in 1..Len(wire'[c]) : wire'[c][i] = wire[c][i + 1]
         /\ \A d \in Conns : d # c => wire'[d] = wire[d]
<1>1. wire \in [Conns -> Seq(Message)] /\ wire[c] \in Seq(Message) /\ wire[c] # <<>>
  BY DEF TypeOK, Reads
<1>2. wire' = [wire EXCEPT ![c] = Tail(wire[c])]
  BY DEF Reads
<1>3. /\ Head(wire[c]) \in Message /\ Tail(wire[c]) \in Seq(Message)
      /\ Len(Tail(wire[c])) = Len(wire[c]) - 1
      /\ \A i \in 1..Len(Tail(wire[c])) : Tail(wire[c])[i] = wire[c][i + 1]
  BY <1>1, HeadTailProperties
<1>4. Len(wire[c]) \in Nat /\ Len(wire[c]) > 0 /\ Head(wire[c]) = wire[c][1]
  BY <1>1, LenProperties, EmptySeq
<1>5. QED
  BY <1>1, <1>2, <1>3, <1>4

\* A message that is sent goes to the end of its connection's.
LEMMA SendsMessage ==
  ASSUME TypeOK, NEW c \in Conns, NEW m \in Message, wire' = [wire EXCEPT ![c] = Append(@, m)]
  PROVE  /\ wire' \in [Conns -> Seq(Message)]
         /\ Len(wire[c]) \in Nat /\ Len(wire'[c]) = Len(wire[c]) + 1
         /\ \A i \in 1..Len(wire[c]) : wire'[c][i] = wire[c][i]
         /\ wire'[c][Len(wire[c]) + 1] = m
         /\ \A d \in Conns : d # c => wire'[d] = wire[d]
<1>1. wire \in [Conns -> Seq(Message)] /\ wire[c] \in Seq(Message)
  BY DEF TypeOK
<1>2. /\ Append(wire[c], m) \in Seq(Message) /\ Len(Append(wire[c], m)) = Len(wire[c]) + 1
      /\ \A i \in 1..Len(wire[c]) : Append(wire[c], m)[i] = wire[c][i]
      /\ Append(wire[c], m)[Len(wire[c]) + 1] = m
  BY <1>1, AppendProperties
<1>3. Len(wire[c]) \in Nat
  BY <1>1, LenProperties
<1>4. QED
  BY <1>1, <1>2, <1>3

Calls(r) == Register(r) \/ WriteSucceeds(r) \/ WriteFails(r) \/ Receive(r) \/ RequestTimeout(r)

\* A call goes on, on the connection that was chosen for it.
LEMMA CallMoves ==
  ASSUME TypeOK, NEW r \in Requests, NEW pc \in {"idle"} \cup Active \cup Ended,
         req' = [req EXCEPT ![r].pc = pc]
  PROVE  req' \in [Requests -> [pc : {"idle"} \cup Active \cup Ended, on : Conns \cup {NoConn}]]
<1>1. req \in [Requests -> [pc : {"idle"} \cup Active \cup Ended, on : Conns \cup {NoConn}]]
  BY DEF TypeOK
<1>2. [req[r] EXCEPT !.pc = pc] \in [pc : {"idle"} \cup Active \cup Ended, on : Conns \cup {NoConn}]
  BY <1>1
<1>3. QED
  BY <1>1, <1>2

\* A request that has not ended has a connection.
Placed == \A r \in Requests : req[r].pc \in Active => req[r].on \in Conns

\* Every step keeps requests on connections.
LEMMA PlacedStep ==
  ASSUME TypeOK, Placed, [Next]_vars
  PROVE  Placed'
<1>1. ASSUME req' = req PROVE Placed'
  BY <1>1 DEF Placed
<1>2. ASSUME NEW r \in Requests, ChoosePrimary(r) PROVE Placed'
  BY <1>2 DEF ChoosePrimary, Placed, TypeOK, Active
<1>3. ASSUME NEW r \in Requests, Calls(r) PROVE Placed'
  <2>1. PICK pc \in {"registered", "waiting", "answered", "failed"} :
          req' = [req EXCEPT ![r] = [req[r] EXCEPT !.pc = pc]] /\ req[r].pc \in Active
    BY <1>3 DEF Calls, Register, WriteSucceeds, WriteFails, Receive, RequestTimeout, Active
  <2>2. \A q \in Requests : req'[q].on = req[q].on /\ (req'[q].pc \in Active => req[q].pc \in Active)
    BY <2>1 DEF TypeOK
  <2>3. QED
    BY <2>2 DEF Placed
<1>4. ASSUME NEW r \in Requests, ServerAnswers(r) \/ \E c \in Conns \cup {NoConn} : Reject(c, r) PROVE req' = req
  BY <1>4 DEF ServerAnswers, Reject, requestVars
<1>5. CASE Bridges
  BY <1>1, <1>5 DEF Bridges, AcceptDials, AcceptRegisters, ConnectionLost, BridgeCloses, BridgeRemoved, BridgeTakesPending,
     ForwardAnswer, ForwardNote, ServerNotifies, ObserveClient, ForwardClient, requestVars
<1>6. CASE HandleEvent \/ CloseBegins \/ CloseTakesPending \/ CloseBridges \/ UNCHANGED vars
  BY <1>1, <1>6 DEF HandleEvent, CloseBegins, CloseTakesPending, CloseBridges, vars, requestVars
<1>7. QED
  BY <1>1, <1>2, <1>3, <1>4, <1>5, <1>6 DEF Next, Request, Calls

\* A notification is a message.
LEMMA NoteIsMessage ==
  ASSUME NEW n \in 1..MaxEvents, NEW b
  PROVE  Note(n, b = "forwarded") \in Message
<1>1. (b = "forwarded") \in BOOLEAN
  OBVIOUS
<1>2. QED
  BY <1>1 DEF Message, Note

\* Every variable of the proxy keeps its type.
LEMMA TypeStep ==
  ASSUME ProxyAssumption, TypeOK, Placed, [Next]_vars
  PROVE  TypeOK'
<1> USE DEF ProxyAssumption, TypeOK, Active, Ended, requestVars, messageVars
<1>1. ASSUME NEW c \in Conns, BridgeSteps(c) PROVE TypeOK'
  BY <1>1 DEF BridgeSteps, AcceptDials, AcceptRegisters, ConnectionLost, BridgeCloses, BridgeRemoved
<1>2. ASSUME NEW c \in Conns, BridgeTakesPending(c) PROVE TypeOK'
  BY <1>2 DEF BridgeTakesPending
<1>3. ASSUME NEW c \in Conns, ForwardAnswer(c) PROVE TypeOK'
  <2>1. Head(wire[c]) \in Message /\ wire' \in [Conns -> Seq(Message)] /\ Head(wire[c]).kind = "answer"
    BY <1>3, ReadsMessage DEF ForwardAnswer, Reads
  <2>2. Head(wire[c]).id \in Requests
    BY <2>1 DEF Message, AnswerTo, Note
  <2>3. /\ pending' \subseteq Requests /\ client' \subseteq Requests
        /\ chan' \in [Requests -> {"empty", "answer", "error"}]
    <3>1. PICK id \in Requests :
            /\ pending' = pending \ {id} \/ pending' = pending
            /\ chan' = chan \/ chan' = [chan EXCEPT ![id] = "answer"]
            /\ client' = client \/ client' = client \cup {id}
      BY <1>3, <2>2, Zenon DEF ForwardAnswer
    <3>2. /\ pending \subseteq Requests /\ client \subseteq Requests
          /\ chan \in [Requests -> {"empty", "answer", "error"}]
      OBVIOUS
    <3> HIDE DEF TypeOK
    <3>3. QED
      BY <3>1, <3>2
  <2>4. UNCHANGED <<bridge, lost, primary, req, rejecting, said, events, seen, closing, server>>
    BY <1>3 DEF ForwardAnswer
  <2>5. QED
    BY <2>1, <2>3, <2>4
<1>4. ASSUME NEW c \in Conns, ForwardNote(c) PROVE TypeOK'
  <2>1. Head(wire[c]) \in Message /\ wire' \in [Conns -> Seq(Message)] /\ Head(wire[c]).kind = "note"
    BY <1>4, ReadsMessage DEF ForwardNote, Reads
  <2>2. Head(wire[c]).n \in 1..MaxEvents /\ Head(wire[c]).reacts \in BOOLEAN
    BY <2>1 DEF Message, AnswerTo, Note
  <2>3. [from |-> c, n |-> Head(wire[c]).n, reacts |-> Head(wire[c]).reacts] \in Event
    BY <2>2 DEF Event
  <2>4. events' \in Seq(Event)
    BY <1>4, <2>3, AppendProperties DEF ForwardNote
  <2>5. QED
    BY <1>4, <2>1, <2>4 DEF ForwardNote
<1>5. ASSUME NEW c \in Conns, ServerNotifies(c) PROVE TypeOK'
  <2>1. Note(seen.sent[c] + 1, said[c].pc = "forwarded") \in Message
    <3>1. seen.sent[c] + 1 \in 1..MaxEvents
      BY <1>5 DEF ServerNotifies
    <3>2. QED
      BY <3>1, NoteIsMessage
  <2>2. wire' \in [Conns -> Seq(Message)]
    BY <1>5, <2>1, SendsMessage DEF ServerNotifies
  <2>3. seen' \in [sent : [Conns -> 0..MaxEvents], handled : Seq(Event)]
    <3>1. seen' = [seen EXCEPT !.sent = [seen.sent EXCEPT ![c] = seen.sent[c] + 1]] /\ seen.sent[c] < MaxEvents
      BY <1>5 DEF ServerNotifies
    <3>2. [seen.sent EXCEPT ![c] = seen.sent[c] + 1] \in [Conns -> 0..MaxEvents]
      BY <3>1
    <3>3. QED
      BY <3>1, <3>2
  <2>4. QED
    BY <1>5, <2>2, <2>3 DEF ServerNotifies
<1>6. ASSUME NEW c \in Conns, ObserveClient(c) \/ ForwardClient(c) PROVE TypeOK'
  <2>1. [from |-> c, n |-> 0, reacts |-> FALSE] \in Event
    BY DEF Event
  <2>2. events' \in Seq(Event)
    <3>1. events' = events \/ events' = Append(events, [from |-> c, n |-> 0, reacts |-> FALSE])
      BY <1>6 DEF ObserveClient, ForwardClient
    <3>2. events \in Seq(Event)
      OBVIOUS
    <3> HIDE DEF TypeOK
    <3>3. QED
      BY <3>1, <3>2, <2>1, AppendProperties
  <2>3. said' \in [Conns -> [pc : {"no", "observed", "forwarded"}, told : BOOLEAN]]
    <3>1. CASE ObserveClient(c)
      <4>1. said' = [said EXCEPT ![c] = [pc |-> "observed", told |-> IsPrimary(c)]]
        BY <3>1 DEF ObserveClient
      <4>2. IsPrimary(c) \in BOOLEAN
        BY DEF IsPrimary
      <4>3. QED
        BY <4>1, <4>2
    <3>2. CASE ForwardClient(c)
      <4>1. said' = [said EXCEPT ![c] = [said[c] EXCEPT !.pc = "forwarded"]]
        BY <3>2 DEF ForwardClient
      <4>2. [said[c] EXCEPT !.pc = "forwarded"] \in [pc : {"no", "observed", "forwarded"}, told : BOOLEAN]
        <5>1. said[c] \in [pc : {"no", "observed", "forwarded"}, told : BOOLEAN]
          OBVIOUS
        <5> HIDE DEF TypeOK
        <5>2. QED
          BY <5>1
      <4>3. QED
        BY <4>1, <4>2
    <3>3. QED
      BY <1>6, <3>1, <3>2
  <2>4. QED
    BY <1>6, <2>2, <2>3 DEF ObserveClient, ForwardClient
<1>7. ASSUME NEW r \in Requests, NEW c \in Conns \cup {NoConn}, Reject(c, r) PROVE TypeOK'
  BY <1>7 DEF Reject
<1>8. ASSUME NEW r \in Requests, ChoosePrimary(r) PROVE TypeOK'
  BY <1>8 DEF ChoosePrimary
<1>9. ASSUME NEW r \in Requests, Calls(r) PROVE TypeOK'
  <2>1. req' \in [Requests -> [pc : {"idle"} \cup Active \cup Ended, on : Conns \cup {NoConn}]]
    BY <1>9, CallMoves DEF Calls, Register, WriteSucceeds, WriteFails, Receive, RequestTimeout
  <2>2. /\ pending' = pending \/ pending' = pending \cup {r} \/ pending' = pending \ {r}
        /\ chan' = chan \/ chan' = [chan EXCEPT ![r] = "empty"]
        /\ server' = server \/ server' = [server EXCEPT !.got = server.got \cup {r}]
    BY <1>9, Zenon DEF Calls, Register, WriteSucceeds, WriteFails, Receive, RequestTimeout
  <2>5. /\ pending' \subseteq Requests /\ chan' \in [Requests -> {"empty", "answer", "error"}]
        /\ server' \in [got : SUBSET Requests, answered : SUBSET Requests]
    <3>1. /\ pending \subseteq Requests /\ chan \in [Requests -> {"empty", "answer", "error"}]
          /\ server \in [got : SUBSET Requests, answered : SUBSET Requests]
      OBVIOUS
    <3> HIDE DEF TypeOK
    <3>2. server' \in [got : SUBSET Requests, answered : SUBSET Requests]
      BY <2>2, <3>1
    <3>3. pending' \subseteq Requests /\ chan' \in [Requests -> {"empty", "answer", "error"}]
      BY <2>2, <3>1
    <3>4. QED
      BY <3>2, <3>3
  <2>6. lost' \subseteq Conns
    <3>1. lost' = lost \/ (lost' = lost \cup {req[r].on} /\ req[r].pc = "registered")
      BY <1>9 DEF Calls, Register, WriteSucceeds, WriteFails, Receive, RequestTimeout
    <3>2. QED
      BY <3>1 DEF Placed
  <2>3. UNCHANGED <<bridge, primary, rejecting, wire, client, said, events, seen, closing>>
    BY <1>9 DEF Calls, Register, WriteSucceeds, WriteFails, Receive, RequestTimeout
  <2>4. QED
    BY <2>1, <2>2, <2>3, <2>5, <2>6
<1>10. ASSUME NEW r \in Requests, ServerAnswers(r) PROVE TypeOK'
  <2>1. AnswerTo(r) \in Message
    BY DEF Message
  <2>2. wire' \in [Conns -> Seq(Message)]
    BY <1>10, <2>1, AppendProperties DEF ServerAnswers
  <2>3. QED
    BY <1>10, <2>2 DEF ServerAnswers
<1>11. CASE HandleEvent
  <2>1. Head(events) \in Event /\ Tail(events) \in Seq(Event)
    BY <1>11, HeadTailProperties DEF HandleEvent
  <2>2. Append(seen.handled, Head(events)) \in Seq(Event)
    BY <2>1, AppendProperties
  <2>3. QED
    BY <1>11, <2>1, <2>2 DEF HandleEvent
<1>12. CASE CloseBegins \/ CloseTakesPending \/ CloseBridges
  BY <1>12 DEF CloseBegins, CloseTakesPending, CloseBridges, Registered
<1>13. CASE UNCHANGED vars
  BY <1>13 DEF vars
<1>14. QED
  BY <1>1, <1>2, <1>3, <1>4, <1>5, <1>6, <1>7, <1>8, <1>9, <1>10, <1>11, <1>12, <1>13
  DEF Next, Bridges, BridgeSteps, Request, Calls

\* The types, with Placed, without which they are not inductive.
LEMMA TypesInvariant == ASSUME ProxyAssumption PROVE Spec => [](TypeOK /\ Placed)
<1>1. Init => TypeOK /\ Placed
  BY EmptySeq DEF ProxyAssumption, Init, TypeOK, Placed, Active, Ended
<1>2. TypeOK /\ Placed /\ [Next]_vars => TypeOK' /\ Placed'
  BY TypeStep, PlacedStep
<1>3. QED
  BY <1>1, <1>2, PTL DEF Spec

\* All variables of the proxy keep their types.
THEOREM TypeCorrect == ASSUME ProxyAssumption PROVE Spec => []TypeOK
BY TypesInvariant, PTL

-----------------------------------------------------------------------------
(* Where the channel of a request is *)

\* What the steps of a request leave alone.
Quiet == UNCHANGED <<pending, req, chan, rejecting, closing>>

\* What each step of a call does to it.
LEMMA CallEffect ==
  ASSUME TypeOK, NEW r \in Requests, Calls(r)
  PROVE  /\ \A q \in Requests : req'[q].on = req[q].on /\ (q # r => req'[q] = req[q] /\ chan'[q] = chan[q])
         /\ UNCHANGED <<rejecting, closing, wire, client>>
         /\ server'.answered = server.answered
         /\ \/ /\ req[r].pc = "chosen" /\ req'[r].pc = "registered" /\ chan'[r] = chan[r]
               /\ pending' = pending \cup {r} /\ server' = server
            \/ /\ req[r].pc = "registered" /\ req'[r].pc = "waiting" /\ chan'[r] = chan[r]
               /\ bridge[req[r].on] = "open"
               /\ pending' = pending /\ (server'.got = server.got \/ server'.got = server.got \cup {r})
            \/ /\ req[r].pc \in {"registered", "waiting"} /\ req'[r].pc = "failed" /\ chan'[r] = chan[r]
               /\ pending' = pending \ {r} /\ server' = server
            \/ /\ req[r].pc = "waiting" /\ chan[r] = "answer" /\ req'[r].pc = "answered" /\ chan'[r] = "empty"
               /\ pending' = pending /\ server' = server
            \/ /\ req[r].pc = "waiting" /\ chan[r] = "error" /\ req'[r].pc = "failed" /\ chan'[r] = "empty"
               /\ pending' = pending /\ server' = server
<1>0. /\ req \in [Requests -> [pc : {"idle"} \cup Active \cup Ended, on : Conns \cup {NoConn}]]
      /\ chan \in [Requests -> {"empty", "answer", "error"}]
      /\ server \in [got : SUBSET Requests, answered : SUBSET Requests]
  BY DEF TypeOK
<1>1. CASE Register(r)
  BY <1>0, <1>1 DEF Register, messageVars
<1>2. CASE WriteSucceeds(r)
  BY <1>0, <1>2 DEF WriteSucceeds
<1>3. CASE WriteFails(r)
  BY <1>0, <1>3 DEF WriteFails, messageVars
<1>4. CASE Receive(r)
  BY <1>0, <1>4 DEF Receive, messageVars
<1>5. CASE RequestTimeout(r)
  BY <1>0, <1>5 DEF RequestTimeout, messageVars
<1>6. QED
  BY <1>1, <1>2, <1>3, <1>4, <1>5 DEF Calls

\* The steps that have nothing to do with requests.
LEMMA QuietSteps ==
  ASSUME NEW c \in Conns,
         \/ BridgeSteps(c) \/ ForwardNote(c) \/ ServerNotifies(c) \/ ObserveClient(c) \/ ForwardClient(c)
         \/ HandleEvent \/ UNCHANGED vars
  PROVE  Quiet /\ UNCHANGED <<client, server>>
BY DEF Quiet, BridgeSteps, AcceptDials, AcceptRegisters, ConnectionLost, BridgeCloses, BridgeRemoved, ForwardNote,
   ServerNotifies, ObserveClient, ForwardClient, HandleEvent, vars, requestVars, messageVars

\* Each step moves a channel from one place to another.
LEMMA ChannelsStep ==
  ASSUME ProxyAssumption, TypeOK, Channels, [Next]_vars
  PROVE  Channels'
<1>0. /\ req \in [Requests -> [pc : {"idle"} \cup Active \cup Ended, on : Conns \cup {NoConn}]]
      /\ chan \in [Requests -> {"empty", "answer", "error"}]
      /\ rejecting \in [Conns \cup {NoConn} -> SUBSET Requests]
      /\ pending \subseteq Requests
  BY DEF TypeOK
<1>1. ASSUME Quiet PROVE Channels'
  BY <1>1 DEF Quiet, Channels, Taken
<1>2. ASSUME NEW r \in Requests, Calls(r) PROVE Channels'
  <2>1. \A q : Taken(q)' <=> Taken(q)
    BY <1>2, CallEffect DEF Taken
  <2>2. QED
    BY <1>0, <1>2, <2>1, CallEffect DEF Channels
<1>3. ASSUME NEW r \in Requests, ChoosePrimary(r) PROVE Channels'
  BY <1>0, <1>3 DEF ChoosePrimary, Channels, Taken
<1>4. ASSUME NEW r \in Requests, NEW c \in Conns \cup {NoConn}, Reject(c, r) PROVE Channels'
  BY <1>0, <1>4 DEF Reject, Channels, Taken
<1>5. ASSUME NEW c \in Conns, BridgeTakesPending(c) PROVE Channels'
  BY <1>0, <1>5 DEF ProxyAssumption, BridgeTakesPending, Channels, Taken
<1>6. ASSUME NEW c \in Conns, ForwardAnswer(c) PROVE Channels'
  BY <1>0, <1>6 DEF ForwardAnswer, Channels, Taken
<1>7. CASE CloseTakesPending
  BY <1>0, <1>7 DEF CloseTakesPending, Channels, Taken
<1>8. CASE CloseBegins \/ CloseBridges
  BY <1>0, <1>8 DEF CloseBegins, CloseBridges, Channels, Taken, requestVars
<1>9. ASSUME NEW r \in Requests, ServerAnswers(r) PROVE Quiet
  BY <1>9 DEF ServerAnswers, Quiet, requestVars
<1>10. ASSUME HandleEvent \/ UNCHANGED vars PROVE Quiet
  BY <1>10 DEF HandleEvent, Quiet, vars, requestVars
<1>11. QED
  BY <1>1, <1>2, <1>3, <1>4, <1>5, <1>6, <1>7, <1>8, <1>9, <1>10, QuietSteps
  DEF Next, Bridges, BridgeSteps, Request, Calls

-----------------------------------------------------------------------------
(* The answers *)

\* What is read next was there before, and what was there before and is not read is there still.
LEMMA WireShifts ==
  ASSUME TypeOK, NEW c \in Conns, NEW kind, Reads(c, kind)
  PROVE  \A d \in Conns : \A i \in DOMAIN wire'[d] :
           LET k == IF d = c THEN i + 1 ELSE i
           IN  k \in DOMAIN wire[d] /\ wire'[d][i] = wire[d][k] /\ (d = c => k # 1)
<1>1. wire \in [Conns -> Seq(Message)] /\ wire' \in [Conns -> Seq(Message)]
  BY ReadsMessage DEF TypeOK
<1>2. \A d \in Conns : DOMAIN wire[d] = 1..Len(wire[d]) /\ DOMAIN wire'[d] = 1..Len(wire'[d])
  BY <1>1, LenProperties
<1>3. QED
  BY <1>2, ReadsMessage

\* What is sent comes after what was there before.
LEMMA WireGrows ==
  ASSUME TypeOK, NEW c \in Conns, NEW m \in Message, wire' = [wire EXCEPT ![c] = Append(@, m)]
  PROVE  \A d \in Conns : \A i \in DOMAIN wire'[d] :
           \/ i \in DOMAIN wire[d] /\ wire'[d][i] = wire[d][i]
           \/ d = c /\ wire'[d][i] = m /\ i = Len(wire[c]) + 1
<1>1. wire \in [Conns -> Seq(Message)] /\ wire' \in [Conns -> Seq(Message)]
  BY SendsMessage DEF TypeOK
<1>2. \A d \in Conns : DOMAIN wire[d] = 1..Len(wire[d]) /\ DOMAIN wire'[d] = 1..Len(wire'[d])
  BY <1>1, LenProperties
<1>3. QED
  BY <1>2, SendsMessage

\* The messages of a connection are numbered from one.
LEMMA OnWire ==
  ASSUME TypeOK, NEW c \in Conns
  PROVE  /\ DOMAIN wire[c] = 1..Len(wire[c]) /\ Len(wire[c]) \in Nat
         /\ \A i \in DOMAIN wire[c] : wire[c][i] \in Message
BY LenProperties, ElementOfSeq DEF TypeOK

\* An answer is told from another by its id.
LEMMA IsAnswer ==
  ASSUME NEW m \in Message, m.kind = "answer"
  PROVE  m.id \in Requests /\ m = AnswerTo(m.id)
BY DEF Message, AnswerTo

\* An answer that is still unread after a message was read was unread before, and is another one.
LEMMA UnreadShifts ==
  ASSUME TypeOK, Answers, NEW c \in Conns, NEW kind, Reads(c, kind),
         NEW d \in Conns, NEW i \in DOMAIN wire'[d], wire'[d][i].kind = "answer"
  PROVE  LET q == wire'[d][i].id
         IN  /\ q \in server.answered /\ req[q].on = d
             /\ req[q].pc # "answered" /\ chan[q] # "answer" /\ q \notin client
             /\ \A j \in DOMAIN wire'[d] : wire'[d][j] = wire'[d][i] => j = i
             /\ kind = "answer" => q # Head(wire[c]).id
<1> DEFINE Before(j) == IF d = c THEN j + 1 ELSE j
<1>1. \A j \in DOMAIN wire'[d] :
        /\ Before(j) \in DOMAIN wire[d] /\ wire'[d][j] = wire[d][Before(j)]
        /\ d = c => Before(j) # 1
  BY WireShifts
<1>2. \A j \in DOMAIN wire'[d] : j \in Nat
  BY ReadsMessage, LenProperties
<1> HIDE DEF Before
<1>3. PICK k \in DOMAIN wire[d] : k = Before(i) /\ wire[d][k] = wire'[d][i] /\ (d = c => k # 1)
  BY <1>1
<1>4. Unread(d, k)
  BY <1>3 DEF Answers
<1>5. \A j \in DOMAIN wire'[d] : wire'[d][j] = wire'[d][i] => j = i
  <2>1. \A j \in DOMAIN wire'[d] : wire'[d][j] = wire'[d][i] => Before(j) = k
    BY <1>1, <1>3, <1>4, Zenon DEF Unread
  <2>2. QED
    BY <1>2, <1>3, <2>1 DEF Before
<1>6. ASSUME kind = "answer" PROVE wire[d][k].id # Head(wire[c]).id
  <2>1. 1 \in DOMAIN wire[c] /\ Head(wire[c]) = wire[c][1] /\ wire[c][1].kind = "answer"
    BY <1>6, ReadsMessage, OnWire DEF Reads
  <2>2. CASE d = c
    <3>1. wire[c][1] = AnswerTo(wire[c][1].id) /\ wire[c][k] = AnswerTo(wire[c][k].id)
      BY <1>3, <2>1, <2>2, OnWire, IsAnswer
    <3>2. wire[c][1] # wire[c][k]
      BY <1>3, <1>4, <2>1, <2>2 DEF Unread
    <3>3. QED
      BY <2>1, <2>2, <3>1, <3>2
  <2>3. CASE d # c
    <3>1. Unread(c, 1)
      BY <2>1 DEF Answers
    <3>2. QED
      BY <1>4, <2>1, <2>3, <3>1 DEF Unread
  <2>4. QED
    BY <2>2, <2>3
<1>7. QED
  BY <1>3, <1>4, <1>5, <1>6 DEF Unread

\* No step puts an answer on its way twice or tells of one that is on its way.
LEMMA AnswersStep ==
  ASSUME ProxyAssumption, TypeOK, Placed, Channels, Answers, [Next]_vars
  PROVE  Answers'
<1>0. /\ req \in [Requests -> [pc : {"idle"} \cup Active \cup Ended, on : Conns \cup {NoConn}]]
      /\ chan \in [Requests -> {"empty", "answer", "error"}]
      /\ server \in [got : SUBSET Requests, answered : SUBSET Requests]
      /\ wire \in [Conns -> Seq(Message)]
  BY DEF TypeOK
<1>2. ASSUME NEW r \in Requests, Calls(r) PROVE Answers'
  <2>1. /\ server'.answered \subseteq server'.got
        /\ \A q \in server'.got : req'[q].pc \in {"waiting", "answered", "failed"} /\ req'[q].on \in Conns
        /\ \A q \in Requests : chan'[q] = "answer" \/ req'[q].pc = "answered" \/ q \in client' => q \in server'.answered
    BY <1>0, <1>2, CallEffect DEF Answers, Placed, Active
  <2>2. ASSUME NEW c \in Conns, NEW i \in DOMAIN wire[c], wire[c][i].kind = "answer" PROVE Unread(c, i)'
    <3>1. Unread(c, i) /\ wire[c][i].id \in Requests
      BY <1>0, <2>2 DEF Answers, Unread
    <3>2. QED
      BY <1>0, <1>2, <3>1, CallEffect DEF Unread
  <2>3. QED
    BY <1>2, <2>1, <2>2, CallEffect DEF Answers
<1>3. ASSUME NEW r \in Requests, ChoosePrimary(r) PROVE Answers'
  <2>1. /\ r \notin server.got /\ UNCHANGED <<chan, server, wire, client>>
        /\ \A q \in Requests : q # r => req'[q] = req[q]
    BY <1>0, <1>3 DEF ChoosePrimary, Answers, messageVars
  <2>2. QED
    BY <1>0, <1>3, <2>1 DEF ChoosePrimary, Answers, Unread
<1>4. ASSUME NEW r \in Requests, NEW c \in Conns \cup {NoConn}, Reject(c, r) PROVE Answers'
  BY <1>0, <1>4 DEF Reject, Answers, Unread, messageVars
<1>5. ASSUME UNCHANGED <<req, chan, client, server, wire>> PROVE Answers'
  BY <1>5 DEF Answers, Unread
<1>6. ASSUME NEW c \in Conns, ForwardAnswer(c) PROVE Answers'
  <2>1. Reads(c, "answer") /\ UNCHANGED <<req, server>>
    BY <1>6 DEF ForwardAnswer
  <2>2. PICK id \in server.answered : id = Head(wire[c]).id
    <3>1. 1 \in DOMAIN wire[c] /\ Head(wire[c]) = wire[c][1] /\ wire[c][1].kind = "answer"
      BY <2>1, ReadsMessage, OnWire DEF Reads
    <3>2. QED
      BY <3>1 DEF Answers, Unread
  <2>3. \/ chan' = chan /\ client' = client \cup {id}
        \/ chan' = [chan EXCEPT ![id] = "answer"] /\ client' = client
    BY <1>6, <2>2 DEF ForwardAnswer
  <2>4. ASSUME NEW d \in Conns, NEW i \in DOMAIN wire'[d], wire'[d][i].kind = "answer"
        PROVE  Unread(d, i)'
    BY <1>0, <2>1, <2>2, <2>3, <2>4, UnreadShifts DEF Unread
  <2>5. QED
    BY <1>0, <2>1, <2>2, <2>3, <2>4 DEF Answers
<1>7. ASSUME NEW c \in Conns, ForwardNote(c) PROVE Answers'
  <2>1. Reads(c, "note") /\ UNCHANGED <<req, server, chan, client>>
    BY <1>7 DEF ForwardNote, requestVars
  <2>2. ASSUME NEW d \in Conns, NEW i \in DOMAIN wire'[d], wire'[d][i].kind = "answer"
        PROVE  Unread(d, i)'
    BY <2>1, <2>2, UnreadShifts DEF Unread
  <2>3. QED
    BY <2>1, <2>2 DEF Answers
<1>8. ASSUME NEW c \in Conns, ServerNotifies(c) PROVE Answers'
  <2> DEFINE m == Note(seen.sent[c] + 1, said[c].pc = "forwarded")
  <2>1. m \in Message /\ wire' = [wire EXCEPT ![c] = Append(@, m)] /\ m.kind = "note"
    <3>1. seen.sent[c] + 1 \in 1..MaxEvents
      BY <1>8 DEF ServerNotifies, TypeOK, ProxyAssumption
    <3>2. m \in Message
      BY <3>1, NoteIsMessage
    <3>3. QED
      BY <1>8, <3>2 DEF ServerNotifies, Note
  <2>2. UNCHANGED <<req, server, chan, client>>
    BY <1>8 DEF ServerNotifies, requestVars
  <2> HIDE DEF m
  <2>3. ASSUME NEW d \in Conns, NEW i \in DOMAIN wire'[d], wire'[d][i].kind = "answer"
        PROVE  Unread(d, i)'
    <3>1. i \in DOMAIN wire[d] /\ wire'[d][i] = wire[d][i] /\ Unread(d, i)
      BY <2>1, <2>3, WireGrows DEF Answers
    <3>2. \A j \in DOMAIN wire'[d] : wire'[d][j] = wire'[d][i] => j = i
      BY <2>1, <2>3, <3>1, WireGrows DEF Unread
    <3>3. QED
      BY <2>2, <3>1, <3>2 DEF Unread
  <2>4. QED
    BY <2>2, <2>3 DEF Answers
<1>9. ASSUME NEW r \in Requests, ServerAnswers(r) PROVE Answers'
  <2> DEFINE on == req[r].on
             m == AnswerTo(r)
  <2>1. /\ r \in server.got /\ r \notin server.answered /\ on \in Conns
        /\ server'.answered = server.answered \cup {r} /\ server'.got = server.got
        /\ UNCHANGED <<req, chan, client>>
    BY <1>0, <1>9 DEF ServerAnswers, Answers, requestVars
  <2>2. /\ m \in Message /\ m.kind = "answer" /\ m.id = r
        /\ wire' = [wire EXCEPT ![on] = Append(@, m)]
    BY <1>9 DEF ServerAnswers, Message, AnswerTo
  <2>3. req[r].pc # "answered" /\ chan[r] # "answer" /\ r \notin client
    BY <2>1 DEF Answers
  <2> HIDE DEF m, on
  <2>4. ASSUME NEW d \in Conns, NEW i \in DOMAIN wire'[d], wire'[d][i].kind = "answer"
        PROVE  Unread(d, i)'
    <3>1. CASE i \in DOMAIN wire[d] /\ wire'[d][i] = wire[d][i]
      <4>1. Unread(d, i)
        BY <2>4, <3>1 DEF Answers
      <4>2. \A j \in DOMAIN wire'[d] : wire'[d][j] = wire'[d][i] => j = i
        BY <2>1, <2>2, <2>4, <3>1, <4>1, WireGrows DEF Unread
      <4>3. QED
        BY <2>1, <3>1, <4>1, <4>2 DEF Unread
    <3>2. CASE d = on /\ wire'[d][i] = m /\ i = Len(wire[on]) + 1
      <4>1. \A j \in DOMAIN wire[d] : wire[d][j] # m
        BY <2>1, <2>2 DEF Answers, Unread
      <4>2. \A j \in DOMAIN wire'[d] : wire'[d][j] = wire'[d][i] => j = i
        BY <2>1, <2>2, <3>2, <4>1, WireGrows
      <4>3. QED
        BY <2>1, <2>2, <2>3, <3>2, <4>2 DEF Unread, on
    <3>3. QED
      BY <2>1, <2>2, <2>4, <3>1, <3>2, WireGrows
  <2>5. QED
    BY <2>1, <2>4 DEF Answers
<1>10. ASSUME NEW c \in Conns, BridgeSteps(c) \/ BridgeTakesPending(c) \/ ObserveClient(c) \/ ForwardClient(c)
       PROVE  UNCHANGED <<req, chan, client, server, wire>>
  BY <1>10 DEF BridgeSteps, AcceptDials, AcceptRegisters, ConnectionLost, BridgeCloses, BridgeRemoved, BridgeTakesPending,
     ObserveClient, ForwardClient, requestVars, messageVars
<1>11. ASSUME HandleEvent \/ CloseBegins \/ CloseTakesPending \/ CloseBridges \/ UNCHANGED vars
       PROVE  UNCHANGED <<req, chan, client, server, wire>>
  BY <1>11 DEF HandleEvent, CloseBegins, CloseTakesPending, CloseBridges, vars, requestVars, messageVars
<1>12. QED
  BY <1>2, <1>3, <1>4, <1>5, <1>6, <1>7, <1>8, <1>9, <1>10, <1>11
  DEF Next, Bridges, BridgeSteps, Request, Calls

\* What a forwarding goroutine does with an answer.
LEMMA ForwardEffect ==
  ASSUME TypeOK, Answers, NEW c \in Conns, ForwardAnswer(c)
  PROVE  \E id \in server.answered :
           /\ req[id].on = c /\ req[id].pc # "answered" /\ chan[id] # "answer" /\ id \notin client
           /\ UNCHANGED <<req, server, rejecting, closing>>
           /\ IF id \in pending
              THEN /\ pending' = pending \ {id} /\ client' = client
                   /\ chan' = [chan EXCEPT ![id] = "answer"]
              ELSE UNCHANGED <<pending, chan>> /\ client' = client \cup {id}
<1>1. Reads(c, "answer")
  BY DEF ForwardAnswer
<1>2. 1 \in DOMAIN wire[c] /\ Head(wire[c]) = wire[c][1] /\ wire[c][1].kind = "answer"
  BY <1>1, ReadsMessage, OnWire DEF Reads
<1>3. Unread(c, 1)
  BY <1>2 DEF Answers
<1>4. QED
  BY <1>2, <1>3 DEF ForwardAnswer, Unread

\* An answer goes to the client only when nobody waits for it, or an error comes first.
LEMMA MislaidStep ==
  ASSUME ProxyAssumption, TypeOK, TypeOK', Channels, Answers, NoAnswerMislaid, [Next]_vars
  PROVE  NoAnswerMislaid'
<1> DEFINE Lost(r) == req[r].pc = "failed" \/ chan[r] = "error" \/ Taken(r)
<1>0. /\ req \in [Requests -> [pc : {"idle"} \cup Active \cup Ended, on : Conns \cup {NoConn}]]
      /\ chan \in [Requests -> {"empty", "answer", "error"}]
      /\ rejecting \in [Conns \cup {NoConn} -> SUBSET Requests]
      /\ rejecting' \in [Conns \cup {NoConn} -> SUBSET Requests]
      /\ client \subseteq Requests /\ client' \subseteq Requests
  BY DEF TypeOK
<1>1. \A r \in client : Lost(r)
  BY <1>0 DEF NoAnswerMislaid, Taken
<1>2. (\A r \in client' : Lost(r)') => NoAnswerMislaid'
  BY <1>0 DEF NoAnswerMislaid, Taken
<1>3. ASSUME UNCHANGED <<req, chan, rejecting, client>> PROVE \A r \in client' : Lost(r)'
  BY <1>1, <1>3 DEF Taken
<1>4. ASSUME NEW r \in Requests, Calls(r) PROVE \A q \in client' : Lost(q)'
  <2>1. \A q : Taken(q)' <=> Taken(q)
    BY <1>4, CallEffect DEF Taken
  <2>2. QED
    BY <1>0, <1>1, <1>4, <2>1, CallEffect
<1>5. ASSUME NEW r \in Requests, ChoosePrimary(r) PROVE \A q \in client' : Lost(q)'
  <2>1. r \notin client
    BY <1>1, <1>5 DEF ChoosePrimary, Channels
  <2>2. QED
    BY <1>0, <1>1, <1>5, <2>1 DEF ChoosePrimary, messageVars, Taken
<1>6. ASSUME NEW r \in Requests, NEW c \in Conns \cup {NoConn}, Reject(c, r) PROVE \A q \in client' : Lost(q)'
  <2>1. \A q \in Requests : q # r => (Taken(q) => Taken(q)') /\ chan'[q] = chan[q]
    BY <1>0, <1>6 DEF Reject, Taken
  <2>2. chan'[r] = "error" /\ UNCHANGED <<req, client>>
    BY <1>0, <1>6 DEF Reject, messageVars
  <2>3. QED
    BY <1>0, <1>1, <2>1, <2>2
<1>7. ASSUME (\E c \in Conns : BridgeTakesPending(c)) \/ CloseTakesPending PROVE \A q \in client' : Lost(q)'
  <2>1. \A q \in Requests : Taken(q) => Taken(q)'
    BY <1>0, <1>7 DEF BridgeTakesPending, CloseTakesPending, Channels, Taken
  <2>2. UNCHANGED <<req, chan, client>>
    BY <1>7 DEF BridgeTakesPending, CloseTakesPending, messageVars
  <2>3. QED
    BY <1>0, <1>1, <2>1, <2>2
<1>8. ASSUME NEW c \in Conns, ForwardAnswer(c) PROVE \A q \in client' : Lost(q)'
  <2>1. PICK id \in server.answered :
          /\ req[id].pc # "answered" /\ chan[id] # "answer" /\ id \notin client
          /\ UNCHANGED <<req, rejecting>>
          /\ \/ chan' = [chan EXCEPT ![id] = "answer"] /\ client' = client
             \/ id \notin pending /\ chan' = chan /\ client' = client \cup {id}
    BY <1>8, ForwardEffect
  <2>2. id \in Requests /\ req[id].pc \in {"waiting", "failed"}
    BY <2>1 DEF Answers, TypeOK
  <2>3. id \notin pending => Lost(id)
    BY <1>0, <2>1, <2>2 DEF Channels
  <2>4. \A q : Taken(q)' <=> Taken(q)
    BY <2>1 DEF Taken
  <2>5. QED
    BY <1>0, <1>1, <2>1, <2>2, <2>3, <2>4
<1>9. ASSUME NEW r \in Requests, ServerAnswers(r) PROVE UNCHANGED <<req, chan, rejecting, client>>
  BY <1>9 DEF ServerAnswers, requestVars
<1>10. ASSUME NEW c \in Conns,
              \/ BridgeSteps(c) \/ ForwardNote(c) \/ ServerNotifies(c) \/ ObserveClient(c) \/ ForwardClient(c)
       PROVE  UNCHANGED <<req, chan, rejecting, client>>
  BY <1>10, QuietSteps DEF Quiet
<1>11. ASSUME HandleEvent \/ CloseBegins \/ CloseBridges \/ UNCHANGED vars
       PROVE  UNCHANGED <<req, chan, rejecting, client>>
  BY <1>11 DEF HandleEvent, CloseBegins, CloseBridges, vars, requestVars, messageVars
<1>12. QED
  <2> HIDE DEF Lost
  <2>1. CASE \E r \in Requests : Request(r)
    BY <1>2, <1>3, <1>4, <1>5, <1>6, <1>9, <2>1 DEF Request, Calls
  <2>2. CASE Bridges
    BY <1>2, <1>3, <1>7, <1>8, <1>10, <2>2 DEF Bridges, BridgeSteps
  <2>3. QED
    BY <1>2, <1>3, <1>7, <1>11, <2>1, <2>2 DEF Next

\* The invariant of the requests holds.
LEMMA RequestsInvariant == ASSUME ProxyAssumption PROVE Spec => []RequestInv
<1>1. Init => RequestInv
  BY DEF ProxyAssumption, Init, RequestInv, Channels, Answers, NoAnswerMislaid, Taken
<1>2. TypeOK /\ Placed /\ RequestInv /\ [Next]_vars => RequestInv'
  BY TypeStep, ChannelsStep, AnswersStep, MislaidStep DEF RequestInv
<1>3. QED
  BY <1>1, <1>2, TypesInvariant, PTL DEF Spec

\* An answer of the supervisor's own request that the proxy passes on to the client is none
\* its caller still waits for.
THEOREM AnswersArrive == ASSUME ProxyAssumption PROVE Spec => []NoAnswerMislaid
<1>1. RequestInv => NoAnswerMislaid
  BY DEF RequestInv
<1>2. QED
  BY <1>1, RequestsInvariant, PTL

-----------------------------------------------------------------------------
(* The contract *)

\* What the caller of r has been told.
Told(r) == IF req[r].pc \in Active THEN "open" ELSE req[r].pc

\* Every step is one of the contract's or none of them.
LEMMA ContractStep ==
  ASSUME TypeOK, Answers, [Next]_vars
  PROVE  [Contract!Next]_Contract!vars
<1> DEFINE call == [r \in Requests |-> Told(r)]
<1>0. /\ req \in [Requests -> [pc : {"idle"} \cup Active \cup Ended, on : Conns \cup {NoConn}]]
      /\ chan \in [Requests -> {"empty", "answer", "error"}]
  BY DEF TypeOK
<1>1. ASSUME \A r \in Requests : Told(r)' = Told(r), server'.answered = server.answered
      PROVE  UNCHANGED Contract!vars
  BY <1>1 DEF Contract!vars, Told
<1>2. ASSUME NEW r \in Requests, NEW told, Told(r)' = told, \A q \in Requests : q # r => Told(q)' = Told(q)
      PROVE  call' = [call EXCEPT ![r] = told]
  BY <1>2
<1>3. ASSUME NEW r \in Requests, Calls(r) PROVE [Contract!Next]_Contract!vars
  <2>1. /\ \A q \in Requests : q # r => Told(q)' = Told(q)
        /\ server'.answered = server.answered
    BY <1>3, CallEffect DEF Told
  <2>2. CASE Told(r)' = Told(r)
    BY <1>1, <2>1, <2>2
  <2>3. CASE Told(r)' # Told(r)
    <3>1. Told(r) = "open" /\ (Told(r)' = "failed" \/ (Told(r)' = "answered" /\ r \in server.answered))
      BY <1>0, <1>3, <2>3, CallEffect DEF Told, Active, Ended, Answers
    <3>2. Contract!Fail(r) \/ Contract!Answer(r)
      BY <1>2, <2>1, <3>1 DEF Contract!Fail, Contract!Answer, Told
    <3>3. QED
      BY <3>2 DEF Contract!Next
  <2>4. QED
    BY <2>2, <2>3
<1>4. ASSUME NEW r \in Requests, ChoosePrimary(r) PROVE Contract!Next
  <2>1. /\ \A q \in Requests : q # r => Told(q)' = Told(q)
        /\ Told(r) = "idle" /\ Told(r)' \in {"open", "failed"}
        /\ server'.answered = server.answered
    BY <1>0, <1>4 DEF ChoosePrimary, Told, Active, messageVars
  <2>2. Contract!Issue(r) \/ Contract!Fail(r)
    BY <1>2, <2>1 DEF Contract!Fail, Contract!Issue, Told
  <2>3. QED
    BY <2>2 DEF Contract!Next
<1>5. ASSUME NEW r \in Requests, ServerAnswers(r) PROVE Contract!Next
  <2>1. /\ req[r].pc # "idle" /\ r \notin server.answered
        /\ server'.answered = server.answered \cup {r} /\ req' = req
    BY <1>5 DEF ServerAnswers, Answers, TypeOK, requestVars
  <2>2. Contract!Serve(r)
    BY <2>1 DEF Contract!Serve, Active
  <2>3. QED
    BY <2>2 DEF Contract!Next
<1>6. ASSUME req' = req, server' = server PROVE UNCHANGED Contract!vars
  BY <1>1, <1>6 DEF Told
<1>7. ASSUME NEW r \in Requests, NEW c \in Conns \cup {NoConn}, Reject(c, r) PROVE UNCHANGED <<req, server>>
  BY <1>7 DEF Reject, messageVars
<1>8. CASE Bridges
  BY <1>6, <1>8 DEF Bridges, AcceptDials, AcceptRegisters, ConnectionLost, BridgeCloses, BridgeRemoved, BridgeTakesPending,
     ForwardAnswer, ForwardNote, ServerNotifies, ObserveClient, ForwardClient, requestVars, messageVars
<1>9. CASE HandleEvent \/ CloseBegins \/ CloseTakesPending \/ CloseBridges \/ UNCHANGED vars
  BY <1>6, <1>9 DEF HandleEvent, CloseBegins, CloseTakesPending, CloseBridges, vars, requestVars, messageVars
<1>10. QED
  BY <1>3, <1>4, <1>5, <1>6, <1>7, <1>8, <1>9 DEF Next, Request, Calls

\* The proxy implements the contract of a request: a call is made once and ends at most once,
\* with an answer only when the app-server gave one to it.
THEOREM ContractKept == ASSUME ProxyAssumption PROVE Spec => KeepsContract
<1>1. Init => Contract!Init
  BY DEF Init, Contract!Init, Active
<1>2. TypeOK /\ RequestInv /\ [Next]_vars => [Contract!Next]_Contract!vars
  BY ContractStep DEF RequestInv
<1>3. QED
  BY <1>1, <1>2, TypesInvariant, RequestsInvariant, PTL DEF Spec, KeepsContract, Contract!Spec

-----------------------------------------------------------------------------
(* The events of one TUI *)

\* The steps the events and their source have nothing to do with.
Silent == UNCHANGED <<bridge, primary, wire, said, events, seen>>

\* The steps of requests and closing connections are silent for the events.
LEMMA SilentSteps ==
  ASSUME \/ \E r \in Requests : Calls(r) \/ ChoosePrimary(r) \/ \E c \in Conns \cup {NoConn} : Reject(c, r)
         \/ \E c \in Conns : BridgeTakesPending(c) \/ ConnectionLost(c)
         \/ CloseBegins \/ CloseTakesPending \/ UNCHANGED vars
  PROVE  Silent
BY DEF Silent, Calls, Register, WriteSucceeds, WriteFails, Receive, RequestTimeout, ChoosePrimary, Reject,
   BridgeTakesPending, ConnectionLost, CloseBegins, CloseTakesPending, vars, messageVars

\* The events and those that were handled are numbered from one.
LEMMA OnEvents ==
  ASSUME TypeOK
  PROVE  /\ DOMAIN events = 1..Len(events) /\ Len(events) \in Nat
         /\ \A i \in DOMAIN events : events[i] \in Event
         /\ DOMAIN H = 1..Len(H) /\ Len(H) \in Nat
         /\ \A i \in DOMAIN H : H[i] \in Event
<1>1. events \in Seq(Event) /\ H \in Seq(Event)
  BY DEF TypeOK, H
<1>2. QED
  BY <1>1, LenProperties, ElementOfSeq

\* A new event is the last one.
LEMMA EventAdded ==
  ASSUME TypeOK, NEW e \in Event, events' = Append(events, e)
  PROVE  /\ DOMAIN events' = 1..(Len(events) + 1)
         /\ \A i \in DOMAIN events : i \in DOMAIN events' /\ events'[i] = events[i]
         /\ events'[Len(events) + 1] = e
<1>1. events \in Seq(Event)
  BY DEF TypeOK
<1>2. QED
  BY <1>1, AppendProperties, LenProperties

\* The event loop takes the first event, and handles it when it is the primary's.
LEMMA EventTaken ==
  ASSUME TypeOK, HandleEvent
  PROVE  /\ 1 \in DOMAIN events
         /\ DOMAIN events' = 1..(Len(events) - 1)
         /\ \A i \in DOMAIN events' : i + 1 \in DOMAIN events /\ events'[i] = events[i + 1]
         /\ \A i \in DOMAIN events : i # 1 => i - 1 \in DOMAIN events' /\ events'[i - 1] = events[i]
         /\ seen'.sent = seen.sent
         /\ IF IsPrimary(events[1].from)
            THEN /\ DOMAIN H' = 1..(Len(H) + 1) /\ H'[Len(H) + 1] = events[1]
                 /\ \A i \in DOMAIN H : i \in DOMAIN H' /\ H'[i] = H[i]
            ELSE H' = H
<1>1. events \in Seq(Event) /\ H \in Seq(Event) /\ events # <<>>
      /\ seen \in [sent : [Conns -> 0..MaxEvents], handled : Seq(Event)]
  BY DEF TypeOK, H, HandleEvent
<1>2. DOMAIN events = 1..Len(events) /\ Len(events) \in Nat /\ Len(events) > 0 /\ Head(events) = events[1]
  BY <1>1, LenProperties, EmptySeq
<1>3. events' = Tail(events) /\ Head(events) \in Event /\ Tail(events) \in Seq(Event)
      /\ Len(Tail(events)) = Len(events) - 1 /\ \A i \in 1..Len(Tail(events)) : Tail(events)[i] = events[i + 1]
  BY <1>1, HeadTailProperties DEF HandleEvent
<1>4. DOMAIN events' = 1..(Len(events) - 1)
  BY <1>3, LenProperties
<1>5. Append(H, events[1]) \in Seq(Event) /\ Len(Append(H, events[1])) = Len(H) + 1 /\ Len(H) \in Nat
      /\ (\A i \in 1..Len(H) : Append(H, events[1])[i] = H[i]) /\ Append(H, events[1])[Len(H) + 1] = events[1]
  BY <1>1, <1>2, <1>3, AppendProperties, LenProperties
<1>6. seen' = IF IsPrimary(events[1].from) THEN [seen EXCEPT !.handled = Append(seen.handled, events[1])] ELSE seen
  BY <1>2 DEF HandleEvent
<1>7. seen'.sent = seen.sent /\ H' = IF IsPrimary(events[1].from) THEN Append(H, events[1]) ELSE H
  BY <1>1, <1>6 DEF H
<1>8. IsPrimary(events[1].from) =>
        /\ DOMAIN H' = 1..(Len(H) + 1) /\ H'[Len(H) + 1] = events[1]
        /\ \A i \in DOMAIN H : i \in DOMAIN H' /\ H'[i] = H[i]
  BY <1>1, <1>5, <1>7, LenProperties
<1>9. QED
  BY <1>2, <1>3, <1>4, <1>7, <1>8

\* What the steps of a bridge that is open do to what is heard on it.
LEMMA Forwarding ==
  ASSUME TypeOK, NEW c \in Conns, NEW kind, Reads(c, kind)
  PROVE  /\ bridge[c] = "open" /\ 1 \in DOMAIN wire[c] /\ wire[c][1].kind = kind /\ Head(wire[c]) = wire[c][1]
         /\ \A d \in Conns : d # c => wire'[d] = wire[d]
         /\ \A i \in DOMAIN wire'[c] : i \in Nat \ {0} /\ i + 1 \in DOMAIN wire[c] /\ wire'[c][i] = wire[c][i + 1]
         /\ \A i \in DOMAIN wire[c] : i # 1 => i - 1 \in DOMAIN wire'[c] /\ wire'[c][i - 1] = wire[c][i]
<1>1. wire' \in [Conns -> Seq(Message)]
  BY ReadsMessage
<1>2. DOMAIN wire'[c] = 1..Len(wire'[c]) /\ DOMAIN wire[c] = 1..Len(wire[c]) /\ Len(wire[c]) \in Nat
  BY <1>1, OnWire, LenProperties
<1>3. bridge[c] = "open" /\ Head(wire[c]).kind = kind
  BY DEF Reads
<1>4. /\ Head(wire[c]) = wire[c][1] /\ Len(wire[c]) > 0 /\ Len(wire'[c]) = Len(wire[c]) - 1
      /\ \A i \in 1..Len(wire'[c]) : wire'[c][i] = wire[c][i + 1]
      /\ \A d \in Conns : d # c => wire'[d] = wire[d]
  BY ReadsMessage
<1>5. \A i \in DOMAIN wire'[c] : i \in Nat \ {0} /\ i + 1 \in DOMAIN wire[c]
  BY <1>2, <1>4
<1>6. \A i \in DOMAIN wire[c] : i # 1 => i - 1 \in DOMAIN wire'[c] /\ (i - 1) + 1 = i
  BY <1>2, <1>4
<1>7. \A i \in DOMAIN wire[c] : i # 1 => wire'[c][i - 1] = wire[c][i]
  BY <1>2, <1>4, <1>6
<1>8. 1 \in DOMAIN wire[c]
  BY <1>2, <1>4
<1>9. QED
  BY <1>2, <1>3, <1>4, <1>5, <1>6, <1>7, <1>8

\* What a message at the end of a wire changes.
LEMMA Sending ==
  ASSUME TypeOK, NEW c \in Conns, NEW m \in Message, wire' = [wire EXCEPT ![c] = Append(@, m)]
  PROVE  /\ \A d \in Conns : d # c => wire'[d] = wire[d]
         /\ DOMAIN wire[c] = 1..Len(wire[c]) /\ Len(wire[c]) \in Nat
         /\ DOMAIN wire'[c] = 1..(Len(wire[c]) + 1) /\ wire'[c][Len(wire[c]) + 1] = m
         /\ \A i \in DOMAIN wire[c] : i \in DOMAIN wire'[c] /\ wire'[c][i] = wire[c][i]
<1>1. wire' \in [Conns -> Seq(Message)]
  BY SendsMessage
<1>2. DOMAIN wire'[c] = 1..Len(wire'[c]) /\ DOMAIN wire[c] = 1..Len(wire[c]) /\ Len(wire[c]) \in Nat
  BY <1>1, OnWire, LenProperties
<1>3. /\ Len(wire'[c]) = Len(wire[c]) + 1 /\ wire'[c][Len(wire[c]) + 1] = m
      /\ \A i \in 1..Len(wire[c]) : wire'[c][i] = wire[c][i]
      /\ \A d \in Conns : d # c => wire'[d] = wire[d]
  BY SendsMessage
<1>4. QED
  BY <1>2, <1>3

\* A notification that is read becomes the event of its connection.
LEMMA NoteForwarded ==
  ASSUME TypeOK, NEW c \in Conns, ForwardNote(c)
  PROVE  /\ Reads(c, "note") /\ UNCHANGED <<bridge, primary, said, seen>>
         /\ \E e \in Event : /\ e.from = c /\ e.n = wire[c][1].n /\ e.reacts = wire[c][1].reacts
                             /\ e.n \in 1..MaxEvents /\ events' = Append(events, e)
<1>1. Reads(c, "note") /\ UNCHANGED <<bridge, primary, said, seen>>
  BY DEF ForwardNote
<1>2. wire[c][1] \in Message /\ wire[c][1].kind = "note" /\ Head(wire[c]) = wire[c][1]
  BY <1>1, Forwarding, OnWire
<1>3. wire[c][1].n \in 1..MaxEvents /\ wire[c][1].reacts \in BOOLEAN
  BY <1>2 DEF Message, AnswerTo
<1> DEFINE e == [from |-> c, n |-> wire[c][1].n, reacts |-> wire[c][1].reacts]
<1>4. e \in Event
  BY <1>3 DEF Event
<1>5. events' = Append(events, e)
  BY <1>2 DEF ForwardNote
<1>6. e.from = c /\ e.n = wire[c][1].n /\ e.reacts = wire[c][1].reacts
  OBVIOUS
<1> HIDE DEF e
<1>7. QED
  BY <1>1, <1>3, <1>4, <1>5, <1>6

\* The events of a connection begin after it is registered, and the primary is a registered one.
LEMMA BridgedStep ==
  ASSUME ProxyAssumption, TypeOK, Answers, Bridged, [Next]_vars
  PROVE  Bridged'
<1>0. bridge \in [Conns -> {"none", "dialed", "open", "closed", "removed"}] /\ primary \in Conns \cup {NoConn}
  BY DEF TypeOK
<1>1. ASSUME Silent PROVE Bridged'
  BY <1>1 DEF Silent, Bridged, Unheard, H
<1>2. ASSUME UNCHANGED <<wire, said, events, seen, primary>>,
             \A c \in Conns : bridge'[c] \in {"none", "dialed"} => bridge[c] \in {"none", "dialed"},
             \A c \in Conns : bridge[c] \in {"open", "closed"} => bridge'[c] \in {"open", "closed"}
      PROVE  Bridged'
  BY <1>0, <1>2 DEF Bridged, Unheard, H
<1>3. ASSUME NEW c \in Conns, AcceptDials(c) PROVE Bridged'
  BY <1>0, <1>2, <1>3 DEF AcceptDials, messageVars
<1>4. ASSUME NEW c \in Conns, AcceptRegisters(c) PROVE Bridged'
  BY <1>0, <1>4 DEF AcceptRegisters, messageVars, Bridged, Unheard, H
<1>5. ASSUME (\E c \in Conns : BridgeCloses(c)) \/ CloseBridges PROVE Bridged'
  BY <1>0, <1>2, <1>5 DEF BridgeCloses, CloseBridges, messageVars
<1>6. ASSUME NEW c \in Conns, BridgeRemoved(c) PROVE Bridged'
  <2>1. /\ UNCHANGED <<wire, said, events, seen>> /\ primary' = IF primary = c THEN NoConn ELSE primary
        /\ bridge' = [bridge EXCEPT ![c] = "removed"]
    BY <1>6 DEF BridgeRemoved, messageVars
  <2>2. primary' # NoConn => bridge'[primary'] \in {"open", "closed"}
    BY <1>0, <2>1 DEF Bridged
  <2>3. ASSUME NEW d \in Conns, bridge'[d] \in {"none", "dialed"} PROVE Unheard(d)'
    BY <1>0, <2>1, <2>3 DEF Bridged, Unheard, H, ProxyAssumption
  <2>4. QED
    BY <2>2, <2>3 DEF Bridged
<1>7. ASSUME NEW c \in Conns, bridge[c] = "open", UNCHANGED <<bridge, primary>>,
             \A d \in Conns : d # c => wire'[d] = wire[d] /\ said'[d] = said[d] /\ seen'.sent[d] = seen.sent[d],
             H' = H,
             events' = events \/ \E e \in Event : e.from = c /\ events' = Append(events, e)
      PROVE  Bridged'
  <2>1. \A i \in DOMAIN events' : (i \in DOMAIN events /\ events'[i] = events[i]) \/ events'[i].from = c
    BY <1>7, EventAdded, OnEvents
  <2>2. QED
    BY <1>7, <2>1 DEF Bridged, Unheard
<1>8. ASSUME NEW c \in Conns, ForwardAnswer(c) \/ ForwardNote(c) PROVE Bridged'
  <2>1. UNCHANGED <<bridge, primary, said, seen>> /\ bridge[c] = "open" /\ \A d \in Conns : d # c => wire'[d] = wire[d]
    BY <1>8, Forwarding DEF ForwardAnswer, ForwardNote
  <2>2. events' = events \/ \E e \in Event : e.from = c /\ events' = Append(events, e)
    BY <1>8, NoteForwarded DEF ForwardAnswer
  <2>3. QED
    BY <1>7, <2>1, <2>2 DEF H
<1>9. ASSUME NEW c \in Conns, ObserveClient(c) \/ ForwardClient(c) PROVE Bridged'
  <2>1. /\ UNCHANGED <<bridge, primary, wire, seen>> /\ bridge[c] = "open"
        /\ \A d \in Conns : d # c => said'[d] = said[d]
    BY <1>9 DEF ObserveClient, ForwardClient, TypeOK
  <2>2. events' = events \/ \E e \in Event : e.from = c /\ events' = Append(events, e)
    <3>1. [from |-> c, n |-> 0, reacts |-> FALSE] \in Event
      BY DEF Event, ProxyAssumption
    <3>2. QED
      BY <1>9, <3>1 DEF ObserveClient, ForwardClient
  <2>3. QED
    BY <1>7, <2>1, <2>2 DEF H
<1>10. ASSUME NEW c \in Conns, ServerNotifies(c) PROVE Bridged'
  <2>1. /\ UNCHANGED <<bridge, primary, events, said>> /\ bridge[c] = "open" /\ H' = H
        /\ \A d \in Conns : d # c => seen'.sent[d] = seen.sent[d] /\ wire'[d] = wire[d]
    BY <1>10 DEF ServerNotifies, TypeOK, H
  <2>2. QED
    BY <1>7, <2>1
<1>11. ASSUME NEW r \in Requests, ServerAnswers(r) PROVE Bridged'
  <2>1. /\ UNCHANGED <<bridge, primary, events, said, seen>> /\ bridge[req[r].on] = "open"
        /\ req[r].on \in Conns /\ \A d \in Conns : d # req[r].on => wire'[d] = wire[d]
    BY <1>11 DEF ServerAnswers, TypeOK, Answers
  <2>2. QED
    BY <1>7, <2>1 DEF H
<1>12. CASE HandleEvent
  <2>1. UNCHANGED <<bridge, primary, wire, said>> /\ seen'.sent = seen.sent
    BY <1>12, EventTaken DEF HandleEvent
  <2>2. ASSUME NEW c \in Conns, Unheard(c) PROVE Unheard(c)'
    <3>1. events[1].from # c
      BY <1>12, <2>2, EventTaken DEF Unheard
    <3>2. \A i \in DOMAIN events' : events'[i].from # c
      BY <1>12, <2>2, EventTaken DEF Unheard
    <3>3. \A i \in DOMAIN H' : H'[i].from # c
      BY <1>12, <2>2, <3>1, EventTaken, OnEvents DEF Unheard
    <3>4. QED
      BY <2>1, <2>2, <3>2, <3>3 DEF Unheard
  <2>3. QED
    BY <2>1, <2>2 DEF Bridged
<1>13. QED
  <2>1. CASE Bridges
    BY <1>1, <1>3, <1>4, <1>5, <1>6, <1>8, <1>9, <1>10, <2>1, SilentSteps DEF Bridges
  <2>2. QED
    BY <1>1, <1>5, <1>11, <1>12, <2>1, SilentSteps DEF Next, Request, Calls

Streamed(c) == Complete(c) /\ Ordered(c) /\ Sent(c) /\ Alone(c)

\* A step that leaves the notifications of c where they are leaves them in order.
LEMMA StreamKept ==
  ASSUME NEW c, Streamed(c), UNCHANGED seen, wire'[c] = wire[c],
         \A i \in DOMAIN events : i \in DOMAIN events' /\ events'[i] = events[i],
         \A i \in DOMAIN events' : i \in DOMAIN events \/ events'[i].from # c \/ events'[i].n = 0,
         \A i \in DOMAIN events' : i \in Nat, 0 <= seen.sent[c], \A i \in DOMAIN events : i \in Nat
  PROVE  Streamed(c)'
<1>1. Complete(c)' /\ Alone(c)'
  BY DEF Streamed, Complete, Alone, H
<1>2. Sent(c)'
  BY DEF Streamed, Sent, H
<1>3. Ordered(c)'
  BY DEF Streamed, Ordered, IsNote, H
<1>4. QED
  BY <1>1, <1>2, <1>3 DEF Streamed

\* So does one that moves no notification of c on the wire.
LEMMA StreamOnWire ==
  ASSUME NEW c, Streamed(c), UNCHANGED <<seen, events>>, NEW k \in {0, 1},
         \A i \in DOMAIN wire'[c] : wire'[c][i].kind = "note" => i + k \in DOMAIN wire[c] /\ wire'[c][i] = wire[c][i + k],
         \A i \in DOMAIN wire[c] : wire[c][i].kind = "note" => i - k \in DOMAIN wire'[c] /\ wire'[c][i - k] = wire[c][i],
         \A i \in DOMAIN wire'[c] : i \in Nat
  PROVE  Streamed(c)'
<1>1. Complete(c)' /\ Alone(c)'
  BY DEF Streamed, Complete, Alone, H
<1>2. Sent(c)'
  BY DEF Streamed, Sent, H
<1>3. Ordered(c)'
  BY DEF Streamed, Ordered, IsNote, H
<1>4. QED
  BY <1>1, <1>2, <1>3 DEF Streamed

\* The notification that is read becomes the last event.
LEMMA StreamForwarded ==
  ASSUME TypeOK, NEW c \in Conns, Streamed(c), ForwardNote(c)
  PROVE  Streamed(c)'
<1>1. /\ UNCHANGED <<bridge, primary, said, seen>> /\ 1 \in DOMAIN wire[c] /\ wire[c][1].kind = "note"
      /\ \A i \in DOMAIN wire'[c] : i \in Nat \ {0} /\ i + 1 \in DOMAIN wire[c] /\ wire'[c][i] = wire[c][i + 1]
      /\ \A i \in DOMAIN wire[c] : i # 1 => i - 1 \in DOMAIN wire'[c] /\ wire'[c][i - 1] = wire[c][i]
  BY NoteForwarded, Forwarding
<1>2. PICK e \in Event : e.from = c /\ e.n = wire[c][1].n /\ e.n \in 1..MaxEvents /\ events' = Append(events, e)
  BY NoteForwarded
<1>3. /\ DOMAIN events' = 1..(Len(events) + 1) /\ DOMAIN events = 1..Len(events) /\ Len(events) \in Nat
      /\ \A i \in DOMAIN events : i \in DOMAIN events' /\ events'[i] = events[i]
      /\ events'[Len(events) + 1] = e
  BY <1>2, EventAdded, OnEvents
<1>4. \A i \in DOMAIN wire[c] : i \in Nat /\ i >= 1
  BY OnWire
<1>5. Complete(c)'
  <2>1. ASSUME NEW n \in 1..seen.sent[c], NEW i \in DOMAIN wire[c], wire[c][i].kind = "note", wire[c][i].n = n
        PROVE  \/ \E j \in DOMAIN events' : events'[j].from = c /\ events'[j].n = n
               \/ \E j \in DOMAIN wire'[c] : wire'[c][j].kind = "note" /\ wire'[c][j].n = n
    <3>1. CASE i = 1
      BY <1>2, <1>3, <2>1, <3>1
    <3>2. CASE i # 1
      BY <1>1, <2>1, <3>2
    <3>3. QED
      BY <3>1, <3>2
  <2>2. QED
    BY <1>1, <1>3, <2>1 DEF Streamed, Complete, H
<1>6. Ordered(c)'
  <2>1. \A i \in DOMAIN H' : IsNote(H'[i], c) =>
          /\ \A j \in DOMAIN H' : i < j /\ IsNote(H'[j], c) => H'[i].n < H'[j].n
          /\ \A j \in DOMAIN events' : IsNote(events'[j], c) => H'[i].n < events'[j].n
          /\ \A j \in DOMAIN wire'[c] : wire'[c][j].kind = "note" => H'[i].n < wire'[c][j].n
    BY <1>1, <1>2, <1>3 DEF Streamed, Ordered, H, IsNote
  <2>2. \A i \in DOMAIN events' : IsNote(events'[i], c) =>
          \A j \in DOMAIN events' : i < j /\ IsNote(events'[j], c) => events'[i].n < events'[j].n
    BY <1>1, <1>2, <1>3 DEF Streamed, Ordered, IsNote
  <2>3. \A i \in DOMAIN events' : IsNote(events'[i], c) =>
          \A j \in DOMAIN wire'[c] : wire'[c][j].kind = "note" => events'[i].n < wire'[c][j].n
    <3>1. ASSUME NEW i \in DOMAIN events', IsNote(events'[i], c), NEW j \in DOMAIN wire'[c], wire'[c][j].kind = "note"
          PROVE  events'[i].n < wire'[c][j].n
      <4>1. j + 1 \in DOMAIN wire[c] /\ wire'[c][j] = wire[c][j + 1] /\ 1 < j + 1
        BY <1>1, <1>4, <3>1
      <4>2. CASE i \in DOMAIN events
        BY <1>3, <3>1, <4>1, <4>2 DEF Streamed, Ordered, IsNote
      <4>3. CASE i = Len(events) + 1
        <5>1. wire[c][1].n < wire[c][j + 1].n
          BY <1>1, <3>1, <4>1 DEF Streamed, Ordered
        <5>2. QED
          BY <1>2, <1>3, <4>1, <4>3, <5>1
      <4>4. QED
        BY <1>3, <4>2, <4>3
    <3>2. QED
      BY <3>1
  <2>4. \A i \in DOMAIN wire'[c] : wire'[c][i].kind = "note" =>
          \A j \in DOMAIN wire'[c] : i < j /\ wire'[c][j].kind = "note" => wire'[c][i].n < wire'[c][j].n
    BY <1>1, <1>4 DEF Streamed, Ordered
  <2>5. QED
    BY <2>1, <2>2, <2>3, <2>4 DEF Ordered, H, IsNote
<1>7. Sent(c)'
  BY <1>1, <1>2, <1>3 DEF Streamed, Sent, H
<1>8. Alone(c)'
  BY <1>1 DEF Streamed, Alone, H
<1>9. QED
  BY <1>5, <1>6, <1>7, <1>8 DEF Streamed

\* A notification that is sent is the last one on the wire.
LEMMA StreamSent ==
  ASSUME ProxyAssumption, TypeOK, NEW c \in Conns, Streamed(c), ServerNotifies(c)
  PROVE  Streamed(c)'
<1> DEFINE n == seen.sent[c] + 1
           m == Note(n, said[c].pc = "forwarded")
<1>1. /\ seen.sent[c] \in Nat /\ n \in 1..MaxEvents /\ seen'.sent[c] = n /\ H' = H /\ events' = events
      /\ wire' = [wire EXCEPT ![c] = Append(@, m)]
  BY DEF ProxyAssumption, TypeOK, ServerNotifies, H
<1>2. m \in Message
  BY <1>1, NoteIsMessage
<1>3. m.kind = "note" /\ m.n = n
  BY DEF Note
<1> HIDE DEF m
<1>4. /\ DOMAIN wire[c] = 1..Len(wire[c]) /\ Len(wire[c]) \in Nat
      /\ DOMAIN wire'[c] = 1..(Len(wire[c]) + 1) /\ wire'[c][Len(wire[c]) + 1] = m
      /\ \A i \in DOMAIN wire[c] : i \in DOMAIN wire'[c] /\ wire'[c][i] = wire[c][i]
  BY <1>1, <1>2, Sending
<1>5. /\ \A i \in DOMAIN H : H[i].n \in Nat
      /\ \A i \in DOMAIN events : events[i].n \in Nat
      /\ \A i \in DOMAIN wire[c] : wire[c][i].kind = "note" => wire[c][i].n \in Nat
  BY OnEvents, OnWire DEF ProxyAssumption, Event, Message, AnswerTo
<1>6. Complete(c)'
  <2>1. ASSUME NEW k \in 1..n
        PROVE  \/ \E i \in DOMAIN H : H[i].from = c /\ H[i].n = k
               \/ \E i \in DOMAIN events : events[i].from = c /\ events[i].n = k
               \/ \E i \in DOMAIN wire'[c] : wire'[c][i].kind = "note" /\ wire'[c][i].n = k
    <3>1. CASE k = n
      BY <1>3, <1>4, <3>1
    <3>2. CASE k # n
      <4>1. k \in 1..seen.sent[c]
        BY <1>1, <2>1, <3>2
      <4>2. QED
        BY <1>4, <4>1 DEF Streamed, Complete
    <3>3. QED
      BY <3>1, <3>2
  <2>2. QED
    BY <1>1, <2>1 DEF Complete
<1>7. Ordered(c)'
  BY <1>1, <1>3, <1>4, <1>5 DEF Streamed, Ordered, Sent, IsNote
<1>8. Sent(c)'
  BY <1>1, <1>3, <1>4, <1>5 DEF Streamed, Sent
<1>9. Alone(c)'
  BY <1>1 DEF Streamed, Alone
<1>10. QED
  BY <1>6, <1>7, <1>8, <1>9 DEF Streamed

\* An event that is handled, or is none of the primary's, leaves the primary's in order.
LEMMA StreamHandled ==
  ASSUME TypeOK, NEW c \in Conns, c = primary, IsPrimary(c), Streamed(c), HandleEvent
  PROVE  Streamed(c)'
<1>1. /\ 1 \in DOMAIN events /\ DOMAIN events' = 1..(Len(events) - 1)
      /\ \A i \in DOMAIN events' : i + 1 \in DOMAIN events /\ events'[i] = events[i + 1]
      /\ seen'.sent = seen.sent /\ wire' = wire
  BY EventTaken DEF HandleEvent
<1>2. \/ /\ events[1].from = c
         /\ DOMAIN H' = 1..(Len(H) + 1) /\ H'[Len(H) + 1] = events[1]
         /\ \A i \in DOMAIN H : i \in DOMAIN H' /\ H'[i] = H[i]
      \/ events[1].from # c /\ H' = H
  BY EventTaken DEF IsPrimary
<1>3. /\ DOMAIN events = 1..Len(events) /\ Len(events) \in Nat /\ DOMAIN H = 1..Len(H) /\ Len(H) \in Nat
  BY OnEvents
<1>0. \A i \in DOMAIN events : i # 1 => i - 1 \in DOMAIN events' /\ events'[i - 1] = events[i]
  BY EventTaken
<1>4. Complete(c)'
  <2>1. ASSUME NEW n \in 1..seen.sent[c], NEW i \in DOMAIN events, events[i].from = c, events[i].n = n
        PROVE  \/ \E j \in DOMAIN H' : H'[j].from = c /\ H'[j].n = n
               \/ \E j \in DOMAIN events' : events'[j].from = c /\ events'[j].n = n
    <3>1. CASE i = 1
      BY <1>2, <1>3, <2>1, <3>1
    <3>2. CASE i # 1
      BY <1>0, <2>1, <3>2
    <3>3. QED
      BY <3>1, <3>2
  <2>2. ASSUME NEW n \in 1..seen.sent[c], NEW i \in DOMAIN H, H[i].from = c, H[i].n = n
        PROVE  \E j \in DOMAIN H' : H'[j].from = c /\ H'[j].n = n
    BY <1>2, <2>2
  <2>3. QED
    BY <1>1, <2>1, <2>2 DEF Streamed, Complete
<1>5. Ordered(c)'
  <2>1. ASSUME NEW i \in DOMAIN H', IsNote(H'[i], c)
        PROVE  /\ \A j \in DOMAIN H' : i < j /\ IsNote(H'[j], c) => H'[i].n < H'[j].n
               /\ \A j \in DOMAIN events' : IsNote(events'[j], c) => H'[i].n < events'[j].n
               /\ \A j \in DOMAIN wire'[c] : wire'[c][j].kind = "note" => H'[i].n < wire'[c][j].n
    <3>1. CASE i \in DOMAIN H
      BY <1>1, <1>2, <1>3, <2>1, <3>1 DEF Streamed, Ordered, IsNote
    <3>2. CASE i \notin DOMAIN H
      <4>1. i = Len(H) + 1 /\ H'[i] = events[1] /\ DOMAIN H' = 1..(Len(H) + 1)
        BY <1>2, <1>3, <2>1, <3>2
      <4>2. QED
        BY <1>1, <1>3, <2>1, <4>1 DEF Streamed, Ordered, IsNote
    <3>3. QED
      BY <3>1, <3>2
  <2>2. ASSUME NEW i \in DOMAIN events', IsNote(events'[i], c)
        PROVE  /\ \A j \in DOMAIN events' : i < j /\ IsNote(events'[j], c) => events'[i].n < events'[j].n
               /\ \A j \in DOMAIN wire'[c] : wire'[c][j].kind = "note" => events'[i].n < wire'[c][j].n
    BY <1>1, <1>3, <2>2 DEF Streamed, Ordered, IsNote
  <2>3. QED
    BY <1>1, <2>1, <2>2 DEF Streamed, Ordered
<1>6. Sent(c)'
  <2>1. \A i \in DOMAIN H' : H'[i].from = c => H'[i].n <= seen.sent[c]
    BY <1>1, <1>2, <1>3 DEF Streamed, Sent
  <2>2. \A i \in DOMAIN events' : events'[i].from = c => events'[i].n <= seen.sent[c]
    BY <1>1 DEF Streamed, Sent
  <2>3. \A i \in DOMAIN wire'[c] : wire'[c][i].kind = "note" => wire'[c][i].n <= seen.sent[c]
    BY <1>1 DEF Streamed, Sent
  <2>4. QED
    BY <1>1, <2>1, <2>2, <2>3 DEF Sent
<1>7. Alone(c)'
  BY <1>2, <1>3 DEF Streamed, Alone
<1>8. QED
  BY <1>4, <1>5, <1>6, <1>7 DEF Streamed

\* An event of another connection, or of a client, changes nothing about those of c.
LEMMA StreamEvent ==
  ASSUME TypeOK, NEW c \in Conns, Streamed(c), UNCHANGED seen, wire'[c] = wire[c],
         events' = events \/ \E e \in Event : (e.from # c \/ e.n = 0) /\ events' = Append(events, e)
  PROVE  Streamed(c)'
<1>1. DOMAIN events = 1..Len(events) /\ Len(events) \in Nat /\ 0 <= seen.sent[c]
  BY OnEvents DEF TypeOK
<1>2. CASE events' = events
  BY <1>2 DEF Streamed, Complete, Ordered, Sent, Alone, H, IsNote
<1>3. CASE events' # events
  BY <1>1, <1>3, EventAdded, StreamKept
<1>4. QED
  BY <1>2, <1>3

\* On the primary connection no step loses a notification, or changes their order.
LEMMA StreamStep ==
  ASSUME ProxyAssumption, TypeOK, Answers, Bridged, Stream, [Next]_vars
  PROVE  Stream'
<1>0. /\ bridge \in [Conns -> {"none", "dialed", "open", "closed", "removed"}] /\ primary \in Conns \cup {NoConn}
      /\ seen \in [sent : [Conns -> 0..MaxEvents], handled : Seq(Event)]
  BY DEF TypeOK
<1>1. primary # NoConn => primary \in Conns /\ Streamed(primary)
  BY <1>0 DEF Stream, Streamed
<1>2. ASSUME NEW c, primary' = c, Streamed(c)' PROVE Stream'
  BY <1>2 DEF Stream, Streamed
<1>3. ASSUME primary' \in {primary, NoConn}, UNCHANGED <<wire, events, seen>> PROVE Stream'
  BY <1>3 DEF Stream, Complete, Ordered, Sent, Alone, H, IsNote
<1>4. ASSUME NEW c \in Conns, AcceptRegisters(c) PROVE Stream'
  <2>1. CASE primary' = primary
    BY <1>3, <1>4, <2>1 DEF AcceptRegisters, messageVars
  <2>2. CASE primary' = c /\ primary = NoConn
    <3>1. Unheard(c) /\ UNCHANGED <<wire, events, seen>>
      BY <1>4 DEF AcceptRegisters, Bridged, messageVars
    <3>2. DOMAIN wire[c] = {} /\ 1..seen.sent[c] = {}
      BY <3>1 DEF Unheard
    <3>3. Streamed(c)'
      BY <3>1, <3>2 DEF Streamed, Complete, Ordered, Sent, Alone, H, IsNote, Unheard
    <3>4. QED
      BY <1>2, <2>2, <3>3
  <2>3. QED
    BY <1>4, <2>1, <2>2 DEF AcceptRegisters
<1>5. ASSUME primary' = primary, ASSUME NEW p \in Conns, p = primary, Streamed(p) PROVE Streamed(p)'
      PROVE  Stream'
  <2>1. CASE primary = NoConn
    BY <1>5, <2>1 DEF Stream
  <2>2. CASE primary # NoConn
    BY <1>1, <1>2, <1>5, <2>2
  <2>3. QED
    BY <2>1, <2>2
<1>6. ASSUME NEW c \in Conns, ForwardAnswer(c) PROVE Stream'
  <2>1. ASSUME NEW p \in Conns, p = primary, Streamed(p) PROVE Streamed(p)'
    <3>1. UNCHANGED <<seen, events>> /\ Reads(c, "answer")
      BY <1>6 DEF ForwardAnswer
    <3>2. CASE p = c
      <4>1. /\ \A i \in DOMAIN wire'[c] : i \in Nat /\ i + 1 \in DOMAIN wire[c] /\ wire'[c][i] = wire[c][i + 1]
            /\ \A i \in DOMAIN wire[c] : wire[c][i].kind = "note" => i - 1 \in DOMAIN wire'[c] /\ wire'[c][i - 1] = wire[c][i]
        BY <3>1, Forwarding
      <4>2. QED
        BY <2>1, <3>1, <3>2, <4>1, StreamOnWire
    <3>3. CASE p # c
      <4>1. wire'[p] = wire[p] /\ \A i \in DOMAIN wire[p] : i \in Nat
        BY <3>1, <3>3, Forwarding, OnWire
      <4>2. \A i \in DOMAIN wire'[p] : i + 0 = i /\ i - 0 = i
        BY <4>1
      <4>3. QED
        BY <2>1, <3>1, <4>1, <4>2, StreamOnWire
    <3>4. QED
      BY <3>2, <3>3
  <2>2. QED
    BY <1>5, <1>6, <2>1 DEF ForwardAnswer
<1>7. ASSUME NEW c \in Conns, ForwardNote(c) PROVE Stream'
  <2>1. ASSUME NEW p \in Conns, p = primary, Streamed(p), p # c PROVE Streamed(p)'
    <3>1. UNCHANGED seen /\ wire'[p] = wire[p]
      BY <1>7, <2>1, NoteForwarded, Forwarding
    <3>2. PICK e \in Event : e.from = c /\ events' = Append(events, e)
      BY <1>7, NoteForwarded
    <3>3. QED
      BY <1>0, <2>1, <3>1, <3>2, StreamEvent
  <2>2. QED
    BY <1>5, <1>7, <2>1, StreamForwarded DEF ForwardNote
<1>8. ASSUME NEW c \in Conns, ObserveClient(c) \/ ForwardClient(c) PROVE Stream'
  <2>1. ASSUME NEW p \in Conns, p = primary, Streamed(p) PROVE Streamed(p)'
    <3>1. UNCHANGED <<seen, wire>>
      BY <1>8 DEF ObserveClient, ForwardClient
    <3>2. [from |-> c, n |-> 0, reacts |-> FALSE] \in Event
      BY DEF Event, ProxyAssumption
    <3>3. events' = events \/ \E e \in Event : e.n = 0 /\ events' = Append(events, e)
      BY <1>8, <3>2 DEF ObserveClient, ForwardClient
    <3>4. QED
      BY <1>0, <2>1, <3>1, <3>3, StreamEvent
  <2>2. QED
    BY <1>5, <1>8, <2>1 DEF ObserveClient, ForwardClient
<1>9. ASSUME NEW c \in Conns, ServerNotifies(c) PROVE Stream'
  <2>1. ASSUME NEW p \in Conns, p = primary, Streamed(p), p # c PROVE Streamed(p)'
    <3>1. wire'[p] = wire[p] /\ seen'.sent[p] = seen.sent[p] /\ H' = H /\ events' = events
      BY <1>9, <2>1 DEF ServerNotifies, TypeOK, H
    <3>2. QED
      BY <2>1, <3>1 DEF Streamed, Complete, Ordered, Sent, Alone, IsNote
  <2>2. QED
    BY <1>5, <1>9, <2>1, StreamSent DEF ServerNotifies
<1>10. ASSUME NEW r \in Requests, ServerAnswers(r) PROVE Stream'
  <2> DEFINE on == req[r].on
  <2>1. /\ on \in Conns /\ AnswerTo(r) \in Message /\ wire' = [wire EXCEPT ![on] = Append(@, AnswerTo(r))]
        /\ UNCHANGED <<primary, seen, events>>
    BY <1>10 DEF ServerAnswers, Answers, Message
  <2> HIDE DEF on
  <2>2. ASSUME NEW p \in Conns, p = primary, Streamed(p) PROVE Streamed(p)'
    <3>1. /\ \A i \in DOMAIN wire'[p] : wire'[p][i].kind = "note" => i \in DOMAIN wire[p] /\ wire'[p][i] = wire[p][i]
          /\ \A i \in DOMAIN wire[p] : i \in DOMAIN wire'[p] /\ wire'[p][i] = wire[p][i]
          /\ \A i \in DOMAIN wire'[p] : i \in Nat
          /\ \A i \in DOMAIN wire[p] : i \in Nat
      BY <2>1, Sending, OnWire DEF AnswerTo
    <3>2. \A i \in Nat : i + 0 = i /\ i - 0 = i
      OBVIOUS
    <3>3. QED
      BY <2>1, <2>2, <3>1, <3>2, StreamOnWire
  <2>3. QED
    BY <1>5, <2>1, <2>2
<1>11. CASE HandleEvent
  <2>1. primary # NoConn => IsPrimary(primary)
    BY <1>0 DEF Bridged, IsPrimary, Registered
  <2>2. primary' = primary
    BY <1>11 DEF HandleEvent
  <2>3. ASSUME NEW p \in Conns, p = primary, Streamed(p) PROVE Streamed(p)'
    BY <1>11, <2>1, <2>3, StreamHandled DEF ProxyAssumption
  <2>4. QED
    BY <1>5, <2>2, <2>3
<1>12. ASSUME Silent \/ CloseBridges \/ \E c \in Conns : AcceptDials(c) \/ BridgeCloses(c) \/ BridgeRemoved(c)
       PROVE  primary' \in {primary, NoConn} /\ UNCHANGED <<wire, events, seen>>
  BY <1>12 DEF Silent, CloseBridges, AcceptDials, BridgeCloses, BridgeRemoved, messageVars
<1>13. QED
  <2>1. CASE Bridges
    BY <1>3, <1>4, <1>6, <1>7, <1>8, <1>9, <1>12, <2>1, SilentSteps DEF Bridges
  <2>2. QED
    BY <1>3, <1>10, <1>11, <1>12, <2>1, SilentSteps DEF Next, Request, Calls

-----------------------------------------------------------------------------
(* What a client says, and the reactions to it *)

\* What is said is said once, and told to the supervisor when it is the primary client who says it.
LEMMA SaidEffect ==
  ASSUME TypeOK, NEW c \in Conns, ObserveClient(c)
  PROVE  /\ said[c].pc = "no" /\ said'[c].pc = "observed" /\ (said'[c].told => IsPrimary(c))
         /\ \A d \in Conns : d # c => said'[d] = said[d]
<1>1. said' = [said EXCEPT ![c] = [pc |-> "observed", told |-> IsPrimary(c)]] /\ said[c].pc = "no"
  BY DEF ObserveClient
<1>2. said'[c] = [pc |-> "observed", told |-> IsPrimary(c)] /\ \A d \in Conns : d # c => said'[d] = said[d]
  BY <1>1 DEF TypeOK
<1>3. said'[c].told = IsPrimary(c) /\ said'[c].pc = "observed"
  BY <1>2
<1>4. QED
  BY <1>1, <1>2, <1>3

\* The events that were handled change only with one of the primary connection.
LEMMA HandledStep ==
  ASSUME TypeOK, [Next]_vars
  PROVE  HandleEvent \/ H' = H
<1>1. ASSUME Bridges PROVE HandleEvent \/ H' = H
  BY <1>1 DEF Bridges, AcceptDials, AcceptRegisters, ConnectionLost, BridgeCloses, BridgeRemoved, BridgeTakesPending,
     ForwardAnswer, ForwardNote, ServerNotifies, ObserveClient, ForwardClient, messageVars, H, TypeOK
<1>2. ASSUME NEW r \in Requests, Request(r) PROVE H' = H
  BY <1>2 DEF Request, Register, WriteSucceeds, WriteFails, Receive, RequestTimeout, ChoosePrimary, Reject,
     ServerAnswers, messageVars, H
<1>3. ASSUME CloseBegins \/ CloseTakesPending \/ CloseBridges \/ UNCHANGED vars PROVE H' = H
  BY <1>3 DEF CloseBegins, CloseTakesPending, CloseBridges, vars, messageVars, H
<1>4. QED
  BY <1>1, <1>2, <1>3 DEF Next

\* A notification on the wire was there before, or is sent now.
LEMMA NotesFrom ==
  ASSUME ProxyAssumption, TypeOK, Answers, [Next]_vars, NEW c \in Conns,
         NEW i \in DOMAIN wire'[c], wire'[c][i].kind = "note"
  PROVE  \/ \E j \in DOMAIN wire[c] : wire[c][j] = wire'[c][i]
         \/ ServerNotifies(c) /\ wire'[c][i] = Note(seen.sent[c] + 1, said[c].pc = "forwarded")
<1>1. ASSUME wire'[c] = wire[c] PROVE i \in DOMAIN wire[c] /\ wire[c][i] = wire'[c][i]
  BY <1>1
<1>2. ASSUME NEW d \in Conns, ForwardAnswer(d) \/ ForwardNote(d) PROVE \E j \in DOMAIN wire[c] : wire[c][j] = wire'[c][i]
  <2>1. PICK kind : Reads(d, kind)
    BY <1>2 DEF ForwardAnswer, ForwardNote
  <2>2. QED
    BY <1>1, <2>1, Forwarding
<1>3. ASSUME NEW d \in Conns, ServerNotifies(d), d = c
      PROVE  \/ \E j \in DOMAIN wire[c] : wire[c][j] = wire'[c][i]
             \/ wire'[c][i] = Note(seen.sent[c] + 1, said[c].pc = "forwarded")
  <2> DEFINE m == Note(seen.sent[c] + 1, said[c].pc = "forwarded")
  <2>1. m \in Message /\ wire' = [wire EXCEPT ![c] = Append(@, m)]
    <3>1. seen.sent[c] + 1 \in 1..MaxEvents
      BY <1>3 DEF ServerNotifies, TypeOK, ProxyAssumption
    <3>2. QED
      BY <1>3, <3>1, NoteIsMessage DEF ServerNotifies
  <2> HIDE DEF m
  <2>2. QED
    BY <2>1, WireGrows DEF m
<1>4. ASSUME NEW d \in Conns, ServerNotifies(d), d # c PROVE wire'[c] = wire[c]
  BY <1>4 DEF ServerNotifies, TypeOK
<1>5. ASSUME NEW r \in Requests, ServerAnswers(r) PROVE \E j \in DOMAIN wire[c] : wire[c][j] = wire'[c][i]
  <2>1. req[r].on \in Conns /\ AnswerTo(r) \in Message /\ AnswerTo(r).kind # "note"
        /\ wire' = [wire EXCEPT ![req[r].on] = Append(@, AnswerTo(r))]
    BY <1>5 DEF ServerAnswers, Answers, Message, AnswerTo
  <2>2. QED
    BY <2>1, WireGrows
<1>6. ASSUME NEW d \in Conns, BridgeSteps(d) \/ BridgeTakesPending(d) \/ ObserveClient(d) \/ ForwardClient(d) PROVE wire' = wire
  BY <1>6 DEF BridgeSteps, AcceptDials, AcceptRegisters, ConnectionLost, BridgeCloses, BridgeRemoved,
     BridgeTakesPending, ObserveClient, ForwardClient, messageVars
<1>7. ASSUME NEW r \in Requests, Calls(r) \/ ChoosePrimary(r) \/ \E d \in Conns \cup {NoConn} : Reject(d, r) PROVE wire' = wire
  BY <1>7 DEF Calls, Register, WriteSucceeds, WriteFails, Receive, RequestTimeout, ChoosePrimary, Reject, messageVars
<1>8. ASSUME HandleEvent \/ CloseBegins \/ CloseTakesPending \/ CloseBridges \/ UNCHANGED vars PROVE wire' = wire
  BY <1>8 DEF HandleEvent, CloseBegins, CloseTakesPending, CloseBridges, vars, messageVars
<1>9. QED
  <2>1. CASE Bridges
    BY <1>1, <1>2, <1>3, <1>4, <1>6, <2>1 DEF Bridges, BridgeSteps
  <2>2. CASE \E r \in Requests : Request(r)
    BY <1>1, <1>5, <1>7, <2>2 DEF Request, Calls
  <2>3. QED
    BY <1>1, <1>8, <2>1, <2>2 DEF Next

\* An event was one before, or is what was read or what the client says now.
LEMMA EventsFrom ==
  ASSUME ProxyAssumption, TypeOK, [Next]_vars, NEW i \in DOMAIN events'
  PROVE  \/ \E j \in DOMAIN events : events[j] = events'[i]
         \/ ~events'[i].reacts /\ events'[i].n = 0
         \/ \E c \in Conns : /\ ForwardNote(c) /\ 1 \in DOMAIN wire[c] /\ wire[c][1].kind = "note"
                            /\ events'[i].from = c /\ events'[i].reacts = wire[c][1].reacts
<1>1. ASSUME events' = events PROVE \E j \in DOMAIN events : events[j] = events'[i]
  BY <1>1
<1>2. ASSUME NEW e \in Event, events' = Append(events, e)
      PROVE  (\E j \in DOMAIN events : events[j] = events'[i]) \/ events'[i] = e
  BY <1>2, EventAdded, OnEvents
<1>3. ASSUME NEW c \in Conns, ForwardNote(c)
      PROVE  \/ \E j \in DOMAIN events : events[j] = events'[i]
             \/ /\ 1 \in DOMAIN wire[c] /\ wire[c][1].kind = "note"
                /\ events'[i].from = c /\ events'[i].reacts = wire[c][1].reacts
  BY <1>2, <1>3, NoteForwarded, Forwarding
<1>4. ASSUME NEW c \in Conns, ObserveClient(c)
      PROVE  (\E j \in DOMAIN events : events[j] = events'[i]) \/ (~events'[i].reacts /\ events'[i].n = 0)
  <2> DEFINE e == [from |-> c, n |-> 0, reacts |-> FALSE]
  <2>1. e \in Event /\ ~e.reacts /\ e.n = 0
    BY DEF Event, ProxyAssumption
  <2>2. events' = events \/ events' = Append(events, e)
    BY <1>4 DEF ObserveClient
  <2> HIDE DEF e
  <2>3. QED
    BY <1>1, <1>2, <2>1, <2>2
<1>5. ASSUME HandleEvent PROVE \E j \in DOMAIN events : events[j] = events'[i]
  BY <1>5, EventTaken
<1>6. ASSUME NEW c \in Conns, BridgeSteps(c) \/ BridgeTakesPending(c) \/ ForwardAnswer(c) \/ ServerNotifies(c) \/ ForwardClient(c)
      PROVE  events' = events
  BY <1>6 DEF BridgeSteps, AcceptDials, AcceptRegisters, ConnectionLost, BridgeCloses, BridgeRemoved, BridgeTakesPending,
     ForwardAnswer, ServerNotifies, ForwardClient, messageVars
<1>7. ASSUME NEW r \in Requests, Request(r) PROVE events' = events
  BY <1>7 DEF Request, Register, WriteSucceeds, WriteFails, Receive, RequestTimeout, ChoosePrimary, Reject,
     ServerAnswers, messageVars
<1>8. ASSUME CloseBegins \/ CloseTakesPending \/ CloseBridges \/ UNCHANGED vars PROVE events' = events
  BY <1>8 DEF CloseBegins, CloseTakesPending, CloseBridges, vars, messageVars
<1>9. QED
  <2>1. CASE Bridges
    BY <1>1, <1>3, <1>4, <1>6, <2>1 DEF Bridges, BridgeSteps
  <2>2. QED
    BY <1>1, <1>5, <1>7, <1>8, <2>1 DEF Next

\* What was handled was handled before, or is the first event.
LEMMA HandledFrom ==
  ASSUME TypeOK, [Next]_vars, NEW i \in DOMAIN H'
  PROVE  \/ i \in DOMAIN H /\ H[i] = H'[i]
         \/ /\ HandleEvent /\ IsPrimary(events[1].from) /\ 1 \in DOMAIN events
            /\ i = Len(H) + 1 /\ H'[i] = events[1]
<1>1. CASE HandleEvent
  BY <1>1, EventTaken, OnEvents
<1>2. CASE ~HandleEvent
  BY <1>2, HandledStep
<1>3. QED
  BY <1>1, <1>2

\* Only the event loop takes events away.
LEMMA EventsStay ==
  ASSUME ProxyAssumption, TypeOK, [Next]_vars, ~HandleEvent
  PROVE  \A i \in DOMAIN events : i \in DOMAIN events' /\ events'[i] = events[i]
<1>1. ASSUME NEW c \in Conns, ForwardNote(c) \/ ObserveClient(c)
      PROVE  events' = events \/ \E e \in Event : events' = Append(events, e)
  <2>1. [from |-> c, n |-> 0, reacts |-> FALSE] \in Event
    BY DEF Event, ProxyAssumption
  <2>2. QED
    BY <1>1, <2>1, NoteForwarded DEF ObserveClient
<1>2. ASSUME NEW c \in Conns, BridgeSteps(c) \/ BridgeTakesPending(c) \/ ForwardAnswer(c) \/ ServerNotifies(c) \/ ForwardClient(c)
      PROVE  events' = events
  BY <1>2 DEF BridgeSteps, AcceptDials, AcceptRegisters, ConnectionLost, BridgeCloses, BridgeRemoved, BridgeTakesPending,
     ForwardAnswer, ServerNotifies, ForwardClient, messageVars
<1>3. ASSUME NEW r \in Requests, Request(r) PROVE events' = events
  BY <1>3 DEF Request, Register, WriteSucceeds, WriteFails, Receive, RequestTimeout, ChoosePrimary, Reject,
     ServerAnswers, messageVars
<1>4. ASSUME CloseBegins \/ CloseTakesPending \/ CloseBridges \/ UNCHANGED vars PROVE events' = events
  BY <1>4 DEF CloseBegins, CloseTakesPending, CloseBridges, vars, messageVars
<1>5. events' = events \/ \E e \in Event : events' = Append(events, e)
  BY <1>1, <1>2, <1>3, <1>4 DEF Next, Bridges, BridgeSteps
<1>6. QED
  BY <1>5, EventAdded

\* A message is forwarded for good, and only then, or when it is observed, is it told.
LEMMA SaidStep ==
  ASSUME TypeOK, [Next]_vars, NEW c \in Conns
  PROVE  /\ said[c].pc = "forwarded" => said'[c].pc = "forwarded"
         /\ said[c].pc # "no" => said'[c].pc # "no"
         /\ said'[c].told => said[c].told \/ ObserveClient(c)
         /\ ObserveClient(c) => said'[c].pc # "no"
<1>0. said'[c] = said[c] \/ ObserveClient(c) \/ ForwardClient(c)
  <2>1. ASSUME NEW d \in Conns, BridgeSteps(d) \/ BridgeTakesPending(d) \/ ForwardAnswer(d) \/ ForwardNote(d) \/ ServerNotifies(d)
        PROVE  said' = said
    BY <2>1 DEF BridgeSteps, AcceptDials, AcceptRegisters, ConnectionLost, BridgeCloses, BridgeRemoved, BridgeTakesPending,
       ForwardAnswer, ForwardNote, ServerNotifies, messageVars
  <2>2. ASSUME NEW d \in Conns, d # c, ObserveClient(d) \/ ForwardClient(d) PROVE said'[c] = said[c]
    BY <2>2 DEF ObserveClient, ForwardClient, TypeOK
  <2>3. ASSUME NEW r \in Requests, Request(r) PROVE said' = said
    BY <2>3 DEF Request, Register, WriteSucceeds, WriteFails, Receive, RequestTimeout, ChoosePrimary, Reject,
       ServerAnswers, messageVars
  <2>4. ASSUME HandleEvent \/ CloseBegins \/ CloseTakesPending \/ CloseBridges \/ UNCHANGED vars PROVE said' = said
    BY <2>4 DEF HandleEvent, CloseBegins, CloseTakesPending, CloseBridges, vars, messageVars
  <2>5. QED
    BY <2>1, <2>2, <2>3, <2>4 DEF Next, Bridges, BridgeSteps
<1>1. CASE ObserveClient(c)
  BY <1>1, SaidEffect
<1>2. CASE ForwardClient(c)
  <2>1. said'[c] = [said[c] EXCEPT !.pc = "forwarded"] /\ said[c].pc = "observed"
    BY <1>2 DEF ForwardClient, TypeOK
  <2>2. said[c] \in [pc : {"no", "observed", "forwarded"}, told : BOOLEAN]
    BY DEF TypeOK
  <2>3. said'[c].pc = "forwarded" /\ said'[c].told = said[c].told
    BY <2>1, <2>2
  <2>4. ~ObserveClient(c)
    BY <2>1 DEF ObserveClient
  <2>5. QED
    BY <2>1, <2>3, <2>4
<1>3. CASE said'[c] = said[c] /\ ~ObserveClient(c)
  BY <1>3
<1>4. QED
  BY <1>0, <1>1, <1>2, <1>3

\* A connection becomes primary when it is registered.
LEMMA PrimaryStep ==
  ASSUME TypeOK, [Next]_vars
  PROVE  \/ primary' = primary \/ primary' = NoConn
         \/ \E c \in Conns : AcceptRegisters(c) /\ primary' = c
<1>1. ASSUME NEW c \in Conns, AcceptRegisters(c) PROVE primary' = primary \/ primary' = c
  BY <1>1 DEF AcceptRegisters
<1>2. ASSUME NEW c \in Conns, BridgeRemoved(c) PROVE primary' = primary \/ primary' = NoConn
  BY <1>2 DEF BridgeRemoved
<1>3. ASSUME NEW c \in Conns,
             \/ AcceptDials(c) \/ ConnectionLost(c) \/ BridgeCloses(c) \/ BridgeTakesPending(c) \/ ForwardAnswer(c)
             \/ ForwardNote(c) \/ ServerNotifies(c) \/ ObserveClient(c) \/ ForwardClient(c)
      PROVE  primary' = primary
  BY <1>3 DEF AcceptDials, ConnectionLost, BridgeCloses, BridgeTakesPending, ForwardAnswer, ForwardNote, ServerNotifies,
     ObserveClient, ForwardClient
<1>4. ASSUME NEW r \in Requests, Request(r) PROVE primary' = primary
  BY <1>4 DEF Request, Register, WriteSucceeds, WriteFails, Receive, RequestTimeout, ChoosePrimary, Reject, ServerAnswers
<1>5. ASSUME HandleEvent \/ CloseBegins \/ CloseTakesPending \/ CloseBridges \/ UNCHANGED vars PROVE primary' = primary
  BY <1>5 DEF HandleEvent, CloseBegins, CloseTakesPending, CloseBridges, vars
<1>6. QED
  BY <1>1, <1>2, <1>3, <1>4, <1>5 DEF Next, Bridges

\* No reaction appears before the message is forwarded.
LEMMA NoReactionStep ==
  ASSUME ProxyAssumption, TypeOK, Answers, NEW c \in Conns, NoReaction(c), said[c].pc # "forwarded", [Next]_vars
  PROVE  NoReaction(c)'
<1>1. ASSUME NEW i \in DOMAIN H', H'[i].from = c PROVE ~H'[i].reacts
  BY <1>1, HandledFrom DEF NoReaction
<1>2. ASSUME NEW i \in DOMAIN events', events'[i].from = c PROVE ~events'[i].reacts
  BY <1>2, EventsFrom DEF NoReaction
<1>3. ASSUME NEW i \in DOMAIN wire'[c], wire'[c][i].kind = "note" PROVE ~wire'[c][i].reacts
  <2>1. CASE \E j \in DOMAIN wire[c] : wire[c][j] = wire'[c][i]
    BY <1>3, <2>1 DEF NoReaction
  <2>2. CASE wire'[c][i] = Note(seen.sent[c] + 1, said[c].pc = "forwarded")
    <3>1. wire'[c][i].reacts = (said[c].pc = "forwarded")
      BY <2>2 DEF Note
    <3>2. QED
      BY <3>1, Zenon
  <2>3. QED
    BY <1>3, <2>1, <2>2, NotesFrom
<1>4. QED
  BY <1>1, <1>2, <1>3 DEF NoReaction

\* Until it is handled, the primary client's message is before all reactions to it.
LEMMA ObservedStep ==
  ASSUME ProxyAssumption, TypeOK, NEW c \in Conns, Observed(c), c = primary, IsPrimary(c), [Next]_vars
  PROVE  Observed(c)'
<1>1. CASE \E i \in DOMAIN H : H[i].from = c /\ H[i].n = 0
  <2>1. \A i \in DOMAIN H : i \in DOMAIN H' /\ H'[i] = H[i]
    BY HandledStep, EventTaken
  <2>2. QED
    BY <1>1, <2>1 DEF Observed
<1>2. ASSUME \A i \in DOMAIN H : H[i].from = c => ~H[i].reacts,
             NEW i \in DOMAIN events, events[i].from = c, events[i].n = 0,
             \A j \in 1..i : events[j].from = c => ~events[j].reacts
      PROVE  Observed(c)'
  <2>0. DOMAIN events = 1..Len(events) /\ Len(events) \in Nat /\ i \in Nat /\ i >= 1
    BY <1>2, OnEvents
  <2>1. CASE HandleEvent
    <3>1. CASE i = 1
      <4>1. Len(H) + 1 \in DOMAIN H' /\ H'[Len(H) + 1] = events[1]
        BY <1>2, <2>1, <3>1, EventTaken, OnEvents
      <4>2. QED
        BY <1>2, <3>1, <4>1 DEF Observed
    <3>2. CASE i # 1
      <4>1. i - 1 \in DOMAIN events' /\ events'[i - 1] = events[i]
        BY <2>1, <3>2, EventTaken
      <4>2. ASSUME NEW j \in 1..(i - 1), events'[j].from = c PROVE ~events'[j].reacts
        <5>1. j \in DOMAIN events' /\ j + 1 \in 1..i
          BY <2>0, <2>1, <4>1, EventTaken
        <5>2. events'[j] = events[j + 1]
          BY <2>1, <5>1, EventTaken
        <5>3. QED
          BY <1>2, <4>2, <5>1, <5>2
      <4>3. ASSUME NEW j \in DOMAIN H', H'[j].from = c PROVE ~H'[j].reacts
        BY <1>2, <2>0, <4>3, HandledFrom
      <4>4. QED
        BY <1>2, <4>1, <4>2, <4>3 DEF Observed
    <3>3. QED
      BY <3>1, <3>2
  <2>2. CASE ~HandleEvent
    <3>1. H' = H
      BY <2>2, HandledStep
    <3>2. \A j \in DOMAIN events : j \in DOMAIN events' /\ events'[j] = events[j]
      BY <2>2, EventsStay
    <3>3. \A j \in 1..i : j \in DOMAIN events
      BY <2>0
    <3>4. QED
      BY <1>2, <3>1, <3>2, <3>3 DEF Observed
  <2>3. QED
    BY <2>1, <2>2
<1>3. QED
  BY <1>1, <1>2 DEF Observed

\* What the app-server sends because of what the primary client said is handled after it.
LEMMA ReactionsStep ==
  ASSUME ProxyAssumption, TypeOK, Answers, Bridged, Reactions, [Next]_vars
  PROVE  Reactions'
<1>1. \A c \in Conns : said[c].pc = "forwarded" => said'[c].pc = "forwarded"
  BY SaidStep
<1>2. ASSUME NEW c \in Conns, said'[c].pc # "forwarded" PROVE NoReaction(c)'
  BY <1>1, <1>2, NoReactionStep DEF Reactions
<1>3. ASSUME NEW c \in Conns, said'[c].told PROVE said'[c].pc # "no"
  BY <1>3, SaidStep DEF Reactions
<1>4. ASSUME NEW c, c # NoConn, primary' = c, said'[c].told PROVE Observed(c)'
  <2>0. c \in Conns
    BY <1>4, PrimaryStep DEF TypeOK
  <2>1. CASE primary = c
    <3>1. IsPrimary(c)
      BY <1>4, <2>0, <2>1 DEF IsPrimary, Bridged, Registered
    <3>2. CASE said[c].told
      BY <1>4, <2>0, <2>1, <3>1, <3>2, ObservedStep DEF Reactions
    <3>3. CASE ~said[c].told
      <4>1. ObserveClient(c)
        BY <1>4, <2>0, <3>3, SaidStep
      <4> DEFINE e == [from |-> c, n |-> 0, reacts |-> FALSE]
      <4>2. e \in Event /\ e.from = c /\ e.n = 0 /\ ~e.reacts
        BY <2>0 DEF Event, ProxyAssumption
      <4>3. events' = Append(events, e) /\ H' = H
        BY <3>1, <4>1 DEF ObserveClient, H
      <4> HIDE DEF e
      <4>4. NoReaction(c)
        BY <2>0, <4>1 DEF ObserveClient, Reactions
      <4>5. \A j \in 1..(Len(events) + 1) : events'[j].from = c => ~events'[j].reacts
        BY <4>2, <4>3, <4>4, EventAdded, OnEvents DEF NoReaction
      <4>6. Len(events) + 1 \in DOMAIN events' /\ events'[Len(events) + 1] = e
        BY <4>2, <4>3, EventAdded, OnEvents
      <4>7. QED
        BY <4>2, <4>3, <4>4, <4>5, <4>6 DEF Observed, NoReaction
    <3>4. QED
      BY <3>2, <3>3
  <2>2. CASE primary # c
    <3>1. AcceptRegisters(c)
      BY <1>4, <2>0, <2>2, PrimaryStep
    <3>2. Unheard(c) /\ said' = said
      BY <2>0, <3>1 DEF Bridged, AcceptRegisters, messageVars
    <3>3. QED
      BY <1>4, <3>2 DEF Unheard
  <2>3. QED
    BY <2>1, <2>2
<1>5. QED
  BY <1>2, <1>3, <1>4 DEF Reactions

-----------------------------------------------------------------------------
(* What the supervisor handles *)

\* The event that is handled follows those of its connection, and all of those that were
\* handled since the first one of it are its own.
LEMMA OneTuiStep ==
  ASSUME ProxyAssumption, TypeOK, TypeOK', Bridged, Stream, EventsOfOneTui, [Next]_vars
  PROVE  EventsOfOneTui'
<1>1. CASE ~HandleEvent \/ ~IsPrimary(events[1].from)
  <2>1. H' = H
    BY <1>1, HandledStep, EventTaken
  <2>2. QED
    BY <2>1 DEF EventsOfOneTui, H
<1>2. CASE HandleEvent /\ IsPrimary(events[1].from)
  <2> DEFINE c == events[1].from
             e == events[1]
             l == Len(H) + 1
  <2>1. /\ c = primary /\ c \in Conns /\ Streamed(c) /\ 1 \in DOMAIN events
        /\ \A i \in DOMAIN events : i \in Nat /\ i >= 1 /\ events[i].n \in Nat
        /\ \A i \in DOMAIN H : H[i].n \in Nat
        /\ seen.sent[c] \in Nat
    <3>1. c = primary /\ 1 \in DOMAIN events /\ events[1] \in Event
      BY <1>2, EventTaken, OnEvents DEF IsPrimary
    <3>2. c \in Conns /\ primary # NoConn
      BY <3>1 DEF Event, ProxyAssumption
    <3>3. Streamed(c)
      BY <3>1, <3>2 DEF Stream, Streamed
    <3>4. \A f \in Event : f.n \in Nat
      BY DEF Event, ProxyAssumption
    <3>5. /\ \A i \in DOMAIN events : i \in Nat /\ i >= 1 /\ events[i].n \in Nat
          /\ \A i \in DOMAIN H : H[i].n \in Nat
      BY <3>4, OnEvents
    <3>6. seen.sent[c] \in Nat
      BY <3>2 DEF TypeOK, ProxyAssumption
    <3>7. QED
      BY <3>1, <3>2, <3>3, <3>5, <3>6
  <2>2. /\ DOMAIN H' = 1..l /\ DOMAIN H = 1..(l - 1) /\ l \in Nat \ {0} /\ H'[l] = e
        /\ \A i \in 1..(l - 1) : H'[i] = H[i]
    <3>1. /\ DOMAIN H' = 1..(Len(H) + 1) /\ H'[Len(H) + 1] = events[1]
          /\ \A i \in DOMAIN H : i \in DOMAIN H' /\ H'[i] = H[i]
      BY <1>2, EventTaken
    <3>2. DOMAIN H = 1..Len(H) /\ Len(H) \in Nat
      BY OnEvents
    <3>3. DOMAIN H = 1..(l - 1) /\ l \in Nat \ {0}
      BY <3>2
    <3>4. QED
      BY <3>1, <3>3
  <2> HIDE DEF l
  <2>3. ASSUME NEW i \in 1..(l - 1), H[i].from = c, H[i].n > 0, e.n > 0
        PROVE  \E k \in i+1..l : H'[k].from = c /\ H'[k].n = H[i].n + 1
    <3>1. H[i].n < e.n /\ e.n <= seen.sent[c]
      BY <2>1, <2>2, <2>3 DEF Streamed, Ordered, Sent, IsNote
    <3>2. H[i].n + 1 \in 1..seen.sent[c]
      BY <2>1, <2>2, <2>3, <3>1
    <3>3. CASE \E k \in DOMAIN H : H[k].from = c /\ H[k].n = H[i].n + 1
      <4>1. PICK k \in DOMAIN H : H[k].from = c /\ H[k].n = H[i].n + 1
        BY <3>3
      <4>2. k \notin 1..i
        <5>1. ASSUME k < i PROVE FALSE
          <6>1. H[k].n < H[i].n
            BY <2>1, <2>2, <2>3, <4>1, <5>1 DEF Streamed, Ordered, IsNote
          <6>2. QED
            BY <2>1, <2>2, <2>3, <4>1, <6>1
        <5>2. ASSUME k = i PROVE FALSE
          BY <2>1, <2>2, <2>3, <4>1, <5>2
        <5>3. QED
          BY <2>2, <5>1, <5>2
      <4>3. k \in i+1..l /\ H'[k] = H[k]
        BY <2>2, <4>1, <4>2
      <4>4. QED
        BY <4>1, <4>3
    <3>4. CASE \E k \in DOMAIN events : events[k].from = c /\ events[k].n = H[i].n + 1
      <4>1. PICK k \in DOMAIN events : events[k].from = c /\ events[k].n = H[i].n + 1
        BY <3>4
      <4>2. k = 1
        <5>1. ASSUME k # 1 PROVE FALSE
          <6>1. 1 < k /\ IsNote(events[1], c) /\ IsNote(events[k], c)
            BY <2>1, <2>2, <2>3, <4>1, <5>1 DEF IsNote
          <6>2. e.n < events[k].n
            BY <2>1, <4>1, <6>1 DEF Streamed, Ordered
          <6>3. H[i].n \in Nat /\ e.n \in Nat
            BY <2>1, <2>2
          <6>4. QED
            BY <3>1, <4>1, <6>2, <6>3
        <5>2. QED
          BY <5>1
      <4>3. l \in i+1..l
        BY <2>2
      <4>4. QED
        BY <2>2, <4>1, <4>2, <4>3
    <3>5. CASE \E k \in DOMAIN wire[c] : wire[c][k].kind = "note" /\ wire[c][k].n = H[i].n + 1
      <4>1. PICK k \in DOMAIN wire[c] : wire[c][k].kind = "note" /\ wire[c][k].n = H[i].n + 1
        BY <3>5
      <4>2. IsNote(events[1], c)
        BY <2>3 DEF IsNote
      <4>3. e.n < wire[c][k].n
        BY <2>1, <4>1, <4>2 DEF Streamed, Ordered
      <4>4. QED
        BY <2>1, <2>2, <3>1, <4>1, <4>3
    <3>6. QED
      BY <2>1, <3>2, <3>3, <3>4, <3>5 DEF Streamed, Complete
  <2>4. ASSUME NEW i \in 1..l, NEW j \in 1..l, i < j
        PROVE  /\ (H'[i].from = H'[j].from /\ H'[i].n > 0 /\ H'[j].n > 0) =>
                    \E k \in i+1..j : H'[k].from = H'[i].from /\ H'[k].n = H'[i].n + 1
               /\ H'[i].from # H'[j].from => \A k \in j..l : H'[k].from # H'[i].from
    <3>1. i \in 1..(l - 1) /\ H'[i] = H[i]
      BY <2>2, <2>4
    <3>2. CASE j = l
      BY <2>2, <2>3, <3>1, <3>2
    <3>3. CASE j # l
      <4>1. j \in 1..(l - 1) /\ H'[j] = H[j]
        BY <2>2, <2>4, <3>3
      <4>2. \A k \in i+1..j : k \in 1..(l - 1)
        BY <2>2, <2>4, <4>1
      <4>3. \A k \in j..l : k = l \/ k \in j..(l - 1)
        BY <2>2
      <4>4. \A k \in j..(l - 1) : k \in 1..(l - 1)
        BY <2>2, <2>4
      <4>5. Len(H) = l - 1
        BY OnEvents DEF l
      <4>6. /\ (H[i].from = H[j].from /\ H[i].n > 0 /\ H[j].n > 0) =>
                 \E k \in i+1..j : H[k].from = H[i].from /\ H[k].n = H[i].n + 1
            /\ H[i].from # H[j].from => \A k \in j..(l - 1) : H[k].from # H[i].from
        BY <2>2, <2>4, <3>1, <4>1, <4>5 DEF EventsOfOneTui, H
      <4>7. H[i].from # H[j].from => H[i].from # c
        BY <2>1, <2>2, <2>4, <3>1, <4>1 DEF Streamed, Alone
      <4>8. QED
        BY <2>2, <3>1, <4>1, <4>2, <4>3, <4>4, <4>6, <4>7
    <3>4. QED
      BY <3>2, <3>3
  <2>5. Len(H') = l
    <3>1. H' \in Seq(Event)
      BY DEF TypeOK, H
    <3>2. QED
      BY <2>2, <3>1, LenProperties
  <2>6. DOMAIN seen'.handled = 1..l /\ seen'.handled = H'
    BY <2>2 DEF H
  <2>7. QED
    <3> DEFINE G == seen'.handled
    <3>1. ASSUME NEW i \in DOMAIN G, NEW j \in DOMAIN G, i < j
          PROVE  /\ (G[i].from = G[j].from /\ G[i].n > 0 /\ G[j].n > 0) =>
                      \E k \in i+1..j : G[k].from = G[i].from /\ G[k].n = G[i].n + 1
                 /\ G[i].from # G[j].from => \A k \in j..Len(G) : G[k].from # G[i].from
      <4>1. i \in 1..l /\ j \in 1..l /\ i < j
        BY <2>6, <3>1
      <4>2. H' = G /\ Len(G) = l
        BY <2>5, <2>6
      <4> HIDE DEF G, c, e
      <4>3. /\ (H'[i].from = H'[j].from /\ H'[i].n > 0 /\ H'[j].n > 0) =>
                \E k \in i+1..j : H'[k].from = H'[i].from /\ H'[k].n = H'[i].n + 1
            /\ H'[i].from # H'[j].from => \A k \in j..l : H'[k].from # H'[i].from
        BY <2>4, <4>1, Zenon
      <4>4. QED
        BY <4>2, <4>3, Zenon
    <3>2. QED
      BY <3>1, Zenon DEF EventsOfOneTui
<1>3. QED
  BY <1>1, <1>2

\* A reaction that is handled finds the client's message handled.
LEMMA ClientFirstStep ==
  ASSUME ProxyAssumption, TypeOK, TypeOK', Answers, Bridged, Reactions, ClientHandledFirst, [Next]_vars
  PROVE  ClientHandledFirst'
<1>1. ASSUME NEW j \in DOMAIN H', H'[j].reacts, said'[H'[j].from].told
      PROVE  \E i \in 1..j : H'[i].from = H'[j].from /\ H'[i].n = 0
  <2> DEFINE c == H'[j].from
  <2>0. c \in Conns
    <3>1. H' \in Seq(Event)
      BY DEF TypeOK, H
    <3>2. H'[j] \in Event
      BY <3>1, LenProperties, ElementOfSeq
    <3>3. QED
      BY <3>2 DEF Event
  <2>1. CASE j \in DOMAIN H /\ H'[j] = H[j]
    <3>0. \A i \in 1..j : i \in DOMAIN H /\ H'[i] = H[i]
      <4>1. \A i \in DOMAIN H : H'[i] = H[i]
        BY HandledStep, EventTaken
      <4>2. QED
        BY <2>1, <4>1, OnEvents
    <3>1. CASE said[c].told
      BY <1>1, <2>1, <3>0, <3>1 DEF ClientHandledFirst, H
    <3>2. CASE ~said[c].told
      <4>1. NoReaction(c)
        BY <1>1, <2>0, <3>2, SaidStep DEF ObserveClient, Reactions
      <4>2. QED
        BY <1>1, <2>1, <4>1 DEF NoReaction
    <3>3. QED
      BY <3>1, <3>2
  <2>2. CASE ~(j \in DOMAIN H /\ H'[j] = H[j])
    <3>1. /\ HandleEvent /\ IsPrimary(events[1].from) /\ 1 \in DOMAIN events
          /\ j = Len(H) + 1 /\ H'[j] = events[1]
      BY <1>1, <2>2, HandledFrom
    <3>2. primary = c /\ primary # NoConn /\ said' = said
      BY <2>0, <3>1 DEF HandleEvent, IsPrimary, ProxyAssumption
    <3>3. said[c].told
      BY <1>1, <3>2
    <3>4. Observed(c)
      BY <3>2, <3>3 DEF Reactions
    <3>5. events[1].from = c /\ events[1].reacts
      BY <1>1, <3>1
    <3>6. \E i \in DOMAIN H : H[i].from = c /\ H[i].n = 0
      <4>1. \A i \in DOMAIN events : 1 \in 1..i
        BY OnEvents
      <4>2. QED
        BY <3>4, <3>5, <4>1 DEF Observed
    <3>7. \A i \in DOMAIN H : i \in 1..j /\ H'[i] = H[i]
      BY <3>1, EventTaken, OnEvents
    <3>8. QED
      BY <3>6, <3>7
  <2>3. QED
    BY <2>1, <2>2
<1>2. QED
  BY <1>1 DEF ClientHandledFirst, H

\* The invariant of the events holds.
LEMMA EventsInvariant == ASSUME ProxyAssumption PROVE Spec => []EventInv
<1>1. Init => EventInv
  <2> SUFFICES ASSUME Init PROVE EventInv
    OBVIOUS
  <2>1. H = <<>> /\ events = <<>> /\ DOMAIN H = {} /\ DOMAIN events = {} /\ primary = NoConn
    BY DEF Init, H
  <2>2. \A c \in Conns : /\ bridge[c] = "none" /\ seen.sent[c] = 0 /\ wire[c] = <<>> /\ DOMAIN wire[c] = {}
                         /\ said[c].pc = "no" /\ ~said[c].told /\ primary # c
    BY DEF Init, ProxyAssumption
  <2>3. Bridged
    BY <2>1, <2>2 DEF Bridged, Unheard
  <2>4. Stream
    BY <2>1 DEF Stream
  <2>5. Reactions
    BY <2>1, <2>2 DEF Reactions, NoReaction
  <2>6. EventsOfOneTui /\ ClientHandledFirst
    BY <2>1 DEF EventsOfOneTui, ClientHandledFirst, H
  <2>7. QED
    BY <2>3, <2>4, <2>5, <2>6 DEF EventInv
<1>2. TypeOK /\ TypeOK' /\ RequestInv /\ EventInv /\ [Next]_vars => EventInv'
  BY BridgedStep, StreamStep, ReactionsStep, OneTuiStep, ClientFirstStep DEF EventInv, RequestInv
<1>3. QED
  BY <1>1, <1>2, TypesInvariant, RequestsInvariant, PTL DEF Spec

\* proxy.go:163 and supervisor.go:474: the event loop handles the notifications of a
\* connection in order and without a gap, and none of a former primary after one of its successor.
THEOREM OneTui == ASSUME ProxyAssumption PROVE Spec => []EventsOfOneTui
<1>1. EventInv => EventsOfOneTui
  BY DEF EventInv
<1>2. QED
  BY <1>1, EventsInvariant, PTL

\* proxy.go:191: a reaction of the app-server to a message of the primary client is
\* handled after that message.
THEOREM ClientFirst == ASSUME ProxyAssumption PROVE Spec => []ClientHandledFirst
<1>1. EventInv => ClientHandledFirst
  BY DEF EventInv
<1>2. QED
  BY <1>1, EventsInvariant, PTL
=============================================================================
