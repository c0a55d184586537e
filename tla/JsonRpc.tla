------------------------------ MODULE JsonRpc ------------------------------
(***************************************************************************)
(* The direct JSON-RPC client (jsonrpc.go): requests register a channel    *)
(* under mu and write outside it, one read loop hands out the answers,     *)
(* Close and a lost connection reject whatever is pending.  Each action is *)
(* one critical section of mu, one channel operation or one websocket call.*)
(***************************************************************************)
EXTENDS Naturals, Sequences, FiniteSets

CONSTANT Requests

VARIABLES
    conn,       \* the websocket: none, open, lost (not noticed), shut
    closed,     \* jsonRPCClient.closed, set together with conn = nil
    pending,    \* the keys of jsonRPCClient.pending
    chan,       \* the response channel of each request, of capacity one
    req,        \* where each Request call stands
    loop,       \* readLoop: what it does and the channels it has taken
    closer,     \* Close, likewise
    wire,       \* messages of the app-server that were not read yet
    server      \* external: requests received and answered, its own request

vars == <<conn, closed, pending, chan, req, loop, closer, wire, server>>

Active == {"registered", "waiting"}
Ended == {"answered", "failed"}
AnswerTo(r) == [kind |-> "answer", id |-> r]
ServerRequest == [kind |-> "request"]

TypeOK ==
    /\ conn \in {"none", "open", "lost", "shut"}
    /\ closed \in BOOLEAN
    /\ pending \subseteq Requests
    /\ chan \in [Requests -> {"empty", "answer", "error"}]
    /\ req \in [Requests -> {"idle"} \cup Active \cup Ended]
    /\ loop \in [pc : {"off", "read", "deliver", "refuse", "lost", "reject", "done"},
                 has : SUBSET Requests]
    /\ closer \in [pc : {"idle", "close", "take", "reject", "done"},
                   has : SUBSET Requests]
    /\ wire \in Seq({AnswerTo(r) : r \in Requests} \cup {ServerRequest})
    /\ server \in [got : SUBSET Requests, answered : SUBSET Requests,
                   asked : {"no", "asked", "refused"}]

Init ==
    /\ conn = "none"
    /\ closed = FALSE
    /\ pending = {}
    /\ chan = [r \in Requests |-> "empty"]
    /\ req = [r \in Requests |-> "idle"]
    /\ loop = [pc |-> "off", has |-> {}]
    /\ closer = [pc |-> "idle", has |-> {}]
    /\ wire = <<>>
    /\ server = [got |-> {}, answered |-> {}, asked |-> "no"]

Connect ==
    /\ conn = "none" /\ ~closed
    /\ conn' = "open"
    /\ loop' = [loop EXCEPT !.pc = "read"]
    /\ UNCHANGED <<closed, pending, chan, req, closer, wire, server>>

-----------------------------------------------------------------------------
(* Request *)

Register(r) ==
    /\ req[r] = "idle"
    /\ IF closed \/ conn = "none"
       THEN /\ req' = [req EXCEPT ![r] = "failed"]
            /\ UNCHANGED pending
       ELSE /\ req' = [req EXCEPT ![r] = "registered"]
            /\ pending' = pending \cup {r}
    /\ UNCHANGED <<conn, closed, chan, loop, closer, wire, server>>

\* A write to a connection that was lost but is not known to be succeeds.
WriteSucceeds(r) ==
    /\ req[r] = "registered"
    /\ ~closed /\ conn \in {"open", "lost"}
    /\ req' = [req EXCEPT ![r] = "waiting"]
    /\ server' = IF conn = "open" THEN [server EXCEPT !.got = @ \cup {r}] ELSE server
    /\ UNCHANGED <<conn, closed, pending, chan, loop, closer, wire>>

\* Refused, broken, or out of time: the last one may take the connection along.
WriteFails(r) ==
    /\ req[r] = "registered"
    /\ conn' \in {conn, "shut"}
    /\ req' = [req EXCEPT ![r] = "failed"]
    /\ pending' = pending \ {r}
    /\ UNCHANGED <<closed, chan, loop, closer, wire, server>>

Receive(r) ==
    /\ req[r] = "waiting"
    /\ chan[r] # "empty"
    /\ req' = [req EXCEPT ![r] = IF chan[r] = "answer" THEN "answered" ELSE "failed"]
    /\ chan' = [chan EXCEPT ![r] = "empty"]
    /\ UNCHANGED <<conn, closed, pending, loop, closer, wire, server>>

\* The select may choose the deadline although an answer is there.
RequestTimeout(r) ==
    /\ req[r] = "waiting"
    /\ req' = [req EXCEPT ![r] = "failed"]
    /\ pending' = pending \ {r}
    /\ UNCHANGED <<conn, closed, chan, loop, closer, wire, server>>

-----------------------------------------------------------------------------
(* readLoop *)

\* Mutant: an answer goes to whichever request is pending.
ReadAnswerForAny ==
    /\ loop.pc = "read" /\ conn \in {"open", "lost"}
    /\ wire # <<>> /\ Head(wire).kind = "answer"
    /\ \E id \in pending :
        /\ loop' = [pc |-> "deliver", has |-> {id}]
        /\ pending' = pending \ {id}
    /\ wire' = Tail(wire)
    /\ UNCHANGED <<conn, closed, chan, req, closer, server>>

\* An answer nobody waits for any more is dropped.
ReadAnswer ==
    /\ loop.pc = "read" /\ conn \in {"open", "lost"}
    /\ wire # <<>> /\ Head(wire).kind = "answer"
    /\ LET id == Head(wire).id
       IN loop' = IF id \in pending THEN [pc |-> "deliver", has |-> {id}] ELSE loop
    /\ pending' = pending \ {Head(wire).id}
    /\ wire' = Tail(wire)
    /\ UNCHANGED <<conn, closed, chan, req, closer, server>>

DeliverAnswer ==
    /\ loop.pc = "deliver"
    /\ \E r \in loop.has :
        /\ chan[r] = "empty"
        /\ chan' = [chan EXCEPT ![r] = "answer"]
    /\ loop' = [pc |-> "read", has |-> {}]
    /\ UNCHANGED <<conn, closed, pending, req, closer, wire, server>>

ReadServerRequest ==
    /\ loop.pc = "read" /\ conn \in {"open", "lost"}
    /\ wire # <<>> /\ Head(wire) = ServerRequest
    /\ loop' = [loop EXCEPT !.pc = "refuse"]
    /\ wire' = Tail(wire)
    /\ UNCHANGED <<conn, closed, pending, chan, req, closer, server>>

\* rejectServerRequest does not look at the outcome of its write.
RefuseServerRequest ==
    /\ loop.pc = "refuse"
    /\ loop' = [loop EXCEPT !.pc = "read"]
    /\ server' = IF ~closed /\ conn = "open"
                 THEN [server EXCEPT !.asked = "refused"] ELSE server
    /\ UNCHANGED <<conn, closed, pending, chan, req, closer, wire>>

\* Mutant: the loop ends without a rejection.
ReadFailsSilently ==
    /\ loop.pc = "read" /\ conn \in {"lost", "shut"}
    /\ loop' = [loop EXCEPT !.pc = "done"]
    /\ conn' = "shut"
    /\ UNCHANGED <<closed, pending, chan, req, closer, wire, server>>

\* The loop ends with the connection's error. Writes fail from here on: a failed
\* read closes the connection in the WebSocket library, which is not in src.
ReadFails ==
    /\ loop.pc = "read" /\ conn \in {"lost", "shut"}
    /\ loop' = [loop EXCEPT !.pc = "lost"]
    /\ conn' = "shut"
    /\ UNCHANGED <<closed, pending, chan, req, closer, wire, server>>

\* Close has set conn to nil: the loop leaves the rejection to it.
LoopReturns ==
    /\ loop.pc = "read" /\ closed
    /\ loop' = [loop EXCEPT !.pc = "done"]
    /\ UNCHANGED <<conn, closed, pending, chan, req, closer, wire, server>>

\* Mutant: the channels are sent to and stay in the map.
LoopCopiesPending ==
    /\ loop.pc = "lost"
    /\ loop' = [pc |-> "reject", has |-> pending]
    /\ UNCHANGED <<conn, closed, pending, chan, req, closer, wire, server>>

\* rejectPending takes the whole map in one section, then sends.
LoopTakesPending ==
    /\ loop.pc = "lost"
    /\ loop' = [pc |-> "reject", has |-> pending]
    /\ pending' = {}
    /\ UNCHANGED <<conn, closed, chan, req, closer, wire, server>>

LoopRejects ==
    /\ loop.pc = "reject"
    /\ \/ /\ loop.has = {}
          /\ loop' = [loop EXCEPT !.pc = "done"]
          /\ UNCHANGED chan
       \/ \E r \in loop.has :
            /\ chan[r] = "empty"
            /\ chan' = [chan EXCEPT ![r] = "error"]
            /\ loop' = [loop EXCEPT !.has = @ \ {r}]
    /\ UNCHANGED <<conn, closed, pending, req, closer, wire, server>>

-----------------------------------------------------------------------------
(* Close *)

CloseBegins ==
    /\ closer.pc = "idle" /\ ~closed
    /\ closed' = TRUE
    /\ closer' = [closer EXCEPT !.pc = "close"]
    /\ UNCHANGED <<conn, pending, chan, req, loop, wire, server>>

CloseShuts ==
    /\ closer.pc = "close"
    /\ conn' = IF conn = "none" THEN "none" ELSE "shut"
    /\ closer' = [closer EXCEPT !.pc = "take"]
    /\ UNCHANGED <<closed, pending, chan, req, loop, wire, server>>

CloseTakesPending ==
    /\ closer.pc = "take"
    /\ closer' = [pc |-> "reject", has |-> pending]
    /\ pending' = {}
    /\ UNCHANGED <<conn, closed, chan, req, loop, wire, server>>

CloseRejects ==
    /\ closer.pc = "reject"
    /\ \/ /\ closer.has = {}
          /\ closer' = [closer EXCEPT !.pc = "done"]
          /\ UNCHANGED chan
       \/ \E r \in closer.has :
            /\ chan[r] = "empty"
            /\ chan' = [chan EXCEPT ![r] = "error"]
            /\ closer' = [closer EXCEPT !.has = @ \ {r}]
    /\ UNCHANGED <<conn, closed, pending, req, loop, wire, server>>

-----------------------------------------------------------------------------
(* The app-server and the network *)

ServerAnswers(r) ==
    /\ conn = "open"
    /\ r \in server.got \ server.answered
    /\ server' = [server EXCEPT !.answered = @ \cup {r}]
    /\ wire' = Append(wire, AnswerTo(r))
    /\ UNCHANGED <<conn, closed, pending, chan, req, loop, closer>>

\* Bound: one request of the app-server to this client.
ServerAsks ==
    /\ conn = "open" /\ server.asked = "no"
    /\ server' = [server EXCEPT !.asked = "asked"]
    /\ wire' = Append(wire, ServerRequest)
    /\ UNCHANGED <<conn, closed, pending, chan, req, loop, closer>>

ConnectionLost ==
    /\ conn = "open"
    /\ conn' = "lost"
    /\ UNCHANGED <<closed, pending, chan, req, loop, closer, wire, server>>

-----------------------------------------------------------------------------
ReadLoop ==
    \/ ReadAnswer \/ DeliverAnswer \/ ReadServerRequest \/ RefuseServerRequest
    \/ ReadFails \/ LoopReturns \/ LoopTakesPending \/ LoopRejects

Close == CloseBegins \/ CloseShuts \/ CloseTakesPending \/ CloseRejects

Next ==
    \/ Connect
    \/ \E r \in Requests :
        \/ Register(r) \/ WriteSucceeds(r) \/ WriteFails(r)
        \/ Receive(r) \/ RequestTimeout(r) \/ ServerAnswers(r)
    \/ ReadLoop \/ Close
    \/ ServerAsks \/ ConnectionLost

Spec == Init /\ [][Next]_vars

\* Goroutines that can run do run; nobody is made to call, to answer, to
\* close, or to wait for a deadline.
Fairness ==
    /\ \A r \in Requests : WF_vars(WriteSucceeds(r) \/ WriteFails(r)) /\ WF_vars(Receive(r))
    /\ WF_vars(ReadLoop)
    /\ WF_vars(CloseShuts \/ CloseTakesPending \/ CloseRejects)

-----------------------------------------------------------------------------
\* The call a caller sees: an answer counts when it is received.
Contract == INSTANCE RequestContract WITH
    call <- [r \in Requests |-> IF req[r] \in Active THEN "open" ELSE req[r]],
    served <- server.answered

\* jsonrpc.go:80-126 implements the contract of a request: nobody gets an
\* answer the app-server did not give to that request, and no call ends twice.
ClientKeepsContract == Contract!Spec

\* jsonrpc.go:187, 253: the read loop and Close send to channels of capacity
\* one outside any select; a channel they have taken from pending has room, so
\* that neither blocks, also when both reject at the same time.
SendersHaveRoom ==
    /\ loop.has \cap closer.has = {}
    /\ \A r \in loop.has \cup closer.has : chan[r] = "empty"

\* Without any deadline, a request the app-server answered ends, and so does
\* every request on a connection that was lost or closed, whichever side of the
\* rejection it registered on.
Unended ==
    \E r \in Requests :
        req[r] \in Active /\ (conn = "shut" \/ r \in server.answered)
=============================================================================
