---------------------------- MODULE ClientProofs ----------------------------
(***************************************************************************)
(* The direct JSON-RPC client implements the contract of a request, and    *)
(* neither its read loop nor its Close blocks, for every set of requests.  *)
(* The probe behind it resumes a recovery after canaries of its own only,  *)
(* and runs one against the status at the third failure only, for every    *)
(* number of recoveries and canaries.                                      *)
(***************************************************************************)
EXTENDS MCRequests, SequenceTheorems, WellFoundedInduction, TLAPS

\* The channel of a request is in one place: in the map, with the read loop, with Close, or
\* with its caller, and it is empty until the one who took it from the map sends to it.
OnePlace ==
    /\ \A r \in rpcPending : rpcReq[r] # "idle" /\ rpcChan[r] = "empty" /\ r \notin loop.has \cup closer.has
    /\ \A r \in RpcRequests : rpcReq[r] = "idle" => rpcChan[r] = "empty" /\ r \notin loop.has \cup closer.has
    /\ SendersHaveRoom

\* What the app-server may have sent so far.
Sent == {Rpc!AnswerTo(r) : r \in rpcServer.answered} \cup {Rpc!ServerRequest}

\* An answer that is on its way to a caller was given by the app-server to this request.
Honest ==
    /\ rpcServer.answered \subseteq rpcServer.got
    /\ \A r \in rpcServer.got : rpcReq[r] # "idle"
    /\ rpcWire \in Seq(Sent)
    /\ loop.pc = "deliver" => loop.has \subseteq rpcServer.answered
    /\ \A r \in RpcRequests : rpcChan[r] = "answer" => r \in rpcServer.answered

Caller(r) ==
    \/ Rpc!Register(r) \/ Rpc!WriteSucceeds(r) \/ Rpc!WriteFails(r)
    \/ Rpc!Receive(r) \/ Rpc!RequestTimeout(r)

-----------------------------------------------------------------------------
(* The client: type correctness *)

\* The message at the head of the wire is one that was sent, and so are those behind it.
LEMMA HeadOfWire ==
  ASSUME NEW S, rpcWire \in Seq(S), rpcWire # <<>>
  PROVE  Head(rpcWire) \in S /\ Tail(rpcWire) \in Seq(S)
BY HeadTailProperties

\* An answer at the head of the wire names one of the requests it was sent for.
LEMMA AnswerRead ==
  ASSUME NEW S \in SUBSET RpcRequests,
         rpcWire \in Seq({Rpc!AnswerTo(r) : r \in S} \cup {Rpc!ServerRequest}), Rpc!ReadAnswer
  PROVE  /\ Head(rpcWire).id \in S
         /\ rpcWire' \in Seq({Rpc!AnswerTo(r) : r \in S} \cup {Rpc!ServerRequest})
<1>1. rpcWire # <<>> /\ Head(rpcWire).kind = "answer" /\ rpcWire' = Tail(rpcWire)
  BY DEF Rpc!ReadAnswer
<1>2. /\ Head(rpcWire) \in {Rpc!AnswerTo(r) : r \in S} \cup {Rpc!ServerRequest}
      /\ Tail(rpcWire) \in Seq({Rpc!AnswerTo(r) : r \in S} \cup {Rpc!ServerRequest})
  BY <1>1, HeadOfWire
<1>3. Head(rpcWire) # Rpc!ServerRequest
  BY <1>1 DEF Rpc!ServerRequest
<1>4. PICK r \in S : Head(rpcWire) = Rpc!AnswerTo(r)
  BY <1>2, <1>3
<1>5. QED
  BY <1>1, <1>2, <1>4 DEF Rpc!AnswerTo

\* The client is closed once.
LEMMA ClosedKept ==
  ASSUME closed \in BOOLEAN, [Rpc!Next]_Rpc!vars
  PROVE  closed' \in BOOLEAN
<1>1. closed' = closed \/ closed' = TRUE
  BY DEF Rpc!Next, Rpc!vars, Rpc!Connect, Rpc!Register, Rpc!WriteSucceeds, Rpc!WriteFails,
     Rpc!Receive, Rpc!RequestTimeout, Rpc!ServerAnswers, Rpc!ReadLoop, Rpc!ReadAnswer,
     Rpc!DeliverAnswer, Rpc!ReadServerRequest, Rpc!RefuseServerRequest, Rpc!ReadFails,
     Rpc!LoopReturns, Rpc!LoopTakesPending, Rpc!LoopRejects, Rpc!Close, Rpc!CloseBegins,
     Rpc!CloseShuts, Rpc!CloseTakesPending, Rpc!CloseRejects, Rpc!ServerAsks, Rpc!ConnectionLost
<1>2. QED
  BY <1>1, Zenon

\* Every variable of the client keeps its type.
LEMMA TypeStep ==
  ASSUME Rpc!TypeOK, [Rpc!Next]_Rpc!vars
  PROVE  Rpc!TypeOK'
<1>0. closed' \in BOOLEAN
  BY ClosedKept DEF Rpc!TypeOK
<1> USE <1>0 DEF Rpc!TypeOK, Rpc!Active, Rpc!Ended
<1>1. ASSUME NEW r \in RpcRequests, Caller(r) PROVE Rpc!TypeOK'
  BY <1>1 DEF Caller, Rpc!Register, Rpc!WriteSucceeds, Rpc!WriteFails, Rpc!Receive,
     Rpc!RequestTimeout
<1>2. ASSUME NEW r \in RpcRequests, Rpc!ServerAnswers(r) PROVE Rpc!TypeOK'
  BY <1>2 DEF Rpc!ServerAnswers, Rpc!AnswerTo
<1>3. CASE Rpc!ReadAnswer
  BY <1>3, HeadOfWire DEF Rpc!ReadAnswer, Rpc!AnswerTo, Rpc!ServerRequest
<1>4. CASE Rpc!ReadServerRequest
  BY <1>4, HeadOfWire DEF Rpc!ReadServerRequest
<1>5. CASE Rpc!DeliverAnswer \/ Rpc!RefuseServerRequest \/ Rpc!ReadFails \/ Rpc!LoopReturns
           \/ Rpc!LoopTakesPending
  BY <1>5 DEF Rpc!DeliverAnswer, Rpc!RefuseServerRequest, Rpc!ReadFails, Rpc!LoopReturns,
     Rpc!LoopTakesPending
<1>6. CASE Rpc!LoopRejects
  BY <1>6 DEF Rpc!LoopRejects
<1>7. CASE Rpc!CloseBegins \/ Rpc!CloseShuts \/ Rpc!CloseTakesPending
  BY <1>7 DEF Rpc!CloseBegins, Rpc!CloseShuts, Rpc!CloseTakesPending
<1>8. CASE Rpc!CloseRejects
  BY <1>8 DEF Rpc!CloseRejects
<1>9. CASE Rpc!Connect \/ Rpc!ServerAsks \/ Rpc!ConnectionLost
  BY <1>9 DEF Rpc!Connect, Rpc!ServerAsks, Rpc!ConnectionLost, Rpc!ServerRequest
<1>10. CASE UNCHANGED Rpc!vars
  BY <1>10 DEF Rpc!vars
<1>11. QED
  BY <1>1, <1>2, <1>3, <1>4, <1>5, <1>6, <1>7, <1>8, <1>9, <1>10 DEF Rpc!Next, Caller,
     Rpc!ReadLoop, Rpc!Close

\* All variables of the client keep their types.
THEOREM ClientTypes == Rpc!Spec => []Rpc!TypeOK
<1>1. Rpc!Init => Rpc!TypeOK
  <2>1. Rpc!Init => closed \in BOOLEAN
    BY Zenon DEF Rpc!Init
  <2>2. QED
    BY <2>1 DEF Rpc!Init, Rpc!TypeOK
<1>2. Rpc!TypeOK /\ [Rpc!Next]_Rpc!vars => Rpc!TypeOK'
  BY TypeStep
<1>3. QED
  BY <1>1, <1>2, PTL DEF Rpc!Spec

-----------------------------------------------------------------------------
(* The client: the channels *)

\* Each step moves a channel from one place to another.
LEMMA OnePlaceStep ==
  ASSUME Rpc!TypeOK, OnePlace, [Rpc!Next]_Rpc!vars
  PROVE  OnePlace'
<1> USE DEF Rpc!TypeOK, OnePlace, SendersHaveRoom, Rpc!SendersHaveRoom, Rpc!Active, Rpc!Ended
<1>1. ASSUME NEW r \in RpcRequests, Caller(r) PROVE OnePlace'
  BY <1>1 DEF Caller, Rpc!Register, Rpc!WriteSucceeds, Rpc!WriteFails, Rpc!Receive,
     Rpc!RequestTimeout
<1>2. CASE Rpc!ReadAnswer
  <2>1. PICK id \in RpcRequests :
          /\ loop' = IF id \in rpcPending THEN [pc |-> "deliver", has |-> {id}] ELSE loop
          /\ rpcPending' = rpcPending \ {id}
    <3>1. Head(rpcWire).id \in RpcRequests
      BY <1>2, AnswerRead
    <3>2. QED
      BY <1>2, <3>1 DEF Rpc!ReadAnswer
  <2>2. UNCHANGED <<rpcChan, rpcReq, closer>>
    BY <1>2 DEF Rpc!ReadAnswer
  <2>3. QED
    BY <2>1, <2>2
<1>3. CASE Rpc!DeliverAnswer
  BY <1>3 DEF Rpc!DeliverAnswer
<1>4. CASE Rpc!ReadServerRequest \/ Rpc!RefuseServerRequest \/ Rpc!ReadFails \/ Rpc!LoopReturns
  BY <1>4 DEF Rpc!ReadServerRequest, Rpc!RefuseServerRequest, Rpc!ReadFails, Rpc!LoopReturns
<1>5. CASE Rpc!LoopTakesPending \/ Rpc!CloseTakesPending
  BY <1>5 DEF Rpc!LoopTakesPending, Rpc!CloseTakesPending
<1>6. CASE Rpc!LoopRejects
  BY <1>6 DEF Rpc!LoopRejects
<1>7. CASE Rpc!CloseRejects
  BY <1>7 DEF Rpc!CloseRejects
<1>8. CASE Rpc!CloseBegins \/ Rpc!CloseShuts \/ Rpc!Connect \/ Rpc!ServerAsks \/ Rpc!ConnectionLost
           \/ UNCHANGED Rpc!vars
  BY <1>8 DEF Rpc!CloseBegins, Rpc!CloseShuts, Rpc!Connect, Rpc!ServerAsks, Rpc!ConnectionLost,
     Rpc!vars
<1>9. ASSUME NEW r \in RpcRequests, Rpc!ServerAnswers(r) PROVE OnePlace'
  BY <1>9 DEF Rpc!ServerAnswers
<1>10. QED
  BY <1>1, <1>2, <1>3, <1>4, <1>5, <1>6, <1>7, <1>8, <1>9 DEF Rpc!Next, Caller, Rpc!ReadLoop,
     Rpc!Close

\* The read loop and Close send to channels of one place outside any select: a channel that
\* one of them has taken is empty, also when both reject at the same time.
THEOREM SendersNeverBlock == Rpc!Spec => []SendersHaveRoom
<1>1. Rpc!Init => OnePlace
  BY DEF Rpc!Init, OnePlace, SendersHaveRoom, Rpc!SendersHaveRoom
<1>2. Rpc!TypeOK /\ OnePlace /\ [Rpc!Next]_Rpc!vars => OnePlace'
  BY OnePlaceStep
<1>3. OnePlace => SendersHaveRoom
  BY DEF OnePlace
<1>4. QED
  BY <1>1, <1>2, <1>3, ClientTypes, PTL DEF Rpc!Spec

-----------------------------------------------------------------------------
(* The client: the contract *)

\* A step that neither reads nor gives an answer and delivers at most what the loop holds.
LEMMA HonestQuiet ==
  ASSUME Rpc!TypeOK, Honest, UNCHANGED <<rpcWire, rpcServer, rpcReq>>,
         loop'.pc = "deliver" => loop' = loop,
         \A r \in RpcRequests : rpcChan'[r] = "answer" =>
           rpcChan[r] = "answer" \/ (loop.pc = "deliver" /\ r \in loop.has)
  PROVE  Honest'
<1>1. Sent' = Sent
  BY DEF Sent
<1>2. QED
  BY <1>1 DEF Honest

\* The calls take answers off their way and put none on it.
LEMMA HonestCall ==
  ASSUME Rpc!TypeOK, Honest, NEW r \in RpcRequests, Caller(r)
  PROVE  Honest'
<1>1. rpcServer'.answered = rpcServer.answered /\ UNCHANGED <<rpcWire, loop>>
  BY DEF Caller, Rpc!Register, Rpc!WriteSucceeds, Rpc!WriteFails, Rpc!Receive, Rpc!RequestTimeout,
     Rpc!TypeOK
<1>2. Sent' = Sent
  BY <1>1 DEF Sent
<1>3. \A q \in rpcServer'.got : rpcReq'[q] # "idle"
  BY DEF Caller, Rpc!Register, Rpc!WriteSucceeds, Rpc!WriteFails, Rpc!Receive, Rpc!RequestTimeout,
     Rpc!TypeOK, Honest, Rpc!Active, Rpc!Ended
<1>4. rpcServer.got \subseteq rpcServer'.got
  BY DEF Caller, Rpc!Register, Rpc!WriteSucceeds, Rpc!WriteFails, Rpc!Receive, Rpc!RequestTimeout,
     Rpc!TypeOK
<1>5. \A q \in RpcRequests : rpcChan'[q] = "answer" => rpcChan[q] = "answer"
  BY DEF Caller, Rpc!Register, Rpc!WriteSucceeds, Rpc!WriteFails, Rpc!Receive, Rpc!RequestTimeout,
     Rpc!TypeOK
<1>6. QED
  BY <1>1, <1>2, <1>3, <1>4, <1>5 DEF Honest

\* No step puts an answer on its way that the app-server did not give.
LEMMA HonestStep ==
  ASSUME Rpc!TypeOK, Honest, [Rpc!Next]_Rpc!vars
  PROVE  Honest'
<1>1. ASSUME NEW r \in RpcRequests, Caller(r) PROVE Honest'
  BY <1>1, HonestCall
<1>2. ASSUME NEW r \in RpcRequests, Rpc!ServerAnswers(r) PROVE Honest'
  <2>1. Sent \subseteq Sent' /\ Rpc!AnswerTo(r) \in Sent'
    BY <1>2 DEF Rpc!ServerAnswers, Sent, Rpc!TypeOK
  <2>2. rpcWire \in Seq(Sent')
    BY <2>1, SeqMonotonic DEF Honest
  <2>3. rpcWire' \in Seq(Sent')
    BY <1>2, <2>1, <2>2 DEF Rpc!ServerAnswers
  <2>4. QED
    BY <1>2, <2>3 DEF Rpc!ServerAnswers, Rpc!TypeOK, Honest
<1>3. CASE Rpc!ReadAnswer
  <2>1. Head(rpcWire).id \in rpcServer.answered /\ rpcWire' \in Seq(Sent)
    BY <1>3, AnswerRead DEF Sent, Rpc!TypeOK, Honest
  <2>2. UNCHANGED <<rpcServer, rpcReq, rpcChan>>
    BY <1>3 DEF Rpc!ReadAnswer
  <2>3. Sent' = Sent
    BY <2>2 DEF Sent
  <2>4. loop' = [pc |-> "deliver", has |-> {Head(rpcWire).id}] \/ loop' = loop
    BY <1>3 DEF Rpc!ReadAnswer
  <2>5. QED
    BY <2>1, <2>2, <2>3, <2>4 DEF Honest
<1>4. CASE Rpc!ReadServerRequest
  <2>1. rpcWire' \in Seq(Sent)
    BY <1>4, HeadOfWire DEF Rpc!ReadServerRequest, Honest
  <2>2. UNCHANGED <<rpcServer, rpcReq, rpcChan>> /\ loop'.pc = "refuse"
    BY <1>4 DEF Rpc!ReadServerRequest, Rpc!TypeOK
  <2>3. Sent' = Sent
    BY <2>2 DEF Sent
  <2>4. QED
    BY <2>1, <2>2, <2>3 DEF Honest
<1>5. CASE Rpc!RefuseServerRequest \/ Rpc!ServerAsks
  <2>1. /\ rpcServer'.answered = rpcServer.answered /\ rpcServer'.got = rpcServer.got
        /\ UNCHANGED <<rpcReq, rpcChan>>
        /\ loop'.pc = "deliver" => loop' = loop
    BY <1>5 DEF Rpc!RefuseServerRequest, Rpc!ServerAsks, Rpc!TypeOK
  <2>2. Sent' = Sent /\ Rpc!ServerRequest \in Sent
    BY <2>1 DEF Sent
  <2>3. rpcWire' \in Seq(Sent')
    BY <1>5, <2>2 DEF Rpc!RefuseServerRequest, Rpc!ServerAsks, Honest
  <2>4. QED
    BY <2>1, <2>2, <2>3 DEF Honest
<1>6. CASE Rpc!DeliverAnswer \/ Rpc!ReadFails \/ Rpc!LoopReturns \/ Rpc!LoopTakesPending
           \/ Rpc!LoopRejects
  <2>1. UNCHANGED <<rpcWire, rpcServer, rpcReq>>
    BY <1>6 DEF Rpc!DeliverAnswer, Rpc!ReadFails, Rpc!LoopReturns, Rpc!LoopTakesPending,
       Rpc!LoopRejects
  <2>0. loop'.pc # "deliver"
    BY <1>6 DEF Rpc!DeliverAnswer, Rpc!ReadFails, Rpc!LoopReturns, Rpc!LoopTakesPending,
       Rpc!LoopRejects, Rpc!TypeOK
  <2>2. \A r \in RpcRequests : rpcChan'[r] = "answer" =>
           rpcChan[r] = "answer" \/ (loop.pc = "deliver" /\ r \in loop.has)
    BY <1>6 DEF Rpc!DeliverAnswer, Rpc!ReadFails, Rpc!LoopReturns, Rpc!LoopTakesPending,
       Rpc!LoopRejects, Rpc!TypeOK
  <2>3. QED
    BY <2>1, <2>0, <2>2, HonestQuiet
<1>7. CASE Rpc!Close \/ Rpc!Connect \/ Rpc!ConnectionLost \/ UNCHANGED Rpc!vars
  <2>1. UNCHANGED <<rpcWire, rpcServer, rpcReq>> /\ (loop'.pc = "deliver" => loop' = loop)
    BY <1>7 DEF Rpc!Close, Rpc!CloseBegins, Rpc!CloseShuts, Rpc!CloseTakesPending,
       Rpc!CloseRejects, Rpc!Connect, Rpc!ConnectionLost, Rpc!vars, Rpc!TypeOK
  <2>2. \A r \in RpcRequests : rpcChan'[r] = "answer" => rpcChan[r] = "answer"
    BY <1>7 DEF Rpc!Close, Rpc!CloseBegins, Rpc!CloseShuts, Rpc!CloseTakesPending,
       Rpc!CloseRejects, Rpc!Connect, Rpc!ConnectionLost, Rpc!vars, Rpc!TypeOK
  <2>3. QED
    BY <2>1, <2>2, HonestQuiet
<1>8. QED
  BY <1>1, <1>2, <1>3, <1>4, <1>5, <1>6, <1>7 DEF Rpc!Next, Caller, Rpc!ReadLoop

\* No answer reaches a caller that the app-server did not give to its request.
THEOREM AnswersAreHonest == Rpc!Spec => []Honest
<1>1. Rpc!Init => Honest
  <2>1. Rpc!Init => rpcWire \in Seq(Sent)
    BY EmptySeq DEF Rpc!Init
  <2>2. QED
    BY <2>1 DEF Rpc!Init, Honest
<1>2. Rpc!TypeOK /\ Honest /\ [Rpc!Next]_Rpc!vars => Honest'
  BY HonestStep
<1>3. QED
  BY <1>1, <1>2, ClientTypes, PTL DEF Rpc!Spec

\* What the caller of r has been told.
Told(r) == IF rpcReq[r] \in Rpc!Active THEN "open" ELSE rpcReq[r]

\* A step that tells nobody anything and answers nothing is none of the contract's.
LEMMA ContractStutters ==
  ASSUME \A r \in RpcRequests : Told(r)' = Told(r), rpcServer'.answered = rpcServer.answered
  PROVE  UNCHANGED Rpc!Contract!vars
BY DEF Rpc!Contract!vars, Told

\* Every step is one of the contract's or none of them.
LEMMA ContractStep ==
  ASSUME Rpc!TypeOK, Honest, [Rpc!Next]_Rpc!vars
  PROVE  [Rpc!Contract!Next]_Rpc!Contract!vars
<1> DEFINE call == [r \in RpcRequests |-> Told(r)]
<1> USE DEF Rpc!TypeOK, Rpc!Active, Rpc!Ended
<1>0. ASSUME NEW r \in RpcRequests, NEW told, rpcReq' = [rpcReq EXCEPT ![r] = told]
      PROVE  call' = [call EXCEPT ![r] = IF told \in Rpc!Active THEN "open" ELSE told]
  BY <1>0 DEF Told
<1>1. ASSUME NEW r \in RpcRequests, Rpc!Register(r) PROVE Rpc!Contract!Issue(r) \/ Rpc!Contract!Fail(r)
  <2>1. rpcReq[r] = "idle" /\ rpcServer' = rpcServer
    BY <1>1 DEF Rpc!Register
  <2>2. rpcReq' = [rpcReq EXCEPT ![r] = "failed"] \/ rpcReq' = [rpcReq EXCEPT ![r] = "registered"]
    BY <1>1 DEF Rpc!Register
  <2>3. QED
    BY <1>0, <2>1, <2>2 DEF Rpc!Contract!Issue, Rpc!Contract!Fail, Told
<1>2. ASSUME NEW r \in RpcRequests, Rpc!WriteSucceeds(r) PROVE UNCHANGED Rpc!Contract!vars
  <2>1. \A q \in RpcRequests : Told(q)' = Told(q)
    BY <1>2 DEF Rpc!WriteSucceeds, Told
  <2>2. rpcServer'.answered = rpcServer.answered
    BY <1>2 DEF Rpc!WriteSucceeds
  <2>3. QED
    BY <2>1, <2>2, ContractStutters
<1>3. ASSUME NEW r \in RpcRequests, Rpc!WriteFails(r) \/ Rpc!RequestTimeout(r) PROVE Rpc!Contract!Fail(r)
  <2>1. rpcReq[r] \in Rpc!Active /\ rpcReq' = [rpcReq EXCEPT ![r] = "failed"] /\ rpcServer' = rpcServer
    BY <1>3 DEF Rpc!WriteFails, Rpc!RequestTimeout
  <2>2. QED
    BY <1>0, <2>1 DEF Rpc!Contract!Fail, Told
<1>4. ASSUME NEW r \in RpcRequests, Rpc!Receive(r) PROVE Rpc!Contract!Answer(r) \/ Rpc!Contract!Fail(r)
  <2>1. rpcReq[r] = "waiting" /\ rpcServer' = rpcServer
    BY <1>4 DEF Rpc!Receive
  <2>2. CASE rpcChan[r] = "answer"
    <3>1. rpcReq' = [rpcReq EXCEPT ![r] = "answered"] /\ r \in rpcServer.answered
      BY <1>4, <2>2 DEF Rpc!Receive, Honest
    <3>2. QED
      BY <1>0, <2>1, <3>1 DEF Rpc!Contract!Answer, Told
  <2>3. CASE rpcChan[r] # "answer"
    <3>1. rpcReq' = [rpcReq EXCEPT ![r] = "failed"]
      BY <1>4, <2>3 DEF Rpc!Receive
    <3>2. QED
      BY <1>0, <2>1, <3>1 DEF Rpc!Contract!Fail, Told
  <2>4. QED
    BY <2>2, <2>3
<1>5. ASSUME NEW r \in RpcRequests, Rpc!ServerAnswers(r) PROVE Rpc!Contract!Serve(r)
  <2>1. rpcReq[r] # "idle" /\ r \notin rpcServer.answered /\ rpcServer'.answered = rpcServer.answered \cup {r}
    BY <1>5 DEF Rpc!ServerAnswers, Honest
  <2>2. rpcReq' = rpcReq
    BY <1>5 DEF Rpc!ServerAnswers
  <2>3. QED
    BY <2>1, <2>2 DEF Rpc!Contract!Serve, Told
<1>6. ASSUME rpcReq' = rpcReq, rpcServer'.answered = rpcServer.answered PROVE UNCHANGED Rpc!Contract!vars
  BY <1>6, ContractStutters DEF Told
<1>7. CASE Rpc!ReadLoop
  BY <1>6, <1>7 DEF Rpc!ReadLoop, Rpc!ReadAnswer, Rpc!DeliverAnswer, Rpc!ReadServerRequest,
     Rpc!RefuseServerRequest, Rpc!ReadFails, Rpc!LoopReturns, Rpc!LoopTakesPending, Rpc!LoopRejects
<1>8. CASE Rpc!Close \/ Rpc!Connect \/ Rpc!ServerAsks \/ Rpc!ConnectionLost \/ UNCHANGED Rpc!vars
  BY <1>6, <1>8 DEF Rpc!Close, Rpc!CloseBegins, Rpc!CloseShuts, Rpc!CloseTakesPending,
     Rpc!CloseRejects, Rpc!Connect, Rpc!ServerAsks, Rpc!ConnectionLost, Rpc!vars
<1>9. QED
  BY <1>1, <1>2, <1>3, <1>4, <1>5, <1>7, <1>8 DEF Rpc!Next, Rpc!Contract!Next

\* The client implements the contract of a request: a call is made once and ends at most
\* once, with an answer only when the app-server gave one to it.
THEOREM ContractKept == Rpc!Spec => ClientKeepsContract
<1>1. Rpc!Init => Rpc!Contract!Init
  BY DEF Rpc!Init, Rpc!Contract!Init, Rpc!Active
<1>2. Rpc!TypeOK /\ Honest /\ [Rpc!Next]_Rpc!vars => [Rpc!Contract!Next]_Rpc!Contract!vars
  BY ContractStep
<1>3. QED
  BY <1>1, <1>2, ClientTypes, AnswersAreHonest, PTL DEF Rpc!Spec, ClientKeepsContract,
     Rpc!ClientKeepsContract, Rpc!Contract!Spec
-----------------------------------------------------------------------------
(* The probe: its invariant *)

\* The entry is of a canary.
Ran(d) == d.runs = TRUE

\* The failures g of the gate are the latest entries of the log l for its target, unless the
\* last of them ran a canary; a canary is nowhere but at the end, after two of its target.
Counted(l, g) ==
    /\ g.failures <= Len(l)
    /\ \A i \in 1..(Len(l) - 1) : ~Ran(l[i])
    /\ Len(l) > 0 => (Ran(l[Len(l)]) <=> g.failures = 0)
    /\ \A i \in (Len(l) - g.failures + 1)..Len(l) : l[i].target = g.target
    /\ 0 < g.failures /\ g.failures < Len(l) => l[Len(l) - g.failures].target # g.target
    /\ Len(l) > 0 /\ g.failures = 0 => Len(l) = 3 /\ \A i \in 1..3 : l[i].target = l[3].target

WithTurn == {"ask", "asked", "wait", "waiting", "interrupt"}

\* The caller c, whose canaries are s, has a turn of its own, the latest, that nobody asked for
\* before it does; its successes are those of the last canaries that ended.
Fits(c, s, srv) ==
    LET ended == IF c.turn = 0 THEN Len(s) ELSE Len(s) - 1
    IN  /\ c.pc \in WithTurn <=> c.turn # 0
        /\ c.turn # 0 => Len(s) > 0 /\ s[Len(s)] = c.turn
        /\ c.pc = "ask" => srv[c.turn] = "none"
        /\ c.successes <= ended
        /\ \A i \in (ended - c.successes + 1)..ended : srv[s[i]] = "completed"
        /\ c.pc = "resumed" => c.successes = ProbeSuccesses
        /\ c.pc \notin {"resumed", "gone"} => c.successes < ProbeSuccesses

CallInv ==
    /\ \A k \in Canary!Callers : Fits(caller[k], tried[k], canary)
    /\ \A j, k \in Canary!Callers : caller[k].turn # 0 /\ caller[j].turn = caller[k].turn => j = k
    /\ \A t \in Canary!Canaries \ Canary!Started : canary[t] = "none"

CanaryInv == Canary!TypeOK /\ Counted(log, gate) /\ CallInv

-----------------------------------------------------------------------------
(* The probe: lemmas about its operators *)

\* A length of at most three.
LEMMA AtMostThree ==
  ASSUME NEW n \in Nat, n <= 3
  PROVE  n \in 0..3
OBVIOUS

\* A set of numbers that is not empty has a least one.
LEMMA LeastNat ==
  ASSUME NEW S, \E u \in Nat : u \in S
  PROVE  \E u \in Nat : u \in S /\ \A v \in Nat : v \in S => ~(v < u)
<1> DEFINE T == {u \in Nat : u \in S}
<1>1. IsWellFoundedOn(OpToRel(<, Nat), Nat)
  BY NatLessThanWellFounded
<1>2. PICK u \in T : \A v \in T : ~(<<v, u>> \in OpToRel(<, Nat))
  BY <1>1, WFMin
<1>3. QED
  BY <1>2 DEF OpToRel

\* The log's entries.
Entry == [target : Targets, runs : BOOLEAN]

\* The sources' states come to a state.
LEMMA StatesOfGate ==
  ASSUME NEW target
  PROVE  Canary!GateStates(target) \subseteq Canary!States
BY DEF Canary!GateStates, Canary!GateState, Canary!States

\* FallbackAtThird, entry by entry.
LEMMA FallbackPerEntry ==
  ASSUME NEW l \in Seq(Entry), l # <<>>
  PROVE  (/\ Len(l) = 3
          /\ \A d \in Canary!ToSet(l) : d.target = Canary!Last(l).target)
         <=> Len(l) = 3 /\ \A i \in 1..3 : l[i].target = l[3].target
BY DEF Canary!ToSet, Canary!Last

\* What the gate decides about a failing status.
LEMMA DecisionOnFailing ==
  ASSUME NEW g, NEW target, NEW state, Canary!Failing(state), g.failures \in 0..2
  PROVE  LET d == Canary!Decision(g, state, target)
         IN  /\ d.gate = [target |-> target, failures |-> d.gate.failures]
             /\ g.target # target => d.gate.failures = 1 /\ d.runs = FALSE
             /\ g.target = target /\ g.failures < 2 => d.gate.failures = g.failures + 1 /\ d.runs = FALSE
             /\ g.target = target /\ g.failures = 2 => d.gate.failures = 0 /\ d.runs = TRUE
BY DEF Canary!Decision, Canary!Failures

\* And about another.
LEMMA DecisionOtherwise ==
  ASSUME Canary!ProbeAssumption, NEW g, NEW target, NEW state \in Canary!States, ~Canary!Failing(state)
  PROVE  Canary!Decision(g, state, target).gate = [target |-> target, failures |-> 0]
BY DEF Canary!Decision

-----------------------------------------------------------------------------
(* The probe: the gate *)

\* The log with its new entry, cut: no entry before a canary is kept, and at most three are.
LEMMA LogCut ==
  ASSUME NEW a \in Seq(Entry), NEW n \in Nat, n <= 3, Len(a) = n + 1
  PROVE  /\ n > 0 /\ Ran(a[n]) => Canary!Recent(a) = <<a[n + 1]>>
         /\ (n > 0 => ~Ran(a[n])) /\ n = 3 => Canary!Recent(a) = <<a[2], a[3], a[4]>>
         /\ (n > 0 => ~Ran(a[n])) /\ n < 3 => Canary!Recent(a) = a
<1>1. ASSUME n > 0, Ran(a[n])
      PROVE  Canary!Recent(a) = <<a[n + 1]>>
  <2>1. Len(a) > 1 /\ a[Len(a) - 1].runs
    BY <1>1 DEF Ran
  <2>2. QED
    BY <2>1, Zenon DEF Canary!Recent, Canary!Last
<1>2. ASSUME n > 0 => ~Ran(a[n])
      PROVE  Canary!Recent(a) = IF n = 3 THEN Tail(a) ELSE a
  <2>1. ~(Len(a) > 1 /\ a[Len(a) - 1].runs)
    <3>1. n > 0 => a[n] \in Entry
      OBVIOUS
    <3>2. n > 0 => a[n].runs = FALSE
      BY <1>2, <3>1 DEF Ran, Entry
    <3>3. QED
      BY <3>2
  <2>2. Canary!Recent(a) = IF Len(a) > Canary!Failures THEN Tail(a) ELSE a
    BY <2>1, Zenon DEF Canary!Recent
  <2>3. QED
    BY <2>2 DEF Canary!Failures
<1>3. ASSUME n = 3
      PROVE  Tail(a) = <<a[2], a[3], a[4]>>
  <2>1. a # <<>>
    BY <1>3
  <2>2. /\ Tail(a) \in Seq(Entry) /\ Len(Tail(a)) = 3
        /\ \A i \in 1..3 : Tail(a)[i] = a[i + 1]
    BY <1>3, <2>1, HeadTailProperties
  <2>3. <<a[2], a[3], a[4]>> \in Seq(Entry)
    <3>0. Len(a) = 4
      BY <1>3
    <3>1. a \in [1..Len(a) -> Entry]
      BY LenProperties
    <3>2. a[2] \in Entry /\ a[3] \in Entry /\ a[4] \in Entry
      BY <3>0, <3>1
    <3>3. QED
      BY <3>2
  <2>4. DEFINE t == <<a[2], a[3], a[4]>>
  <2>5. Len(t) = 3 /\ t[1] = a[2] /\ t[2] = a[3] /\ t[3] = a[4]
    OBVIOUS
  <2>6. HIDE DEF t
  <2>7. \A i \in 1..3 : Tail(a)[i] = t[i]
    <3>1. Tail(a)[1] = a[2] /\ Tail(a)[2] = a[3] /\ Tail(a)[3] = a[4]
      BY <2>2
    <3>2. \A i \in 1..3 : i = 1 \/ i = 2 \/ i = 3
      OBVIOUS
    <3>3. QED
      BY <2>5, <3>1, <3>2, Zenon
  <2>8. Tail(a) = t
    BY <2>2, <2>3, <2>5, <2>7, SeqEqual DEF t
  <2>9. QED
    BY <2>8 DEF t
<1>4. ASSUME n > 0 => ~Ran(a[n]), n = 3
      PROVE  Canary!Recent(a) = <<a[2], a[3], a[4]>>
  BY <1>2, <1>3, <1>4
<1>5. ASSUME n > 0 => ~Ran(a[n]), n < 3
      PROVE  Canary!Recent(a) = a
  <2>1. n # 3
    BY <1>5
  <2>2. QED
    BY <1>2, <1>5, <2>1, Zenon
<1>6. QED
  BY <1>1, <1>4, <1>5, Zenon
\* A canary against the status is the third of its target in the log.
LEMMA FallbackFollows ==
  ASSUME log \in Seq(Entry), Len(log) <= 3, gate.failures \in 0..2, Counted(log, gate)
  PROVE  FallbackAtThird
<1> SUFFICES ASSUME log # <<>>
             PROVE  Canary!Last(log).runs <=>
                      /\ Len(log) = 3
                      /\ \A d \in Canary!ToSet(log) : d.target = Canary!Last(log).target
  BY DEF FallbackAtThird, Canary!FallbackAtThird, Canary!Failures
<1> DEFINE n == Len(log)
<1>1. n \in 1..3
  <2>1. Len(log) \in Nat \ {0}
    BY EmptySeq, Zenon
  <2>2. Len(log) \in 0..3
    BY AtMostThree, LenProperties, Zenon
  <2>3. QED
    BY <2>1, <2>2
<1>2. Canary!Last(log).runs = log[n].runs /\ log[n].runs \in BOOLEAN
  <2>1. log[n] \in Entry
    BY <1>1
  <2>2. log[n].runs \in BOOLEAN
    BY <2>1 DEF Entry
  <2>3. QED
    BY <1>1, <2>2, Zenon DEF Canary!Last
<1>3. n = 3 /\ (\A i \in 1..3 : log[i].target = log[3].target) <=> gate.failures = 0
  <2>1. ASSUME gate.failures = 0 PROVE n = 3 /\ (\A i \in 1..3 : log[i].target = log[3].target)
    BY <1>1, <2>1 DEF Counted
  <2>2. ASSUME gate.failures # 0, n = 3 PROVE log[3 - gate.failures].target # log[3].target
    <3>1. gate.failures \in 1..2
      BY <2>2
    <3>2. log[3].target = gate.target /\ log[3 - gate.failures].target # gate.target
      BY <2>2, <3>1 DEF Counted
    <3>3. QED
      BY <3>2
  <2>3. gate.failures # 0 => 3 - gate.failures \in 1..3
    OBVIOUS
  <2>4. QED
    BY <2>1, <2>2, <2>3, Zenon
<1>4. Ran(log[n]) <=> gate.failures = 0
  BY <1>1 DEF Counted
<1>5. QED
  BY <1>2, <1>3, <1>4, FallbackPerEntry, Zenon DEF Ran

\* The gate goes from g to h, with the entry e, on a failing status.
Counts(g, e, h) ==
    /\ h.target = e.target
    /\ g.target # e.target => h.failures = 1 /\ ~Ran(e)
    /\ g.target = e.target /\ g.failures < 2 => h.failures = g.failures + 1 /\ ~Ran(e)
    /\ g.target = e.target /\ g.failures = 2 => h.failures = 0 /\ Ran(e)

\* A decision about a failing status counts it for its target.
LEMMA FailingCounted ==
  ASSUME NEW l \in Seq(Entry), Len(l) <= 3, NEW g, g.failures \in 0..2, Counted(l, g),
         NEW e \in Entry, NEW h, Counts(g, e, h)
  PROVE  LET m == Canary!Recent(Append(l, e))
         IN  m \in Seq(Entry) /\ Len(m) <= 3 /\ Counted(m, h)
<1> DEFINE a == Append(l, e)
           m == Canary!Recent(a)
           n == Len(l)
<1>1. a \in Seq(Entry) /\ Len(a) = n + 1 /\ a[n + 1] = e /\ (\A i \in 1..n : a[i] = l[i])
  OBVIOUS
<1>2. n \in 0..3
  BY AtMostThree, LenProperties, Zenon
<1> HIDE DEF a, m
<1> SUFFICES m \in Seq(Entry) /\ Len(m) <= 3 /\ Counted(m, h)
  BY DEF a, m
<1>3. ASSUME n > 0, Ran(l[n]) PROVE m = <<e>> /\ h.failures = 1 /\ ~Ran(e)
  <2>1. Ran(a[n])
    BY <1>1, <1>2, <1>3
  <2>2. m = <<e>>
    BY <1>1, <1>2, <1>3, <2>1, LogCut DEF m
  <2>3. g.failures = 0
    BY <1>2, <1>3 DEF Counted
  <2>4. QED
    BY <2>2, <2>3 DEF Counts
<1>4. CASE n > 0 /\ Ran(l[n])
  <2>0. m = <<e>>
    BY <1>3, <1>4
  <2>1. m \in Seq(Entry) /\ Len(m) = 1 /\ m[1] = e
    BY <2>0
  <2>2. h.failures = 1 /\ h.target = e.target /\ ~Ran(e)
    BY <1>3, <1>4 DEF Counts
  <2>3. QED
    BY <2>1, <2>2 DEF Counted
<1>5. ASSUME n > 0 => ~Ran(l[n])
      PROVE  /\ n = 3 => m = <<l[2], l[3], e>>
             /\ n < 3 => m = a
  <2>1. n > 0 => ~Ran(a[n])
    BY <1>1, <1>2, <1>5
  <2>2. n = 3 => m = <<a[2], a[3], a[4]>>
    BY <1>1, <1>2, <2>1, LogCut DEF m
  <2>3. n < 3 => m = a
    BY <1>1, <1>2, <2>1, LogCut DEF m
  <2>4. QED
    BY <1>1, <2>2, <2>3
<1>6. ASSUME n > 0 => ~Ran(l[n])
      PROVE  g.failures \in 0..2 /\ g.failures <= n /\ (n > 0 => g.failures > 0)
  BY <1>2, <1>6 DEF Counted
<1>7. CASE n = 3 /\ ~Ran(l[3])
  <2>1. m = <<l[2], l[3], e>> /\ g.failures \in 1..2
    BY <1>5, <1>6, <1>7
  <2>2. l[2] \in Entry /\ l[3] \in Entry
    <3>1. l \in [1..Len(l) -> Entry]
      BY LenProperties, Zenon
    <3>2. QED
      BY <1>7, <3>1
  <2>3. m \in Seq(Entry) /\ Len(m) = 3 /\ m[1] = l[2] /\ m[2] = l[3] /\ m[3] = e
    BY <2>1, <2>2
  <2>4. ~Ran(l[2]) /\ ~Ran(l[3]) /\ l[3].target = g.target
    BY <1>7, <2>1 DEF Counted
  <2>5. g.failures = 2 => l[2].target = g.target
    BY <1>7, <2>1 DEF Counted
  <2>6. g.failures = 1 => l[2].target # g.target
    BY <1>7, <2>1 DEF Counted
  <2>7. CASE e.target # g.target
    <3>1. h.failures = 1 /\ h.target = e.target /\ ~Ran(e)
      BY <2>7 DEF Counts
    <3>2. QED
      BY <2>3, <2>4, <2>7, <3>1 DEF Counted
  <2>8. CASE e.target = g.target /\ g.failures = 1
    <3>1. h.failures = 2 /\ h.target = e.target /\ ~Ran(e)
      BY <2>8 DEF Counts
    <3>2. QED
      BY <2>3, <2>4, <2>6, <2>8, <3>1 DEF Counted
  <2>9. CASE e.target = g.target /\ g.failures = 2
    <3>1. h.failures = 0 /\ h.target = e.target /\ Ran(e)
      BY <2>9 DEF Counts
    <3>2. QED
      BY <2>3, <2>4, <2>5, <2>9, <3>1 DEF Counted
  <2>10. QED
    BY <2>1, <2>7, <2>8, <2>9
<1>8. CASE n < 3 /\ (n > 0 => ~Ran(l[n]))
  <2>1. m = a /\ g.failures \in 0..2 /\ g.failures <= n /\ (n > 0 => g.failures > 0)
    BY <1>5, <1>6, <1>8
  <2>2. m \in Seq(Entry) /\ Len(m) = n + 1 /\ m[n + 1] = e /\ \A i \in 1..n : m[i] = l[i]
    BY <1>1, <2>1
  <2>3. CASE n = 0
    BY <2>1, <2>2, <2>3 DEF Counted, Counts
  <2>4. CASE n = 1
    <3>1. Len(m) = 2 /\ m[1] = l[1] /\ m[2] = e /\ g.failures = 1 /\ ~Ran(l[1])
      BY <1>8, <2>1, <2>2, <2>4
    <3>2. l[1].target = g.target
      BY <2>4, <3>1 DEF Counted
    <3>3. CASE e.target = g.target
      <4>1. h.failures = 2 /\ h.target = e.target /\ ~Ran(e)
        BY <3>1, <3>3 DEF Counts
      <4>2. QED
        BY <2>2, <3>1, <3>2, <3>3, <4>1 DEF Counted
    <3>4. CASE e.target # g.target
      <4>1. h.failures = 1 /\ h.target = e.target /\ ~Ran(e)
        BY <3>1, <3>4 DEF Counts
      <4>2. QED
        BY <2>2, <3>1, <3>2, <3>4, <4>1 DEF Counted
    <3>5. QED
      BY <3>3, <3>4
  <2>5. CASE n = 2
    <3>1. Len(m) = 3 /\ m[1] = l[1] /\ m[2] = l[2] /\ m[3] = e /\ g.failures \in 1..2 /\ ~Ran(l[2])
      BY <1>8, <2>1, <2>2, <2>5
    <3>2. ~Ran(l[1]) /\ l[2].target = g.target
      BY <2>5, <3>1 DEF Counted
    <3>3. g.failures = 2 => l[1].target = g.target
      BY <2>5, <3>1 DEF Counted
    <3>4. g.failures = 1 => l[1].target # g.target
      BY <2>5, <3>1 DEF Counted
    <3>5. CASE e.target # g.target
      <4>1. h.failures = 1 /\ h.target = e.target /\ ~Ran(e)
        BY <3>1, <3>5 DEF Counts
      <4>2. QED
        BY <2>2, <3>1, <3>2, <3>5, <4>1 DEF Counted
    <3>6. CASE e.target = g.target /\ g.failures = 1
      <4>1. h.failures = 2 /\ h.target = e.target /\ ~Ran(e)
        BY <3>6 DEF Counts
      <4>2. QED
        BY <2>2, <3>1, <3>2, <3>4, <3>6, <4>1 DEF Counted
    <3>7. CASE e.target = g.target /\ g.failures = 2
      <4>1. h.failures = 0 /\ h.target = e.target /\ Ran(e)
        BY <3>7 DEF Counts
      <4>2. QED
        BY <2>2, <3>1, <3>2, <3>3, <3>7, <4>1 DEF Counted
    <3>8. QED
      BY <3>1, <3>5, <3>6, <3>7
  <2>6. QED
    BY <1>2, <1>8, <2>3, <2>4, <2>5
<1>9. QED
  BY <1>2, <1>4, <1>7, <1>8
GateTypes ==
    /\ gate \in [target : Targets \cup {Canary!NoTarget}, failures : 0..2]
    /\ log \in Seq(Entry) /\ Len(log) <= 3

\* A check decides by the gate and counts with it.
LEMMA GateStep ==
  ASSUME Canary!ProbeAssumption, GateTypes, Counted(log, gate), NEW k, Canary!Check(k)
  PROVE  GateTypes' /\ Counted(log', gate')
<1>1. PICK target \in Targets, state \in Canary!States :
        LET d == Canary!Decision(gate, state, target)
        IN  /\ gate' = d.gate
            /\ log' = IF Canary!Failing(state)
                      THEN Canary!Recent(Append(log, [target |-> target, runs |-> d.runs]))
                      ELSE <<>>
  <2>1. PICK target \in Targets : \E state \in Canary!GateStates(target) :
          LET d == Canary!Decision(gate, state, target)
          IN  /\ gate' = d.gate
              /\ log' = IF Canary!Failing(state)
                        THEN Canary!Recent(Append(log, [target |-> target, runs |-> d.runs]))
                        ELSE <<>>
    BY Zenon DEF Canary!Check
  <2>2. QED
    BY <2>1, StatesOfGate, Zenon
<1> DEFINE d == Canary!Decision(gate, state, target)
           e == [target |-> target, runs |-> d.runs]
<1>2. gate.failures \in 0..2
  BY DEF GateTypes
<1>3. CASE ~Canary!Failing(state)
  <2>1. gate' = [target |-> target, failures |-> 0] /\ log' = <<>>
    BY <1>1, <1>3, DecisionOtherwise, Zenon
  <2>2. QED
    BY <2>1, EmptySeq DEF GateTypes, Counted
<1>4. CASE Canary!Failing(state)
  <2>1. /\ d.gate = [target |-> target, failures |-> d.gate.failures]
        /\ gate.target # target => d.gate.failures = 1 /\ d.runs = FALSE
        /\ gate.target = target /\ gate.failures < 2 => d.gate.failures = gate.failures + 1 /\ d.runs = FALSE
        /\ gate.target = target /\ gate.failures = 2 => d.gate.failures = 0 /\ d.runs = TRUE
    BY <1>2, <1>4, DecisionOnFailing
  <2>2. gate' = d.gate /\ log' = Canary!Recent(Append(log, e))
    BY <1>1, <1>4, Zenon
  <2>3. e.target = target /\ e.runs = d.runs
    OBVIOUS
  <2> HIDE DEF d
  <2>4. d.runs \in BOOLEAN /\ d.gate.target = target /\ d.gate.failures \in 0..2
    <3>1. gate.failures < 2 \/ gate.failures = 2
      BY <1>2
    <3>2. d.runs = TRUE \/ d.runs = FALSE
      BY <2>1, <3>1, Zenon
    <3>3. d.gate.target = target /\ d.gate.failures \in 0..2
      BY <1>2, <2>1, <3>1
    <3>4. QED
      BY <3>2, <3>3
  <2>5. e \in Entry
    BY <2>4, Zenon DEF Entry
  <2>6. Counts(gate, e, gate')
    <3>1. e.runs = FALSE => ~Ran(e)
      BY DEF Ran
    <3>2. e.runs = TRUE => Ran(e)
      BY DEF Ran
    <3> HIDE DEF e
    <3>3. gate'.target = target
      BY <2>2, <2>4
    <3>4. QED
      BY <2>1, <2>2, <2>3, <3>1, <3>2, <3>3, Zenon DEF Counts
  <2>7. log' \in Seq(Entry) /\ Len(log') <= 3 /\ Counted(log', gate')
    BY <1>2, <2>2, <2>5, <2>6, FailingCounted, Zenon DEF GateTypes
  <2>8. gate' \in [target : Targets \cup {Canary!NoTarget}, failures : 0..2]
    BY <2>1, <2>2, <2>4
  <2>9. QED
    BY <2>7, <2>8, Zenon DEF GateTypes
<1>5. QED
  BY <1>3, <1>4

-----------------------------------------------------------------------------
(* The probe: its callers *)

TurnStates == {"none", "running", "completed", "failed"}
CallerType ==
    [pc : {"idle", "resumed", "gone", "thread"} \cup WithTurn, cancelled : BOOLEAN,
     turn : {0} \cup Canary!Canaries, successes : 0..ProbeSuccesses]

CallTypes ==
    /\ caller \in [Canary!Callers -> CallerType]
    /\ tried \in [Canary!Callers -> Seq(Canary!Canaries)]
    /\ canary \in [Canary!Canaries -> TurnStates]

\* The turn of a caller is one that was started.
LEMMA TurnStarted ==
  ASSUME CallTypes, CallInv, NEW k \in Canary!Callers, caller[k].turn # 0
  PROVE  caller[k].turn \in Canary!Started
<1>1. tried[k] \in Seq(Canary!Canaries) /\ caller[k] \in CallerType
  BY DEF CallTypes
<1>2. Len(tried[k]) > 0 /\ tried[k][Len(tried[k])] = caller[k].turn
  BY DEF CallInv, Fits
<1>3. Len(tried[k]) \in 1..Len(tried[k])
  BY <1>1, <1>2
<1>4. caller[k].turn \in Canary!Canaries
  BY <1>1 DEF CallerType
<1>5. QED
  BY <1>2, <1>3, <1>4 DEF Canary!Started, Canary!Contains

\* What happens to the turns of others is none of a caller's business.
LEMMA FitsStill ==
  ASSUME ProbeSuccesses \in Nat, NEW c \in CallerType, NEW s \in Seq(Canary!Canaries),
         NEW srv, NEW after, Fits(c, s, srv),
         \A u \in Canary!Canaries : srv[u] = "completed" => after[u] = "completed",
         c.pc = "ask" => after[c.turn] = srv[c.turn]
  PROVE  Fits(c, s, after)
<1> DEFINE ended == IF c.turn = 0 THEN Len(s) ELSE Len(s) - 1
<1>1. c.successes \in Nat /\ Len(s) \in Nat /\ (c.turn # 0 => Len(s) > 0)
  BY DEF CallerType, Fits
<1>2. \A i \in (ended - c.successes + 1)..ended : s[i] \in Canary!Canaries
  <2>1. ended \in Nat /\ ended <= Len(s) /\ c.successes <= ended
    BY <1>1 DEF Fits
  <2>2. QED
    BY <1>1, <2>1
<1>3. QED
  BY <1>2 DEF Fits

\* A step of one caller, on its own turn.
LEMMA CallStep ==
  ASSUME ProbeSuccesses \in Nat, CallTypes, CallInv, UNCHANGED tried,
         canary' \in [Canary!Canaries -> TurnStates],
         NEW k \in Canary!Callers, NEW c \in CallerType,
         caller' = [caller EXCEPT ![k] = c], c.turn \in {0, caller[k].turn},
         Fits(c, tried[k], canary'),
         \A u \in Canary!Canaries : canary[u] = "completed" => canary'[u] = "completed",
         \A u \in Canary!Canaries : canary'[u] # canary[u] => u = caller[k].turn \/ canary[u] = "running"
  PROVE  CallTypes' /\ CallInv'
<1>1. CallTypes'
  BY DEF CallTypes
<1>2. ASSUME NEW j \in Canary!Callers, j # k
      PROVE  caller'[j] = caller[j] /\ Fits(caller'[j], tried'[j], canary')
  <2>1. caller'[j] = caller[j] /\ caller[j] \in CallerType /\ tried[j] \in Seq(Canary!Canaries)
    BY <1>2 DEF CallTypes
  <2>2. Fits(caller[j], tried[j], canary)
    BY DEF CallInv
  <2>3. ASSUME caller[j].pc = "ask" PROVE canary'[caller[j].turn] = canary[caller[j].turn]
    <3>1. caller[j].turn # 0 /\ canary[caller[j].turn] = "none" /\ caller[j].turn \in Canary!Canaries
      BY <2>1, <2>2, <2>3 DEF Fits, WithTurn, CallerType
    <3>2. caller[j].turn # caller[k].turn
      BY <1>2, <3>1 DEF CallInv
    <3>3. QED
      BY <3>1, <3>2
  <2>4. QED
    BY <2>1, <2>2, <2>3, FitsStill
<1>3. caller'[k] = c
  BY DEF CallTypes
<1>4. \A j \in Canary!Callers : Fits(caller'[j], tried'[j], canary')
  BY <1>2, <1>3
<1>5. \A i, j \in Canary!Callers : caller'[j].turn # 0 /\ caller'[i].turn = caller'[j].turn => i = j
  <2>1. \A j \in Canary!Callers : caller'[j].turn \in {0, caller[j].turn}
    BY <1>2, <1>3
  <2>2. QED
    BY <2>1 DEF CallInv
<1>6. ASSUME NEW t \in Canary!Canaries, t \notin Canary!Started PROVE canary'[t] = "none"
  <2>1. canary[t] = "none"
    BY <1>6 DEF CallInv
  <2>2. t # 0
    BY DEF Canary!Canaries
  <2>3. t # caller[k].turn
    BY <1>6, <2>2, TurnStarted
  <2>4. QED
    BY <2>1, <2>3
<1>7. Canary!Started' = Canary!Started
  BY DEF Canary!Started
<1>8. CallInv'
  BY <1>4, <1>5, <1>6, <1>7 DEF CallInv
<1>9. QED
  BY <1>1, <1>8

\* The fields of a caller whose canary ended.
LEMMA OutcomeFields ==
  ASSUME ProbeSuccesses \in Nat \ {0}, NEW c \in CallerType, c.successes < ProbeSuccesses,
         NEW healthy \in BOOLEAN
  PROVE  LET d == Canary!Outcome(c, healthy)
         IN  /\ d \in CallerType
             /\ d.turn = 0
             /\ d.successes = IF healthy THEN c.successes + 1 ELSE 0
             /\ d.pc \in {"gone", "resumed", "idle"}
             /\ d.pc = "resumed" => d.successes = ProbeSuccesses
             /\ d.pc = "idle" => d.successes < ProbeSuccesses
<1> DEFINE n == IF healthy THEN c.successes + 1 ELSE 0
           pc == CASE c.cancelled -> "gone"
                   [] ~c.cancelled /\ n >= ProbeSuccesses -> "resumed"
                   [] OTHER -> "idle"
           d == [c EXCEPT !.turn = 0, !.successes = n, !.pc = pc]
<1>1. d = Canary!Outcome(c, healthy)
  BY DEF Canary!Outcome
<1>2. n \in 0..ProbeSuccesses
  BY DEF CallerType
<1>3. /\ pc \in {"gone", "resumed", "idle"}
      /\ pc = "resumed" => n = ProbeSuccesses
      /\ pc = "idle" => n < ProbeSuccesses
  <2>1. n = ProbeSuccesses <=> n >= ProbeSuccesses
    BY <1>2
  <2>2. n < ProbeSuccesses <=> ~(n >= ProbeSuccesses)
    BY <1>2
  <2> HIDE DEF n
  <2>3. QED
    BY <2>1, <2>2, Zenon
<1> HIDE DEF n, pc
<1>4. d \in CallerType /\ d.turn = 0 /\ d.successes = n /\ d.pc = pc
  BY <1>2, <1>3 DEF CallerType
<1>5. QED
  BY <1>1, <1>3, <1>4 DEF n

\* A canary that ended counts when its turn completed, and sets the count back when not.
LEMMA OutcomeFits ==
  ASSUME ProbeSuccesses \in Nat \ {0}, NEW c \in CallerType, NEW s \in Seq(Canary!Canaries),
         NEW srv, Fits(c, s, srv),
         c.pc \in WithTurn \cup {"thread"}, NEW healthy \in BOOLEAN,
         healthy => c.turn # 0 /\ srv[c.turn] = "completed"
  PROVE  /\ Canary!Outcome(c, healthy) \in CallerType
         /\ Canary!Outcome(c, healthy).turn = 0
         /\ Fits(Canary!Outcome(c, healthy), s, srv)
<1> DEFINE d == Canary!Outcome(c, healthy)
<1>1. c.successes < ProbeSuccesses
  BY DEF Fits, WithTurn
<1>2. /\ d \in CallerType
      /\ d.turn = 0
      /\ d.successes = IF healthy THEN c.successes + 1 ELSE 0
      /\ d.pc \in {"gone", "resumed", "idle"}
      /\ d.pc = "resumed" => d.successes = ProbeSuccesses
      /\ d.pc = "idle" => d.successes < ProbeSuccesses
  BY <1>1, OutcomeFields
<1>3. d.pc \notin WithTurn /\ d.pc # "ask" /\ (d.pc \notin {"resumed", "gone"} => d.pc = "idle")
  BY <1>2 DEF WithTurn
<1> HIDE DEF d
<1>4. Len(s) \in Nat /\ c.successes \in Nat
  BY DEF CallerType
<1>8. ASSUME d.successes <= Len(s), \A i \in (Len(s) - d.successes + 1)..Len(s) : srv[s[i]] = "completed"
      PROVE  Fits(d, s, srv)
  BY <1>8, <1>2, <1>3 DEF Fits
<1>5. CASE ~healthy
  <2>1. d.successes = 0
    BY <1>2, <1>5
  <2>2. QED
    BY <1>2, <1>4, <1>8, <2>1 DEF d
<1>6. CASE healthy
  <2>1. d.successes = c.successes + 1 /\ c.turn # 0 /\ srv[c.turn] = "completed"
    BY <1>2, <1>6
  <2>2. /\ Len(s) > 0 /\ s[Len(s)] = c.turn /\ c.successes <= Len(s) - 1
        /\ \A i \in (Len(s) - c.successes)..(Len(s) - 1) : srv[s[i]] = "completed"
    BY <1>4, <2>1 DEF Fits
  <2>3. \A i \in (Len(s) - c.successes)..Len(s) : srv[s[i]] = "completed"
    BY <1>4, <2>1, <2>2
  <2>4. Fits(d, s, srv)
    BY <1>4, <1>8, <2>1, <2>2, <2>3
  <2>5. QED
    BY <1>2, <2>4 DEF d
<1>7. QED
  BY <1>5, <1>6

\* A caller goes on with its turn.
LEMMA MoveFits ==
  ASSUME ProbeSuccesses \in Nat, NEW c \in CallerType, NEW s \in Seq(Canary!Canaries), NEW srv,
         Fits(c, s, srv),
         c.pc \in WithTurn, NEW pc \in WithTurn \ {"ask"}
  PROVE  LET d == [c EXCEPT !.pc = pc]
         IN  d \in CallerType /\ d.turn = c.turn /\ Fits(d, s, srv)
<1> DEFINE d == [c EXCEPT !.pc = pc]
<1>1. d \in CallerType /\ d.pc = pc /\ d.turn = c.turn /\ d.successes = c.successes
  BY DEF CallerType, WithTurn
<1>2. pc \notin {"ask", "resumed", "gone"} /\ c.pc \notin {"resumed", "gone"}
  BY DEF WithTurn
<1> HIDE DEF d
<1>3. Fits(d, s, srv)
  BY <1>1, <1>2 DEF Fits
<1>4. QED
  BY <1>1, <1>3 DEF d

\* The state of one caller.
LEMMA CallerOf ==
  ASSUME CallTypes, CallInv, NEW k \in Canary!Callers
  PROVE  /\ caller[k] \in CallerType /\ tried[k] \in Seq(Canary!Canaries)
         /\ Fits(caller[k], tried[k], canary)
BY DEF CallTypes, CallInv

\* A step that leaves the turns alone.
LEMMA CallMoves ==
  ASSUME ProbeSuccesses \in Nat, CallTypes, CallInv, UNCHANGED <<tried, canary>>,
         NEW k \in Canary!Callers, NEW c \in CallerType,
         caller' = [caller EXCEPT ![k] = c], c.turn \in {0, caller[k].turn}, Fits(c, tried[k], canary)
  PROVE  CallTypes' /\ CallInv'
<1>1. canary' \in [Canary!Canaries -> TurnStates] /\ Fits(c, tried[k], canary')
  BY DEF CallTypes
<1>2. QED
  BY <1>1, CallStep

\* The cancellation and the check of the status come before the caller has a turn.
LEMMA CheckMoves ==
  ASSUME ProbeSuccesses \in Nat, CallTypes, CallInv, NEW k \in Canary!Callers,
         Canary!Cancel(k) \/ Canary!Check(k)
  PROVE  CallTypes' /\ CallInv'
<1>1. caller[k] \in CallerType /\ tried[k] \in Seq(Canary!Canaries) /\ Fits(caller[k], tried[k], canary)
  BY CallerOf
<1>2. UNCHANGED <<tried, canary>>
  BY DEF Canary!Cancel, Canary!Check, Canary!serverVars
<1>3. ASSUME NEW pc \in {"idle", "gone", "thread", caller[k].pc},
             pc = caller[k].pc \/ caller[k].pc = "idle",
             NEW cancelled \in BOOLEAN,
             caller' = [caller EXCEPT ![k] = [caller[k] EXCEPT !.cancelled = cancelled, !.pc = pc]]
      PROVE  CallTypes' /\ CallInv'
  <2> DEFINE d == [caller[k] EXCEPT !.cancelled = cancelled, !.pc = pc]
  <2>1. caller' = [caller EXCEPT ![k] = d]
    BY <1>3
  <2>2. d \in CallerType /\ d.turn = caller[k].turn /\ d.successes = caller[k].successes /\ d.pc = pc
    BY <1>1 DEF CallerType, WithTurn
  <2> HIDE DEF d
  <2>3. Fits(d, tried[k], canary)
    BY <1>1, <1>3, <2>2 DEF Fits, WithTurn
  <2>4. QED
    BY <1>2, <2>1, <2>2, <2>3, CallMoves
<1>4. CASE Canary!Cancel(k)
  <2>1. PICK pc \in {"idle", "gone", caller[k].pc} :
          /\ pc = caller[k].pc \/ caller[k].pc = "idle"
          /\ caller' = [caller EXCEPT ![k].cancelled = TRUE, ![k].pc = pc]
    BY <1>4, Zenon DEF Canary!Cancel
  <2>2. caller' = [caller EXCEPT ![k] = [caller[k] EXCEPT !.cancelled = TRUE, !.pc = pc]]
    BY <2>1
  <2>3. QED
    BY <1>3, <2>1, <2>2
<1>5. CASE Canary!Check(k)
  <2>1. PICK pc \in {"thread", "gone", "idle"} : caller' = [caller EXCEPT ![k].pc = pc]
    BY <1>5, Zenon DEF Canary!Check
  <2>2. caller[k].pc = "idle"
    BY <1>5 DEF Canary!Check
  <2>3. caller' = [caller EXCEPT ![k] = [caller[k] EXCEPT !.cancelled = caller[k].cancelled, !.pc = pc]]
    BY <1>1, <2>1 DEF CallerType
  <2>4. caller[k].cancelled \in BOOLEAN
    BY <1>1 DEF CallerType
  <2>5. QED
    BY <1>3, <2>2, <2>3, <2>4
<1>6. QED
  BY <1>4, <1>5

\* The end of a canary.
LEMMA CanaryEnds ==
  ASSUME ProbeSuccesses \in Nat \ {0}, CallTypes, CallInv, UNCHANGED <<tried, canary>>,
         NEW k \in Canary!Callers,
         caller[k].pc \in WithTurn \cup {"thread"}, NEW healthy \in BOOLEAN,
         healthy => caller[k].turn # 0 /\ canary[caller[k].turn] = "completed",
         caller' = [caller EXCEPT ![k] = Canary!Outcome(caller[k], healthy)]
  PROVE  CallTypes' /\ CallInv'
<1>1. caller[k] \in CallerType /\ tried[k] \in Seq(Canary!Canaries) /\ Fits(caller[k], tried[k], canary)
  BY CallerOf
<1> DEFINE d == Canary!Outcome(caller[k], healthy)
<1>2. d \in CallerType /\ d.turn = 0 /\ Fits(d, tried[k], canary)
  BY <1>1, OutcomeFits
<1>3. caller' = [caller EXCEPT ![k] = d]
  OBVIOUS
<1> HIDE DEF d
<1>4. QED
  BY <1>2, <1>3, CallMoves

\* A caller goes on to its next request, or to its wait.
LEMMA CanaryMoves ==
  ASSUME ProbeSuccesses \in Nat, CallTypes, CallInv, UNCHANGED <<tried, canary>>, NEW k \in Canary!Callers,
         caller[k].pc \in WithTurn, NEW pc \in WithTurn \ {"ask"},
         caller' = [caller EXCEPT ![k].pc = pc]
  PROVE  CallTypes' /\ CallInv'
<1>1. caller[k] \in CallerType /\ tried[k] \in Seq(Canary!Canaries) /\ Fits(caller[k], tried[k], canary)
  BY CallerOf
<1> DEFINE d == [caller[k] EXCEPT !.pc = pc]
<1>2. d \in CallerType /\ d.turn = caller[k].turn /\ Fits(d, tried[k], canary)
  BY <1>1, MoveFits
<1>3. caller' = [caller EXCEPT ![k] = d]
  OBVIOUS
<1> HIDE DEF d
<1>4. QED
  BY <1>2, <1>3, CallMoves

\* A turn is taken for a success when it completed.
LEMMA HealthyTurn ==
  ASSUME CallTypes, CallInv, NEW k \in Canary!Callers, caller[k].pc \in {"wait", "waiting"}
  PROVE  caller[k].turn # 0
BY DEF CallInv, Fits, WithTurn

\* Waiting for a turn.
LEMMA WaitMoves ==
  ASSUME ProbeSuccesses \in Nat \ {0}, CallTypes, CallInv, NEW k \in Canary!Callers,
         Canary!WaitForCompletion(k) \/ Canary!CompletionReceived(k) \/ Canary!WaitTimesOut(k)
  PROVE  CallTypes' /\ CallInv'
<1> DEFINE healthy == canary[caller[k].turn] = "completed"
<1>1. UNCHANGED <<tried, canary>>
  BY DEF Canary!WaitForCompletion, Canary!CompletionReceived, Canary!WaitTimesOut, Canary!serverVars
<1>2. caller[k].pc \in {"wait", "waiting"}
  BY DEF Canary!WaitForCompletion, Canary!CompletionReceived, Canary!WaitTimesOut
<1>3. \/ caller' = [caller EXCEPT ![k] = Canary!Outcome(caller[k], healthy)]
      \/ caller' = [caller EXCEPT ![k].pc = "waiting"]
      \/ caller' = [caller EXCEPT ![k].pc = "interrupt"]
  BY Zenon DEF Canary!WaitForCompletion, Canary!CompletionReceived, Canary!WaitTimesOut
<1>4. CASE caller' = [caller EXCEPT ![k] = Canary!Outcome(caller[k], healthy)]
  <2>1. healthy \in BOOLEAN /\ (healthy => caller[k].turn # 0 /\ canary[caller[k].turn] = "completed")
    BY <1>2, HealthyTurn, Zenon
  <2> HIDE DEF healthy
  <2>2. QED
    BY <1>1, <1>2, <1>4, <2>1, CanaryEnds DEF WithTurn
<1>5. ASSUME NEW pc \in {"waiting", "interrupt"}, caller' = [caller EXCEPT ![k].pc = pc]
      PROVE  CallTypes' /\ CallInv'
  BY <1>1, <1>2, <1>5, CanaryMoves DEF WithTurn
<1>6. QED
  BY <1>3, <1>4, <1>5, Zenon

\* The turn of a new canary.
LEMMA FreshTurn ==
  ASSUME Canary!ProbeAssumption, NEW k, Canary!ThreadStarts(k)
  PROVE  LET t == Canary!Fresh(Canary!Started)
         IN  t \in Canary!Canaries /\ t \notin Canary!Started
<1>1. \E u \in Nat : u \in Canary!Canaries \ Canary!Started
  BY DEF Canary!ThreadStarts, Canary!Started, Canary!Canaries, Canary!ProbeAssumption
<1>2. PICK u \in Nat : /\ u \in Canary!Canaries \ Canary!Started
                       /\ \A v \in Nat : v \in Canary!Canaries \ Canary!Started => ~(v < u)
  BY <1>1, LeastNat
<1>3. u \in Canary!Canaries /\ u \notin Canary!Started /\ \A v \in 1..(u - 1) : v \in Canary!Started
  BY <1>2 DEF Canary!Canaries, Canary!ProbeAssumption
<1>4. QED
  BY <1>3, Zenon DEF Canary!Fresh

\* A canary begins with a turn that nobody had.
LEMMA ThreadMoves ==
  ASSUME Canary!ProbeAssumption, CallTypes, CallInv, NEW k \in Canary!Callers, Canary!ThreadStarts(k)
  PROVE  CallTypes' /\ CallInv'
<1> DEFINE t == Canary!Fresh(Canary!Started)
           d == [caller[k] EXCEPT !.pc = "ask", !.turn = t]
<1>1. t \in Canary!Canaries /\ t \notin Canary!Started
  BY FreshTurn
<1> HIDE DEF t
<1>2. caller[k] \in CallerType /\ tried[k] \in Seq(Canary!Canaries) /\ Fits(caller[k], tried[k], canary)
  BY CallerOf
<1>3. /\ caller' = [caller EXCEPT ![k] = d]
      /\ tried' = [tried EXCEPT ![k] = Append(tried[k], t)]
      /\ canary' = canary /\ caller[k].pc = "thread"
  BY DEF Canary!ThreadStarts, Canary!serverVars, t
<1>4. t # 0
  BY <1>1 DEF Canary!Canaries
<1>5. d \in CallerType /\ d.pc = "ask" /\ d.turn = t /\ d.successes = caller[k].successes
  BY <1>1, <1>2 DEF CallerType, WithTurn
<1> HIDE DEF d
<1>6. CallTypes'
  BY <1>1, <1>2, <1>3, <1>5 DEF CallTypes
<1>7. canary[t] = "none"
  BY <1>1 DEF CallInv
<1>8. Fits(d, Append(tried[k], t), canary)
  <2> DEFINE n == Len(tried[k])
             a == Append(tried[k], t)
             c == caller[k]
  <2>1. Len(a) = n + 1 /\ a[n + 1] = t /\ n \in Nat /\ \A i \in 1..n : a[i] = tried[k][i]
    BY <1>1, <1>2
  <2>2. c.successes \in Nat
    BY <1>2 DEF CallerType
  <2>3. /\ c.turn = 0 /\ c.successes <= n /\ c.successes < ProbeSuccesses
        /\ \A i \in (n - c.successes + 1)..n : canary[tried[k][i]] = "completed"
    BY <1>2, <1>3, <2>1, <2>2 DEF Fits, WithTurn
  <2> HIDE DEF a, n, c
  <2>4. \A i \in (n - c.successes + 1)..n : canary[a[i]] = "completed"
    BY <2>1, <2>2, <2>3 DEF n, c
  <2>5. d.successes = c.successes
    BY <1>5 DEF c
  <2>6. Fits(d, a, canary)
    BY <1>4, <1>5, <1>7, <2>1, <2>2, <2>3, <2>4, <2>5 DEF Fits, WithTurn
  <2>7. QED
    BY <2>6 DEF a
<1>9. \A j \in Canary!Callers \ {k} : caller'[j] = caller[j] /\ tried'[j] = tried[j]
  BY <1>3 DEF CallTypes
<1>10. caller'[k] = d /\ tried'[k] = Append(tried[k], t)
  BY <1>3 DEF CallTypes
<1>11. \A j \in Canary!Callers : Fits(caller'[j], tried'[j], canary')
  BY <1>3, <1>8, <1>9, <1>10 DEF CallInv
<1>12. ASSUME NEW i \in Canary!Callers, NEW j \in Canary!Callers,
              caller'[j].turn # 0, caller'[i].turn = caller'[j].turn
       PROVE  i = j
  <2>1. \A l \in Canary!Callers : caller[l].turn # t
    BY <1>1, <1>4, TurnStarted
  <2>2. QED
    BY <1>5, <1>9, <1>10, <1>12, <2>1 DEF CallInv
<1>13. Canary!Started \subseteq Canary!Started'
  <2>1. ASSUME NEW u \in Canary!Canaries, NEW j \in Canary!Callers, NEW i \in 1..Len(tried[j]), tried[j][i] = u
        PROVE  \E m \in 1..Len(tried'[j]) : tried'[j][m] = u
    <3>1. CASE j # k
      BY <1>9, <2>1, <3>1
    <3>2. CASE j = k
      <4>1. Len(tried'[k]) = Len(tried[k]) + 1 /\ (\A m \in 1..Len(tried[k]) : tried'[k][m] = tried[k][m])
        BY <1>1, <1>2, <1>10
      <4>2. i \in 1..Len(tried'[k])
        BY <1>2, <2>1, <3>2, <4>1
      <4>3. QED
        BY <2>1, <3>2, <4>1, <4>2
    <3>3. QED
      BY <3>1, <3>2
  <2>2. QED
    BY <2>1 DEF Canary!Started, Canary!Contains
<1>14. CallInv'
  BY <1>3, <1>11, <1>12, <1>13 DEF CallInv
<1>15. QED
  BY <1>6, <1>14

\* The request of a turn, and its answer.
LEMMA AskMoves ==
  ASSUME ProbeSuccesses \in Nat \ {0}, CallTypes, CallInv, NEW k \in Canary!Callers,
         Canary!AskTurn(k) \/ Canary!TurnAnswered(k) \/ Canary!StartFails(k)
  PROVE  CallTypes' /\ CallInv'
<1>1. CASE Canary!TurnAnswered(k)
  <2>1. /\ UNCHANGED <<tried, canary>> /\ caller[k].pc = "asked"
        /\ caller' = [caller EXCEPT ![k].pc = "wait"]
    BY <1>1 DEF Canary!TurnAnswered, Canary!serverVars
  <2>2. QED
    BY <2>1, CanaryMoves DEF WithTurn
<1>2. CASE Canary!StartFails(k)
  <2>1. /\ UNCHANGED <<tried, canary>> /\ caller[k].pc \in {"thread", "ask", "asked"}
        /\ caller' = [caller EXCEPT ![k] = Canary!Outcome(caller[k], FALSE)]
    BY <1>2, Zenon DEF Canary!StartFails, Canary!serverVars
  <2>2. QED
    BY <2>1, CanaryEnds DEF WithTurn
<1>3. CASE Canary!AskTurn(k)
  <2> DEFINE t == caller[k].turn
             d == [caller[k] EXCEPT !.pc = "asked"]
  <2>1. /\ tried' = tried /\ caller[k].pc = "ask"
        /\ caller' = [caller EXCEPT ![k] = d]
        /\ canary' = [canary EXCEPT ![t] = "running"]
    BY <1>3 DEF Canary!AskTurn
  <2>2. caller[k] \in CallerType /\ tried[k] \in Seq(Canary!Canaries) /\ Fits(caller[k], tried[k], canary)
    BY CallerOf
  <2>3. d \in CallerType /\ d.turn = t /\ d.pc = "asked" /\ Fits(d, tried[k], canary)
    <3>1. d.pc = "asked"
      BY <2>2 DEF CallerType
    <3>2. QED
      BY <2>1, <2>2, <3>1, MoveFits DEF WithTurn
  <2> HIDE DEF d
  <2>4. t \in Canary!Canaries /\ canary[t] = "none"
    BY <2>1, <2>2 DEF CallerType, Fits, WithTurn
  <2>5. /\ canary' \in [Canary!Canaries -> TurnStates]
        /\ \A u \in Canary!Canaries : u # t => canary'[u] = canary[u]
    BY <2>1, <2>4 DEF CallTypes, TurnStates
  <2>6. \A u \in Canary!Canaries : canary[u] = "completed" => canary'[u] = "completed"
    BY <2>4, <2>5
  <2>7. Fits(d, tried[k], canary')
    BY <2>2, <2>3, <2>6, FitsStill
  <2> HIDE DEF t
  <2>8. d.turn \in {0, caller[k].turn}
    BY <2>3 DEF t
  <2>9. \A u \in Canary!Canaries : canary'[u] # canary[u] => u = caller[k].turn \/ canary[u] = "running"
    BY <2>5 DEF t
  <2>10. QED
    BY <2>1, <2>3, <2>5, <2>6, <2>7, <2>8, <2>9, CallStep
<1>4. QED
  BY <1>1, <1>2, <1>3

\* A turn that runs ends once.
LEMMA TurnEnds ==
  ASSUME ProbeSuccesses \in Nat, CallTypes, CallInv, UNCHANGED <<caller, tried>>,
         NEW t \in Canary!Canaries, canary[t] = "running", NEW status \in {"completed", "failed"},
         canary' = [canary EXCEPT ![t] = status]
  PROVE  CallTypes' /\ CallInv'
<1>1. /\ canary' \in [Canary!Canaries -> TurnStates]
      /\ \A u \in Canary!Canaries : canary[u] # "running" => canary'[u] = canary[u]
  BY DEF CallTypes, TurnStates
<1>2. ASSUME NEW j \in Canary!Callers PROVE Fits(caller[j], tried[j], canary')
  <2>1. caller[j] \in CallerType /\ tried[j] \in Seq(Canary!Canaries) /\ Fits(caller[j], tried[j], canary)
    BY CallerOf
  <2>2. ASSUME caller[j].pc = "ask" PROVE canary'[caller[j].turn] = canary[caller[j].turn]
    <3>1. caller[j].turn \in Canary!Canaries /\ canary[caller[j].turn] = "none"
      BY <2>1, <2>2 DEF Fits, WithTurn, CallerType
    <3>2. QED
      BY <1>1, <3>1
  <2>3. \A u \in Canary!Canaries : canary[u] = "completed" => canary'[u] = "completed"
    BY <1>1
  <2>4. QED
    BY <2>1, <2>2, <2>3, FitsStill
<1>3. Canary!Started' = Canary!Started
  BY DEF Canary!Started
<1>4. QED
  BY <1>1, <1>2, <1>3 DEF CallTypes, CallInv

\* The interrupt of a turn that was given up, and the end of a turn at the app-server.
LEMMA EndMoves ==
  ASSUME ProbeSuccesses \in Nat \ {0}, CallTypes, CallInv,
         \/ \E k \in Canary!Callers : Canary!InterruptCanary(k)
         \/ \E t \in Canary!Canaries : Canary!ServerCompletes(t)
  PROVE  CallTypes' /\ CallInv'
<1>1. ASSUME NEW t \in Canary!Canaries, Canary!ServerCompletes(t) PROVE CallTypes' /\ CallInv'
  <2>1. UNCHANGED <<caller, tried>> /\ canary[t] = "running"
    BY <1>1 DEF Canary!ServerCompletes
  <2>2. PICK status \in {"completed", "failed"} : canary' = [canary EXCEPT ![t] = status]
    BY <1>1 DEF Canary!ServerCompletes
  <2>3. QED
    BY <2>1, <2>2, TurnEnds
<1>2. ASSUME NEW k \in Canary!Callers, Canary!InterruptCanary(k) PROVE CallTypes' /\ CallInv'
  <2> DEFINE t == caller[k].turn
             d == Canary!Outcome(caller[k], FALSE)
  <2>1. tried' = tried /\ caller[k].pc = "interrupt" /\ caller' = [caller EXCEPT ![k] = d]
    BY <1>2, Zenon DEF Canary!InterruptCanary
  <2>2. caller[k] \in CallerType /\ tried[k] \in Seq(Canary!Canaries) /\ Fits(caller[k], tried[k], canary)
    BY CallerOf
  <2>3. d \in CallerType /\ d.turn = 0 /\ Fits(d, tried[k], canary)
    BY <2>1, <2>2, OutcomeFits DEF WithTurn
  <2>4. canary' = canary \/ (canary[t] = "running" /\ canary' = [canary EXCEPT ![t] = "failed"])
    BY <1>2 DEF Canary!InterruptCanary
  <2>5. t \in Canary!Canaries
    BY <2>1, <2>2 DEF CallerType, Fits, WithTurn
  <2>6. /\ canary' \in [Canary!Canaries -> TurnStates]
        /\ \A u \in Canary!Canaries : canary'[u] # canary[u] => canary[u] = "running"
    BY <2>4, <2>5 DEF CallTypes, TurnStates
  <2>7. \A u \in Canary!Canaries : canary[u] = "completed" => canary'[u] = "completed"
    BY <2>6
  <2> HIDE DEF d, t
  <2>8. d.pc # "ask"
    BY <2>3 DEF Fits, WithTurn
  <2>9. Fits(d, tried[k], canary')
    BY <2>2, <2>3, <2>7, <2>8, FitsStill
  <2>10. d.turn \in {0, caller[k].turn}
    BY <2>3
  <2>11. \A u \in Canary!Canaries : canary'[u] # canary[u] => u = caller[k].turn \/ canary[u] = "running"
    BY <2>6
  <2>12. QED
    BY <2>1, <2>3, <2>6, <2>7, <2>9, <2>10, <2>11, CallStep
<1>3. QED
  BY <1>1, <1>2

-----------------------------------------------------------------------------
(* The probe: its tables, and the theorems *)

\* The tables of the probe and its client name canaries.
Tables ==
    /\ known \subseteq Canary!Canaries /\ completions \subseteq Canary!Canaries
    /\ waiters \subseteq Canary!Canaries /\ handed \subseteq Canary!Canaries
    /\ answered \subseteq Canary!Canaries
    /\ inbox \in Seq([kind : {"answer", "completed"}, turn : Canary!Canaries])

\* The type invariant by parts.
LEMMA TypesOfCanary ==
  Canary!TypeOK <=> GateTypes /\ CallTypes /\ Tables
<1>1. CallerType = [pc : {"idle", "thread", "ask", "asked", "wait", "waiting", "interrupt", "resumed", "gone"},
                    cancelled : BOOLEAN, turn : {0} \cup Canary!Canaries, successes : 0..ProbeSuccesses]
  <2>1. {"idle", "resumed", "gone", "thread"} \cup WithTurn =
          {"idle", "thread", "ask", "asked", "wait", "waiting", "interrupt", "resumed", "gone"}
    BY DEF WithTurn
  <2>2. QED
    BY <2>1, Zenon DEF CallerType
<1>2. 0..Canary!Failures - 1 = 0..2 /\ Canary!Failures = 3
  BY DEF Canary!Failures
<1>3. QED
  BY <1>1, <1>2, Zenon DEF Canary!TypeOK, GateTypes, CallTypes, Tables, Entry, TurnStates

\* A caller's turn is a canary when it has one.
LEMMA TurnOf ==
  ASSUME CallTypes, CallInv, NEW k \in Canary!Callers, caller[k].pc \in WithTurn
  PROVE  caller[k].turn \in Canary!Canaries
<1>1. caller[k] \in CallerType /\ Fits(caller[k], tried[k], canary)
  BY CallerOf
<1>2. QED
  BY <1>1 DEF Fits, CallerType

\* The tables get turns that are canaries.
LEMMA TablesStep ==
  ASSUME Canary!ProbeAssumption, CallTypes, CallInv, Tables, [Canary!Next]_Canary!vars
  PROVE  Tables'
<1> DEFINE Messages == [kind : {"answer", "completed"}, turn : Canary!Canaries]
<1>1. ASSUME NEW k \in Canary!Callers,
             Canary!Cancel(k) \/ Canary!Check(k) \/ Canary!StartFails(k) \/ Canary!TurnAnswered(k)
      PROVE  Tables'
  BY <1>1 DEF Canary!Cancel, Canary!Check, Canary!StartFails, Canary!TurnAnswered, Canary!tableVars,
     Canary!serverVars, Tables
<1>2. ASSUME NEW k \in Canary!Callers, Canary!ThreadStarts(k)
      PROVE  Tables'
  <2>1. /\ UNCHANGED <<completions, waiters, handed, answered, inbox>>
        /\ known' = known \cup {Canary!Fresh(Canary!Started)}
    BY <1>2 DEF Canary!ThreadStarts, Canary!serverVars
  <2>2. Canary!Fresh(Canary!Started) \in Canary!Canaries
    BY <1>2, FreshTurn
  <2>3. QED
    BY <2>1, <2>2 DEF Tables
<1>3. ASSUME NEW k \in Canary!Callers, Canary!AskTurn(k) \/ Canary!InterruptCanary(k)
      PROVE  Tables'
  <2>1. caller[k].turn \in Canary!Canaries
    BY <1>3, TurnOf DEF Canary!AskTurn, Canary!InterruptCanary, WithTurn
  <2>2. UNCHANGED <<known, completions, waiters, handed, answered>>
    BY <1>3 DEF Canary!AskTurn, Canary!InterruptCanary, Canary!tableVars
  <2>3. PICK m \in Messages : inbox' = inbox \/ inbox' = Append(inbox, m)
    <3>1. \/ inbox' = inbox
          \/ inbox' = Append(inbox, [kind |-> "answer", turn |-> caller[k].turn])
          \/ inbox' = Append(inbox, [kind |-> "completed", turn |-> caller[k].turn])
      BY <1>3, Zenon DEF Canary!AskTurn, Canary!InterruptCanary
    <3>2. QED
      BY <2>1, <3>1
  <2>4. inbox' \in Seq(Messages)
    <3>1. inbox \in Seq(Messages)
      BY DEF Tables
    <3> HIDE DEF Messages
    <3>2. QED
      BY <2>3, <3>1
  <2>5. QED
    BY <2>2, <2>4 DEF Tables
<1>4. ASSUME NEW t \in Canary!Canaries, Canary!ServerCompletes(t)
      PROVE  Tables'
  BY <1>4 DEF Canary!ServerCompletes, Canary!tableVars, Tables
<1>5. ASSUME NEW k \in Canary!Callers,
             Canary!WaitForCompletion(k) \/ Canary!CompletionReceived(k) \/ Canary!WaitTimesOut(k)
      PROVE  Tables'
  <2>1. caller[k].turn \in Canary!Canaries
    BY <1>5, TurnOf DEF Canary!WaitForCompletion, Canary!CompletionReceived, Canary!WaitTimesOut,
       WithTurn
  <2>2. UNCHANGED <<known, answered, inbox>>
    BY <1>5 DEF Canary!WaitForCompletion, Canary!CompletionReceived, Canary!WaitTimesOut,
       Canary!serverVars
  <2>3. /\ completions' \subseteq completions /\ handed' \subseteq handed
        /\ waiters' \subseteq waiters \cup {caller[k].turn}
    BY <1>5 DEF Canary!WaitForCompletion, Canary!CompletionReceived, Canary!WaitTimesOut
  <2>4. QED
    BY <2>1, <2>2, <2>3 DEF Tables
<1>6. CASE Canary!ReadAnswer \/ Canary!HandleNotification
  <2>1. inbox \in Seq(Messages) /\ inbox # <<>> /\ inbox' = Tail(inbox)
    BY <1>6 DEF Canary!ReadAnswer, Canary!HandleNotification, Tables
  <2>2. Head(inbox) \in Messages /\ inbox' \in Seq(Messages)
    BY <2>1, HeadTailProperties
  <2>3. Head(inbox).turn \in Canary!Canaries
    BY <2>2
  <2> DEFINE t == Head(inbox).turn
  <2>4. /\ known' \subseteq known /\ waiters' \subseteq waiters
        /\ handed' \subseteq handed \cup {t} /\ completions' \subseteq completions \cup {t}
        /\ answered' \subseteq answered \cup {t}
    BY <1>6 DEF Canary!ReadAnswer, Canary!HandleNotification, Canary!tableVars
  <2>5. QED
    BY <2>2, <2>3, <2>4 DEF Tables
<1>7. CASE UNCHANGED Canary!vars
  BY <1>7 DEF Canary!vars, Canary!gateVars, Canary!tableVars, Canary!serverVars, Tables
<1>8. QED
  BY <1>1, <1>2, <1>3, <1>4, <1>5, <1>6, <1>7 DEF Canary!Next, Canary!CheckStep

\* No step but a check touches the gate.
LEMMA GateKept ==
  ASSUME Canary!ProbeAssumption, GateTypes, Counted(log, gate), [Canary!Next]_Canary!vars
  PROVE  GateTypes' /\ Counted(log', gate')
<1>1. ASSUME NEW k \in Canary!Callers, Canary!Check(k) PROVE GateTypes' /\ Counted(log', gate')
  BY <1>1, GateStep
<1>2. ASSUME UNCHANGED <<gate, log>> PROVE GateTypes' /\ Counted(log', gate')
  BY <1>2 DEF GateTypes
<1>3. ASSUME NEW k \in Canary!Callers, Canary!Cancel(k) \/ Canary!CheckStep(k) PROVE UNCHANGED <<gate, log>>
  BY <1>3 DEF Canary!Cancel, Canary!CheckStep, Canary!ThreadStarts, Canary!StartFails,
     Canary!AskTurn, Canary!TurnAnswered, Canary!WaitForCompletion, Canary!CompletionReceived,
     Canary!WaitTimesOut, Canary!InterruptCanary, Canary!gateVars
<1>4. ASSUME Canary!ReadAnswer \/ Canary!HandleNotification \/ UNCHANGED Canary!vars
      PROVE  UNCHANGED <<gate, log>>
  BY <1>4 DEF Canary!ReadAnswer, Canary!HandleNotification, Canary!vars, Canary!gateVars
<1>5. ASSUME NEW t \in Canary!Canaries, Canary!ServerCompletes(t) PROVE UNCHANGED <<gate, log>>
  BY <1>5 DEF Canary!ServerCompletes, Canary!gateVars
<1>6. QED
  BY <1>1, <1>2, <1>3, <1>4, <1>5 DEF Canary!Next

\* Every step keeps the callers in order.
LEMMA CallersStep ==
  ASSUME Canary!ProbeAssumption, CallTypes, CallInv, [Canary!Next]_Canary!vars
  PROVE  CallTypes' /\ CallInv'
<1> USE DEF Canary!ProbeAssumption
<1>1. ASSUME NEW k \in Canary!Callers, Canary!Cancel(k) \/ Canary!Check(k) PROVE CallTypes' /\ CallInv'
  BY <1>1, CheckMoves
<1>2. ASSUME NEW k \in Canary!Callers, Canary!CheckStep(k) PROVE CallTypes' /\ CallInv'
  BY <1>2, ThreadMoves, AskMoves, WaitMoves, EndMoves DEF Canary!CheckStep
<1>3. CASE Canary!ReadAnswer \/ Canary!HandleNotification \/ UNCHANGED Canary!vars
  <2>1. UNCHANGED <<caller, tried, canary>>
    BY <1>3 DEF Canary!ReadAnswer, Canary!HandleNotification, Canary!vars, Canary!serverVars
  <2>2. QED
    BY <2>1 DEF CallTypes, CallInv, Canary!Started
<1>4. ASSUME NEW t \in Canary!Canaries, Canary!ServerCompletes(t) PROVE CallTypes' /\ CallInv'
  BY <1>4, EndMoves
<1>5. QED
  BY <1>1, <1>2, <1>3, <1>4 DEF Canary!Next

\* The invariant of the probe holds at first.
LEMMA CanaryInit ==
  ASSUME Canary!ProbeAssumption, Canary!Init
  PROVE  CanaryInv
<1>1. GateTypes
  BY EmptySeq DEF Canary!Init, GateTypes
<1>2. Counted(log, gate)
  BY EmptySeq DEF Canary!Init, Counted
<1>3. CallTypes
  <2> DEFINE c == [pc |-> "idle", cancelled |-> FALSE, turn |-> 0, successes |-> 0]
  <2>1. c \in CallerType
    BY DEF CallerType, Canary!ProbeAssumption
  <2> HIDE DEF c
  <2>2. caller = [k \in Canary!Callers |-> c]
    BY Zenon DEF Canary!Init, c
  <2>3. /\ tried \in [Canary!Callers -> Seq(Canary!Canaries)]
        /\ canary \in [Canary!Canaries -> TurnStates]
    BY EmptySeq DEF Canary!Init, TurnStates
  <2>4. QED
    BY <2>1, <2>2, <2>3 DEF CallTypes
<1>4. Tables
  BY EmptySeq DEF Canary!Init, Tables
<1>5. CallInv
  <2>1. ASSUME NEW k \in Canary!Callers
        PROVE  /\ caller[k].pc = "idle" /\ caller[k].turn = 0 /\ caller[k].successes = 0
               /\ Len(tried[k]) = 0
    BY <2>1, EmptySeq DEF Canary!Init
  <2>2. ASSUME NEW k \in Canary!Callers PROVE Fits(caller[k], tried[k], canary)
    BY <2>1, <2>2 DEF Fits, WithTurn, Canary!ProbeAssumption
  <2>3. \A t \in Canary!Canaries : canary[t] = "none"
    BY DEF Canary!Init
  <2>4. QED
    BY <2>1, <2>2, <2>3 DEF CallInv
<1>6. QED
  BY <1>1, <1>2, <1>3, <1>4, <1>5, TypesOfCanary DEF CanaryInv

\* The invariant of the probe is inductive.
LEMMA CanaryStep ==
  ASSUME Canary!ProbeAssumption, CanaryInv, [Canary!Next]_Canary!vars
  PROVE  CanaryInv'
<1>1. GateTypes /\ CallTypes /\ Tables /\ Counted(log, gate) /\ CallInv
  BY TypesOfCanary DEF CanaryInv
<1>2. GateTypes' /\ Counted(log', gate')
  BY <1>1, GateKept
<1>3. CallTypes' /\ CallInv'
  BY <1>1, CallersStep
<1>4. Tables'
  BY <1>1, TablesStep
<1>5. Canary!TypeOK' <=> GateTypes' /\ CallTypes' /\ Tables'
  BY TypesOfCanary, PTL
<1>6. QED
  BY <1>2, <1>3, <1>4, <1>5 DEF CanaryInv

\* All variables of the probe keep their types.
THEOREM CanaryTypes == ASSUME Canary!ProbeAssumption PROVE Canary!Spec => []Canary!TypeOK
<1>1. CanaryInv => Canary!TypeOK
  BY DEF CanaryInv
<1>2. QED
  BY <1>1, CanaryInit, CanaryStep, PTL DEF Canary!Spec

\* A recovery resumes only after as many canaries of its own in a row succeeded as it asks for,
\* whatever other recoveries, late completions and canaries that were given up do meanwhile.
THEOREM ResumedWithReason == ASSUME Canary!ProbeAssumption PROVE Canary!Spec => []ResumesAfterCanaries
<1>1. CanaryInv => ResumesAfterCanaries
  <2> SUFFICES ASSUME CanaryInv, NEW k \in Canary!Callers, caller[k].pc = "resumed"
               PROVE  /\ Len(tried[k]) >= ProbeSuccesses
                      /\ \A i \in (Len(tried[k]) - ProbeSuccesses + 1)..Len(tried[k]) :
                            canary[tried[k][i]] = "completed"
    BY DEF ResumesAfterCanaries, Canary!ResumesAfterCanaries
  <2>1. tried[k] \in Seq(Canary!Canaries) /\ Fits(caller[k], tried[k], canary)
    BY TypesOfCanary, CallerOf DEF CanaryInv
  <2>2. caller[k].turn = 0 /\ caller[k].successes = ProbeSuccesses
    BY <2>1 DEF Fits, WithTurn
  <2>3. QED
    BY <2>1, <2>2 DEF Fits, Canary!ProbeAssumption
<1>2. QED
  BY <1>1, CanaryInit, CanaryStep, PTL DEF Canary!Spec

\* Against the status of the sources a canary runs exactly at the third failing status in a row
\* for one target since the last canary.
THEOREM FallbackIsThird == ASSUME Canary!ProbeAssumption PROVE Canary!Spec => []FallbackAtThird
<1>1. CanaryInv => FallbackAtThird
  <2>1. ASSUME CanaryInv PROVE log \in Seq(Entry) /\ Len(log) <= 3 /\ gate.failures \in 0..2 /\ Counted(log, gate)
    BY <2>1, TypesOfCanary DEF CanaryInv, GateTypes
  <2>2. QED
    BY <2>1, FallbackFollows
<1>2. QED
  BY <1>1, CanaryInit, CanaryStep, PTL DEF Canary!Spec

=============================================================================
