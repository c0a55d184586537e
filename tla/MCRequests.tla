----------------------------- MODULE MCRequests -----------------------------
(***************************************************************************)
(* The paths of requests to the app-server for TLC, side by side: injected *)
(* through the TUI's proxy, sent by the JSON-RPC client, and the probe's   *)
(* canaries.  They share no state, so that each behaviour moves one of     *)
(* them only.                                                              *)
(***************************************************************************)
EXTENDS TuiProxy, Functions

CONSTANTS RpcRequests, Sources, Policy, UnknownPolicy, NoModel, AnyProvider, MaxRecoveries,
          Targets, ProbeSuccesses, MaxCanaries

VARIABLES part,
    conn, closed, rpcPending, rpcChan, rpcReq, loop, closer, rpcWire, rpcServer,
    gate, log, caller, tried, known, completions, waiters, handed, answered, inbox, canary

Rpc == INSTANCE JsonRpc WITH
    Requests <- RpcRequests, pending <- rpcPending, chan <- rpcChan,
    req <- rpcReq, wire <- rpcWire, server <- rpcServer

Canary == INSTANCE Probe WITH server <- canary

ASSUME MCAssumption == ProxyAssumption /\ Canary!ProbeAssumption

rpcVars == <<conn, closed, rpcPending, rpcChan, rpcReq, loop, closer, rpcWire, rpcServer>>
canaryVars == <<gate, log, caller, tried, known, completions, waiters, handed, answered,
                inbox, canary>>

MCInit == part \in {"proxy", "rpc", "canary"} /\ Init /\ Rpc!Init /\ Canary!Init

MCNext ==
    \/ part = "proxy" /\ Next /\ UNCHANGED <<part, rpcVars, canaryVars>>
    \/ part = "rpc" /\ Rpc!Next /\ UNCHANGED <<part, vars, canaryVars>>
    \/ part = "canary" /\ Canary!Next /\ UNCHANGED <<part, vars, rpcVars>>

MCSpec ==
    /\ MCInit /\ [][MCNext]_<<part, vars, rpcVars, canaryVars>>
    /\ Fairness /\ Rpc!Fairness /\ Canary!Fairness

\* A legacy URL for every provider and a dashboard for one of two.
MCSources == {[kind |-> "http", legacy |-> TRUE, provider |-> AnyProvider],
              [kind |-> "typed", legacy |-> FALSE, provider |-> "p"]}
MCTargets == {[model |-> "m", provider |-> "p"], [model |-> NoModel, provider |-> "q"]}

\* Bound: three canaries of one recovery, or two when it is cancelled.
MCCanaries ==
    Cardinality(Canary!Started) + Cardinality({k \in Canary!Callers : caller[k].cancelled})
        <= MaxCanaries

\* Bound: MaxEvents notifications of all connections, or one next to an injected
\* request or to a message of a client.
MCNotifications ==
    LET spoken == {c \in Conns : said'[c].pc # "no"}
        requested == {r \in Requests : req'[r].pc # "idle"}
        sent == FoldFunction(+, 0, seen'.sent)
    IN  /\ sent <= MaxEvents
        /\ sent > 1 => requested = {} /\ spoken = {}
        /\ requested = {} \/ spoken = {}

-----------------------------------------------------------------------------
\* The direct client implements the contract of a request, too (JsonRpc).
ClientKeepsContract == Rpc!ClientKeepsContract

\* Neither the client's read loop nor its Close blocks (JsonRpc).
SendersHaveRoom == Rpc!SendersHaveRoom

\* A recovery resumes after successful canaries of its own (Probe).
ResumesAfterCanaries == Canary!ResumesAfterCanaries

\* Against the status a canary runs at the third failing one in a row (Probe).
FallbackAtThird == Canary!FallbackAtThird

\* Whatever waits for an answer that came, for a connection that was lost or for
\* a canary that ended goes on without a deadline (TuiProxy, JsonRpc, Probe).
Waiting == Unended \/ Rpc!Unended \/ Canary!Unanswered
RequestsEnd == Waiting ~> ~Waiting
=============================================================================
