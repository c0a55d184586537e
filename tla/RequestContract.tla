-------------------------- MODULE RequestContract --------------------------
(***************************************************************************)
(* What both request paths promise their callers, Request of the JSON-RPC  *)
(* client and of the TUI proxy: a call is made once, ends at most once,    *)
(* and ends with an answer only when the app-server gave one to it.        *)
(***************************************************************************)
CONSTANT Requests

VARIABLES
    call,       \* what the caller of each request has been told
    served      \* the requests the app-server has answered

vars == <<call, served>>

Init ==
    /\ call = [r \in Requests |-> "idle"]
    /\ served = {}

Issue(r) ==
    /\ call[r] = "idle"
    /\ call' = [call EXCEPT ![r] = "open"]
    /\ UNCHANGED served

\* The app-server may also answer a call that was given up.
Serve(r) ==
    /\ call[r] # "idle"
    /\ r \notin served
    /\ served' = served \cup {r}
    /\ UNCHANGED call

Answer(r) ==
    /\ call[r] = "open"
    /\ r \in served
    /\ call' = [call EXCEPT ![r] = "answered"]
    /\ UNCHANGED served

\* A refusal, an error, a lost connection or a timeout.
Fail(r) ==
    /\ call[r] \in {"idle", "open"}
    /\ call' = [call EXCEPT ![r] = "failed"]
    /\ UNCHANGED served

Next == \E r \in Requests : Issue(r) \/ Serve(r) \/ Answer(r) \/ Fail(r)

Spec == Init /\ [][Next]_vars
=============================================================================
