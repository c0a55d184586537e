---------------------------- MODULE MCSupervisor ----------------------------
(***************************************************************************)
(* The supervisor for TLC: the sets of inputs the configurations choose.   *)
(* Every set leaves in the turns and their completions; "failure" lets a   *)
(* turn fail without an error notification before.                         *)
(***************************************************************************)
EXTENDS Supervisor

\* The commands of the chat controllers and the control server.
MCCommands == {"failure", "pause", "resume", "prompt", "savedGoal", "activeGoal"}

\* Bound: a prompt comes before the second turn; later it could start no turn.
MCPromptEarly ==
    (rc.pc = "idle" /\ rc'.pc \in {"steering", "prompt"}) => srv.next <= 1

\* Pauses and resumes between failures of both kinds.
MCPausedFailures == {"failure", "cyber", "pause", "resume"}

\* Silent turns: the watchdog, the user's Esc, approvals, requests that fail,
\* turns whose terminal event is lost, and the shutdown.
MCStalls ==
    {"failure", "stall", "esc", "silentEnd", "requestError", "waiting", "stop"}

\* Bound: the shutdown comes while no provider recovery is there.
\* (The shutdown during a recovery is in the run "errors".)
MCStopWithoutRecovery == s'.shuttingDown => \A t \in Turn : rec'[t].pc = "off"

\* Error notifications, activity, approvals, lost ends and the shutdown.
MCErrors ==
    {"failure", "retryError", "finalError", "activity", "waiting",
     "silentEnd", "requestError", "esc", "pause", "stop"}

\* Terminal errors next to stalls of the same and of later turns, and next to a
\* /prompt whose answer is recorded late.
MCErrorsAndStalls == {"failure", "finalError", "stall", "prompt"}

\* Bound: at most one command, which starts the first turn and records it while
\* an error of the second is pending; no stall and no recovery in between.
\* (The prompt that is recorded early is in the run "commands".)
MCPromptLate ==
    /\ (rc.pc = "idle" /\ rc'.pc # "idle") => srv.next = 0
    /\ (rc.pc # "idle" /\ srv.next = 0 /\ srv'.next # 0) => rc'.started # None
    /\ (rc.pc # "idle" /\ rc'.pc = "idle") => srv.next = 2 /\ HasPending(s)
    /\ rc'.pc # "idle" => ~w'.suspected /\ s'.recovery = None

-----------------------------------------------------------------------------
(* The fewest inputs that show where the code and its documentation part   *)
(* (the last properties of Supervisor, and GraceRespected).                *)

MCCyberGoal == {"failure", "cyber", "activeGoal"}
MCStallPause == {"stall", "pause"}
MCEscStall == {"esc", "stall"}
MCErrorAgain == {"retryError", "finalError", "errorAgain"}

=============================================================================
