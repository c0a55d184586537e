--------------------------- MODULE WatchdogContract ---------------------------
(***************************************************************************)
(* What the rest of the supervisor may rely on of its stall watchdog: the  *)
(* steps of its active turn, without time, blocking items or hooks. A turn *)
(* is suspected before it is confirmed, only what the supervisor or the    *)
(* turn itself does lifts a suspicion, and a recovery stays current until  *)
(* activity, a cancellation or another turn ends it.                       *)
(***************************************************************************)
EXTENDS Integers

CONSTANT MaxTurns     \* bound: how many turns the app-server starts

Turn == 1 .. MaxTurns
None == 0

VARIABLES
    turn,         \* the watched turn or None
    waiting,      \* there is a reason to wait
    suspected,
    recovering,
    current       \* no activity since the decision a recovery runs for

watchVars == <<turn, waiting, suspected, recovering, current>>

Watches(t) ==
    /\ turn' = t /\ waiting' = FALSE /\ suspected' = FALSE
    /\ recovering' = FALSE /\ current' = FALSE

Init ==
    /\ turn = None /\ waiting = FALSE /\ suspected = FALSE
    /\ recovering = FALSE /\ current = FALSE

Start == \E t \in Turn : Watches(t)

Complete == Watches(None)

\* A message of the turn; it may be what Codex waits with or goes on with.
Activity ==
    /\ turn # None
    /\ waiting' \in BOOLEAN /\ suspected' = FALSE /\ current' = FALSE
    /\ UNCHANGED <<turn, recovering>>

WaitForUser ==
    /\ turn # None
    /\ waiting' = TRUE /\ suspected' = FALSE
    /\ recovering' = FALSE /\ current' = FALSE
    /\ UNCHANGED turn

Cancel ==
    /\ suspected' = FALSE /\ recovering' = FALSE /\ current' = FALSE
    /\ UNCHANGED <<turn, waiting>>

MayDecide == turn # None /\ ~waiting /\ ~recovering

Suspect ==
    /\ MayDecide /\ ~suspected
    /\ suspected' = TRUE
    /\ UNCHANGED <<turn, waiting, recovering, current>>

Confirm ==
    /\ MayDecide /\ suspected
    /\ recovering' = TRUE /\ current' = TRUE
    /\ UNCHANGED <<turn, waiting, suspected>>

\* The recovery ends and leaves the turn as it is: nobody decides about it
\* again.
Abandon ==
    /\ recovering /\ current
    /\ current' = FALSE
    /\ UNCHANGED <<turn, waiting, suspected, recovering>>

Next ==
    \/ Start
    \/ Complete
    \/ Activity
    \/ WaitForUser
    \/ Cancel
    \/ Suspect
    \/ Confirm
    \/ Abandon

Spec == Init /\ [][Next]_watchVars

=============================================================================
