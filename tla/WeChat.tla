------------------------------- MODULE WeChat -------------------------------
(***************************************************************************)
(* The WeChat controller of a supervisor (wechat.go) with the credentials  *)
(* it shares between its poller and its sender and saves in a file, and    *)
(* the login and logout commands, which change that file from another      *)
(* process.  The iLink service (external) answers with the messages after  *)
(* the cursor it is asked with, or that the token has expired.             *)
(***************************************************************************)
EXTENDS Naturals, FiniteSets

CONSTANTS
    MaxTokens,      \* bound: logins
    MaxMessages,    \* bound: messages to one token
    OutLimit        \* capacity of the controller's queue of replies

WeChatAssumption == MaxTokens \in Nat /\ MaxMessages \in Nat /\ OutLimit \in Nat

VARIABLES
    file,           \* the credentials file
    mem,            \* wechatClient.credentials
    issued,         \* the last token that the service issued
    valid,          \* tokens the service accepts
    arrived,        \* messages the service has for each token
    live,           \* does a supervisor run?
    cancelled,      \* the controller's context
    poller, sender, \* the goroutines of the controller
    moves,          \* did the poller's batch come with another get_updates_buf?
    out,            \* replies queued
    cli,            \* the login or logout command
    executed,       \* history: how often each message was executed, of answers that move the cursor
    removed         \* history: expired tokens that the client removed

vars == <<file, mem, issued, valid, arrived, live, cancelled, poller, sender, moves, out,
          cli, executed, removed>>

Tokens == 1..MaxTokens
Numbers == 1..MaxMessages
NoCredentials == [token |-> 0, cursor |-> 0]
Credentials == [token : Tokens \cup {0}, cursor : 0..MaxMessages]
Resting == [pc |-> "none", asked |-> NoCredentials, batch |-> {}]

TypeOK ==
    /\ file \in Credentials /\ mem \in Credentials
    /\ issued \in Tokens \cup {0} /\ valid \subseteq Tokens
    /\ arrived \in [Tokens -> 0..MaxMessages]
    /\ live \in BOOLEAN /\ cancelled \in BOOLEAN
    /\ poller \in [pc : {"none", "poll", "asked", "answered", "unlink", "handle", "typing", "execute",
                         "expired", "wait", "ended"},
                   asked : Credentials, batch : SUBSET Numbers]
    /\ sender \in [pc : {"none", "loop", "send", "unlink", "ended"}, asked : Credentials]
    /\ moves \in BOOLEAN /\ out \in 0..OutLimit
    /\ cli \in {"idle", "login", "logout"}
    /\ executed \in [Tokens \X Numbers -> 0..2] /\ removed \subseteq Tokens

Init ==
    /\ file = NoCredentials /\ mem = NoCredentials
    /\ issued = 0 /\ valid = {} /\ arrived = [t \in Tokens |-> 0]
    /\ live = FALSE /\ cancelled = FALSE
    /\ poller = Resting /\ sender = [pc |-> "none", asked |-> NoCredentials] /\ moves = FALSE
    /\ out = 0 /\ cli = "idle"
    /\ executed = [m \in Tokens \X Numbers |-> 0] /\ removed = {}

service == <<issued, valid, arrived>>
polling == <<poller, moves>>
process == <<live, cancelled>>
history == <<executed, removed>>

-----------------------------------------------------------------------------
(* The service *)

MessageArrives ==
    /\ \E t \in valid : /\ arrived[t] < MaxMessages
                        /\ arrived' = [arrived EXCEPT ![t] = @ + 1]
    /\ UNCHANGED <<file, mem, issued, valid, process, polling, sender, out, cli, history>>

TokenExpires ==
    /\ \E t \in valid : valid' = valid \ {t}
    /\ UNCHANGED <<file, mem, issued, arrived, process, polling, sender, out, cli, history>>

-----------------------------------------------------------------------------
(* The commands login and logout, which ask for a live supervisor first *)

Login ==
    /\ cli = "idle" /\ ~live /\ file = NoCredentials /\ cli' = "login"
    /\ UNCHANGED <<file, mem, service, process, polling, sender, out, history>>

LoginConfirmed ==
    /\ cli = "login" /\ cli' = "idle" /\ issued < MaxTokens
    /\ issued' = issued + 1 /\ valid' = valid \cup {issued + 1}
    /\ file' \in {[token |-> issued + 1, cursor |-> 0], file}
    /\ UNCHANGED <<mem, arrived, process, polling, sender, out, history>>

LoginGivesUp ==
    /\ cli = "login" /\ cli' = "idle"
    /\ UNCHANGED <<file, mem, service, process, polling, sender, out, history>>

Logout ==
    /\ cli = "idle" /\ ~live /\ file # NoCredentials /\ cli' = "logout"
    /\ UNCHANGED <<file, mem, service, process, polling, sender, out, history>>

LogoutRemoves ==
    /\ cli = "logout" /\ cli' = "idle" /\ file' = NoCredentials
    /\ UNCHANGED <<mem, service, process, polling, sender, out, history>>

-----------------------------------------------------------------------------
(* The supervisor and its controller *)

\* Without credentials no controller is started.
Start ==
    /\ ~live /\ live' = TRUE /\ cancelled' = FALSE
    /\ mem' = file /\ moves' = FALSE /\ out' = 0
    /\ IF file = NoCredentials
       THEN UNCHANGED <<poller, sender>>
       ELSE poller' = [Resting EXCEPT !.pc = "poll"] /\ sender' = [sender EXCEPT !.pc = "loop"]
    /\ UNCHANGED <<file, service, cli, history>>

Stop ==
    /\ live /\ ~cancelled /\ cancelled' = TRUE
    /\ UNCHANGED <<file, mem, service, live, polling, sender, out, cli, history>>

\* The process ends: a crash, or an exit after Stop, which waits three seconds.
Exit ==
    /\ live /\ live' = FALSE
    /\ mem' = NoCredentials /\ moves' = FALSE /\ out' = 0
    /\ poller' = Resting /\ sender' = [pc |-> "none", asked |-> NoCredentials]
    /\ UNCHANGED <<file, service, cancelled, cli, history>>

\* saveWeChatCredentials, under the client's mutex; it refuses credentials
\* without a token, and it may fail.
Saves(credentials, saved) ==
    file' = IF saved /\ credentials.token # 0 THEN credentials ELSE file

-----------------------------------------------------------------------------
(* The poller: run, GetUpdates and handleMessage *)

\* Without messages left, how they came does not matter.
Polls(r) == poller' = r /\ moves' = (moves /\ r.batch # {})

Poll ==
    /\ poller.pc = "poll"
    /\ Polls(IF cancelled THEN [Resting EXCEPT !.pc = "wait"]
             ELSE [poller EXCEPT !.pc = "asked", !.asked = mem])
    /\ UNCHANGED <<file, mem, service, process, sender, out, cli, history>>

ServiceAnswers ==
    /\ poller.pc = "asked" /\ poller.asked.token \in valid
    /\ poller' = [poller EXCEPT !.pc = "answered",
            !.batch = {n \in Numbers : poller.asked.cursor < n /\ n <= arrived[poller.asked.token]}]
    /\ moves' \in BOOLEAN
    /\ UNCHANGED <<file, mem, service, process, sender, out, cli, history>>

Moved(credentials) == [credentials EXCEPT !.cursor = poller.asked.cursor + Cardinality(poller.batch)]
ToPoll == [Resting EXCEPT !.pc = "poll"]
ToHandle == IF poller.batch = {} THEN ToPoll ELSE [poller EXCEPT !.pc = "handle"]

\* Mutant: the messages are handled though the cursor could not be saved.
UpdatesUnsaved ==
    /\ poller.pc = "answered" /\ moves
    /\ mem' = Moved(mem)
    /\ \E saved \in BOOLEAN : Saves(mem', saved)
    /\ Polls(ToHandle)
    /\ UNCHANGED <<service, process, sender, out, cli, history>>

\* Mutant: what was read before the request is saved with the new cursor.
UpdatesSaveCopy ==
    /\ poller.pc = "answered" /\ moves
    /\ mem' = Moved(mem)
    /\ \E saved \in BOOLEAN :
        /\ Saves(Moved(poller.asked), saved)
        /\ Polls(IF saved /\ ~cancelled THEN ToHandle ELSE ToPoll)
    /\ UNCHANGED <<service, process, sender, out, cli, history>>

\* GetUpdates returns with another cursor: that of the credentials of now moves
\* and is saved. When that fails, or the context was cancelled, the messages are
\* dropped.
Updates ==
    /\ poller.pc = "answered" /\ moves
    /\ mem' = Moved(mem)
    /\ \E saved \in BOOLEAN :
        /\ Saves(mem', saved)
        /\ Polls(IF saved /\ mem.token # 0 /\ ~cancelled THEN ToHandle ELSE ToPoll)
    /\ UNCHANGED <<service, process, sender, out, cli, history>>

\* It returns with the cursor it asked with, or with none: the messages are
\* handled and nothing is saved.
UpdatesUnmoved ==
    /\ poller.pc = "answered" /\ ~moves
    /\ Polls(IF cancelled THEN ToPoll ELSE ToHandle)
    /\ UNCHANGED <<file, mem, service, process, sender, out, cli, history>>

UpdatesFail ==
    /\ poller.pc = "asked"
    /\ Polls(ToPoll)
    /\ UNCHANGED <<file, mem, service, process, sender, out, cli, history>>

\* clearCredentials: first those in memory, then, outside the mutex, the file.
Clears == mem' = NoCredentials
UpdatesExpired ==
    /\ poller.pc = "asked" /\ poller.asked.token \notin valid
    /\ Clears
    /\ Polls([poller EXCEPT !.pc = "unlink", !.batch = {}])
    /\ UNCHANGED <<file, service, process, sender, out, cli, history>>

PollerUnlinks ==
    /\ poller.pc = "unlink"
    /\ file' = NoCredentials /\ removed' = removed \cup ({poller.asked.token} \ {0})
    /\ Polls([poller EXCEPT !.pc = "expired"])
    /\ UNCHANGED <<mem, service, process, sender, out, cli, executed>>

\* Mutant: run breaks its loop and leaves the sender alone.
ExpiredBreaksOnly ==
    /\ poller.pc = "expired"
    /\ Polls(IF poller.batch = {} THEN [Resting EXCEPT !.pc = "wait"]
             ELSE [poller EXCEPT !.pc = "handle"])
    /\ UNCHANGED <<file, mem, service, process, sender, out, cli, history>>

\* cancelRun; run breaks its loop, handleMessage returns.
ExpiredCancels ==
    /\ poller.pc = "expired"
    /\ cancelled' = TRUE
    /\ Polls(IF poller.batch = {} THEN [Resting EXCEPT !.pc = "wait"]
             ELSE [poller EXCEPT !.pc = "handle"])
    /\ UNCHANGED <<file, mem, service, live, sender, out, cli, history>>

First(batch) == CHOOSE n \in batch : \A k \in batch : n <= k
Rest(r) == [r EXCEPT !.batch = @ \ {First(@)}]
Continues(r) == [Rest(r) EXCEPT !.pc = IF Rest(r).batch = {} THEN "poll" ELSE "handle"]

\* A message of nobody known, without a command, or whose context token cannot
\* be saved is dropped; /uid is answered.
HandleIgnored ==
    /\ poller.pc = "handle"
    /\ out' \in {out, IF out < OutLimit THEN out + 1 ELSE out}
    /\ Polls(Continues(poller))
    /\ UNCHANGED <<file, mem, service, process, sender, cli, history>>

\* RecordContext saves the credentials, unless the context token is the last one.
HandleCommand ==
    /\ poller.pc = "handle"
    /\ \/ Saves(mem, TRUE) /\ mem.token # 0
       \/ UNCHANGED file
    /\ Polls([poller EXCEPT !.pc = "typing"])
    /\ UNCHANGED <<mem, service, process, sender, out, cli, history>>

\* SendTyping, with the token of the poll or with none: an expired token ends the
\* run, any other error is ignored.
Typing ==
    /\ poller.pc = "typing"
    /\ \/ Polls([poller EXCEPT !.pc = "execute"]) /\ UNCHANGED mem
       \/ /\ poller.asked.token \notin valid
          /\ Clears
          /\ Polls([Rest(poller) EXCEPT !.pc = "unlink"])
    /\ UNCHANGED <<file, service, process, sender, out, cli, history>>

\* The command runs, its reply is queued or dropped.
Execute ==
    /\ poller.pc = "execute"
    /\ executed' = IF moves
                   THEN [executed EXCEPT ![<<poller.asked.token, First(poller.batch)>>] =
                            IF @ < 2 THEN @ + 1 ELSE @]
                   ELSE executed
    /\ out' = IF out < OutLimit THEN out + 1 ELSE out
    /\ Polls(Continues(poller))
    /\ UNCHANGED <<file, mem, service, process, sender, cli, removed>>

PollerEnds ==
    /\ poller.pc = "wait" /\ sender.pc = "ended"
    /\ Polls([Resting EXCEPT !.pc = "ended"])
    /\ UNCHANGED <<file, mem, service, process, sender, out, cli, history>>

-----------------------------------------------------------------------------
(* The sender: senderLoop and SendText *)

SenderTakes ==
    /\ sender.pc = "loop" /\ out > 0
    /\ out' = out - 1
    /\ sender' = [pc |-> "send", asked |-> mem]
    /\ UNCHANGED <<file, mem, service, process, polling, cli, history>>

SenderSends ==
    /\ sender.pc = "send"
    /\ sender' = [sender EXCEPT !.pc = "loop"]
    /\ UNCHANGED <<file, mem, service, process, polling, out, cli, history>>

SendExpired ==
    /\ sender.pc = "send" /\ sender.asked.token \notin valid
    /\ Clears
    /\ sender' = [sender EXCEPT !.pc = "unlink"]
    /\ UNCHANGED <<file, service, process, polling, out, cli, history>>

SenderUnlinks ==
    /\ sender.pc = "unlink"
    /\ file' = NoCredentials /\ removed' = removed \cup ({sender.asked.token} \ {0})
    /\ IF cancelled THEN sender' = [sender EXCEPT !.pc = "loop"] /\ UNCHANGED cancelled
       ELSE sender' = [sender EXCEPT !.pc = "ended"] /\ cancelled' = TRUE
    /\ UNCHANGED <<mem, service, live, polling, out, cli, executed>>

SenderEnds ==
    /\ sender.pc = "loop" /\ cancelled
    /\ sender' = [sender EXCEPT !.pc = "ended"]
    /\ UNCHANGED <<file, mem, service, process, polling, out, cli, history>>

-----------------------------------------------------------------------------
PollerRuns ==
    \/ Poll \/ ServiceAnswers \/ Updates \/ UpdatesUnmoved \/ UpdatesFail \/ UpdatesExpired
    \/ PollerUnlinks \/ ExpiredCancels \/ HandleIgnored \/ HandleCommand \/ Typing \/ Execute \/ PollerEnds
SenderRuns == SenderTakes \/ SenderSends \/ SendExpired \/ SenderUnlinks \/ SenderEnds

Next ==
    \/ MessageArrives \/ TokenExpires
    \/ Login \/ LoginConfirmed \/ LoginGivesUp \/ Logout \/ LogoutRemoves
    \/ Start \/ Stop \/ Exit
    \/ PollerRuns \/ SenderRuns

Spec == Init /\ [][Next]_vars

\* Both goroutines run on; a cancelled context is noticed, whatever is queued.
Fairness == WF_vars(PollerRuns) /\ WF_vars(SenderRuns) /\ SF_vars(SenderEnds)
FairSpec == Spec /\ Fairness

-----------------------------------------------------------------------------
\* Out of the answers that move the cursor a message is executed at most once,
\* across restarts and failed saves: that cursor is on disk before the message is
\* executed (wechat.go:300). What an answer without a new cursor brings is
\* executed each time it is brought (wechat.go:297).
AtMostOnce == \A m \in DOMAIN executed : executed[m] <= 1

\* Credentials that the service called expired, once removed, are not written
\* again by a cursor or a context token that was on its way (wechat.go:390).
ExpiredStayGone == file.token \notin removed

\* Once the token has expired the controller ends, the goroutine that did not
\* notice it too (wechat.go:626).
Expiring == poller.pc \notin {"none", "ended"} /\ mem.token = 0
ControllerEnds == Expiring ~> ~Expiring
=============================================================================
