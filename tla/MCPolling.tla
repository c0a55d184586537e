----------------------------- MODULE MCPolling -----------------------------
(***************************************************************************)
(* The controllers that poll a chat service for TLC, side by side: each    *)
(* behaviour moves one of them only.                                       *)
(***************************************************************************)
EXTENDS TelegramPoller

CONSTANTS MaxTokens, MaxMessages, OutLimit

VARIABLES part, credentials, mem, issued, valid, messages, live, cancelled, poller, sender, moves,
          out, cli, executed, removed

WeChat == INSTANCE WeChat WITH file <- credentials, arrived <- messages

ASSUME MCAssumption == WeChat!WeChatAssumption

wechatVars == <<credentials, mem, issued, valid, messages, live, cancelled, poller, sender, moves,
                out, cli, executed, removed>>

MCInit == part \in {"telegram", "wechat"} /\ Init /\ WeChat!Init

MCNext ==
    \/ part = "telegram" /\ Next /\ UNCHANGED <<part, wechatVars>>
    \/ part = "wechat" /\ WeChat!Next /\ UNCHANGED <<part, vars>>

MCSpec == MCInit /\ [][MCNext]_<<part, vars, wechatVars>> /\ Fairness /\ WeChat!Fairness

\* Bounds: two processes at a time, and a third one after the first update only;
\* answers that leave the cursor where it is before the second login only.
MCBounds ==
    /\ Cardinality({p \in Processes : Exists(p) /\ proc[p].pc # "ended"}) <= 2
    /\ arrived > 1 => proc[MaxProcesses].pc = "new"
    /\ poller.pc = "answered" /\ issued = MaxTokens => moves

-----------------------------------------------------------------------------
\* A WeChat message is executed at most once by answers that move the cursor (WeChat).
AtMostOnce == WeChat!AtMostOnce

\* Expired WeChat credentials stay removed (WeChat).
ExpiredStayGone == WeChat!ExpiredStayGone

\* The WeChat controller ends once its token has expired (WeChat).
ControllerEnds == WeChat!ControllerEnds
=============================================================================
