------------------------------- MODULE Probe -------------------------------
(***************************************************************************)
(* The provider probe (probe.go) between the recoveries that ask it        *)
(* (supervisor.go:2015) and the app-server: the gate of the status sources,*)
(* an ephemeral thread with one turn, and the completion that the read     *)
(* loop of the client hands over.  A canary is numbered; the number stands *)
(* for its thread and its turn.                                            *)
(***************************************************************************)
EXTENDS Health, Sequences, SequencesExt

CONSTANTS
    MaxRecoveries,  \* bound: recoveries, of which each cancels the one before
    Targets,        \* [model, provider] of the supervisor's thread
    ProbeSuccesses,
    MaxCanaries     \* bound: canaries of all callers

ProbeAssumption ==
    HealthAssumption /\ ProbeSuccesses \in Nat \ {0} /\ MaxRecoveries \in Nat /\ MaxCanaries \in Nat

VARIABLES
    gate,           \* healthGateTarget and healthGateFailures
    log,            \* the last decisions against a failing status in a row, up to three
    caller,         \* each recovery's check, and its successes in a row
    tried,          \* the canaries of each caller, in order
    known,          \* providerProbe.healthThreadIDs
    completions,    \* providerProbe.completions
    waiters,        \* providerProbe.waiters
    handed,         \* completions that were sent to their waiter's channel
    answered,       \* answers to turn/start that were delivered
    inbox,          \* messages of the app-server that were not read yet
    server          \* external: the state of each canary's turn

vars == <<gate, log, caller, tried, known, completions, waiters, handed,
          answered, inbox, server>>

gateVars == <<gate, log>>
tableVars == <<known, completions, waiters, handed>>
serverVars == <<answered, inbox, server>>

Callers == 1..MaxRecoveries
Canaries == 1..MaxCanaries
Failures == 3       \* healthGateFailuresBeforeProbe
NoTarget == [model |-> NoModel, provider |-> AnyProvider]
Fresh(S) == CHOOSE t \in Canaries : t \notin S /\ \A u \in 1..(t - 1) : u \in S
Started == {t \in Canaries : \E k \in Callers : Contains(tried[k], t)}

TypeOK ==
    /\ gate \in [target : Targets \cup {NoTarget}, failures : 0..Failures - 1]
    /\ log \in Seq([target : Targets, runs : BOOLEAN]) /\ Len(log) <= Failures
    /\ caller \in [Callers -> [pc : {"idle", "thread", "ask", "asked",
                                      "wait", "waiting", "interrupt", "resumed", "gone"},
                               cancelled : BOOLEAN,
                               turn : {0} \cup Canaries, successes : 0..ProbeSuccesses]]
    /\ tried \in [Callers -> Seq(Canaries)]
    /\ known \subseteq Canaries /\ completions \subseteq Canaries
    /\ waiters \subseteq Canaries /\ handed \subseteq Canaries /\ answered \subseteq Canaries
    /\ inbox \in Seq([kind : {"answer", "completed"}, turn : Canaries])
    /\ server \in [Canaries -> {"none", "running", "completed", "failed"}]

Init ==
    /\ gate = [target |-> NoTarget, failures |-> 0]
    /\ log = <<>>
    /\ caller = [k \in Callers |-> [pc |-> "idle", cancelled |-> FALSE,
                                turn |-> 0, successes |-> 0]]
    /\ tried = [k \in Callers |-> <<>>]
    /\ known = {} /\ completions = {} /\ waiters = {} /\ handed = {} /\ answered = {}
    /\ inbox = <<>>
    /\ server = [t \in Canaries |-> "none"]

-----------------------------------------------------------------------------
(* check: the gate *)

\* A status that speaks against a canary now, and may allow one later.
Failing(state) == state = "unhealthy" \/ (state = "unknown" /\ UnknownPolicy = "canary")

\* Mutant: another target inherits the failures of the last one.
DecisionForAnyTarget(g, state, target) ==
    LET after(n, runs) == [gate |-> [target |-> target, failures |-> n], runs |-> runs]
    IN  IF ~Failing(state) THEN after(0, state = "healthy")
        ELSE IF g.failures + 1 < Failures THEN after(g.failures + 1, FALSE)
        ELSE after(0, TRUE)

Decision(g, state, target) ==
    LET failures == IF g.target = target THEN g.failures ELSE 0
        after(n, runs) == [gate |-> [target |-> target, failures |-> n], runs |-> runs]
    IN  IF ~Failing(state) THEN after(0, state = "healthy")
        ELSE IF failures + 1 < Failures THEN after(failures + 1, FALSE)
        ELSE after(0, TRUE)

Recent(l) == IF Len(l) > 1 /\ l[Len(l) - 1].runs THEN <<Last(l)>>
             ELSE IF Len(l) > Failures THEN Tail(l) ELSE l

\* startRecovery cancels the recovery before; a check under way goes on, and one that
\* asks for the status may still count it.
Cancel(k) ==
    /\ k + 1 \in Callers /\ ~caller[k].cancelled
    /\ \A j \in 1..(k - 1) : caller[j].cancelled
    /\ \E pc \in IF caller[k].pc = "idle" THEN {"idle", "gone"} ELSE {caller[k].pc} :
         caller' = [caller EXCEPT ![k].cancelled = TRUE, ![k].pc = pc]
    /\ UNCHANGED <<gateVars, tried, tableVars, serverVars>>

\* A deferred probe leaves the successes of its recovery alone.
Check(k) ==
    /\ caller[k].pc = "idle"
    /\ \A j \in 1..(k - 1) : caller[j].cancelled
    /\ \E target \in Targets : \E state \in GateStates(target) :
        LET d == Decision(gate, state, target)
        IN  /\ gate' = d.gate
            /\ log' = IF Failing(state) THEN Recent(Append(log, [target |-> target, runs |-> d.runs]))
                      ELSE <<>>
            /\ caller' = [caller EXCEPT ![k].pc = CASE d.runs -> "thread"
                                                      [] ~d.runs /\ caller[k].cancelled -> "gone"
                                                      [] OTHER -> "idle"]
    /\ UNCHANGED <<tried, tableVars, serverVars>>

-----------------------------------------------------------------------------
(* startHealthThread and turn/start *)

ThreadStarts(k) ==
    /\ caller[k].pc = "thread"
    /\ Started # Canaries
    /\ LET t == Fresh(Started)
       IN  /\ caller' = [caller EXCEPT ![k].pc = "ask", ![k].turn = t]
           /\ tried' = [tried EXCEPT ![k] = Append(@, t)]
           /\ known' = known \cup {t}
    /\ UNCHANGED <<gateVars, completions, waiters, handed, serverVars>>

AskTurn(k) ==
    /\ caller[k].pc = "ask"
    /\ LET t == caller[k].turn
       IN  /\ server' = [server EXCEPT ![t] = "running"]
           /\ inbox' = Append(inbox, [kind |-> "answer", turn |-> t])
    /\ caller' = [caller EXCEPT ![k].pc = "asked"]
    /\ UNCHANGED <<gateVars, tried, tableVars, answered>>

TurnAnswered(k) ==
    /\ caller[k].pc = "asked" /\ caller[k].turn \in answered
    /\ caller' = [caller EXCEPT ![k].pc = "wait"]
    /\ UNCHANGED <<gateVars, tried, tableVars, serverVars>>

\* A canary ended: runRecovery counts successes and resumes, or starts over.
Outcome(c, healthy) ==
    LET n == IF healthy THEN c.successes + 1 ELSE 0
    IN  [c EXCEPT !.turn = 0, !.successes = n,
                  !.pc = CASE c.cancelled -> "gone"
                           [] ~c.cancelled /\ n >= ProbeSuccesses -> "resumed"
                           [] OTHER -> "idle"]

\* A request of the canary fails, or its time is up: the turn, if there is one,
\* is not interrupted.
StartFails(k) ==
    /\ caller[k].pc \in {"thread", "ask", "asked"}
    /\ caller' = [caller EXCEPT ![k] = Outcome(@, FALSE)]
    /\ UNCHANGED <<gateVars, tried, tableVars, serverVars>>

-----------------------------------------------------------------------------
(* waitForCompletion *)

\* Mutant: whatever completion is there is taken for this turn's.
WaitTakesAny(k) ==
    /\ caller[k].pc = "wait"
    /\ LET t == caller[k].turn
       IN  IF completions # {}
           THEN \E u \in completions :
                 /\ completions' = completions \ {u}
                 /\ caller' = [caller EXCEPT ![k] = Outcome(@, server[u] = "completed")]
                 /\ UNCHANGED waiters
           ELSE /\ waiters' = waiters \cup {t}
                /\ caller' = [caller EXCEPT ![k].pc = "waiting"]
                /\ UNCHANGED completions
    /\ UNCHANGED <<gateVars, tried, known, handed, serverVars>>

WaitForCompletion(k) ==
    /\ caller[k].pc = "wait"
    /\ LET t == caller[k].turn
       IN  IF t \in completions
           THEN /\ completions' = completions \ {t}
                /\ caller' = [caller EXCEPT ![k] = Outcome(@, server[t] = "completed")]
                /\ UNCHANGED waiters
           ELSE /\ waiters' = waiters \cup {t}
                /\ caller' = [caller EXCEPT ![k].pc = "waiting"]
                /\ UNCHANGED completions
    /\ UNCHANGED <<gateVars, tried, known, handed, serverVars>>

CompletionReceived(k) ==
    /\ caller[k].pc = "waiting" /\ caller[k].turn \in handed
    /\ caller' = [caller EXCEPT ![k] = Outcome(@, server[caller[k].turn] = "completed")]
    /\ handed' = handed \ {caller[k].turn}
    /\ UNCHANGED <<gateVars, tried, known, completions, waiters, serverVars>>

WaitTimesOut(k) ==
    /\ caller[k].pc = "waiting"
    /\ waiters' = waiters \ {caller[k].turn}
    /\ caller' = [caller EXCEPT ![k].pc = "interrupt"]
    /\ UNCHANGED <<gateVars, tried, known, completions, handed, serverVars>>

\* turn/interrupt, with two seconds of its own.
InterruptCanary(k) ==
    /\ caller[k].pc = "interrupt"
    /\ LET t == caller[k].turn
       IN \/ UNCHANGED <<server, inbox>>
          \/ /\ server[t] = "running"
             /\ server' = [server EXCEPT ![t] = "failed"]
             /\ inbox' = Append(inbox, [kind |-> "completed", turn |-> t])
    /\ caller' = [caller EXCEPT ![k] = Outcome(@, FALSE)]
    /\ UNCHANGED <<gateVars, tried, tableVars, answered>>

-----------------------------------------------------------------------------
(* The read loop and the app-server *)

ReadAnswer ==
    /\ inbox # <<>> /\ Head(inbox).kind = "answer"
    /\ inbox' = Tail(inbox)
    /\ answered' = answered \cup {Head(inbox).turn}
    /\ UNCHANGED <<gateVars, caller, tried, tableVars, server>>

\* Mutant: a completion that nobody waits for yet is dropped.
NotificationDropsEarly ==
    /\ inbox # <<>> /\ Head(inbox).kind = "completed"
    /\ inbox' = Tail(inbox)
    /\ LET t == Head(inbox).turn
       IN  /\ known' = known \ {t}
           /\ waiters' = waiters \ {t}
           /\ handed' = IF t \in waiters THEN handed \cup {t} ELSE handed
    /\ UNCHANGED <<gateVars, caller, tried, completions, answered, server>>

\* handleNotification, for the turn of a thread of the probe.
HandleNotification ==
    /\ inbox # <<>> /\ Head(inbox).kind = "completed"
    /\ inbox' = Tail(inbox)
    /\ LET t == Head(inbox).turn
       IN IF t \notin known THEN UNCHANGED tableVars
          ELSE /\ known' = known \ {t}
               /\ waiters' = waiters \ {t}
               /\ handed' = IF t \in waiters THEN handed \cup {t} ELSE handed
               /\ completions' = IF t \in waiters THEN completions ELSE completions \cup {t}
    /\ UNCHANGED <<gateVars, caller, tried, answered, server>>

ServerCompletes(t) ==
    /\ server[t] = "running"
    /\ \E status \in {"completed", "failed"} : server' = [server EXCEPT ![t] = status]
    /\ inbox' = Append(inbox, [kind |-> "completed", turn |-> t])
    /\ UNCHANGED <<gateVars, caller, tried, tableVars, answered>>

-----------------------------------------------------------------------------
CheckStep(k) ==
    \/ ThreadStarts(k) \/ StartFails(k)
    \/ AskTurn(k) \/ TurnAnswered(k) \/ WaitForCompletion(k) \/ CompletionReceived(k)
    \/ WaitTimesOut(k) \/ InterruptCanary(k)

Next ==
    \/ \E k \in Callers : Cancel(k) \/ Check(k) \/ CheckStep(k)
    \/ ReadAnswer \/ HandleNotification
    \/ \E t \in Canaries : ServerCompletes(t)

Spec == Init /\ [][Next]_vars

\* The read loop runs, and so does a caller that has something to do; the two
\* seconds of an interrupt end. Nobody is made to run out of time.
Fairness ==
    /\ WF_vars(ReadAnswer \/ HandleNotification)
    /\ \A k \in Callers :
        WF_vars(TurnAnswered(k) \/ WaitForCompletion(k) \/ CompletionReceived(k) \/ InterruptCanary(k))

FairSpec == Spec /\ Fairness

-----------------------------------------------------------------------------
\* A recovery resumes only after as many canaries of its own in a row succeeded
\* as it asks for; deferred probes in between do not count, nor do canaries of
\* others, nor completions of canaries that were given up (probe.go:344,
\* supervisor.go:2063).
ResumesAfterCanaries ==
    \A k \in Callers : caller[k].pc = "resumed" =>
        /\ Len(tried[k]) >= ProbeSuccesses
        /\ \A i \in (Len(tried[k]) - ProbeSuccesses + 1)..Len(tried[k]) :
            server[tried[k][i]] = "completed"

\* Against the status of the sources a canary runs exactly at the third failing
\* status in a row for one target since the last canary (probe.go:196).
FallbackAtThird ==
    log # <<>> =>
        (Last(log).runs <=>
            /\ Len(log) = Failures
            /\ \A d \in ToSet(log) : d.target = Last(log).target)

\* A caller waits for a turn which has ended, or is about to wait for it; it must be
\* let go without a timeout, whichever of the two came first (probe.go:332).
Unanswered ==
    \E k \in Callers :
        /\ caller[k].pc \in {"asked", "wait", "waiting"}
        /\ server[caller[k].turn] \in {"completed", "failed"}
=============================================================================
