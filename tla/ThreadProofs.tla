----------------------------- MODULE ThreadProofs -----------------------------
(***************************************************************************)
(* The usage shown is the current thread's, and an agent's thread becomes  *)
(* the current one only by the user, for all sets of threads and any       *)
(* number of messages and refreshes.                                       *)
(***************************************************************************)
EXTENDS MCRecords, TLAPS

-----------------------------------------------------------------------------
(* Type correctness *)

\* The event loop schedules a refresh or not, and the shutdown begins once.
LEMMA FlagsKept ==
  ASSUME Usage!TypeOK, [Usage!Next]_Usage!vars
  PROVE  Usage!Flags'
<1> USE DEF Usage!TypeOK, Usage!Flags
<1>1. ASSUME NEW schedules \in BOOLEAN, Usage!Message(schedules) PROVE Usage!Flags'
  BY <1>1, Zenon DEF Usage!Message
<1>2. ASSUME NEW t \in Usage!Threads, Usage!TurnMessage(t) PROVE Usage!Flags'
  <2>1. Usage!threadAcceptsDirectInput(t) \in BOOLEAN
    BY DEF Usage!threadAcceptsDirectInput
  <2>2. QED
    BY <1>1, <1>2, <2>1 DEF Usage!TurnMessage
<1>3. ASSUME NEW t \in Usage!Threads, Usage!TokenUsageUpdated(t) PROVE Usage!Flags'
  <2>1. (current \in {None, t}) \in BOOLEAN
    OBVIOUS
  <2>2. QED
    BY <1>1, <1>3, <2>1, Zenon DEF Usage!TokenUsageUpdated
<1>4. ASSUME NEW t \in Usage!Threads, Usage!ThreadStarted(t) PROVE Usage!Flags'
  <2>1. PICK declares \in Usage!Declarations(t) : Usage!Message(Usage!Capability(declares) # "agent")
    BY <1>4 DEF Usage!ThreadStarted
  <2>2. QED
    BY <1>1, <2>1, Zenon
<1>5. ASSUME NEW t \in Usage!Threads,
             \/ Usage!ClientTurnStart(t) \/ Usage!SettingsUpdated(t)
             \/ \E receiver \in Usage!Threads : Usage!CollabItem(t, receiver)
      PROVE  Usage!Flags'
  BY <1>1, <1>5, Zenon DEF Usage!ClientTurnStart, Usage!SettingsUpdated, Usage!CollabItem
<1>6. ASSUME NEW t \in Usage!Threads, Usage!Resume(t) PROVE Usage!Flags'
  BY <1>6, Zenon DEF Usage!Resume
<1>7. CASE Usage!RateLimitsUpdated
  BY <1>1, <1>7, Zenon DEF Usage!RateLimitsUpdated
<1>8. CASE Usage!ScheduleUsageRefresh \/ Usage!Shutdown
  BY <1>8, Zenon DEF Usage!ScheduleUsageRefresh, Usage!Shutdown
<1>9. CASE \/ Usage!TimerFires \/ Usage!TimerCallback \/ Usage!RemoteStatus
           \/ Usage!RefreshBegins \/ Usage!RefreshAnswered
           \/ Usage!RefreshLeaves \/ UNCHANGED Usage!vars
  BY <1>9, Zenon DEF Usage!TimerFires, Usage!TimerCallback, Usage!RemoteStatus,
     Usage!RefreshBegins, Usage!RefreshAnswered,
     Usage!RefreshLeaves, Usage!vars
<1>10. QED
  BY <1>2, <1>3, <1>4, <1>5, <1>6, <1>7, <1>8, <1>9 DEF Usage!Next, Usage!UserStep

\* Every variable of the thread state keeps its type.
THEOREM TypeCorrect == Usage!Spec => []Usage!TypeOK
<1> USE DEF Usage!ThreadsAssumption
<1>1. Usage!Init => Usage!TypeOK
  <2>1. Usage!Init => Usage!Flags
    BY Zenon DEF Usage!Init, Usage!Flags
  <2>2. QED
    BY <2>1, MCAssumption DEF Usage!Init, Usage!TypeOK, Usage!ThreadOrNone, Usage!Threads
<1>2. Usage!TypeOK /\ [Usage!Next]_Usage!vars => Usage!TypeOK'
  <2> SUFFICES ASSUME Usage!TypeOK, [Usage!Next]_Usage!vars PROVE Usage!TypeOK'
    OBVIOUS
  <2> USE DEF Usage!TypeOK, Usage!refreshes, Usage!threads
  <2>0. Usage!Flags'
    BY FlagsKept
  <2>1. ASSUME NEW t \in Usage!Threads, Usage!ClientTurnStart(t) PROVE Usage!TypeOK'
    BY <2>0, <2>1, MCAssumption DEF Usage!ClientTurnStart, Usage!Message, Usage!SetCurrentThread,
       Usage!SetsCurrent, Usage!ThreadOrNone
  <2>2. ASSUME NEW t \in Usage!Threads, Usage!ThreadStarted(t) PROVE Usage!TypeOK'
    BY <2>0, <2>2, MCAssumption DEF Usage!ThreadStarted, Usage!Message, Usage!SetCurrentThread,
       Usage!SetsCurrent, Usage!keepsCurrent,
       Usage!Capability, Usage!ThreadOrNone
  <2>3. ASSUME NEW t \in Usage!Threads, Usage!TokenUsageUpdated(t) PROVE Usage!TypeOK'
    BY <2>0, <2>3, MCAssumption DEF Usage!TokenUsageUpdated, Usage!Message, Usage!SetsCurrent,
       Usage!keepsCurrent, Usage!ThreadOrNone
  <2>4. ASSUME NEW t \in Usage!Threads, Usage!SettingsUpdated(t) PROVE Usage!TypeOK'
    BY <2>0, <2>4, MCAssumption DEF Usage!SettingsUpdated, Usage!Message, Usage!SetCurrentThread,
       Usage!SetsCurrent, Usage!keepsCurrent,
       Usage!ThreadOrNone
  <2>5. ASSUME NEW t \in Usage!Threads, Usage!TurnMessage(t) PROVE Usage!TypeOK'
    BY <2>0, <2>5, MCAssumption DEF Usage!TurnMessage, Usage!Message, Usage!SetCurrentThread,
       Usage!SetsCurrent, Usage!keepsCurrent,
       Usage!threadAcceptsDirectInput, Usage!ThreadOrNone
  <2>6. ASSUME NEW t \in Usage!Threads, Usage!Resume(t) PROVE Usage!TypeOK'
    BY <2>0, <2>6 DEF Usage!Resume, Usage!SetCurrentThread, Usage!SetsCurrent,
       Usage!keepsCurrent, Usage!ThreadOrNone
  <2>7. ASSUME NEW t \in Usage!Threads, NEW receiver \in Usage!Threads, Usage!CollabItem(t, receiver) PROVE Usage!TypeOK'
    BY <2>0, <2>7, MCAssumption DEF Usage!CollabItem, Usage!Message, Usage!keepsCurrent
  <2>8. CASE Usage!RateLimitsUpdated \/ Usage!ScheduleUsageRefresh
    BY <2>0, <2>8, MCAssumption DEF Usage!RateLimitsUpdated, Usage!ScheduleUsageRefresh,
       Usage!Message
  <2>9. CASE Usage!TimerFires \/ Usage!TimerCallback \/ Usage!Shutdown
    BY <2>0, <2>9 DEF Usage!TimerFires, Usage!TimerCallback, Usage!Shutdown
  <2>10. CASE Usage!RemoteStatus \/ Usage!RefreshBegins
    BY <2>0, <2>10, MCAssumption DEF Usage!RemoteStatus, Usage!RefreshBegins
  <2>11. CASE Usage!RefreshAnswered \/ Usage!RefreshLeaves
    BY <2>0, <2>11 DEF Usage!RefreshAnswered, Usage!RefreshLeaves, Usage!NewEstimate,
       Usage!ThreadOrNone
  <2>12. CASE UNCHANGED Usage!vars
    BY <2>0, <2>12 DEF Usage!vars
  <2>13. QED
    BY <2>1, <2>2, <2>3, <2>4, <2>5, <2>6, <2>7, <2>8, <2>9, <2>10, <2>11, <2>12
    DEF Usage!Next, Usage!UserStep
<1>3. QED
  BY <1>1, <1>2, PTL DEF Usage!Spec

-----------------------------------------------------------------------------
(* The usage of the current thread *)

\* Whoever makes a thread the current one forgets the usage of the thread before.
LEMMA SwitchForgets ==
  ASSUME Usage!UsageOfCurrentThread, NEW t, Usage!SetCurrentThread(t)
  PROVE  Usage!UsageOfCurrentThread'
BY DEF Usage!UsageOfCurrentThread, Usage!SetCurrentThread, Usage!SetsCurrent

\* The token usage and the estimate in the state are the current thread's, also when
\* the answer to a refresh comes after the user has left the thread it was asked for.
THEOREM UsageIsCurrent == Usage!Spec => []UsageOfCurrentThread
<1>1. Usage!Init => Usage!UsageOfCurrentThread
  BY DEF Usage!Init, Usage!UsageOfCurrentThread
<1>2. Usage!UsageOfCurrentThread /\ [Usage!Next]_Usage!vars => Usage!UsageOfCurrentThread'
  <2> SUFFICES ASSUME Usage!UsageOfCurrentThread, [Usage!Next]_Usage!vars PROVE Usage!UsageOfCurrentThread'
    OBVIOUS
  <2>1. ASSUME NEW t \in Usage!Threads,
               Usage!ClientTurnStart(t) \/ Usage!ThreadStarted(t) \/ Usage!SettingsUpdated(t)
                                        \/ Usage!TurnMessage(t) \/ Usage!Resume(t)
        PROVE  Usage!UsageOfCurrentThread'
    <3>1. Usage!SetCurrentThread(t) \/ Usage!keepsCurrent
      BY <2>1 DEF Usage!ClientTurnStart, Usage!ThreadStarted, Usage!SettingsUpdated,
         Usage!TurnMessage, Usage!Resume
    <3>2. QED
      BY <3>1, SwitchForgets DEF Usage!keepsCurrent, Usage!UsageOfCurrentThread
  <2>2. ASSUME NEW t \in Usage!Threads, Usage!TokenUsageUpdated(t) PROVE Usage!UsageOfCurrentThread'
    BY <2>2 DEF Usage!TokenUsageUpdated, Usage!SetsCurrent, Usage!keepsCurrent,
       Usage!UsageOfCurrentThread
  <2>3. CASE Usage!RefreshAnswered
    BY <2>3 DEF Usage!RefreshAnswered, Usage!NewEstimate, Usage!UsageOfCurrentThread
  <2>4. ASSUME UNCHANGED <<current, tokenUsage, estimate>> PROVE Usage!UsageOfCurrentThread'
    BY <2>4 DEF Usage!UsageOfCurrentThread
  <2>5. ASSUME NEW t \in Usage!Threads, NEW receiver \in Usage!Threads, Usage!CollabItem(t, receiver)
        PROVE  UNCHANGED <<current, tokenUsage, estimate>>
    BY <2>5 DEF Usage!CollabItem, Usage!keepsCurrent
  <2>6. ASSUME \/ Usage!RateLimitsUpdated \/ Usage!ScheduleUsageRefresh \/ Usage!TimerFires
               \/ Usage!TimerCallback \/ Usage!RemoteStatus
               \/ Usage!RefreshBegins \/ Usage!RefreshLeaves \/ Usage!Shutdown
               \/ UNCHANGED Usage!vars
        PROVE  UNCHANGED <<current, tokenUsage, estimate>>
    BY <2>6 DEF Usage!RateLimitsUpdated, Usage!ScheduleUsageRefresh, Usage!TimerFires,
       Usage!TimerCallback, Usage!RemoteStatus,
       Usage!RefreshBegins, Usage!RefreshLeaves, Usage!Shutdown, Usage!vars, Usage!threads
  <2>7. QED
    BY <2>1, <2>2, <2>3, <2>4, <2>5, <2>6 DEF Usage!Next, Usage!UserStep
<1>3. QED
  BY <1>1, <1>2, PTL DEF Usage!Spec, UsageOfCurrentThread

-----------------------------------------------------------------------------
(* The threads of agents *)

\* An agent runs for a turn of the user: when its thread is known there is a current
\* thread, and the agent's is known to take no direct input.  No recovery continues it.
AgentsDeclared ==
    /\ started \cap Agents # {} => current # None
    /\ \A t \in started \cap Agents : directInput[t] = "agent"
    /\ resuming \cap Agents = {}

\* Without a step of the user, only a thread that takes direct input becomes current, or
\* one whose usage arrives while there is none.
LEMMA AgentsDeclaredInductive ==
  ASSUME Usage!TypeOK, AgentsDeclared, [Usage!Next]_Usage!vars
  PROVE  AgentsDeclared' /\ (current' \in Agents \ {current} => Usage!UserStep)
<1> USE MCAssumption DEF Usage!ThreadsAssumption, Usage!TypeOK, Usage!Threads, Usage!ThreadOrNone, AgentsDeclared
<1>1. ASSUME NEW t \in Usage!Threads, Usage!ClientTurnStart(t)
      PROVE  AgentsDeclared' /\ Usage!UserStep
  BY <1>1 DEF Usage!ClientTurnStart, Usage!SetCurrentThread, Usage!SetsCurrent, Usage!UserStep
<1>2. ASSUME NEW t \in Usage!Threads, Usage!ThreadStarted(t)
      PROVE  AgentsDeclared' /\ current' \notin Agents \ {current}
  <2>1. PICK declares \in Usage!Declarations(t) :
          /\ t \in Agents => current # None
          /\ started' = started \cup {t}
          /\ directInput' = IF Usage!Capability(declares) = "unknown" THEN directInput
                            ELSE [directInput EXCEPT ![t] = Usage!Capability(declares)]
          /\ IF Usage!Capability(declares) = "agent" THEN Usage!keepsCurrent ELSE Usage!SetCurrentThread(t)
          /\ resuming' = resuming
    BY <1>2 DEF Usage!ThreadStarted
  <2>2. CASE t \in Agents
    <3>1. Usage!Capability(declares) = "agent"
      BY <2>2 DEF Usage!Declarations, Usage!Capability
    <3>2. QED
      BY <2>1, <2>2, <3>1 DEF Usage!keepsCurrent
  <2>3. CASE t \in Own
    BY <2>1, <2>3 DEF Usage!keepsCurrent, Usage!SetCurrentThread, Usage!SetsCurrent,
       Usage!Capability
  <2>4. QED
    BY <2>2, <2>3
<1>3. ASSUME NEW t \in Usage!Threads, Usage!TokenUsageUpdated(t)
      PROVE  AgentsDeclared' /\ current' \notin Agents \ {current}
  BY <1>3 DEF Usage!TokenUsageUpdated, Usage!SetsCurrent, Usage!keepsCurrent
<1>4. ASSUME NEW t \in Usage!Threads, Usage!SettingsUpdated(t) \/ Usage!TurnMessage(t)
      PROVE  AgentsDeclared' /\ current' \notin Agents \ {current}
  BY <1>4 DEF Usage!SettingsUpdated, Usage!TurnMessage, Usage!threadAcceptsDirectInput,
     Usage!SetCurrentThread, Usage!SetsCurrent,
     Usage!keepsCurrent
<1>5. ASSUME NEW t \in Usage!Threads, Usage!Resume(t)
      PROVE  AgentsDeclared' /\ current' \notin Agents \ {current}
  BY <1>5 DEF Usage!Resume, Usage!SetCurrentThread, Usage!SetsCurrent, Usage!keepsCurrent
<1>6. ASSUME NEW t \in Usage!Threads, NEW receiver \in Usage!Threads, Usage!CollabItem(t, receiver)
      PROVE  AgentsDeclared' /\ current' = current
  BY <1>6 DEF Usage!CollabItem, Usage!keepsCurrent
<1>7. ASSUME \/ Usage!RateLimitsUpdated \/ Usage!ScheduleUsageRefresh \/ Usage!TimerFires
             \/ Usage!TimerCallback \/ Usage!RemoteStatus
             \/ Usage!RefreshBegins \/ Usage!RefreshAnswered \/ Usage!RefreshLeaves
             \/ Usage!Shutdown \/ UNCHANGED Usage!vars
      PROVE  AgentsDeclared' /\ current' = current
  BY <1>7 DEF Usage!RateLimitsUpdated, Usage!ScheduleUsageRefresh, Usage!TimerFires,
     Usage!TimerCallback, Usage!RemoteStatus,
     Usage!RefreshBegins, Usage!RefreshAnswered, Usage!RefreshLeaves, Usage!Shutdown, Usage!vars, Usage!threads
<1>8. QED
  BY <1>1, <1>2, <1>3, <1>4, <1>5, <1>6, <1>7 DEF Usage!Next, Usage!UserStep

\* A message about an agent's thread never makes it the current one, nor does a recovery,
\* whose thread was asked for again before it became current.
THEOREM AgentsOnlyObserved == Usage!Spec => AgentsAreObserved
<1>1. Usage!Init => AgentsDeclared
  BY DEF Usage!Init, AgentsDeclared
<1>2. Usage!TypeOK /\ AgentsDeclared /\ [Usage!Next]_Usage!vars => AgentsDeclared'
  BY AgentsDeclaredInductive
<1>3. Usage!TypeOK /\ AgentsDeclared /\ [Usage!Next]_Usage!vars => [current' \in Agents \ {current} => Usage!UserStep]_Usage!vars
  BY AgentsDeclaredInductive
<1>4. QED
  BY <1>1, <1>2, <1>3, TypeCorrect, PTL DEF Usage!Spec, Usage!AgentsAreObserved, AgentsAreObserved
=============================================================================
