SPECIFICATION MCSpec
CONSTANTS
  Sources <- MCSources
  Policy = "any"
  UnknownPolicy = "canary"
  NoModel = "none"
  AnyProvider = "any"
  MaxRecoveries = 2
  Targets <- MCTargets
  ProbeSuccesses = 2
  MaxCanaries = 3
  Conns = {c1, c2}
  Requests = {r1}
  RpcRequests = {r1, r2}
  NoConn = NoConn
  MaxEvents = 3
INVARIANTS ResumesAfterCanaries FallbackAtThird NoAnswerMislaid EventsOfOneTui ClientHandledFirst SendersHaveRoom
PROPERTIES KeepsContract ClientKeepsContract RequestsEnd
CONSTRAINT MCCanaries
ACTION_CONSTRAINT MCNotifications
CHECK_DEADLOCK FALSE
