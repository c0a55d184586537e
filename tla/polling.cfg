SPECIFICATION MCSpec
CONSTANTS
  MaxProcesses = 3
  MaxUpdates = 2
  MaxFailures = 1
  MaxAttempts = 2
  MaxTokens = 2
  MaxMessages = 2
  OutLimit = 1
INVARIANTS NothingForgotten PollsAlone AtMostOnce ExpiredStayGone
PROPERTIES UpdatesHandled ControllerEnds
CONSTRAINT MCBounds
CHECK_DEADLOCK FALSE
