SPECIFICATION Spec
CONSTANTS
  MaxTurns = 2
  MaxMessages = 2
  MaxQueue = 1
  MaxTime = 7
  StallTimeout = 1
  ConfirmTimeout = 2
  ToolStallTimeout = 2
  InterruptTimeout = 1
  HookTimeout = 2
  Interval = 1
  Jobs = {"tool", "hook"}
  AsyncHooks = {}
  InterruptHooks = {"hook"}
  Inputs <- MCWatchdogInputs
INVARIANT DecidesInTime
PROPERTIES SilentLongEnough HookAwaited KeepsContract
