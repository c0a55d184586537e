SPECIFICATION Spec
CONSTANTS
  MaxTurns = 2
  MaxMessages = 2
  MaxQueue = 1
  MaxTime = 9
  StallTimeout = 1
  ConfirmTimeout = 2
  ToolStallTimeout = 0
  InterruptTimeout = 1
  HookTimeout = 2
  Interval = 1
  Jobs = {"tool", "hook"}
  AsyncHooks = {}
  InterruptHooks = {"hook"}
  Inputs <- MCLate
PROPERTY SilentLongEnough
