SPECIFICATION MCSpec
CONSTANTS
  Aliases = {a, b}
  Workspaces = {v, w}
  Actors = {x}
  Handlers = {h1, h2}
  NoOne = NoOne
  QueueLimit = 1
  MaxOps = 3
  Limit = 2
  MaxInstances = 2
  MaxEvents = 3
  MaxFollowers = 2
  Own = {root, other}
  Agents = {child}
  None = None
  MaxMessages = 4
  MaxRefreshes = 1
  Goroutines = {g1}
  Callbacks = {c1, c2}
  MaxChanges = 3
  MaxFailures = 1
INVARIANTS AckedIsDurable RegistryConsistent NothingPassedOver UsageOfCurrentThread
PROPERTIES AgentsAreObserved NothingLeftOutstanding
CONSTRAINT MCEvents
CHECK_DEADLOCK FALSE
