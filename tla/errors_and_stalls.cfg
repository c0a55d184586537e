SPECIFICATION Spec
CONSTANTS
  MaxTurns = 2
  MaxAutoResumes = 2
  MaxStallResumes = 1
  ProbeSuccesses = 1
  MaxEvents = 2
  MaxGeneration = 2
  MaxActivity = 0
  Inputs <- MCErrorsAndStalls
INVARIANT OneResumePerFailure
ACTION_CONSTRAINT MCPromptLate
