SPECIFICATION FairSpec
CONSTANTS
  MaxTurns = 1
  MaxAutoResumes = 2
  MaxStallResumes = 1
  ProbeSuccesses = 1
  MaxEvents = 2
  MaxGeneration = 4
  MaxActivity = 2
  Inputs <- MCErrors
INVARIANT WaitersOwned
PROPERTIES GraceRespected GraceEnds
