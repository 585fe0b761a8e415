\* Two jobs of one name, submitted by one submit_many or by two builds.
SPECIFICATION HpcFairSpec
CONSTANTS
  NJobs = 2
  Name <- BothBuilds
  MaxNodes = 2
  MaxPolls = 1
INVARIANTS NoFalseAlarm SuccessUnlessSilent LocalBuildAlone OwnCommands
PROPERTY WaitEnds
