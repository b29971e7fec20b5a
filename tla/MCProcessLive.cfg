SPECIFICATION FairSpec
CONSTANTS
  MaxPid = 6
  MaxSleep = 2
  MaxAttempts = 256
  KillTargets = {}
PROPERTIES EverybodyRuns ExecServed
