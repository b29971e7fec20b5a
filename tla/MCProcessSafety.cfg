SPECIFICATION Spec
CONSTANTS
  MaxPid = 6
  MaxSleep = 3
  MaxAttempts = 256
  KillTargets = {3, 4, 5, 6}
INVARIANT ProcessesSound
PROPERTIES RevivedOnlyByExec WaitsItsTicks
