SPECIFICATION Spec
CONSTANTS
  MaxPid = 6
  MaxSleep = 2
  MaxAttempts = 256
  KillTargets = {3, 4, 5, 6}
PROPERTY DeadStaysDead
