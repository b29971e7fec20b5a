SPECIFICATION Spec
CONSTANTS
  MAX_EXTERNAL_APPS = 2
  Pids <- Two
  Managers <- One
INVARIANTS FrontSound SlotsSound
PROPERTIES ClosedAreCollected CloseIsHeeded
