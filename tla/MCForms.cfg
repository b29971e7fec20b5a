\* A program may have been closed.
CHECK_DEADLOCK FALSE
SPECIFICATION Spec
CONSTANTS
  FirstText = 4
  FirstItems = 1
  Lines = 2
  TextBound = 1
  ScrollBound = 3
  ItemBound = 2
INVARIANTS CursorTellsTruth LayersAgree NothingStuck ViewsSound
