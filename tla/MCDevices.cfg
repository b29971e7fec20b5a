SPECIFICATION Spec
CONSTANTS
  KEYBOARD_BUFFER_SIZE = 3
  Readers = {r}
  ReadSize = 2
  Width = 30
  Height = 12
  Movements <- Moves
  Programs = {p, q}
  Wanted = {1, 2, 3}
  RxSize = 2
  Fifo = 1
INVARIANTS ShiftHeld PortsSound
PROPERTIES KeysInOrder PacketsTrue RegainsStep LeftOpenOnlyByDeath HeardAlone
CHECK_DEADLOCK FALSE
