\* A program that waits for fat_lock with interrupts off, while the shell that
\* holds it has lost the processor, waits for ever.
CHECK_DEADLOCK FALSE
SPECIFICATION DrivesSpec
CONSTANTS
  Callers = {shell, program}
  Masked = {program}
  Sectors = {a, b}
  Frames = 26
  Tries = 3
INVARIANTS GeometryOwn DirectoryKept InStep
PROPERTIES SectorsOwn ReadsTrue FindsDevice
CONSTRAINT Apart
