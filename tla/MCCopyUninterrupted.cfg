\* Frames: a task that can be preempted and a caller that cannot, six frames in
\* words of two.  Kernel heap: 20 units of 16 bytes in pages of 6.  Address
\* spaces: two tasks, two loads, 16 frames.  Heap of a program: three chunks of
\* 8 units of 16 bytes.
SPECIFICATION MemorySpec
CONSTANTS
  Tasks = {task_c, kmalloc}
  Masked = {kmalloc}
  WordBits = 2
  Words = 3
  total_blocks = 6
  Reserved <- ImageAndHole
  Hdr = 2
  Page = 6
  Limit = 20
  Requests = {10, 17, 64}
  Loaders = {loader_c, loader_d}
  Frames = {1,2,3,4,5,6,7,8,9,10,11,12,13,14,15,16}
  Programs = {1, 2}
  Segments <- Headers
  OwnPages <- Above1MB
  StackPages = {50, 51}
  HeapBase = 200
  Increments <- Changes
  MaxBreak = 204
  Pick <- ByProgram
  HEADER_SIZE = 2
  MIN_SPLIT = 2
  CHUNK_SIZE = 8
  HeapLimit = 24
  Sizes = {10, 40, 90}
SYMMETRY EitherLoader
INVARIANT CopyUninterrupted
\* Loads are used up, and memory runs out.
CHECK_DEADLOCK FALSE
