\* Three transformations, so that one has a pipe on both sides; the file does
\* not fit into a pipe and the block in hand; at most two failures.
SPECIFICATION FairSpec
CONSTANTS
  ProgramNum = 3
  Blocks = 3
  OldBlocks = 4
  PipeSize = 1
  Faults = 2
INVARIANTS CompletedMeansComplete NoBrokenPipe
PROPERTIES PipelineEnds
CHECK_DEADLOCK FALSE
