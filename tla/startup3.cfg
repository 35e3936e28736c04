CONSTANTS
  NodeSize = 3
  Retries = 2
SPECIFICATION FairStartSpec
CHECK_DEADLOCK FALSE
INVARIANT RunsWithStreams
PROPERTIES
  NoFailureOnceServing
  SetupEnds
