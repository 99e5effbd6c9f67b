\* Buffers of up to three records, streams of up to five; three records fit in the output file.
CONSTANTS
  Quarter = 4
  MaxLen = 5
  Clocks = {12, 14, 15, 17}
  InputLists <- Lists
  Capacities = {0, 1, 2, 3}
  EvaluationBuffer = 1
  OutputFiles = 1
  MaxPerFile = 3
SPECIFICATION Spec
CHECK_DEADLOCK FALSE
INVARIANTS
  OutputInOrder
  AllDelivered
  LargeBufferSuffices
  ReturnsAfterAllFiles
  EvaluationDetects
