\* Every kind of record, complete RTDs forced, one RTD in the only output file.
CONSTANTS
  NInputs = 2
  MaxTrig = 2
  MaxLen = 2
  Streams <- MixedRecords
  Capacity <- CapacityOne
  MinPop = 1
  ForceComplete = TRUE
  OutputFiles = 1
  MaxPerFile = 1
  MaxTotal = 0
  TerminateOnOverrun = FALSE
SPECIFICATION Spec
INVARIANTS
  FailureJustified
  ReturnJustified
  FilesHoldPrefix
PROPERTIES
  RunReturns
