\* Buffers that wait for two trigger IDs (safety depth 2) and hold two records; two output files
\* of one RTD each and a silent overrun.
CONSTANTS
  NInputs = 2
  MaxTrig = 3
  MaxLen = 4
  Streams <- SortedHits
  Capacity <- CapacityTwo
  MinPop = 2
  ForceComplete = FALSE
  OutputFiles = 2
  MaxPerFile = 1
  MaxTotal = 0
  TerminateOnOverrun = TRUE
SPECIFICATION Spec
INVARIANTS
  EventsComplete
  NothingLost
  FilesComplete
  FilesHoldPrefix
  ShallowNeverReturns
PROPERTIES
  ReturnsUnlessShallow
