\* Two inputs sorted by trigger ID, the first unbounded and the second with room for one record; two RTDs in all.
CONSTANTS
  NInputs = 2
  MaxTrig = 3
  MaxLen = 2
  Streams <- SortedHits
  Capacity <- MixedCapacity
  MinPop = 1
  ForceComplete = FALSE
  OutputFiles = 1
  MaxPerFile = 0
  MaxTotal = 2
  TerminateOnOverrun = FALSE
SPECIFICATION Spec
INVARIANTS
  TypeOK
  EventsComplete
  EventsOrdered
  NothingLost
  FailureJustified
  FilesComplete
PROPERTIES
  RunReturns
  BuildsEvents
