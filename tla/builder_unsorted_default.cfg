\* One input in any order, unsorted records not accepted.
CONSTANTS
  NInputs = 1
  MaxTrig = 2
  MaxLen = 2
  Streams <- AnyHits
  Capacity <- NoLimit
  MinPop = 1
  ForceComplete = FALSE
  OutputFiles = 1
  MaxPerFile = 0
  MaxTotal = 0
  TerminateOnOverrun = FALSE
SPECIFICATION Spec
PROPERTIES
  UnsortedDetected
