\* One input in any order, unsorted records accepted with the default safety depth.
CONSTANTS
  NInputs = 1
  MaxTrig = 4
  MaxLen = 4
  Streams <- AnyHits
  Capacity <- NoLimit
  MinPop = 3
  ForceComplete = FALSE
  OutputFiles = 1
  MaxPerFile = 0
  MaxTotal = 0
  TerminateOnOverrun = FALSE
SPECIFICATION Spec
INVARIANTS
  EachRecordOnce
