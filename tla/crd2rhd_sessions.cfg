\* Three sessions with any options on two CRD files; RHD files of two records.
CONSTANTS
  MaxCrds = {0, 2}
  InputLists <- TwoFiles
  Options <- AllOptions
  MaxRhdFiles = 1
  MaxPerFile = 2
  MaxTotal = 4
  MaxSessions = 3
SPECIFICATION Spec
INVARIANTS
  FakeIdsIncrease
  SelectionStored
  OverrunJustified
  FilesFilled
