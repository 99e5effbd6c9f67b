\* One session: output files are added as needed.
CONSTANTS
  MaxCrds = {1}
  InputLists <- TwoFiles
  Options <- AllOptions
  MaxRhdFiles = 1
  MaxPerFile = 1
  MaxTotal = 0
  MaxSessions = 1
SPECIFICATION Spec
INVARIANTS
  FilesAddedAsNeeded
