\* One session: an overrun terminates the writer softly.
CONSTANTS
  MaxCrds = {0}
  InputLists <- TwoFiles
  Options <- AllOptions
  MaxRhdFiles = 1
  MaxPerFile = 1
  MaxTotal = 0
  MaxSessions = 1
SPECIFICATION Spec
INVARIANTS
  OverrunIsSoft
