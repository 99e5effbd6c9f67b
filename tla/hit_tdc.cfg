\* The calo_tdc column of the ROOT tree.
CONSTANTS
  Sources = {1, 2}
  Config <- TwoCrates
  Readouts <- Runs
  Damaged = 2
  MaxRows = 0
SPECIFICATION Spec
INVARIANTS
  TdcExported
