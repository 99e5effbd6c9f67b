\* Charges of more than 16 bits.
CONSTANTS
  Sources = {1, 2}
  Config <- TwoCrates
  Readouts <- Runs
  Damaged = 1
  MaxRows = 0
SPECIFICATION Spec
INVARIANTS
  ChargesKept
