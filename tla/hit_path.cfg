\* A crate of calorimeter chips with waveforms, of whose file any lines may be lost, and a crate
\* read without waveforms; two rows at most.
CONSTANTS
  Sources = {1, 2}
  Config <- TwoCrates
  Readouts <- Runs
  Damaged = 1
  MaxRows = 2
SPECIFICATION Spec
INVARIANTS
  HitsComplete
  DamageIsSeen
  IntactIsRead
  RowsFaithful
  ConversionOutcome
