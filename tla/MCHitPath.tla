----------------------------- MODULE MCHitPath -----------------------------
(***************************************************************************)
(* Instances of the way of the hits for TLC: a calorimeter crate, whose    *)
(* CRD file may have lost any of its lines, and a second crate.            *)
(***************************************************************************)
EXTENDS HitPath

Tdc(n) == << n, 1, 0, 0 >>

Channel(charge, adc) == [lto |-> FALSE, ht |-> TRUE, charge |-> charge, adc |-> adc]

Chip(slot, chip, trig, tdc, adc) ==
  [type |-> "CALO", slot |-> slot, chip |-> chip, trig |-> trig, event |-> trig, tdc |-> Tdc(tdc),
   fcr |-> 7, ch |-> << Channel(2 * chip + 1, adc), Channel(40000, adc) >>]

\* A slot number that a 16-bit variable takes for the invalid one.
WildSlot == 65535

Register(trig, channel, category) ==
  [type |-> "TRACKER", slot |-> 4, feast |-> 1, channel |-> channel, trig |-> trig,
   category |-> category, register |-> "R0", time |-> Tdc(trig)]

ShortSamples == << 100 >>

LongSamples == << 200, 4095 >>

\* Two chips of two triggers; two neighbours with the same header words; two such chips that are
\* no neighbours.
FirstCrate ==
  {<< Chip(2, 0, 1, 10, LongSamples), Chip(2, 2, 33, 12, ShortSamples) >>,
   << Chip(2, 0, 1, 10, LongSamples), Chip(2, 1, 1, 10, LongSamples) >>,
   << Chip(2, 0, 1, 10, ShortSamples), Chip(2, 2, 1, 10, ShortSamples) >>}

SecondCrate ==
  {<< Register(1, 5, "AN"), Register(63, 5, "CA") >>,
   << Register(1, 5, "AN"), Chip(2, 0, 63, 10, << >>) >>,
   << Chip(2, 0, 63, 10, ShortSamples) >>,
   << Register(1, 5, "AN"), Chip(WildSlot, 0, 63, 10, << >>) >>}

Runs == {<< f, g >> : f \in FirstCrate, g \in SecondCrate}

CrateConfig(crate, version, waveforms) ==
  [crate |-> crate, version |-> version, calo |-> TRUE, tracker |-> TRUE, waveforms |-> waveforms]

\* The second crate has an older software, without threshold flags.
TwoCrates == << CrateConfig(0, 24, TRUE), CrateConfig(1, 22, FALSE) >>
=============================================================================
