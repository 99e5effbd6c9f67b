----------------------------- MODULE HitRecords -----------------------------
(***************************************************************************)
(* The raw hit records of snfee/data (calo_hit_record, tracker_hit_record):*)
(* what an invalidated record holds, when a record is complete, and what   *)
(* make() accepts.  A record is a value; each operator is one member       *)
(* function.                                                               *)
(*                                                                         *)
(* Of the features of a calorimeter channel only the two threshold flags   *)
(* and the charge are kept: baseline, peak and the cell indices are copied *)
(* along with them.  A 64-bit number is the sequence of its four 16-bit    *)
(* words, the lowest first.                                                *)
(***************************************************************************)
EXTENDS Integers, Sequences

INVALID_NUMBER == -1
INVALID_NUMBER_16U == 65535
SAMLONG_MAX_NUMBER_OF_SAMPLES == 1024
SAMLONG_INVALID_SAMPLE == 1024
SAMPLE_ADC_MAX == 4095
NUMBER_OF_TRACKER_CRATES == 3

Invalid64 == << 65535, 65535, 65535, 65535 >>

\* The TDC has 40 bits.
TdcOverflows(tdc) == tdc[4] > 0 \/ tdc[3] > 255

\* The value an int16_t takes when it is assigned n.
ToInt16(n) == ((n + 32768) % 65536) - 32768

Fits16(n) == ToInt16(n) = n

-----------------------------------------------------------------------------
(***************************************************************************)
(* Calorimeter hit records: one SAMLONG chip, its channels are 1 and 2     *)
(* here.  A sample is the pair of the ADC values of the two channels.      *)
(***************************************************************************)
InvalidChannel == [lt |-> FALSE, ht |-> FALSE, charge |-> 0]

InvalidCalo ==
  [type |-> "CALO", hit |-> INVALID_NUMBER, trig |-> INVALID_NUMBER, tdc |-> Invalid64,
   crate |-> INVALID_NUMBER, board |-> INVALID_NUMBER, chip |-> INVALID_NUMBER,
   event |-> 0, l2 |-> INVALID_NUMBER_16U, fcr |-> SAMLONG_INVALID_SAMPLE,
   waveforms |-> FALSE, start |-> SAMLONG_INVALID_SAMPLE, nsamples |-> 0, samples |-> << >>,
   ch |-> << InvalidChannel, InvalidChannel >>]

CaloComplete(h) ==
  /\ h.hit # INVALID_NUMBER /\ h.trig # INVALID_NUMBER
  /\ h.tdc # Invalid64
  /\ h.crate # INVALID_NUMBER /\ h.board # INVALID_NUMBER /\ h.chip # INVALID_NUMBER
  /\ h.l2 # INVALID_NUMBER_16U /\ h.fcr # SAMLONG_INVALID_SAMPLE
  /\ h.waveforms =>
       /\ h.start # SAMLONG_INVALID_SAMPLE
       /\ h.nsamples # 0
       /\ h.nsamples = Len(h.samples)

(***************************************************************************)
(* make() with preserve_waveforms, for a record that already has its       *)
(* samples.  Its checks of crate, board and chip ask for a number below 0  *)
(* AND above the maximum, so they never throw: an invalid number passes.   *)
(***************************************************************************)
MakeCaloThrows(h) ==
  \/ h.hit <= INVALID_NUMBER \/ h.trig <= INVALID_NUMBER
  \/ TdcOverflows(h.tdc)
  \/ h.l2 > 31 \/ h.fcr > 1023
  \/ /\ h.waveforms
     /\ \/ h.start >= SAMLONG_INVALID_SAMPLE
        \/ h.nsamples \notin 1 .. SAMLONG_MAX_NUMBER_OF_SAMPLES
        \/ h.samples # << >> /\ Len(h.samples) # h.nsamples

-----------------------------------------------------------------------------
(***************************************************************************)
(* Tracker hit records: one timestamp register of one FEAST channel.       *)
(***************************************************************************)
AnodeRegisters == {"R0", "R1", "R2", "R3", "R4"}
CathodeRegisters == {"R5", "R6"}

InvalidTracker ==
  [type |-> "TRACKER", hit |-> INVALID_NUMBER, trig |-> INVALID_NUMBER,
   crate |-> INVALID_NUMBER, board |-> INVALID_NUMBER, chip |-> INVALID_NUMBER,
   channel |-> INVALID_NUMBER, category |-> "undef", register |-> "undef", time |-> Invalid64]

TrackerComplete(h) ==
  /\ h.hit # INVALID_NUMBER /\ h.trig # INVALID_NUMBER
  /\ h.crate # INVALID_NUMBER /\ h.board # INVALID_NUMBER
  /\ h.chip # INVALID_NUMBER /\ h.channel # INVALID_NUMBER
  /\ h.category # "undef" /\ h.register # "undef"
  /\ h.time # Invalid64

(***************************************************************************)
(* make(): the registers have to be of the category of the channel; the    *)
(* checks of board and channel never throw, as above.                      *)
(***************************************************************************)
MakeTrackerThrows(h) ==
  \/ h.hit <= INVALID_NUMBER \/ h.trig <= INVALID_NUMBER
  \/ h.crate \notin 0 .. NUMBER_OF_TRACKER_CRATES - 1
  \/ h.chip \notin {0, 1}
  \/ h.category = "undef" \/ h.register = "undef"
  \/ h.category = "AN" /\ h.register \notin AnodeRegisters
  \/ h.category = "CA" /\ h.register \notin CathodeRegisters

HitComplete(h) == IF h.type = "CALO" THEN CaloComplete(h) ELSE TrackerComplete(h)
=============================================================================
