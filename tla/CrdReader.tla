----------------------------- MODULE CrdReader -----------------------------
(***************************************************************************)
(* How crd2rhd reads commissioning raw data (CRD): raw_hit_reader,         *)
(* raw_record_parser, calo_hit_parser and tracker_hit_parser of            *)
(* programs/crd2rhd, one reader for each source (crate).                   *)
(*                                                                         *)
(* A CRD file is a run header (not modelled but for the software version)  *)
(* and a sequence of lines; a record is a HIT line and the lines of data   *)
(* after it:                                                               *)
(*                                                                         *)
(*   tracker:      HIT n, timestamp                                        *)
(*   calorimeter:  HIT n, channel, (samples,) HIT n+1, channel, (samples)  *)
(*                                                                         *)
(* A line is what its grammar extracts: [text, ...] with text the grammar  *)
(* that accepts it.  ReadRecord is one load_next_hit with the append of    *)
(* the hit to what crd2rhd stores.  Numbers are such that the variable a   *)
(* grammar reads them into can hold them (31 bits in HIT lines).           *)
(***************************************************************************)
EXTENDS HitRecords

CONSTANTS
  Sources,   \* the CRD files that are read
  Config     \* per source [crate, version, calo, tracker, waveforms]

VARIABLES
  lines,     \* the lines of each file
  pos,       \* the next line of each
  reading,   \* "hits", "end" (no next hit) or "failed" (an exception)
  hits       \* the hits delivered so far

readervars == << lines, pos, reading, hits >>

NoLine == [text |-> "none"]

\* std::getline at the end of the file gives an empty line, which no grammar accepts.
LineAt(s, k) == IF k <= Len(lines[s]) THEN lines[s][k] ELSE NoLine

-----------------------------------------------------------------------------
(***************************************************************************)
(* The formats of the data lines by software version (10 major + minor).   *)
(***************************************************************************)
CaloFormat(version) ==
  CASE version >= 24 -> "from 2.4"
    [] version = 23 -> "from 2.3"
    [] OTHER -> "before 2.3"

TrackerFormat(version) == IF version >= 24 THEN "from 2.4" ELSE "before 2.4"

IsChannelLine(s, l) ==
  l.text = "channel" /\ CaloFormat(l.version) = CaloFormat(Config[s].version)

IsTimestampLine(s, l) ==
  l.text = "timestamp" /\ TrackerFormat(l.version) = TrackerFormat(Config[s].version)

-----------------------------------------------------------------------------
(***************************************************************************)
(* The lines of the calorimeter record whose HIT line is line k.           *)
(***************************************************************************)
LinesPerChannel(s) == IF Config[s].waveforms THEN 2 ELSE 1

ChannelLine(s, k, c) == LineAt(s, k + 1 + (c - 1) * (LinesPerChannel(s) + 1))

SamplesLine(s, k, c) == LineAt(s, k + 2 + (c - 1) * (LinesPerChannel(s) + 1))

SecondHitLine(s, k) == LineAt(s, k + 1 + LinesPerChannel(s))

CaloLines(s) == 2 * LinesPerChannel(s) + 2

(***************************************************************************)
(* The HIT line between the two channels continues the first one.          *)
(***************************************************************************)
HalvesFollow(first, second) ==
  /\ second.text = "hit" /\ second.type = "CALO"
  /\ second.num = first.num + 1
  /\ second.trig = first.trig

\* Mutant: the channels need not be neighbours.
ChannelsPairAnyhow(l0, l1) ==
  l0.slot = l1.slot /\ l0.event = l1.event /\ l0.tdc = l1.tdc /\ l0.fcr = l1.fcr

ChannelsPair(l0, l1) ==
  /\ l0.slot = l1.slot
  /\ l1.channel = l0.channel + 1
  /\ l0.event = l1.event /\ l0.tdc = l1.tdc /\ l0.fcr = l1.fcr

(***************************************************************************)
(* _parse_waveform_: the first channel sizes the waveforms, the second has *)
(* to have as many samples.  An ADC value goes through an int16_t and a    *)
(* uint16_t; set_adc refuses what is then too large.                       *)
(***************************************************************************)
AdcAt(l, i) == l.adc[i] % 65536

IsSamplesLine(l) ==
  l.text = "samples" /\ \A i \in DOMAIN l.adc : AdcAt(l, i) \in 0 .. SAMPLE_ADC_MAX

SamplesPair(l0, l1) == IsSamplesLine(l0) /\ IsSamplesLine(l1) /\ Len(l0.adc) = Len(l1.adc)

HasFlags(s) == CaloFormat(Config[s].version) # "before 2.3"

\* lt is read as HT or LTO; the charge goes through a 16-bit variable.
ChannelOf(s, l) ==
  [lt |-> HasFlags(s) /\ (l.ht \/ l.lto), ht |-> HasFlags(s) /\ l.ht, charge |-> ToInt16(l.charge)]

\* Mutant: the L2 ID has one bit more.
CaloHitWideL2(s, k) ==
  LET l0 == ChannelLine(s, k, 1)
      l1 == ChannelLine(s, k, 2)
      w  == Config[s].waveforms
      n  == IF w THEN Len(SamplesLine(s, k, 1).adc) ELSE 0
  IN  [type |-> "CALO", hit |-> lines[s][k].num, trig |-> lines[s][k].trig, tdc |-> l0.tdc,
       crate |-> Config[s].crate, board |-> ToInt16(l0.slot), chip |-> ToInt16(l0.channel \div 2),
       event |-> lines[s][k].trig % 255, l2 |-> lines[s][k].trig % 63, fcr |-> l0.fcr % 1024,
       waveforms |-> w, start |-> IF w THEN 0 ELSE SAMLONG_INVALID_SAMPLE, nsamples |-> n,
       samples |-> [i \in 1 .. n |-> << AdcAt(SamplesLine(s, k, 1), i), AdcAt(SamplesLine(s, k, 2), i) >>],
       ch |-> << ChannelOf(s, l0), ChannelOf(s, l1) >>]

\* Mutant: chips are numbered from one.
CaloHitFromOne(s, k) ==
  LET l0 == ChannelLine(s, k, 1)
      l1 == ChannelLine(s, k, 2)
      w  == Config[s].waveforms
      n  == IF w THEN Len(SamplesLine(s, k, 1).adc) ELSE 0
  IN  [type |-> "CALO", hit |-> lines[s][k].num, trig |-> lines[s][k].trig, tdc |-> l0.tdc,
       crate |-> Config[s].crate, board |-> ToInt16(l0.slot), chip |-> ToInt16(l0.channel \div 2 - 1),
       event |-> lines[s][k].trig % 255, l2 |-> lines[s][k].trig % 31, fcr |-> l0.fcr % 1024,
       waveforms |-> w, start |-> IF w THEN 0 ELSE SAMLONG_INVALID_SAMPLE, nsamples |-> n,
       samples |-> [i \in 1 .. n |-> << AdcAt(SamplesLine(s, k, 1), i), AdcAt(SamplesLine(s, k, 2), i) >>],
       ch |-> << ChannelOf(s, l0), ChannelOf(s, l1) >>]

(***************************************************************************)
(* The hit record that a calorimeter record is made into.  Board and chip  *)
(* numbers go through 16-bit variables.  Event ID and L2 ID are not read   *)
(* but computed from the trigger ID, modulo 0xFF and 0x1F.                 *)
(***************************************************************************)
CaloHit(s, k) ==
  LET l0 == ChannelLine(s, k, 1)
      l1 == ChannelLine(s, k, 2)
      w  == Config[s].waveforms
      n  == IF w THEN Len(SamplesLine(s, k, 1).adc) ELSE 0
  IN  [type |-> "CALO", hit |-> lines[s][k].num, trig |-> lines[s][k].trig, tdc |-> l0.tdc,
       crate |-> Config[s].crate, board |-> ToInt16(l0.slot), chip |-> ToInt16(l0.channel \div 2),
       event |-> lines[s][k].trig % 255, l2 |-> lines[s][k].trig % 31, fcr |-> l0.fcr % 1024,
       waveforms |-> w, start |-> IF w THEN 0 ELSE SAMLONG_INVALID_SAMPLE, nsamples |-> n,
       samples |-> [i \in 1 .. n |-> << AdcAt(SamplesLine(s, k, 1), i), AdcAt(SamplesLine(s, k, 2), i) >>],
       ch |-> << ChannelOf(s, l0), ChannelOf(s, l1) >>]

(***************************************************************************)
(* calo_hit_parser::parse after the HIT line k: any line that its grammar  *)
(* refuses, any check and make() itself throw, and then it returns false.  *)
(***************************************************************************)
CaloParses(s, k) ==
  /\ IsChannelLine(s, ChannelLine(s, k, 1))
  /\ IsChannelLine(s, ChannelLine(s, k, 2))
  /\ Config[s].waveforms => SamplesPair(SamplesLine(s, k, 1), SamplesLine(s, k, 2))
  /\ HalvesFollow(lines[s][k], SecondHitLine(s, k))
  /\ ChannelsPair(ChannelLine(s, k, 1), ChannelLine(s, k, 2))
  /\ ~ MakeCaloThrows(CaloHit(s, k))

-----------------------------------------------------------------------------
(***************************************************************************)
(* tracker_hit_parser: the DAQ writes register R0 of a cathode, which the  *)
(* parser takes for R5.                                                    *)
(***************************************************************************)
RegisterOf(l) == IF l.category = "CA" /\ l.register = "R0" THEN "R5" ELSE l.register

TrackerHit(s, k) ==
  LET l == LineAt(s, k + 1)
  IN  [type |-> "TRACKER", hit |-> lines[s][k].num, trig |-> lines[s][k].trig,
       crate |-> Config[s].crate, board |-> ToInt16(l.slot), chip |-> ToInt16(l.feast),
       channel |-> ToInt16(l.channel), category |-> l.category, register |-> RegisterOf(l),
       time |-> l.time]

TrackerParses(s, k) ==
  /\ IsTimestampLine(s, LineAt(s, k + 1))
  /\ ~ MakeTrackerThrows(TrackerHit(s, k))

-----------------------------------------------------------------------------
HasNextHit(s) == pos[s] <= Len(lines[s])

IsHitLine(s, type) == lines[s][pos[s]].text = "hit" /\ lines[s][pos[s]].type = type

Deliver(s, hit, n) ==
  /\ hits' = [hits EXCEPT ![s] = Append(@, hit)]
  /\ pos' = [pos EXCEPT ![s] = @ + n]
  /\ UNCHANGED << lines, reading >>

CaloIsNext(s) == IsHitLine(s, "CALO") /\ Config[s].calo /\ CaloParses(s, pos[s])

TrackerIsNext(s) == IsHitLine(s, "TRACKER") /\ Config[s].tracker /\ TrackerParses(s, pos[s])

ReadCalo(s) ==
  /\ reading[s] = "hits" /\ HasNextHit(s)
  /\ CaloIsNext(s)
  /\ Deliver(s, CaloHit(s, pos[s]), CaloLines(s))

ReadTracker(s) ==
  /\ reading[s] = "hits" /\ HasNextHit(s)
  /\ TrackerIsNext(s)
  /\ Deliver(s, TrackerHit(s, pos[s]), 2)

(***************************************************************************)
(* load_next_hit throws "Parsing failed!" and crd2rhd exits.               *)
(***************************************************************************)
ReadFails(s) ==
  /\ reading[s] = "hits" /\ HasNextHit(s)
  /\ ~ CaloIsNext(s) /\ ~ TrackerIsNext(s)
  /\ reading' = [reading EXCEPT ![s] = "failed"]
  /\ UNCHANGED << lines, pos, hits >>

EndOfFile(s) ==
  /\ reading[s] = "hits" /\ ~ HasNextHit(s)
  /\ reading' = [reading EXCEPT ![s] = "end"]
  /\ UNCHANGED << lines, pos, hits >>

ReaderStep(s) == ReadCalo(s) \/ ReadTracker(s) \/ ReadFails(s) \/ EndOfFile(s)

ReaderInit ==
  /\ pos = [s \in Sources |-> 1]
  /\ reading = [s \in Sources |-> "hits"]
  /\ hits = [s \in Sources |-> << >>]
=============================================================================
