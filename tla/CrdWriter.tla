----------------------------- MODULE CrdWriter -----------------------------
(***************************************************************************)
(* The files that crd2rhd reads.  The DAQ (external) writes one CRD file   *)
(* per source, line by line, as the grammars of its version describe: a    *)
(* chip readout has two channels, each with its own HIT line and number, a *)
(* register readout has one line of data.  The file of one source may lose *)
(* any of its lines.                                                       *)
(*                                                                         *)
(* A line carries its place, the readout, the half and the part that it    *)
(* is; no grammar reads it.                                                *)
(***************************************************************************)
EXTENDS CrdReader

CONSTANTS
  Readouts,   \* possible contents of a run: per source the chips and registers read out
  Damaged     \* the source whose file may lose lines

VARIABLES
  readout,    \* what the DAQ has read out, per source
  place,      \* the place of the next line of each file
  number,     \* the number of the next HIT line of each
  intact      \* whether the file of source Damaged has all its lines

writervars == << readout, place, number, intact >>

(***************************************************************************)
(* What the electronics can read out: the fields of the CRD formats, with  *)
(* as many samples of both channels of a chip, charges of 23 bits.  Slots, *)
(* chips and channels may have any number that the parsers can read,       *)
(* although the crates have 20 slots, the boards 8 chips, the FEASTs 54    *)
(* channels.  Only the first crates have a tracker.                        *)
(***************************************************************************)
Words64 == [1 .. 4 -> 0 .. 65535]

Charges == -4194304 .. 4194303

ChannelReadouts == [lto : BOOLEAN, ht : BOOLEAN, charge : Charges, adc : Seq(0 .. SAMPLE_ADC_MAX)]

ChipReadouts ==
  {r \in [type : {"CALO"}, slot : Nat, chip : Nat, trig : Nat, event : Nat, tdc : Words64,
          fcr : 0 .. 1023, ch : [1 .. 2 -> ChannelReadouts]] :
     /\ ~ TdcOverflows(r.tdc)
     /\ Len(r.ch[1].adc) = Len(r.ch[2].adc)
     /\ Len(r.ch[1].adc) <= SAMLONG_MAX_NUMBER_OF_SAMPLES}

RegisterReadouts ==
  [type : {"TRACKER"}, slot : Nat, feast : {0, 1}, channel : Nat, trig : Nat,
   category : {"AN"}, register : AnodeRegisters, time : Words64 \ {Invalid64}]
  \cup
  [type : {"TRACKER"}, slot : Nat, feast : {0, 1}, channel : Nat, trig : Nat,
   category : {"CA"}, register : CathodeRegisters \cup {"R0"}, time : Words64 \ {Invalid64}]

TrackerCrates == 0 .. NUMBER_OF_TRACKER_CRATES - 1

ASSUME WriterAssumption ==
  /\ \A s \in Sources : Config[s].crate \in Nat
  /\ \A ro \in Readouts : \A s \in Sources :
       /\ ro[s] \in Seq(ChipReadouts \cup RegisterReadouts)
       /\ \A n \in DOMAIN ro[s] : ro[s][n].type = "TRACKER" => Config[s].crate \in TrackerCrates

-----------------------------------------------------------------------------
FirstPlace(n) == [of |-> n, half |-> 1, part |-> "hit"]

NextHitPlace(r, p) ==
  IF r.type = "CALO" /\ p.half = 1
  THEN [of |-> p.of, half |-> 2, part |-> "hit"]
  ELSE FirstPlace(p.of + 1)

HasSamples(r, p) == r.type = "CALO" /\ r.ch[p.half].adc # << >>

NextPlace(r, p) ==
  CASE p.part = "hit" -> [p EXCEPT !.part = "data"]
    [] p.part = "data" /\ HasSamples(r, p) -> [p EXCEPT !.part = "samples"]
    [] OTHER -> NextHitPlace(r, p)

-----------------------------------------------------------------------------
HitLine(r, p, n) == [text |-> "hit", num |-> n, type |-> r.type, trig |-> r.trig, at |-> p]

ChannelData(s, r, p) ==
  [text |-> "channel", version |-> Config[s].version, slot |-> r.slot,
   channel |-> 2 * r.chip + p.half - 1, event |-> r.event, tdc |-> r.tdc, fcr |-> r.fcr,
   lto |-> r.ch[p.half].lto, ht |-> r.ch[p.half].ht, charge |-> r.ch[p.half].charge, at |-> p]

SamplesData(r, p) == [text |-> "samples", adc |-> r.ch[p.half].adc, at |-> p]

TimestampData(s, r, p) ==
  [text |-> "timestamp", version |-> Config[s].version, slot |-> r.slot, feast |-> r.feast,
   channel |-> r.channel, category |-> r.category, register |-> r.register, time |-> r.time,
   at |-> p]

LineFor(s, r, p, n) ==
  CASE p.part = "hit" -> HitLine(r, p, n)
    [] p.part = "samples" -> SamplesData(r, p)
    [] p.part = "data" /\ r.type = "CALO" -> ChannelData(s, r, p)
    [] p.part = "data" /\ r.type # "CALO" -> TimestampData(s, r, p)

-----------------------------------------------------------------------------
WriterInit ==
  /\ readout \in Readouts
  /\ place = [s \in Sources |-> FirstPlace(1)]
  /\ number = [s \in Sources |-> 0]
  /\ intact = TRUE
  /\ lines = [s \in Sources |-> << >>]

Written(s) == place[s].of > Len(readout[s])

Current(s) == readout[s][place[s].of]

Advance(s) ==
  /\ ~ Written(s)
  /\ place' = [place EXCEPT ![s] = NextPlace(Current(s), @)]
  /\ number' = [number EXCEPT ![s] = IF place[s].part = "hit" THEN @ + 1 ELSE @]
  /\ UNCHANGED readout

WriteLine(s) ==
  /\ Advance(s)
  /\ lines' = [lines EXCEPT ![s] = Append(@, LineFor(s, Current(s), place[s], number[s]))]
  /\ UNCHANGED intact

LoseLine(s) ==
  /\ s = Damaged
  /\ Advance(s)
  /\ intact' = FALSE
  /\ UNCHANGED lines

WriterStep(s) == WriteLine(s) \/ LoseLine(s)
=============================================================================
