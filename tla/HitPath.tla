------------------------------ MODULE HitPath ------------------------------
(***************************************************************************)
(* The way of the hits through the programs: the DAQ writes a CRD file per *)
(* crate, which may lose lines (CrdWriter), crd2rhd reads each (CrdReader), *)
(* rhd2rtd collects the hits of the files into one RTD for each trigger    *)
(* ID, rtd2root writes a row for each RTD (RtdToRoot).                     *)
(*                                                                         *)
(* Of rhd2rtd only what it promises for sorted files is taken here: see    *)
(* EventBuilding for the contract and RtdBuilder for how it keeps it.      *)
(***************************************************************************)
EXTENDS CrdWriter, RtdToRoot, SequencesExt

VARIABLE used   \* hits of each source that rhd2rtd has collected

vars == << writervars, readervars, convertervars, used >>

Init ==
  /\ WriterInit
  /\ ReaderInit
  /\ used = [s \in Sources |-> 0]
  /\ rtds = << >>
  /\ ConverterInit

-----------------------------------------------------------------------------
Write(s) == WriterStep(s) /\ UNCHANGED << pos, reading, hits, convertervars, used >>

Read(s) == Written(s) /\ ReaderStep(s) /\ UNCHANGED << writervars, convertervars, used >>

(***************************************************************************)
(* rhd2rtd starts once the hits of all the crates are there.  It takes the *)
(* hits of the smallest trigger ID that is left, those of each source in   *)
(* their order; which source comes first is up to its threads.             *)
(***************************************************************************)
AllRead == \A s \in Sources : reading[s] = "end"

Uncollected(s) == used[s] < Len(hits[s])

AllCollected == AllRead /\ \A s \in Sources : ~ Uncollected(s)

NextHit(s) == hits[s][used[s] + 1]

NewRtd(trig) == [trig |-> trig, calo |-> << >>, tracker |-> << >>]

WithHit(rtd, h) ==
  IF h.type = "CALO"
  THEN [rtd EXCEPT !.calo = Append(@, h)]
  ELSE [rtd EXCEPT !.tracker = Append(@, h)]

IsOldest(s) ==
  /\ AllRead /\ Uncollected(s)
  /\ \A p \in Sources : Uncollected(p) => NextHit(s).trig <= NextHit(p).trig

Collect(s) ==
  LET h == NextHit(s)
      isNew == rtds = << >> \/ Last(rtds).trig # h.trig
      open == IF isNew THEN Append(rtds, NewRtd(h.trig)) ELSE rtds
  IN  /\ IsOldest(s)
      /\ HitComplete(h)
      /\ rtds' = Front(open) \o << WithHit(Last(open), h) >>
      /\ used' = [used EXCEPT ![s] = @ + 1]
      /\ UNCHANGED << writervars, readervars, nprocessed, columns, rows, converting >>

Convert == AllCollected /\ ConverterStep /\ UNCHANGED << writervars, readervars, used >>

(***************************************************************************)
(* The chain ends with the conversion or with the first program that fails: *)
(* crd2rhd at a line, rhd2rtd at a hit that is not complete.               *)
(***************************************************************************)
ReadingFailed ==
  /\ \E s \in Sources : reading[s] = "failed"
  /\ \A s \in Sources : reading[s] # "hits"

CollectingFailed == \E s \in Sources : IsOldest(s) /\ ~ HitComplete(NextHit(s))

Ended ==
  /\ converting # "run" \/ ReadingFailed \/ CollectingFailed
  /\ UNCHANGED vars

Next ==
  \/ \E s \in Sources : Write(s) \/ Read(s) \/ Collect(s)
  \/ Convert
  \/ Ended

Spec == Init /\ [][Next]_vars

-----------------------------------------------------------------------------
(***************************************************************************)
(* A chip readout is recognised in a hit by where it comes from and by its *)
(* features: the lower 16 bits of numbers and charges, which is all that a *)
(* hit has of them, the flags if the format has them.                      *)
(***************************************************************************)
SameFeatures(s, f, c) ==
  /\ f.charge = ToInt16(c.charge)
  /\ HasFlags(s) => f.ht = c.ht /\ f.lt = (c.ht \/ c.lto)

IsReadoutOf(s, h, r) ==
  /\ r.type = "CALO"
  /\ h.trig = r.trig /\ h.board = ToInt16(r.slot) /\ h.chip = ToInt16(r.chip)
  /\ h.tdc = r.tdc /\ h.fcr = r.fcr
  /\ \A c \in 1 .. 2 : SameFeatures(s, h.ch[c], r.ch[c])

(***************************************************************************)
(* Two chips that are read out with the same header words, the second one  *)
(* the same chip or its right neighbour: their halves cannot be told apart.*)
(***************************************************************************)
Alike(r, q) ==
  /\ r.type = "CALO" /\ q.type = "CALO"
  /\ r.slot = q.slot /\ r.event = q.event /\ r.tdc = q.tdc /\ r.fcr = q.fcr
  /\ q.chip - r.chip \in {0, 1}

Confusable(s) ==
  \E j, k \in DOMAIN readout[s] : j < k /\ Alike(readout[s][j], readout[s][k])

(***************************************************************************)
(* Whatever lines a CRD file has lost, every calorimeter hit that crd2rhd  *)
(* gets out of it joins the two channels of one chip readout of the DAQ:   *)
(* the numbers in the HIT lines and the words both channels repeat reveal  *)
(* a half that is missing.  This fails only for chips that look alike, of  *)
(* which calo_hit_parser.cc:228 accepts the second half of one and the     *)
(* first half of the next.                                                 *)
(***************************************************************************)
DamageIsSeen ==
  \A s \in Sources : \A k \in DOMAIN hits[s] :
    hits[s][k].type = "CALO" /\ ~ Confusable(s) =>
      \E n \in DOMAIN readout[s] : IsReadoutOf(s, hits[s][k], readout[s][n])

(***************************************************************************)
(* A file that has all its lines is read to its end, hit by hit, if it is  *)
(* read with the options it was taken with, and each hit has what was read *)
(* out: samples, flags, charges and numbers, the last two if they fit into *)
(* the 16-bit variables of the parsers (see ChargesKept for the others).   *)
(***************************************************************************)
Expected(s, r) ==
  /\ r.type = "CALO" =>
       Config[s].calo /\ \A c \in 1 .. 2 : Config[s].waveforms = (r.ch[c].adc # << >>)
  /\ r.type = "TRACKER" => Config[s].tracker

Intact(s) == s # Damaged \/ intact

AsExpected(s) == Intact(s) /\ \A k \in DOMAIN readout[s] : Expected(s, readout[s][k])

NumbersFit(r) ==
  /\ Fits16(r.slot)
  /\ r.type = "CALO" => Fits16(r.chip)
  /\ r.type = "TRACKER" => Fits16(r.channel)

SamplesOf(r) == [i \in 1 .. Len(r.ch[1].adc) |-> << r.ch[1].adc[i], r.ch[2].adc[i] >>]

DeliversFeatures(s, f, c) ==
  /\ Fits16(c.charge) => f.charge = c.charge
  /\ HasFlags(s) => f.ht = c.ht /\ f.lt = (c.ht \/ c.lto)

DeliversChip(s, h, r) ==
  /\ NumbersFit(r) => h.board = r.slot /\ h.chip = r.chip
  /\ h.tdc = r.tdc /\ h.fcr = r.fcr /\ h.samples = SamplesOf(r)
  /\ \A c \in 1 .. 2 : DeliversFeatures(s, h.ch[c], r.ch[c])

DeliversRegister(h, r) ==
  /\ NumbersFit(r) => h.board = r.slot /\ h.channel = r.channel
  /\ h.chip = r.feast /\ h.category = r.category /\ h.time = r.time

Delivers(s, h, r) ==
  /\ h.type = r.type /\ h.trig = r.trig
  /\ r.type = "CALO" => DeliversChip(s, h, r)
  /\ r.type = "TRACKER" => DeliversRegister(h, r)

IntactIsRead ==
  \A s \in Sources : AsExpected(s) =>
    /\ reading[s] # "failed"
    /\ reading[s] = "end" => Len(hits[s]) = Len(readout[s])
    /\ \A k \in DOMAIN hits[s] : Delivers(s, hits[s][k], readout[s][k])

(***************************************************************************)
(* What calo_hit_record.h:220-221 says (a charge of 23 bits): a hit out of *)
(* a file that has all its lines has the charges that were read out.       *)
(***************************************************************************)
ChargesKept ==
  \A s \in Sources : AsExpected(s) =>
    \A k \in DOMAIN hits[s] : hits[s][k].type = "CALO" =>
      \A c \in 1 .. 2 : hits[s][k].ch[c].charge = readout[s][k].ch[c].charge

(***************************************************************************)
(* crd2rhd never delivers a hit that is not complete, on which rhd2rtd     *)
(* would die (rtd_record::install_rhd throws), out of a file whose slots,  *)
(* chips and channels have numbers that fit into 16 bits, whatever lines   *)
(* it has lost.  Without that a slot 65535 becomes the invalid number, and *)
(* make(), which is to refuse it, does not.                                *)
(***************************************************************************)
HitsComplete ==
  \A s \in Sources : (\A n \in DOMAIN readout[s] : NumbersFit(readout[s][n])) =>
    \A k \in DOMAIN hits[s] : HitComplete(hits[s][k])

(***************************************************************************)
(* What a row declares to have (its first hits, and the first samples of   *)
(* each) is what its RTD has, whatever the rows before it left in the      *)
(* arrays.  The calo_tdc column is left out here, see TdcExported.         *)
(***************************************************************************)
RowsFaithful ==
  \A n \in DOMAIN rows :
    /\ rows[n].trig = rtds[n].trig
    /\ rows[n].tracker = rtds[n].tracker
    /\ rows[n].calo = [k \in DOMAIN rtds[n].calo |-> Entry(rtds[n].calo[k])]
    /\ \A k \in DOMAIN rtds[n].calo :
         SubSeq(rows[n].samples[k], 1, rows[n].calo[k].nsamples) = rtds[n].calo[k].samples

(***************************************************************************)
(* The conversion ends with a row for each RTD up to the limit, unless one *)
(* of these has a calorimeter hit without waveforms: then, and only then,  *)
(* it fails.                                                               *)
(***************************************************************************)
Wanted == IF MaxRows > 0 /\ MaxRows < Len(rtds) THEN MaxRows ELSE Len(rtds)

Exportable(n) == \A k \in DOMAIN rtds[n].calo : rtds[n].calo[k].waveforms

ConversionOutcome ==
  /\ converting = "done" => Len(rows) = Wanted
  /\ converting = "failed" => \E n \in 1 .. Wanted : ~ Exportable(n)
  /\ converting # "run" /\ (\A n \in 1 .. Wanted : Exportable(n)) => converting = "done"

(***************************************************************************)
(* What rtd2root_data.h:48 says (a 64-bit TDC for each calorimeter hit):   *)
(* the TDC of each hit is in the row, at least its lower 16 bits.          *)
(***************************************************************************)
TdcExported ==
  \A n \in DOMAIN rows : \A k \in DOMAIN rtds[n].calo :
    rows[n].tdc[k] = rtds[n].calo[k].tdc[1]
=============================================================================
