----------------------------- MODULE RtdToRoot -----------------------------
(***************************************************************************)
(* The converter of programs/rtd2root: it loads one raw trigger data (RTD) *)
(* record after the other, copies it into the arrays of rtd2root_data and  *)
(* fills one row of a ROOT tree with them.                                 *)
(*                                                                         *)
(* The arrays live as long as the converter and are never cleared; a row   *)
(* has the first nb_calo_hits (nb_tracker_hits) entries of each.  An array *)
(* is modelled as far as it has been written.  The arrays hold 800         *)
(* calorimeter and 15000 tracker hits, unchecked; the detector has 480     *)
(* SAMLONG chips and less than 15000 registers, so one record of each fits. *)
(***************************************************************************)
EXTENDS Integers, Sequences

CONSTANT MaxRows   \* config_type::max_total_records, 0 for no limit

ASSUME RowsAssumption == MaxRows \in Nat

VARIABLES
  rtds,         \* the RTD records in the input files
  nprocessed,   \* nb_processed_counter
  columns,      \* the members of rtd2root_data
  rows,         \* the rows filled so far
  converting    \* "run", "done" or "failed" (an exception)

convertervars == << rtds, nprocessed, columns, rows, converting >>

-----------------------------------------------------------------------------
\* An array after its first Len(new) entries were assigned.
Overwrite(old, new) == new \o SubSeq(old, Len(new) + 1, Len(old))

OldSamples(k) == IF k <= Len(columns.samples) THEN columns.samples[k] ELSE << >>

\* The entries of the columns of a calorimeter hit, but for its samples.
Entry(h) ==
  [tdc |-> h.tdc, crate |-> h.crate, board |-> h.board, chip |-> h.chip, event |-> h.event,
   l2 |-> h.l2, fcr |-> h.fcr, waveforms |-> h.waveforms, start |-> h.start,
   nsamples |-> h.nsamples, ch |-> h.ch]

\* Mutant: the number of hits is set with the first hit only (no clear()).
ExportedNoClear(rtd) ==
  [trig |-> rtd.trig,
   ncalo |-> IF rtd.calo = << >> THEN columns.ncalo ELSE Len(rtd.calo),
   ntracker |-> Len(rtd.tracker),
   calo |-> Overwrite(columns.calo, [k \in DOMAIN rtd.calo |-> Entry(rtd.calo[k])]),
   samples |-> Overwrite(columns.samples,
                 [k \in DOMAIN rtd.calo |-> Overwrite(OldSamples(k), rtd.calo[k].samples)]),
   tracker |-> Overwrite(columns.tracker, rtd.tracker)]

(***************************************************************************)
(* export_to_root.                                                         *)
(***************************************************************************)
Exported(rtd) ==
  [trig |-> rtd.trig,
   ncalo |-> Len(rtd.calo),
   ntracker |-> Len(rtd.tracker),
   calo |-> Overwrite(columns.calo, [k \in DOMAIN rtd.calo |-> Entry(rtd.calo[k])]),
   samples |-> Overwrite(columns.samples,
                 [k \in DOMAIN rtd.calo |-> Overwrite(OldSamples(k), rtd.calo[k].samples)]),
   tracker |-> Overwrite(columns.tracker, rtd.tracker)]

(***************************************************************************)
(* It asks every calorimeter hit for its waveform position, which a hit    *)
(* without waveforms answers with an exception.                            *)
(***************************************************************************)
ExportThrows(rtd) == \E k \in DOMAIN rtd.calo : ~ rtd.calo[k].waveforms

(***************************************************************************)
(* TTree::Fill with the branches that initialize() declares.  Branch       *)
(* calo_tdc is declared /S: its entry k is the k-th 16-bit word of an      *)
(* array of 64-bit TDCs.  The sample branches write whole array rows.      *)
(***************************************************************************)
TdcWord(cols, k) == cols.calo[((k - 1) \div 4) + 1].tdc[((k - 1) % 4) + 1]

Row(cols) ==
  [trig |-> cols.trig,
   calo |-> SubSeq(cols.calo, 1, cols.ncalo),
   tdc |-> [k \in 1 .. cols.ncalo |-> TdcWord(cols, k)],
   samples |-> SubSeq(cols.samples, 1, cols.ncalo),
   tracker |-> SubSeq(cols.tracker, 1, cols.ntracker)]

-----------------------------------------------------------------------------
ConverterInit ==
  /\ nprocessed = 0
  /\ columns = [trig |-> -1, ncalo |-> 0, ntracker |-> 0, calo |-> << >>, samples |-> << >>,
                tracker |-> << >>]
  /\ rows = << >>
  /\ converting = "run"

NextRtd == rtds[nprocessed + 1]

\* Mutant: the limit is looked at before the row is counted.
AtLimitBefore(saved) == MaxRows > 0 /\ saved = MaxRows + 1

AtLimit(saved) == MaxRows > 0 /\ saved = MaxRows

ConvertNext ==
  /\ converting = "run"
  /\ nprocessed < Len(rtds)
  /\ ~ ExportThrows(NextRtd)
  /\ nprocessed' = nprocessed + 1
  /\ columns' = Exported(NextRtd)
  /\ rows' = Append(rows, Row(columns'))
  /\ converting' = IF AtLimit(Len(rows')) THEN "done" ELSE "run"
  /\ UNCHANGED rtds

ConvertFails ==
  /\ converting = "run"
  /\ nprocessed < Len(rtds)
  /\ ExportThrows(NextRtd)
  /\ nprocessed' = nprocessed + 1
  /\ converting' = "failed"
  /\ UNCHANGED << rtds, columns, rows >>

ConvertEnds ==
  /\ converting = "run"
  /\ nprocessed = Len(rtds)
  /\ converting' = "done"
  /\ UNCHANGED << rtds, nprocessed, columns, rows >>

ConverterStep == ConvertNext \/ ConvertFails \/ ConvertEnds
=============================================================================
