------------------------------ MODULE RhdSort ------------------------------
(***************************************************************************)
(* The sorter of raw hit data (RHD), snfee-rhdsort: class rhd_sorter of    *)
(* vendor_snfee/io/rhd_sorter.{h,cc}, with the trigger ID comparator of    *)
(* vendor_snfee/data/utils.h and raw_record_flow_statistics.  It reads     *)
(* records through a multi-file reader into a circular buffer; whenever    *)
(* the buffer is full it is sorted and its first half goes to a multi-file *)
(* writer.  In evaluation mode nothing is written; the inversions of the   *)
(* input are measured instead.                                             *)
(*                                                                         *)
(* A record is [num, clock]: its number in the input and the number of its *)
(* trigger since the start of the run.  The electronics counts triggers in *)
(* 24 bits, four quarters of Quarter = 2^22: only trigger_id of a record   *)
(* is known to the program, the clock is there for the properties.  All    *)
(* records have a known type; the counters of the reports are left out.    *)
(***************************************************************************)
EXTENDS MultifileReader, Functions

CONSTANTS
  Quarter,           \* LOWER_SAFE_TID
  InputLists,        \* possible lists of input files
  Capacities,        \* possible sort_buffer_size
  EvaluationBuffer,  \* evaluation_buffer_size
  OutputFiles,       \* number of output_rhd_filenames
  MaxPerFile         \* max_records_per_file

Rhd == [num : Nat, clock : Nat]

\* The records are numbered in the order in which they are in the files.
Numbered(l) ==
  \A k, m \in DOMAIN l : \A i \in DOMAIN l[k].recs, j \in DOMAIN l[m].recs :
    k < m \/ (k = m /\ i < j) => l[k].recs[i].num < l[m].recs[j].num

ASSUME RhdSortAssumption ==
  /\ InputLists \subseteq Seq([readable : BOOLEAN, recs : Seq(Rhd)])
  /\ \A l \in InputLists : Numbered(l)
  /\ Quarter \in Nat \ {0}
  /\ Capacities \subseteq Nat
  /\ EvaluationBuffer \in Nat
  /\ OutputFiles \in Nat \ {0}
  /\ MaxPerFile \in Nat

VARIABLES
  mode,          \* "sort", "no store" or "evaluation"
  capacity,      \* capacity of cbuffer
  pc,            \* "initialize", "input", "output" (half the buffer), "finalize", "returned"
                 \* or "failed" (an exception)
  cbuffer,       \* the circular buffer
  npop,          \* records still to be popped from it
  output,        \* the records that passed _output_sorted_record_
  maxOutput,     \* max_output_trigger_id
  firsts,        \* _first_positions_, by trigger ID
  maxInversion,  \* _max_inversion_distance_
  filenames, files, nrecords, counter, terminated   \* of the writer

writervars == << filenames, files, nrecords, counter, terminated >>
statvars == << firsts, maxInversion >>
vars == << filevars, writervars, statvars, mode, capacity, pc, cbuffer, npop, output, maxOutput >>

Writer == INSTANCE MultifileWriter WITH MaxTotal <- 0, TerminateOnOverrun <- FALSE

Init ==
  /\ infiles \in InputLists
  /\ mode \in {"sort", "no store", "evaluation"}
  /\ capacity \in Capacities
  /\ current = 0
  /\ taken = 0
  /\ pc = "initialize"
  /\ cbuffer = << >>
  /\ npop = 0
  /\ output = << >>
  /\ maxOutput = -1
  /\ firsts = << >>
  /\ maxInversion = -1
  /\ Writer!WriterInit(OutputFiles)

-----------------------------------------------------------------------------
TriggerId(r) == r.clock % (4 * Quarter)

\* Mutant: the wrap of the trigger IDs is not seen.
TriggerIdLessPlain(a, b) == a < b

(***************************************************************************)
(* trigger_id_comparator_type: an ID of the last quarter is less than one  *)
(* of the first, which comes after the overflow.                           *)
(***************************************************************************)
TriggerIdLess(a, b) ==
  \/ a > 3 * Quarter /\ b < Quarter
  \/ ~ (a < Quarter /\ b > 3 * Quarter) /\ a < b

Less(r, q) == TriggerIdLess(TriggerId(r), TriggerId(q))

(***************************************************************************)
(* std::sort.  It is not stable; on a buffer where the comparator is no    *)
(* ordering (IDs from all over the range) its effect is undefined: any     *)
(* order may come out.                                                     *)
(***************************************************************************)
Arrangements(recs) ==
  {[k \in DOMAIN recs |-> recs[p[k]]] : p \in Bijection(DOMAIN recs, DOMAIN recs)}

IsOrdered(recs) == \A j, k \in DOMAIN recs : j < k => ~ Less(recs[k], recs[j])

IsOrdering(recs) ==
  \A i, j, k \in DOMAIN recs : Less(recs[i], recs[j]) /\ Less(recs[j], recs[k]) => Less(recs[i], recs[k])

Sortings(recs) ==
  IF IsOrdering(recs) THEN {s \in Arrangements(recs) : IsOrdered(s)} ELSE Arrangements(recs)

(***************************************************************************)
(* boost::circular_buffer::push_back: a full buffer loses its front, one   *)
(* without capacity takes nothing.                                         *)
(***************************************************************************)
PushBack(recs, r) ==
  IF capacity = 0 THEN recs
  ELSE IF Len(recs) = capacity THEN Append(Tail(recs), r)
  ELSE Append(recs, r)

-----------------------------------------------------------------------------
(***************************************************************************)
(* raw_record_flow_statistics::add: the trigger ID is compared with those  *)
(* seen first at their positions, in increasing order up to the first that *)
(* is greater.  Without inversion the IDs further behind than the buffer   *)
(* are forgotten.                                                          *)
(***************************************************************************)
Noted(id, position) ==
  [i \in DOMAIN firsts \cup {id} |-> IF i \in DOMAIN firsts THEN firsts[i] ELSE position]

Greater(id) == {i \in DOMAIN firsts : id < i}

\* Mutant: a trigger ID that was seen before counts as an inversion.
AddStatisticsEqual(id, position) ==
  LET notLess == Greater(id) \cup (DOMAIN firsts \cap {id})
  IN  /\ firsts' = Noted(id, position)
      /\ maxInversion' = IF notLess = {} THEN maxInversion
                         ELSE Max({maxInversion, position - firsts[Min(notLess)]})

AddStatistics(id, position) ==
  IF Greater(id) # {}
  THEN /\ firsts' = Noted(id, position)
       /\ maxInversion' = Max({maxInversion, position - firsts[Min(Greater(id))]})
  ELSE /\ firsts' = Restrict(Noted(id, position),
                             {i \in DOMAIN firsts \cup {id} : id <= i + EvaluationBuffer})
       /\ UNCHANGED maxInversion

-----------------------------------------------------------------------------
(***************************************************************************)
(* initialize(): the reader opens its first file.                          *)
(***************************************************************************)
Initialize ==
  /\ pc = "initialize"
  /\ \/ OpenFirst /\ pc' = "input"
     \/ ~ CanOpen /\ pc' = "failed" /\ UNCHANGED filevars
  /\ UNCHANGED << writervars, statvars, mode, capacity, cbuffer, npop, output, maxOutput >>

\* Mutant: two thirds of the buffer are output, too many.
HalfOfMore(n) == (2 * n + 2) \div 3

HalfOf(n) == n \div 2

(***************************************************************************)
(* _input_unsorted_record_ and _process_data_ up to the sort.              *)
(***************************************************************************)
Input ==
  LET r == NextRecord
      pushed == PushBack(cbuffer, r)
      full == Len(pushed) = capacity
  IN  /\ pc = "input"
      /\ HasRecordTag
      /\ FindAndLoad
      /\ IF mode = "evaluation" THEN AddStatistics(TriggerId(r), r.num) ELSE UNCHANGED statvars
      /\ IF full THEN cbuffer' \in Sortings(pushed) ELSE cbuffer' = pushed
      /\ npop' = IF full THEN HalfOf(Len(pushed)) ELSE 0
      /\ pc' = IF full THEN "output" ELSE "input"
      /\ UNCHANGED << writervars, mode, capacity, output, maxOutput >>

InputThrows ==
  /\ pc = "input"
  /\ FindThrows
  /\ Find
  /\ pc' = "failed"
  /\ UNCHANGED << writervars, statvars, mode, capacity, cbuffer, npop, output, maxOutput >>

\* Mutant: the run ends with the input, without _finalize_.
EndWithoutFinalize ==
  /\ pc = "input"
  /\ NoRecordTag
  /\ Find
  /\ pc' = "returned"
  /\ UNCHANGED << writervars, statvars, mode, capacity, cbuffer, npop, output, maxOutput >>

(***************************************************************************)
(* The end of the input: _finalize_ sorts what is left and outputs all.    *)
(***************************************************************************)
EndOfInput ==
  /\ pc = "input"
  /\ NoRecordTag
  /\ Find
  /\ cbuffer' \in Sortings(cbuffer)
  /\ npop' = Len(cbuffer)
  /\ pc' = "finalize"
  /\ UNCHANGED << writervars, statvars, mode, capacity, output, maxOutput >>

(***************************************************************************)
(* One turn of the loops that pop the front record and output it.  The     *)
(* record is already off the buffer when it turns out to be too late, or   *)
(* the writer to have no file for it.                                      *)
(***************************************************************************)
TooLate(r) == maxOutput >= 0 /\ TriggerIdLess(TriggerId(r), maxOutput)

Stored == mode = "sort"

PopOne ==
  /\ pc \in {"output", "finalize"}
  /\ npop > 0
  /\ cbuffer' = Tail(cbuffer)
  /\ UNCHANGED << filevars, statvars, mode, capacity >>

MaxAfter(r) ==
  IF maxOutput < 0 \/ TriggerIdLess(maxOutput, TriggerId(r)) THEN TriggerId(r) ELSE maxOutput

OutputThrows ==
  LET r == Head(cbuffer)
  IN  /\ PopOne
      /\ TooLate(r) \/ (Stored /\ Writer!StoreThrows)
      /\ pc' = "failed"
      /\ maxOutput' = IF TooLate(r) THEN maxOutput ELSE MaxAfter(r)
      /\ UNCHANGED << writervars, npop, output >>

OutputOne ==
  LET r == Head(cbuffer)
  IN  /\ PopOne
      /\ ~ TooLate(r)
      /\ IF Stored THEN Writer!StoreWrites(r) ELSE UNCHANGED writervars
      /\ npop' = npop - 1
      /\ output' = Append(output, r)
      /\ maxOutput' = MaxAfter(r)
      /\ UNCHANGED pc

(***************************************************************************)
(* The end of the loops.  run() would also leave its loop for a terminated *)
(* writer, but without a limit on all records its writer never is.         *)
(***************************************************************************)
OutputDone ==
  /\ pc \in {"output", "finalize"}
  /\ npop = 0
  /\ pc' = IF pc = "finalize" THEN "returned" ELSE "input"
  /\ UNCHANGED << filevars, writervars, statvars, mode, capacity, cbuffer, npop, output, maxOutput >>

Next ==
  \/ Initialize \/ Input \/ InputThrows \/ EndOfInput
  \/ OutputThrows \/ OutputOne \/ OutputDone

Spec == Init /\ [][Next]_vars

-----------------------------------------------------------------------------
InputRecords == UNION {Range(infiles[k].recs) : k \in DOMAIN infiles}

(***************************************************************************)
(* A run of less than a quarter of the trigger IDs, wherever it begins.    *)
(***************************************************************************)
InQuarter == \A q, r \in InputRecords : r.clock - q.clock < Quarter

(***************************************************************************)
(* Whatever the buffer, the records come out by increasing trigger, also   *)
(* across the overflow of the trigger ID: a record that is too late for    *)
(* that ends the run (rhd_sorter.cc:247) instead of going out of order.    *)
(***************************************************************************)
OutputInOrder ==
  InQuarter => \A j, k \in DOMAIN output : j < k => output[j].clock <= output[k].clock

(***************************************************************************)
(* A run that returns has output every record of every file, each once:    *)
(* the circular buffer is never pushed to when it is full, since half of   *)
(* it is always output before.  But a capacity of 1 has no half, and only  *)
(* the last record comes out; with 0, none does.                           *)
(***************************************************************************)
Delivered ==
  IF capacity = 0 THEN {}
  ELSE IF capacity = 1 THEN {r \in InputRecords : \A q \in InputRecords : q.num <= r.num}
  ELSE InputRecords

AllDelivered ==
  pc = "returned" => Range(output) = Delivered /\ Len(output) = Cardinality(Delivered)

(***************************************************************************)
(* A buffer that keeps at least as many records as overtook any record of  *)
(* the input is large enough: the run does not fail for a late record.     *)
(***************************************************************************)
Overtook(r) == {q \in InputRecords : q.num < r.num /\ q.clock > r.clock}

LargeEnough ==
  capacity > 1 /\ \A r \in InputRecords : Cardinality(Overtook(r)) <= capacity - capacity \div 2

OtherFailure ==
  \/ ~ CanOpen
  \/ ~ infiles[current].readable
  \/ Stored /\ Writer!StoreThrows

LargeBufferSuffices == InQuarter /\ LargeEnough /\ pc = "failed" => OtherFailure

(***************************************************************************)
(* A run that returns has read all its input files; one that cannot be     *)
(* opened, noticed as late as has_record_tag() comes to it, ends the run.  *)
(***************************************************************************)
ReturnsAfterAllFiles == pc = "returned" => \A k \in DOMAIN infiles : infiles[k].readable

(***************************************************************************)
(* The evaluation reports an inversion if and only if the trigger IDs are  *)
(* not sorted, although it forgets IDs, and what it reports is the         *)
(* distance of two records that are inverted.  (Not the greatest such      *)
(* distance: it takes the next greater ID, not the first one.)             *)
(***************************************************************************)
InversionDistances ==
  {p[2].num - p[1].num : p \in {o \in InputRecords \X InputRecords :
     o[1].num < o[2].num /\ TriggerId(o[1]) > TriggerId(o[2])}}

EvaluationDetects ==
  mode = "evaluation" /\ pc = "returned" =>
    IF InversionDistances = {} THEN maxInversion = -1 ELSE maxInversion \in InversionDistances
=============================================================================
