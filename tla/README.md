# SNRawDataProducts: specifications of the raw data programs

SNRawDataProducts converts the raw data of the SuperNEMO commissioning runs. Three programs and a
sorter carry its logic. `crd2rhd` parses text files of the acquisition (CRD, commissioning raw data) into
raw hit data (RHD) files. `rhdsort` (class `rhd_sorter` of the vendored library) puts the records of an RHD
file in the order of their trigger IDs. `rhd2rtd` reads the RHD files of several crates in parallel and builds
raw trigger data (RTD): one record with all the hits of a trigger ID. `rtd2root` writes a row of a ROOT tree
for each RTD. This directory has TLA+ modules of them, TLC runs that check them on small instances, and TLAPS
proofs about all of them. Source paths below are relative to `src/`; `builder.cc` is
`programs/rhd2rtd/builder.cc` and `rhd_sorter.cc` is `vendor_snfee/io/rhd_sorter.cc`.

## 1. Inventory

| Component | State | Operations | Interacts with | Status |
|---|---|---|---|---|
| RTD builder, input buffers (`builder.cc` 180-560) | FIFO of records, set of its trigger IDs, front trigger ID, terminated flag | `can_push`, `insert_record`, `pop_record`, `get_next_poppable_trig_id`, `is_finished`, `terminate` | input workers (push), merger (pop), one mutex each | `RhdBuffer` |
| RTD builder, threads (`builder.cc` 560-1495, `rhd_record`, `rtd_record`) | per input worker: its reader, the loaded record, stop flag; merger: working RTD, pass variables; output buffer; output worker: counters, writer | `input_worker::run`, `rhd2rtd_merger::run`, `output_worker::run`, `builder::run` | shared buffers under mutexes; exceptions end the process | `RtdBuilder` |
| Multi-file writer (`snfee/io/multifile_data_writer`) | list of files, current file, two counters, terminated flag | constructor, `store`, `terminate`, `is_terminated`, `is_last_file`, `add_filename` | called by the output worker and by `crd2rhd` | `MultifileWriter` |
| `crd2rhd` program (`programs/crd2rhd/crd2rhd.cxx`) | loop counters, list of output files, next fake trigger ID, a save file on disk | one session: load the number, read and store records, save the number | writer; earlier and later sessions through the save file | `Crd2Rhd` |
| Multi-file reader (`snfee/io/multifile_data_reader`) | list of files, current file, position in it | constructor, `has_record_tag` with the change of file, `load` | sorter, input workers | `MultifileReader`; the input workers keep one sequence of records each |
| CRD parsers (`programs/crd2rhd/raw_hit_reader`, `raw_record_parser`, `calo_hit_parser`, `tracker_hit_parser`) | the text stream, the record under construction | `load_next_hit`: a HIT line and the lines of a calorimeter or tracker record | `crd2rhd` | `CrdReader`; grammars by what they accept |
| Hit records (`snfee/data/calo_hit_record`, `tracker_hit_record`) | fields with their invalid values | `make`, `is_complete`, waveforms | all programs | `HitRecords` |
| `rtd2root` (`rtd2root_converter`, `rtd2root_data`) | fixed-size arrays used for every row, counters | fill the arrays, write a row, stop at a limit | reads RTDs, ROOT | `RtdToRoot` |
| RHD sorter (`vendor_snfee/io/rhd_sorter`, `data/utils.h`, `io/raw_record_flow_statistics`) | circular buffer, greatest trigger ID output, statistics | `initialize`, `run`: push, sort a full buffer, output half of it, finalize | reader and writer | `RhdSort` |
| Builder configuration (`builder_config`, `rhd2rtd.cxx`) | values | read, check, print | its values are the constants of `RtdBuilder` | not modelled, see 7 |
| Trigger records, reformatted RTD, `rhd2root`, `not_data`, the rest of `vendor_snfee`, `examples`, electronics tables | | | | not modelled, see 7 |

What is hard, and what makes each component correct:

- **Threads of the builder.** One thread per input fills a bounded buffer; the merger looks at the
  buffers one lock at a time and decides from what it saw, perhaps long ago, which trigger ID is
  next, that an RTD is complete, and that nothing more will come. Correct means: each RTD has all
  the records of its trigger ID and each of them once; RTDs come out in order; no record is lost at
  the end; no thread waits for ever; what kills the process depends on the data only.
- **Input buffer.** The check for unsorted records looks at the present content of the buffer only;
  the insertion of an unsorted record has branches that are not exclusive.
- **Writer.** A full file is detected one store later, by equality of counters; an overrun either
  throws or silently terminates. Correct means: files are filled in order, nothing is written twice,
  and what is in the files is exactly a prefix of what was given.
- **crd2rhd.** Two limits, the addition of output files and the writer's own limits interact at the
  end of the loop body; the number saved on disk survives crashes. Correct means: fake trigger IDs do
  not repeat, and a session that returns has stored what its options select.
- **CRD parsers.** A calorimeter hit is made of two halves that follow one another in a text file; lines can be
  missing. Correct means: a file that is whole is read to its end, hit by hit, and out of a damaged one no hit
  is put together of halves that do not belong together.
- **rtd2root.** Arrays that are not cleared between rows, sizes declared apart from the arrays. Correct means:
  what a row declares to have is what its RTD has.
- **Sorter.** Only a window of the input is ever sorted, trigger IDs overflow at 2^24, a circular buffer forgets
  its oldest element without a word. Correct means: what is output is in the order of the triggers, every
  record is output once, and a buffer as large as the delays of the records is large enough.

`PROJECT.json` lists all the hazards at their lines, with the properties that would catch them.

## 2. Modules

| Module | What it is |
|---|---|
| `RhdBuffer` | `struct rhd_buffer` as a value and one operator per member function |
| `MultifileWriter` | the writer; its operations are actions on five variables |
| `RtdBuilder` | all the threads of a builder run, on `RhdBuffer` values and an instance of `MultifileWriter` |
| `EventBuilding` | abstract specification: group records by trigger ID, emit the oldest complete event |
| `RtdBuilderProps` | properties of the builder, the refinement mapping and the inductive invariant |
| `MCRtdBuilder` | instances of the builder for TLC |
| `Crd2Rhd`, `MCCrd2Rhd` | sessions of `crd2rhd`, on two instances of `MultifileWriter`; instances for TLC |
| `MultifileReader` | the reader; its operations are actions on three variables |
| `RhdSort`, `MCRhdSort` | the sorter, on the reader and an instance of `MultifileWriter`; instances for TLC |
| `HitRecords` | hit records as values: when they are complete, what `make` refuses |
| `CrdWriter` | the DAQ (external): CRD files written line by line, one of which loses lines |
| `CrdReader` | `load_next_hit` with the parsers, on lines of text that are what the grammars extract |
| `RtdToRoot` | rows of the ROOT tree from RTDs |
| `HitPath`, `MCHitPath` | the chain: the DAQ writes CRD files and lines get lost (`CrdWriter`), `crd2rhd` reads, RTDs are collected, `rtd2root` converts; instances for TLC |
| `RhdBufferProofs` | lemmas on the buffer operators |
| `RtdBuilderProofs` | type correctness of the builder |
| `EventProofs` | the inductive invariant of the merger and the theorems on events |
| `OutcomeProofs` | what is in the builder's files, what a run that returns has written, which runs fail; the builder implements `EventBuilding` |
| `ReturnProofs` | which runs return: acceptable inputs, and none with a shallow input |
| `RhdSortProofs` | the sorter: order, completeness, the buffer that is large enough, the evaluation |
| `Crd2RhdProofs` | the output files of `crd2rhd`, the records it selects and its fake trigger IDs over sessions |
| `HitPathProofs` | what the parsers make of whole and of damaged files, and the rows of `rtd2root` |

### RtdBuilder and the code

The grain is the critical section. Every section of code under a mutex is one action, together with
what the thread does on its own variables before the next one. Two sections loop while they hold the
mutex and are several actions: the merger popping from an input buffer (`popping`, then the input
thread of that buffer cannot enter) and the output worker draining (`opc = "drain"`, then the merger
cannot push). A polling pass that changes nothing, such as a full buffer, is a stuttering step; the
sleeps of the threads have no effect of their own.

| Variables | Code |
|---|---|
| `stream`, `taken` | what the reader of an input worker delivers, and `_records_counter_` |
| `held`, `running` | the loaded record `rec`, `_stop_request_` of an input worker |
| `ibuf` | `rhd_buffer` objects |
| `mpc`, `midx`, `mmin`, `popping`, `nfinished`, `allFin`, `rtd` | program counter and local variables of `rhd2rtd_merger::run`, `working_rtd_rec` |
| `built` | history: the RTDs pushed, in order |
| `obuf`, `oterm` | the output buffer |
| `opc`, `ostop`, `orecords`, `ostored` | `output_worker::run` |
| `filenames`, `files`, `nrecords`, `counter`, `terminated` | its writer |
| `aborted` | an exception has left a thread function, which is `std::terminate` |

| Actions | Code (`builder.cc`) |
|---|---|
| `LoadRecord`, `InsertHeld`, `TerminateInput`, `InputThrows` | 621-750 |
| `ScanBuffer` | 940-985, one lock per buffer |
| `PushRtd`, `BeginCollect`, `SkipCollect`, `PopMatching`, `LeaveBuffer`, `CountBuffer`, `TerminateOutput`, `MergerThrows` | 987-1180 |
| `LockOutput`, `StoreRtd`, `DropRtd`, `UnlockOutput`, `OutputThrows` | 1251-1306 |

A record is `[src, pos, trig, kind]`: its place (identity), trigger ID, and what it is. Kinds are
calorimeter and tracker hits, trigger records, records that fail `is_complete()` and serialized
objects that are no RHD. Abstractions: the run identifier is taken as set; file-system failures are
left out (each is an exception that ends the process); an input worker has its records as one
sequence, the change of input file is in the module of the reader, `MultifileReader`.

### Crd2Rhd and the code

A session goes through `load` (334-354), `read` and `control` (the reader loop, 386-487, with the
end of its body), `save` and `saving` (489-494: opening the save file truncates it before the number
is written) and `exit`. It may crash at any of these. The parsing of CRD text is not modelled: a CRD
record has a kind, `other` stands for what the program rejects. Between two sessions the variables of
the process have fixed values. Sessions run one after the other, and all with the same session ID.
Runs without an output file, which only read, are left out.

`kept` is history: the set of the fake trigger IDs in the files of the sessions that returned. IDs of a session
that failed are used again by the next one, by the design of the save at the end; its files are not
counted as kept.

### RhdSort and the code

A record is `[num, clock]`: its place in the input and the number of its trigger since the start of the run. The
program sees `TriggerId`, the clock modulo `4 * Quarter`, of which `trigger_id_comparator_type` (`utils.h`
33-59) compares two. The steps are one `has_record_tag` with the load, the push and the sort of a full buffer
(`Input`), each turn of a loop that outputs a record (`OutputOne`, `OutputThrows`) and the ends of the loops.
`std::sort` gives any sorted arrangement, and any arrangement at all if the comparator is no ordering on the
buffer (IDs from all over the range). Left out: the counters of the reports, and records of unknown type, which
the program would carry as null pointers. `run` also asks the writer whether it is terminated; without a limit
on all records, which the sorter does not set, it never is.

### HitPath and the code

A line of a CRD file is `[text, ...]` with the grammar that accepts it and what the grammar extracts; the
grammars of the software versions differ in what they are given to read. One step of `CrdReader` is one
`load_next_hit`. The DAQ (external, `CrdWriter`) writes what the grammars of its version describe, line by line: two
halves with consecutive hit numbers for a chip, each a HIT line, a channel line and a line of samples if there are any;
a HIT line and a timestamp line for a tracker register. `place` is the readout, the half and the part of the next line.
Any line of the source `Damaged` may get lost when it is its turn (`LoseLine`), and its hit number is used up
nevertheless. `crd2rhd` reads a file that is written to its end. A line keeps its place in the field `at`, which no
parser looks at: it is there for the invariants. `WriterAssumption` is what the formats give: the TDC has 40 bits, the FCR 10, the charge 23,
an ADC value 12, a timestamp is not the invalid one, a channel has no more samples than a SAMLONG has cells, both channels of a chip have as many,
tracker registers come from the crates that have a tracker. Slots, chips and channels are not bounded by it, although the crates have
20 slots.

The parsers put slot, chip, channel, charge and ADC values through 16-bit variables (`ToInt16`, `AdcAt`), and what does not fit comes out as
another number: slot 65535 becomes -1, which is the invalid number, and `make()` lets it through. `rhd2rtd` then dies of
the hit, because `install_rhd` refuses what is not complete (`CollectingFailed`); that is an end of the chain like a line that `crd2rhd` refuses.
`NumbersFit` says of a readout that this does not happen to its slot, chip and channel.
Of `rhd2rtd` the chain takes what `EventBuilding` promises: the hits of each trigger ID,
those of a crate in their order, in any order of the crates. `RtdToRoot` keeps the arrays from row to row and
writes the declared part of them. The arrays have 800 and 15000 entries and nobody checks it; the crates have
480 SAMLONG chips, so the bound is left out.

### Mutants

Operators headed `Mutant:` are used by no specification. Each is a plausible mistake in the code
modelled by the definition that follows it (a dropped guard, a missing reset, a swapped order), and
`PROJECT.json` names, for every property of every passing run, the mutant that violates it.

## 3. Runs

| Run | Question | Instance |
|---|---|---|
| `builder_sorted` | Is what the merger builds complete, ordered and all there, does it implement `EventBuilding`, does nothing throw and everything end? | two inputs with every sorted sequence of at most two records over three trigger IDs; one buffer unbounded, one for a single record; two RTDs stored at most |
| `builder_depth` | The same with buffers that hold records back until they have two trigger IDs (`accept_unsorted_records`): when does a full buffer block the run for ever, and what if the output worker gives up early? | two inputs of at most four records over three trigger IDs, room for two records; two files of one RTD and a silent overrun |
| `builder_outcome` | Does what ends the process depend on the inputs only? | two inputs with every mix of hits, trigger, incomplete and unknown records; complete RTDs forced; one file of one RTD, so that both one RTD (fits) and two (overrun) occur |
| `crd2rhd_sessions` | Numbering over sessions, selection of records, overruns, files | three sessions with any options on two CRD files of at most three and two records; files of two records, four in all |
| `hit_path` | Does a damaged CRD file show, is a whole one read, are the hits complete, the rows faithful, and when does the conversion fail? | a calorimeter crate with two chip readouts with waveforms, of whose file any lines are lost, and a second crate of older software without waveforms, in one run with the slot number 65535; two rows at most |
| `rhd_sort` | Order, completeness, the size of the buffer that is enough, files that cannot be opened, the evaluation | every stream of three or five records with trigger numbers on both sides of the overflow, in one to four files; buffers of 0 to 3 records; three modes; a full output file |
| `builder_unsorted_default`, `builder_unsorted_accepted`, `crd2rhd_dynamic`, `crd2rhd_overrun`, `hit_charge`, `hit_tdc` | one statement of the sources each that the code does not keep, see 5 | the smallest instance with the case |

Why the bounds are enough. Everything the merger decides compares its working trigger ID with the
minimum of what the buffers show, so two inputs (one ahead of the other, both equal, one finished) and
three trigger IDs (built, working, to come) have every case of a comparison; buffers of one record make
an input wait in the middle of its stream. The proofs in section 4 remove the bounds for the
properties of the merger. In `builder_outcome` both acceptable and unacceptable inputs
are among the initial states, so neither `FailureJustified` nor `ReturnJustified` holds for want of a case. In
`crd2rhd_sessions` three sessions are one that saves, one that fails or crashes and one that follows;
five CRD records against files of two give two overruns; the limits per CRD file (2) and in all (4) fall
inside and outside a file.

In `builder_depth` the streams are all the sorted ones, so that both kinds occur: inputs whose full buffers always
show two trigger IDs, which return (`ReturnsUnlessShallow`), and inputs that somewhere fill their buffer with
fewer, which never do (`ShallowNeverReturns`). The second says that the code blocks for ever on data that it
accepts: with the defaults of `builder_config.h` 165-172 (100 calorimeter records, depth 3) any 100 records of
two trigger IDs in a row do it. In `rhd_sort` the clocks 12, 14, 15 and 17 with `Quarter = 4` have the
trigger IDs 12, 14, 15 and 1, on both sides of the overflow, and a difference (17 - 12) that is more than a
quarter, for which the comparator is no ordering; five records are more than the largest buffer, so that
it is sorted again with records left over. In `hit_path` two chips of one file are enough for a half of one to
meet a half of the other, with equal and with different header words, neighbours or not.

### Fairness

The builder has weak fairness per thread: an input worker, the merger and the output worker each take a
step if they can go on doing so. A thread whose next section needs a mutex held by another is not
enabled in the model until it is released, and the holder's thread is fair as well, so this says that the
operating system schedules every thread and that a thread that polls a mutex again and again gets it
in the end. It is per thread, never per action: no branch of a thread is favoured. `RunReturns`, the
refinement (through `WF_evars(Emit)`) and `UnsortedDetected` use it. `crd2rhd` is checked for safety only.

## 4. Proofs

TLAPS checks them for every value of the constants that the assumptions of the modules admit, which TLC evaluates in
each run of the module.

### The builder

For any number of inputs, any streams of any length, any capacities, depth and limits (`BuilderAssumption`,
`StreamsAssumption`):

- `TypeCorrect`: `Spec => []TypeOK`.
- `EventsAreComplete`, `EventsAreOrdered`, `NothingIsLost`: `Spec => []EventsComplete` and so on, under
  `SortedStreams`, the assumption that each input is sorted by trigger ID. This is what a run without
  `--accept-unsorted-rhd` demands of its inputs.
- `FilesInOrder`: `Spec => []FilesHoldPrefix`, for any streams.
- `ReturnsAreComplete`: `Spec => []FilesComplete`, under `SortedStreams`.
- `FailuresAreJustified`: `Spec => []FailureJustified`. The condition on the inputs (`Acceptable`) is part of the property:
  the invariant of the merger is proved for each run whose inputs are sorted, not for sets of them.
- `BuilderImplements`: `Spec => Abstract!Safety` under `SortedStreams`, the safety part of the refinement of
  `EventBuilding`. TLC checks the whole of it, with the fairness.
- `ReturnsAreJustified`: `Spec => []ReturnJustified`, for sorted inputs, or inputs in any order and a depth of 1.
- `ShallowInputsNeverReturn`: `Spec => []ShallowNeverReturns` under `SortedStreams`, for any depth.

The properties of the events follow from the inductive invariant `TypeOK /\ EventInv` (`EventInvariant`). `EventsComplete` is not
inductive: that an RTD is complete when it is pushed depends on what earlier passes popped and on what
an input thread has yet to load. The conjuncts of `EventInv` say, in turn:

- `BufferInv(i)`: buffer i is the window `Popped(i)+1 .. Inserted(i)` of its stream, and its front trigger
  ID, set of trigger IDs and terminated flag are right. It turns statements on buffers into statements on
  the streams, which do not change.
- `OrderInv`: the working RTD, or the last one built, separates what was popped from what was not. With
  `BufferInv` and the sorted streams it gives the order of the RTDs.
- `ContentInv`: the working RTD has all that was popped of its trigger ID; all else popped was built.
- `ScanInv`: what a scan has found of the buffers visited stays true while the input threads go on: a
  finished buffer stays finished, and the front of a buffer that is not empty does not change before the
  merger pops it. This is why it is harmless that the scan sees the buffers at different moments.
- `FinishInv`: a count of finished buffers equal to the number visited means that they are finished; the
  merger stops only then and with no RTD under way.

`EventProofs` has one lemma per action, first what the three actions of an input worker do to its buffer and to
the rest of the invariant (`InputStepEvents`), then each action of the merger; the output steps change none of the
variables involved. `RhdBufferProofs` has the types of the buffer operations and the fact that, on a buffer with
sorted content, inserting a record that is not older appends it.

`OutcomeProofs` adds what the output worker does while the merger goes on. `QueueInv` says that the output buffer is what was
built last, `CountInv` that the writer has all that the worker took until it is terminated, and that it is terminated
only at a limit, `FilesInv` and `PlacesInv` give each RTD its place by arithmetic (`Blocks`), `StopInv` says why the
worker stops. None of it needs sorted inputs. With `EventInv` the RTDs are as many as the trigger IDs (`EventCount`, by an
injection and, once the merger has stopped, a surjection), which gives `FilesComplete`. No thread throws because: an input
thread never holds a record older than its buffer (`HeldIsNewest`); an RTD that is pushed has all the records of a
trigger ID that exists (`TriggersInv`), so it has the hit that complete RTDs need; a trigger record that is installed is
not there already, since what is in the RTD was popped before; and a writer that is full up to the last file has
`Room` RTDs, which is either beyond its limit or less than there are trigger IDs (`OutputNeverThrows`).

For the refinement, `StepImplements` maps `PushRtd` to `Emit` and every other step to a stutter. The working RTD is the
oldest of those pending because all that is not popped is later (`OrderInv`), and it has all the records of its trigger
ID (`ContentInv`); the history `built` is the list of the events.

`ReturnProofs` is about the converse of `FailureJustified`, that a run which should fail cannot slip through to its end. Here the
inputs are not known to be sorted, so `EventInv` is not available before the end of the run. `PassInv` replaces it: as long as
`insert_record` refuses or never meets an older record (`OrderKept`), what the merger has *popped* of each stream is sorted
(`PoppedInOrder`) and not above the trigger ID it is at (`BelowHorizon`, `BetweenRtds`), and the checks passed so far were
passed rightly (`ChecksPassed`). A merger that is done has popped everything, so that the inputs were sorted after all, and
then the results on sorted inputs apply to them. `OrderKept` holds for sorted inputs and for a depth of 1, where a buffer
that is not empty shows its front at once. With more depth `insert_record` takes unsorted records and `ReturnJustified` is
false of unsorted inputs, which is what `builder_unsorted_accepted` (section 5) shows.

That shallow inputs block needs `DepthInv`: a buffer never has more than its capacity (`RoomInv`); when the scan shows a trigger
ID, every buffer it has seen that is not empty is deep, and a buffer the merger is about to begin popping from still is
(`ShownDeep`); so the merger never pops beyond a place where as many records as the buffer holds have too few trigger IDs
(`Barred`), and the input thread never gets to its last record (`ShallowIsNotDeep`). Once it has
begun with a trigger ID the merger pops all its records, and the buffer may become shallow on the way: so only the places
where a trigger ID begins count (`GroupStarts`).

### The sorter

For any lists of files of numbered records, readable or not, any quarter, capacities and limits (`RhdSortAssumption`):
`SortedOutput`, `SortDelivers`, `SortSuffices`, `SortReadsAll` and `EvaluationIsRight`, one for each property of the
run `rhd_sort`. They follow from `SortInv` (`SortInvariant`):

- `FilesInv`: the files up to the current one could be opened, and the last loop begins after all were read.
- `SizeInv`: how full the buffer is at each place of the program. It is what makes the circular buffer forget nothing:
  half of a full buffer is output before the next record is pushed.
- `ContentInv`: buffer and output share out the records read, each once.
- `OrderInv`: the output is ordered, and the greatest trigger ID remembered is the last one output.
- `RoomInv`: with a large enough buffer nothing in the buffer or still unread is earlier than what was output. The step
  that outputs needs a count for it (`HeadNotLater`): a record still unread that is earlier than the first of the full
  buffer would be overtaken by that one and all those kept behind it, one more than `LargeEnough` admits.

The comparator is the order of the clocks for records less than a quarter of the trigger IDs apart, also when the
24-bit ID overflows in between (`ComparatorOrders`); on such a buffer `std::sort` has a sorted result and all its results
are sorted by clock. `EvaluationDetects` has an invariant of its own (`EvalInv`): of the trigger IDs read, the greatest is
always remembered, however many are forgotten, so a record that comes after a greater ID meets one.

### crd2rhd

For any CRD files, options, limits and number of sessions, with failures and crashes at any step
(`Crd2RhdAssumption`): `OutputFilesFilled`, `Spec => []FilesFilled`. `OutputInv` says that the part number is the greatest
one in use, which makes the name of an added file new, and that the writer's count of its file is right until it is
terminated, for a writer with and without a silent overrun.

`NumbersIncrease`, `Spec => []FakeIdsIncrease`: `SavedInv` says that the number in the save file is greater than all those in
the files of sessions that returned, and that a save file without a number (a crash between its opening and its writing)
stays so; `FakeInv` that the number a session goes on with is greater than those and than all in its own files, which have
none until it has loaded it. A session that does not force numbers writes none, so returning unsaved keeps `SavedInv`.

`SelectedAreStored`, `Spec => []SelectionStored`, and `OverrunsAreJustified`, `Spec => []OverrunJustified`: a record is known by
its place (file, position) in the CRD files, and its rank is the number of places before it that the limit per CRD file
admits. The `m`-th record of output file `f` must have rank `RankIn(f, m)`, so that order, duplicates and losses are one
statement on numbers. `SelectionInv` (`SelectionInvariant`) is inductive together with `OutputInv`:

- `ReadingInv`: the counter of the loop is the rank of the place it has reached (`Here`), also when a file is left early or at its end,
  since no place that counts lies between (`RankSame`).
- `StoredInv`: what is in the files are the places of rank below `StoredCount`, each where it belongs. A record goes to the next
  file just when the one before is full, which is what the arithmetic of `RankIn` needs (`FullFiles`).
- `TakenInv`: as many were read as stored, or the writer has `Dropped` one: it overran silently, at the end of all the files it had used.
  The loop never stores on a writer terminated at its total, because the loop itself stops at that number.
- `NotLastInv`: with files added as needed and CRD files read whole, the file about to be written to is not the last one, or was just begun.
- `EndInv`: when the loop ends every selected record has a rank below the counter.

The property has to allow for an output file that is never used: after a silent overrun `--dynamic-output-files` still adds
one (`crd2rhd.cxx:468`), which the terminated writer will not open. So `BeyondFiles` counts the files opened, not those configured.

### The way of the hits

For any readouts that the formats can express, any lines lost from one file, any versions and options of the sources
(`WriterAssumption`), any number of RTDs and limit of rows: each invariant of the run `hit_path` is a theorem,
`HitsAreComplete`, `DamageShows`, `IntactFilesAreRead`, `RowsAreFaithful` and `ConversionEnds`. Three invariants carry them.
Two of the statements are conditional on 16 bits. `HitsComplete` is about files all of whose readouts have numbers that fit
(`NumbersFit`). `IntactIsRead` asks for the exact slot, chip and channel where they fit, the exact charge of each channel where it fits, and
always for the samples, flags, TDC, FCR and timestamps; that a whole file is read to its end does not depend on the numbers at all.

`FilesInv` (`FilesInvariant`) holds for whole and for damaged files. Places are ordered (`Key`), and `LinesInv` says that each line is
that of its place and that the places in a file increase, whatever was lost. `NumberInv` is what the numbers are worth: a
HIT line whose number is one more than that of another HIT line is that of the next hit (so no HIT line between them was
lost). `HitsInv` says that each hit was made of lines that passed all the checks of a parser. `HitsComplete` then is a
matter of the fields one by one: those that `make()` checks, those that the formats bound, and board, chip and channel, which only
`NumbersFit` keeps from being the invalid number. For `DamageIsSeen` the
first channel line stands between two consecutive HIT lines, so it belongs to the first; the second comes after the second HIT line,
so it is the other half of the same chip readout, or it is of a later one that agrees in all that the parser compares, which is
`Confusable` (the channel numbers are consecutive, so it is the same chip or the next).

`PathInv` (`PathInvariant`) adds what makes a whole file readable. `CountInv`, the converse of `NumberInv`: the next hit has the
next number. `ChainInv`, for files with all their lines: each line is followed by that of the next place. A readout then has
its lines one after the other, they pass each check of the parser (`ChipIsRead`, `RegisterIsRead`), and the reader is left
where the next hit begins, having delivered a hit for each readout so far (`ReadInv`).

`ConvInv` (with `RtdsInv`, `ConversionInvariant`) is about the rows. `RtdsInv` says that a calorimeter hit of an RTD has as many samples as it declares, which
is why the first entries of a row of the arrays are those of its hit, whatever the rows before it left behind
(`ExportedRow`). Rows are as many as `nprocessed` as long as the conversion goes on, each is that of its RTD, and a conversion that has failed has failed at an RTD that cannot be exported. That no
RTD changes once it has its row holds because nothing is converted before everything is collected (`AllCollected`).

### Model-checked only

Liveness (`RunReturns`, `ReturnsUnlessShallow`, `UnsortedDetected`) and with it the fairness condition of the refinement
of `EventBuilding`: liveness under fairness and ENABLED are out of the prover's reach. Every invariant that a passing run
checks is also a theorem. The numbered statements of section 5 are about instances: TLC shows each of them violated.

## 5. What the code does not keep

1. `builder_unsorted_default`: an unsorted record that comes after the merger has emptied the buffer is not
   detected (`builder.cc:292`), and the merger then loops for ever.
2. `builder_unsorted_accepted`: `insert_record` stores a record accepted out of order at its place and at
   the end (`builder.cc:327`), so it is twice in its RTD. `insert_record_with_sort` is never called.
3. `crd2rhd_dynamic`: the break at the limit per CRD file skips the addition of an output file
   (`crd2rhd.cxx:465`), and the next record overruns.
4. `crd2rhd_overrun`: after a silent overrun the next calorimeter record is stored on a terminated writer
   (`crd2rhd.cxx:423`), and the program fails without saving its number.
5. `hit_charge`: the charge, of which `calo_hit_record.h:220-221` says that it has 23 bits and an `int32_t`, goes through an
   `int16_t` (`calo_hit_parser.cc:322`): 40000 is delivered as -25536.
6. `hit_tdc`: the branch `calo_tdc` is declared with 16-bit elements over an array of 64-bit ones
   (`rtd2root_converter.cc:143`), so its entries are pieces of the first TDCs.

Three more disagreements between comments and code are in the models as the code has them, without a run of their own:

- Event and L2 IDs are the trigger ID modulo 255 and 31 (`calo_hit_parser.cc:253-254`), where `calo_hit_record.h:354-357` says
  "should be the trigger ID mod 256" and "mod 32".
- `_stored_records_counter_` ("Counter of stored RTD records", `builder.cc:1316`) also counts the RTD that a silent overrun
  drops (`builder.cc:1275`). It ends in the report of the run (`builder.cc:1417`) and decides nothing.
- The range checks of crate, board and chip in `make()` (`calo_hit_record.cc:712-729`, "Invalid calorimeter crate number!" and so on; board and
  channel in `tracker_hit_record.cc:243-256`) ask for a number below 0 and above the maximum, and so never throw. With the
  narrowing to `int16_t` (`calo_hit_parser.cc:250-251`, `tracker_hit_parser.cc:96-98`) a slot 65535 is delivered in a hit
  without a board number, on which `rhd2rtd` dies. One of the runs of `hit_path` goes this way; `HitsComplete` says that numbers
  that fit into 16 bits never do.

What the models show beside that, against no statement of the sources:

- The sorter with `sort-buffer-size` 1 outputs the last record only, with 0 nothing, and returns normally
  (`AllDelivered` says so of those sizes).
- The evaluation compares a trigger ID with the next greater one, not with the one seen first: for a stream in
  reverse order it reports an inversion distance of 1, while a sort needs the whole stream in its buffer. A
  reported distance is one that occurs, not the greatest.
- A run of the sorter that fails on a late record leaves the records output before in its files.
- Of two chip readouts with the same header words, the second half of one and the first half of the other are
  accepted as a hit (`calo_hit_parser.cc:228` asks for consecutive channels, not for an even first one): `Confusable` in
  `DamageIsSeen`. The samples of a channel are protected by their place among the lines alone.
- The HIT line of a tracker record carries no information of its data line: after lost lines the two of different
  records are joined, so `DamageIsSeen` is about calorimeter hits only.
- After a silent overrun (`--allow-overrun`) a session with `--dynamic-output-files` that reads CRD files in part goes on
  to add output files (`crd2rhd.cxx:468`), none of which is written.
- A calorimeter hit without waveforms, which `crd2rhd` makes on request, ends `rtd2root` (`ConversionOutcome`).

## 6. How the modules build on each other

The writer (`MultifileWriter`) is instantiated by the builder, by `crd2rhd` and by the sorter; the reader by the
sorter. `EventBuilding` is the contract between the programs: `RtdBuilder` is shown to implement it, `HitPath`
takes it for granted. What the sorter promises (`OutputInOrder`) is what the theorems on the builder assume of
each input (`SortedStreams`).

## 7. Not modelled

- The life cycle of the builder (`initialize`, `terminate`, results, `stop`) and its configuration: values that
  are read, stored and printed once, before and after the threads exist. The request of `builder::stop` is never read.
- Two sessions of `crd2rhd` at the same time: nothing locks the save file, both number from the same ID.
- Trigger records, `rhd2root`, `rtdReformater`, `RRawTriggerData`, the examples: copies field by field without
  a decision; a model would repeat the copy.
- The grammars of the CRD lines and of the run header.
- `rhd_sorter` of `rhd2rtd`: an unfinished class that stores nothing.
- The rest of `vendor_snfee`: variants of modelled classes (`rtdb/builder.cc` is the modelled builder with a
  comparator for trigger IDs that overflow and without the insertion of unsorted records), drawing, descriptions of
  the electronics, an unfinished builder of reconstructed events (`redb`). `not_data` is not built.
- Failures of the file system, which are exceptions and end each of the programs.
