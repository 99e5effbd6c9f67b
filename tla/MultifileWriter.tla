-------------------------- MODULE MultifileWriter --------------------------
(***************************************************************************)
(* snfee::io::multifile_data_writer (snfee/io/multifile_data_writer.{h,cc}): *)
(* a writer that spreads a stream of records over a list of output files,  *)
(* at most MaxPerFile records in each and MaxTotal in all (0 means no      *)
(* limit).  Its operations are the actions; a program that uses a writer   *)
(* instantiates this module on its own variables.                          *)
(*                                                                         *)
(* A file is the sequence of the records stored in it; `files' holds the   *)
(* files opened so far, so current_file_index is Len(files) - 1.  Failures *)
(* of the file system are not modelled: they end every client program.     *)
(***************************************************************************)
EXTENDS Integers, Sequences

CONSTANTS
  MaxPerFile,          \* config_type::max_records_per_file
  MaxTotal,            \* config_type::max_total_records
  TerminateOnOverrun   \* config_type::terminate_on_overrun

VARIABLES
  filenames,   \* how many output filenames the configuration has
  files,       \* contents of the files opened so far, in order
  nrecords,    \* _nrecords_in_file_
  counter,     \* _counter_
  terminated   \* _terminated_

wvars == << filenames, files, nrecords, counter, terminated >>

(***************************************************************************)
(* The constructor needs a filename and opens the first file.              *)
(***************************************************************************)
WriterInit(n) ==
  /\ n > 0
  /\ filenames = n
  /\ files = << << >> >>
  /\ nrecords = 0
  /\ counter = 0
  /\ terminated = FALSE

CurrentFileIndex == Len(files) - 1

IsLastFile == CurrentFileIndex + 1 = filenames

IsTerminated == terminated \/ CurrentFileIndex >= filenames

FileIsFull == MaxPerFile > 0 /\ nrecords = MaxPerFile

Overrun == FileIsFull /\ IsLastFile

(***************************************************************************)
(* store() throws on a terminated writer and when it needs a file beyond   *)
(* the last one, unless the overrun is to terminate the writer silently.   *)
(* The exception leaves the counters and the files as they were.           *)
(***************************************************************************)
StoreThrows == IsTerminated \/ (Overrun /\ ~ TerminateOnOverrun)

\* Mutant: a dropped record is counted.
StoreOverrunsCounted ==
  /\ ~ IsTerminated
  /\ Overrun
  /\ TerminateOnOverrun
  /\ terminated' = TRUE
  /\ nrecords' = 0
  /\ counter' = counter + 1
  /\ UNCHANGED << filenames, files >>

(***************************************************************************)
(* The overrun that only terminates: the record is dropped without a word. *)
(***************************************************************************)
StoreOverruns ==
  /\ ~ IsTerminated
  /\ Overrun
  /\ TerminateOnOverrun
  /\ terminated' = TRUE
  /\ nrecords' = 0
  /\ UNCHANGED << filenames, files, counter >>

\* Mutant: the total number of records is checked before the record is counted.
StoreWritesOneMore(d) ==
  LET opened == IF FileIsFull THEN Append(files, << >>) ELSE files
  IN  /\ ~ IsTerminated
      /\ ~ Overrun
      /\ files' = [opened EXCEPT ![Len(opened)] = Append(@, d)]
      /\ nrecords' = (IF FileIsFull THEN 0 ELSE nrecords) + 1
      /\ counter' = counter + 1
      /\ terminated' = (MaxTotal > 0 /\ counter = MaxTotal)
      /\ UNCHANGED filenames

\* Mutant: the record counter of the file is not reset for the next file.
StoreWritesNoReset(d) ==
  LET opened == IF FileIsFull THEN Append(files, << >>) ELSE files
  IN  /\ ~ IsTerminated
      /\ ~ Overrun
      /\ files' = [opened EXCEPT ![Len(opened)] = Append(@, d)]
      /\ nrecords' = nrecords + 1
      /\ counter' = counter + 1
      /\ terminated' = (MaxTotal > 0 /\ counter' = MaxTotal)
      /\ UNCHANGED filenames

(***************************************************************************)
(* The store that writes: in the next file if the current one is full.     *)
(***************************************************************************)
StoreWrites(d) ==
  LET opened == IF FileIsFull THEN Append(files, << >>) ELSE files
  IN  /\ ~ IsTerminated
      /\ ~ Overrun
      /\ files' = [opened EXCEPT ![Len(opened)] = Append(@, d)]
      /\ nrecords' = (IF FileIsFull THEN 0 ELSE nrecords) + 1
      /\ counter' = counter + 1
      /\ terminated' = (MaxTotal > 0 /\ counter' = MaxTotal)
      /\ UNCHANGED filenames

Store(d) == StoreOverruns \/ StoreWrites(d)

AddFilename ==
  /\ filenames' = filenames + 1
  /\ UNCHANGED << files, nrecords, counter, terminated >>
=============================================================================
