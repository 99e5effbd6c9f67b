-------------------------- MODULE MultifileReader --------------------------
(***************************************************************************)
(* snfee::io::multifile_data_reader (snfee/io/multifile_data_reader.{h,cc}, *)
(* the same class as in vendor_snfee/io): it reads the records of a list   *)
(* of input files one after the other, as if they were one file.           *)
(*                                                                         *)
(* An input file is [readable, recs].  The first file is opened by the     *)
(* constructor, each other one when has_record_tag() finds no more records *)
(* in the file before it: has_record_tag() changes the reader, and throws  *)
(* when the file it comes to cannot be opened.                             *)
(***************************************************************************)
EXTENDS Integers, Sequences, FiniteSetsExt

VARIABLES
  infiles,   \* the input files
  current,   \* _current_file_index_ + 1
  taken      \* how many records of the current file were loaded

filevars == << infiles, current, taken >>

(***************************************************************************)
(* The constructor needs a file that can be opened.                        *)
(***************************************************************************)
CanOpen == infiles # << >> /\ infiles[1].readable

OpenFirst ==
  /\ CanOpen
  /\ current' = 1
  /\ taken' = 0
  /\ UNCHANGED infiles

HasMore == taken < Len(infiles[current].recs)

\* The files that end the search for the next record.
Stops ==
  {k \in DOMAIN infiles : k > current /\ (~ infiles[k].readable \/ infiles[k].recs # << >>)}

\* Mutant: a file that cannot be opened is passed over.
FoundLenient ==
  LET stops == {k \in Stops : infiles[k].readable}
  IN  IF HasMore THEN current ELSE IF stops # {} THEN Min(stops) ELSE Len(infiles)

(***************************************************************************)
(* The file has_record_tag() ends in: empty files are passed over, the     *)
(* search ends in the last file.                                           *)
(***************************************************************************)
Found == IF HasMore THEN current ELSE IF Stops # {} THEN Min(Stops) ELSE Len(infiles)

Offset == IF Found = current THEN taken ELSE 0

FindThrows == ~ infiles[Found].readable

HasRecordTag == ~ FindThrows /\ Offset < Len(infiles[Found].recs)

NoRecordTag == ~ FindThrows /\ ~ HasRecordTag

NextRecord == infiles[Found].recs[Offset + 1]

(***************************************************************************)
(* has_record_tag() alone, and followed by the load of the record.         *)
(***************************************************************************)
Find == current' = Found /\ taken' = Offset /\ UNCHANGED infiles

FindAndLoad == current' = Found /\ taken' = Offset + 1 /\ UNCHANGED infiles
=============================================================================
