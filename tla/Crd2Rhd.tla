------------------------------ MODULE Crd2Rhd ------------------------------
(***************************************************************************)
(* The program crd2rhd (programs/crd2rhd/crd2rhd.cxx): it converts a list  *)
(* of commissioning raw data (CRD) files to RHD files, through a           *)
(* multi-file writer.  Since the trigger IDs of commissioning runs cannot  *)
(* be trusted it may number the calorimeter records itself; the next       *)
(* number is kept in a file of the working directory from one run of the   *)
(* program (a session) to the next, for the same session ID.               *)
(*                                                                         *)
(* A session may crash anywhere.  The parsing of the CRD text is external: *)
(* each CRD record has a kind, "other" for what the program rejects (a     *)
(* trigger record, a parsing failure).  Runs without an output file, which *)
(* only read, are left out.                                                *)
(***************************************************************************)
EXTENDS Integers, Sequences, FiniteSets

CONSTANTS
  InputLists,    \* possible lists of CRD files, each a sequence of record kinds
  Options,       \* possible command lines [force, dynamic, overrun : BOOLEAN, maxCrd : Nat]
  MaxRhdFiles,   \* --max-output-files
  MaxPerFile,    \* --max-records-per-file
  MaxTotal,      \* --max-records
  MaxSessions    \* bound on the number of sessions

ASSUME Crd2RhdAssumption ==
  /\ MaxRhdFiles \in Nat \ {0}
  /\ MaxPerFile \in Nat /\ MaxTotal \in Nat /\ MaxSessions \in Nat
  /\ \A o \in Options : o \in [force : BOOLEAN, dynamic : BOOLEAN, overrun : BOOLEAN, maxCrd : Nat]
  /\ \A l \in InputLists : l \in Seq(Seq({"calo", "tracker", "other"})) /\ l # << >>

VARIABLES
  saved,      \* content of the save file: next fake trigger ID, or NoFile, or Truncated
  sessions,   \* sessions started
  kept,       \* fake trigger IDs in the files of the sessions that returned (history)
  pc,         \* where the session is, "idle" between two sessions
  outcome,    \* how it ended
  opt,        \* its options
  inputs,     \* its CRD files
  ifile,      \* i_input_filename + 1
  crdInFile,  \* crd_counter_for_this_file
  crdCounter, \* crd_counter
  fake,       \* fake_trigger_id
  part,       \* output_file_part_num
  names,      \* part numbers of the configured output files, in order
  filenames, files, nrecords, counter, terminated   \* of its writer

writervars == << filenames, files, nrecords, counter, terminated >>
convars == << sessions, kept, opt, inputs >>
vars == << saved, convars, pc, outcome, ifile, crdInFile, crdCounter, fake, part, names,
           writervars >>

\* The writer, with and without --allow-overrun.
Soft == INSTANCE MultifileWriter WITH TerminateOnOverrun <- TRUE
Hard == INSTANCE MultifileWriter WITH TerminateOnOverrun <- FALSE

Store(r) == IF opt.overrun THEN Soft!Store(r) ELSE Hard!Store(r)

StoreThrows == IF opt.overrun THEN Soft!StoreThrows ELSE Hard!StoreThrows

IsTerminated == Hard!IsTerminated

\* Mutant: is_last_file is one off, so that no file is ever the last one.
IsFileBeyondLast == Hard!CurrentFileIndex = filenames

IsLastFile == Hard!IsLastFile

NoFile == -1

Truncated == -2

(***************************************************************************)
(* A session begins with the list of the output files: a single one, or    *)
(* MaxRhdFiles numbered parts if there may be more than one.               *)
(***************************************************************************)
UniqueOutputFile(o) == MaxPerFile = 0 /\ MaxRhdFiles <= 1 /\ ~ o.dynamic

Parts(o) == IF UniqueOutputFile(o) THEN 1 ELSE MaxRhdFiles

\* Between two sessions the variables of the process have no meaning: any fixed values.
SomeOptions == CHOOSE o \in Options : TRUE

SomeInputs == CHOOSE l \in InputLists : TRUE

Init ==
  /\ saved = NoFile
  /\ sessions = 0 /\ kept = {}
  /\ pc = "idle" /\ outcome = "none"
  /\ opt = SomeOptions /\ inputs = SomeInputs
  /\ ifile = 1 /\ crdInFile = 0 /\ crdCounter = 0 /\ fake = 0
  /\ part = Parts(opt) - 1
  /\ names = [n \in 1 .. Parts(opt) |-> n - 1]
  /\ Hard!WriterInit(Parts(opt))

-----------------------------------------------------------------------------
Boot(o, l) ==
  /\ opt' = o /\ inputs' = l
  /\ outcome' = "none"
  /\ ifile' = 1 /\ crdInFile' = 0 /\ crdCounter' = 0 /\ fake' = 0
  /\ part' = Parts(o) - 1
  /\ names' = [n \in 1 .. Parts(o) |-> n - 1]
  /\ filenames' = Parts(o)
  /\ files' = << << >> >> /\ nrecords' = 0 /\ counter' = 0 /\ terminated' = FALSE

StartSession ==
  /\ pc = "idle"
  /\ sessions < MaxSessions
  /\ sessions' = sessions + 1
  /\ \E o \in Options, l \in InputLists : Boot(o, l)
  /\ pc' = "load"
  /\ UNCHANGED << saved, kept >>

(***************************************************************************)
(* The numbering goes on where the last session that saved it ended.  A    *)
(* save file without a number ends the session.                            *)
(***************************************************************************)
LoadFakeId ==
  /\ pc = "load"
  /\ ~ (opt.force /\ saved = Truncated)
  /\ fake' = IF opt.force /\ saved # NoFile THEN saved ELSE 0
  /\ pc' = "read"
  /\ UNCHANGED << saved, convars, outcome, ifile, crdInFile, crdCounter, part, names,
                  writervars >>

-----------------------------------------------------------------------------
(***************************************************************************)
(* The reader loop: load a record, number it, store it.  A tracker record  *)
(* is not stored if the writer is terminated, a calorimeter record is.     *)
(***************************************************************************)
Reading == pc = "read" /\ ifile <= Len(inputs)

HasNextHit == Reading /\ crdInFile < Len(inputs[ifile])

NextKind == inputs[ifile][crdInFile + 1]

OwnTrigger == -1

NextRhd ==
  [file |-> ifile, pos |-> crdInFile + 1, kind |-> NextKind,
   trig |-> IF NextKind = "calo" /\ opt.force THEN fake ELSE OwnTrigger]

Count ==
  /\ pc' = "control"
  /\ crdCounter' = crdCounter + 1
  /\ crdInFile' = crdInFile + 1
  /\ UNCHANGED << saved, convars, outcome, ifile, part, names >>

StoreCalo ==
  /\ HasNextHit
  /\ NextKind = "calo"
  /\ Store(NextRhd)
  /\ fake' = IF opt.force THEN fake + 1 ELSE fake
  /\ Count

StoreTracker ==
  /\ HasNextHit
  /\ NextKind = "tracker"
  /\ \/ ~ IsTerminated /\ Store(NextRhd)
     \/ IsTerminated /\ UNCHANGED writervars
  /\ Count
  /\ UNCHANGED fake

(***************************************************************************)
(* The end of an iteration: stop at the total number of records, go to the *)
(* next CRD file at the number of records per CRD file, and only else      *)
(* provide for one more output file if the last one is being written.      *)
(***************************************************************************)
EndOfInput == MaxTotal > 0 /\ crdCounter = MaxTotal

\* Mutant: the records of all the CRD files are counted against the limit of one.
EndOfInputFiles == opt.maxCrd > 0 /\ crdCounter = opt.maxCrd

EndOfInputFile == opt.maxCrd > 0 /\ crdInFile = opt.maxCrd

Break ==
  /\ pc = "control"
  /\ EndOfInput \/ EndOfInputFile
  /\ IF EndOfInput
     THEN pc' = "save" /\ UNCHANGED << ifile, crdInFile >>
     ELSE pc' = "read" /\ ifile' = ifile + 1 /\ crdInFile' = 0
  /\ UNCHANGED << saved, convars, outcome, crdCounter, fake, part, names, writervars >>

\* Mutant: the part number is not incremented.
AddSameFile ==
  /\ part' = part
  /\ names' = Append(names, part')
  /\ Hard!AddFilename

AddOutputFile ==
  /\ part' = part + 1
  /\ names' = Append(names, part')
  /\ Hard!AddFilename

Continue ==
  /\ pc = "control"
  /\ ~ EndOfInput /\ ~ EndOfInputFile
  /\ IF opt.dynamic /\ IsLastFile
     THEN AddOutputFile
     ELSE UNCHANGED << part, names, writervars >>
  /\ pc' = "read"
  /\ UNCHANGED << saved, convars, outcome, ifile, crdInFile, crdCounter, fake >>

NextInputFile ==
  /\ Reading
  /\ ~ HasNextHit
  /\ ifile' = ifile + 1
  /\ crdInFile' = 0
  /\ UNCHANGED << saved, convars, pc, outcome, crdCounter, fake, part, names, writervars >>

EndOfReading ==
  /\ pc = "read"
  /\ ifile > Len(inputs)
  /\ pc' = "save"
  /\ UNCHANGED << saved, convars, outcome, ifile, crdInFile, crdCounter, fake, part, names,
                  writervars >>

-----------------------------------------------------------------------------
(***************************************************************************)
(* The end of a session.  Opening the save file truncates it before the    *)
(* next number is written.                                                 *)
(***************************************************************************)
TrigsIn(recs) == {recs[n].trig : n \in DOMAIN recs}

FakeIds == (UNION {TrigsIn(files[f]) : f \in DOMAIN files}) \ {OwnTrigger}

Return ==
  /\ kept' = kept \cup FakeIds
  /\ pc' = "exit"
  /\ outcome' = "returned"
  /\ UNCHANGED << sessions, opt, inputs, ifile, crdInFile, crdCounter, fake, part, names,
                  writervars >>

ReturnUnsaved ==
  /\ pc = "save"
  /\ ~ opt.force
  /\ UNCHANGED saved
  /\ Return

OpenSave ==
  /\ pc = "save"
  /\ opt.force
  /\ saved' = Truncated
  /\ pc' = "saving"
  /\ UNCHANGED << convars, outcome, ifile, crdInFile, crdCounter, fake, part, names,
                  writervars >>

\* Mutant: the last number used is saved instead of the next one.
WriteLast ==
  /\ pc = "saving"
  /\ saved' = fake - 1
  /\ Return

WriteSave ==
  /\ pc = "saving"
  /\ saved' = fake
  /\ Return

(***************************************************************************)
(* An exception, or a crash, ends the session without a save.              *)
(***************************************************************************)
EndWith(why) ==
  /\ outcome' = why
  /\ pc' = "exit"
  /\ UNCHANGED << saved, convars, ifile, crdInFile, crdCounter, fake, part, names, writervars >>

LoadFails == pc = "load" /\ opt.force /\ saved = Truncated /\ EndWith("unreadable")

ParseFails == HasNextHit /\ NextKind = "other" /\ EndWith("rejected")

StoreFails ==
  /\ HasNextHit
  /\ NextKind = "calo" \/ (NextKind = "tracker" /\ ~ IsTerminated)
  /\ StoreThrows
  /\ EndWith("overrun")

Crash == pc \notin {"idle", "exit"} /\ EndWith("crashed")

Exit ==
  /\ pc = "exit"
  /\ Boot(SomeOptions, SomeInputs)
  /\ pc' = "idle"
  /\ UNCHANGED << saved, sessions, kept >>

Stop == pc = "idle" /\ sessions = MaxSessions /\ UNCHANGED vars

Next ==
  \/ StartSession
  \/ LoadFakeId
  \/ StoreCalo
  \/ StoreTracker
  \/ Break
  \/ Continue
  \/ NextInputFile
  \/ EndOfReading
  \/ ReturnUnsaved
  \/ OpenSave
  \/ WriteSave
  \/ LoadFails
  \/ ParseFails
  \/ StoreFails
  \/ Crash
  \/ Exit
  \/ Stop

Spec == Init /\ [][Next]_vars

-----------------------------------------------------------------------------
(***************************************************************************)
(* The fake trigger IDs in the files of a session increase strictly, and   *)
(* are greater than those in the files of all the sessions that returned   *)
(* before it: no two calorimeter records share one, whatever sessions      *)
(* failed or crashed between them.                                         *)
(***************************************************************************)
Before(f, m, g, n) == f < g \/ (f = g /\ m < n)

FakeAt(f, m) == files[f][m].trig # OwnTrigger

IncreaseInFiles ==
  \A f, g \in DOMAIN files : \A m \in DOMAIN files[f], n \in DOMAIN files[g] :
    Before(f, m, g, n) /\ FakeAt(f, m) /\ FakeAt(g, n) =>
      files[f][m].trig < files[g][n].trig

FakeIdsIncrease ==
  /\ IncreaseInFiles
  /\ outcome # "returned" => \A k \in kept, t \in FakeIds : k < t

(***************************************************************************)
(* The records the options select, each as the place << CRD file, position *)
(* in it >>: of each CRD file the first maxCrd, of all of them the first   *)
(* MaxTotal.  The rank of a place is how many records precede it.          *)
(***************************************************************************)
CrdPlaces == UNION {{f} \X DOMAIN inputs[f] : f \in DOMAIN inputs}

FirstOfEach == {p \in CrdPlaces : opt.maxCrd = 0 \/ p[2] <= opt.maxCrd}

Preceding(p) == {q \in FirstOfEach : Before(q[1], q[2], p[1], p[2])}

Rank(p) == Cardinality(Preceding(p))

Selected == {p \in FirstOfEach : MaxTotal = 0 \/ Rank(p) < MaxTotal}

(***************************************************************************)
(* What is in the output files: the m-th record of file f has RankIn(f, m) *)
(* before it.                                                              *)
(***************************************************************************)
PlaceOf(r) == << r.file, r.pos >>

RankIn(f, m) == (f - 1) * MaxPerFile + m - 1

RightlyStored(f, m) ==
  LET r == files[f][m]
  IN  /\ PlaceOf(r) \in Selected
      /\ Rank(PlaceOf(r)) = RankIn(f, m)
      /\ r.kind = inputs[r.file][r.pos]

IsStored(p) == \E f \in DOMAIN files : \E m \in DOMAIN files[f] : PlaceOf(files[f][m]) = p

BeyondFiles(p) == MaxPerFile > 0 /\ Rank(p) >= Len(files) * MaxPerFile

FilesUsedUp == IF opt.dynamic THEN opt.maxCrd > 0 ELSE Len(files) = filenames

(***************************************************************************)
(* What a session writes are the selected records, each once and in order, *)
(* and one that returns has written all of them; with --allow-overrun only *)
(* those that its files have room for, which are all the files it has been *)
(* given, unless it may add files and reads CRD files in part.             *)
(***************************************************************************)
SelectionStored ==
  /\ \A f \in DOMAIN files : \A m \in DOMAIN files[f] : RightlyStored(f, m)
  /\ outcome = "returned" =>
       \A p \in Selected : IsStored(p) \/ (opt.overrun /\ BeyondFiles(p) /\ FilesUsedUp)

(***************************************************************************)
(* When a session dies because the writer has no more file: its files are  *)
(* too small for the selected records, it has not been given the option to *)
(* add files (except for CRD files read in part), and with --allow-overrun *)
(* it was storing a calorimeter record.                                    *)
(***************************************************************************)
OverrunJustified ==
  outcome = "overrun" =>
    /\ FilesUsedUp
    /\ \E p \in Selected :
         BeyondFiles(p) /\ (opt.overrun => inputs[p[1]][p[2]] = "calo")

(***************************************************************************)
(* Output files are filled one after the other, and no two of them have    *)
(* the same name (part number): none is overwritten.                       *)
(***************************************************************************)
FilesFilled ==
  /\ Len(names) = filenames
  /\ \A m, n \in DOMAIN names : names[m] = names[n] => m = n
  /\ Len(files) <= filenames
  /\ MaxPerFile > 0 =>
       /\ \A n \in 1 .. Len(files) - 1 : Len(files[n]) = MaxPerFile
       /\ Len(files[Len(files)]) <= MaxPerFile

(***************************************************************************)
(* What the help of --dynamic-output-files says (crd2rhd.cxx:116, "allow   *)
(* to dynamically add more RHD output files as needed"): a session that    *)
(* may add output files does not run out of them.                          *)
(***************************************************************************)
FilesAddedAsNeeded == opt.dynamic => outcome # "overrun"

(***************************************************************************)
(* What multifile_data_writer.h:33 says of terminate_on_overrun, set by    *)
(* --allow-overrun ("Soft terminate at file overrun"): too many records    *)
(* for the files do not make the session fail.                             *)
(***************************************************************************)
OverrunIsSoft == opt.overrun => outcome # "overrun"
=============================================================================
