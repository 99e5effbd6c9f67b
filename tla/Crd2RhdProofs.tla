--------------------------- MODULE Crd2RhdProofs ---------------------------
(***************************************************************************)
(* Proofs about the output files of crd2rhd, the numbers it gives to       *)
(* calorimeter records and the records it selects, for any CRD files,      *)
(* options, limits and number of sessions, with failures and crashes       *)
(* anywhere.                                                               *)
(***************************************************************************)
EXTENDS Crd2Rhd, TLAPS, SequenceTheorems, FiniteSetTheorems

-----------------------------------------------------------------------------
(***************************************************************************)
(* The inductive invariant.  TypeInv: the types of what a record is made   *)
(* of, and of the file names.                                              *)
(***************************************************************************)
Record == [file : Nat, pos : Nat, kind : {"calo", "tracker"}, trig : Int]

TypeInv ==
  /\ ifile \in Nat
  /\ crdInFile \in Nat
  /\ fake \in Int
  /\ saved \in Int
  /\ part \in Nat
  /\ names \in Seq(Nat)

(***************************************************************************)
(* NamesInv: the part number is the greatest one in use.                   *)
(***************************************************************************)
NamesInv ==
  /\ Len(names) = filenames
  /\ \A n \in 1 .. Len(names) : names[n] <= part
  /\ \A m, n \in 1 .. Len(names) : names[m] = names[n] => m = n

(***************************************************************************)
(* FilledInv: the writer's count of the records in its file is right until *)
(* it is terminated, all the files before are full.                        *)
(***************************************************************************)
FilledInv ==
  /\ files \in Seq(Seq(Record))
  /\ Len(files) \in 1 .. filenames
  /\ MaxPerFile > 0 =>
       /\ \A n \in 1 .. Len(files) - 1 : Len(files[n]) = MaxPerFile
       /\ Len(files[Len(files)]) <= MaxPerFile
       /\ ~ terminated => nrecords = Len(files[Len(files)])

OutputInv == TypeInv /\ NamesInv /\ FilledInv

-----------------------------------------------------------------------------
\* There is at least one output file.
LEMMA PartsPositive == \A o : Parts(o) \in Nat \ {0}
BY Crd2RhdAssumption DEF Parts

\* What is known of a sequence.
LEMMA SequenceFacts ==
  ASSUME NEW S, NEW s \in Seq(S)
  PROVE  /\ Len(s) \in Nat /\ DOMAIN s = 1 .. Len(s)
         /\ \A n \in 1 .. Len(s) : s[n] \in S
BY LenProperties, ElementOfSeq

\* A first file, still empty.
LEMMA FirstFile ==
  /\ << << >> >> \in Seq(Seq(Record))
  /\ Len(<< << >> >>) = 1
  /\ << << >> >>[1] = << >> /\ Len(<< >>) = 0
OBVIOUS

(***************************************************************************)
(* The process of a session starts with an empty first file, and the names *)
(* of its parts counted from 0.                                            *)
(***************************************************************************)
LEMMA FreshNames ==
  ASSUME NEW n \in Nat \ {0}
  PROVE  LET s == [k \in 1 .. n |-> k - 1]
         IN  /\ s \in Seq(Nat) /\ Len(s) = n
             /\ \A k \in 1 .. n : s[k] <= n - 1
             /\ \A j, k \in 1 .. n : s[j] = s[k] => j = k
<1>. DEFINE s == [k \in 1 .. n |-> k - 1]
<1>1. \A k \in 1 .. n : k - 1 \in Nat /\ k - 1 <= n - 1
  OBVIOUS
<1>2. s \in Seq(Nat) /\ Len(s) = n
  BY <1>1, IsASeq, LenProperties
<1>. QED
  BY <1>1, <1>2

LEMMA BootOutput ==
  ASSUME NEW o, NEW l, Boot(o, l), saved' \in Int
  PROVE  OutputInv'
<1>1. Parts(o) \in Nat \ {0}
  BY PartsPositive
<1>2. /\ ifile' = 1 /\ crdInFile' = 0 /\ fake' = 0 /\ part' = Parts(o) - 1
      /\ names' = [n \in 1 .. Parts(o) |-> n - 1]
      /\ filenames' = Parts(o)
      /\ files' = << << >> >> /\ nrecords' = 0
  BY DEF Boot
<1>. DEFINE p == Parts(o)
<1>. HIDE DEF p
<1>3. /\ names' \in Seq(Nat) /\ Len(names') = p
      /\ \A k \in 1 .. p : names'[k] <= p - 1
      /\ \A j, k \in 1 .. p : names'[j] = names'[k] => j = k
  BY <1>1, <1>2, FreshNames DEF p
<1>4. p \in Nat \ {0} /\ part' = p - 1 /\ filenames' = p
  BY <1>1, <1>2 DEF p
<1>5. TypeInv' /\ NamesInv'
  <2>1. p - 1 \in Nat
    BY <1>4
  <2>2. TypeInv'
    BY <1>2, <1>3, <1>4, <2>1 DEF TypeInv
  <2>. QED  BY <1>3, <1>4, <2>2 DEF NamesInv
<1>6. FilledInv'
  <2>1. files' \in Seq(Seq(Record)) /\ Len(files') = 1 /\ Len(files'[1]) = 0
    BY <1>2, FirstFile
  <2>2. Len(files') \in 1 .. filenames'
    BY <1>4, <2>1
  <2>3. MaxPerFile > 0 =>
          /\ \A n \in 1 .. Len(files') - 1 : Len(files'[n]) = MaxPerFile
          /\ Len(files'[Len(files')]) <= MaxPerFile
          /\ nrecords' = Len(files'[Len(files')])
    BY <1>2, <2>1, Crd2RhdAssumption
  <2>. QED  BY <2>1, <2>2, <2>3 DEF FilledInv
<1>. QED
  BY <1>5, <1>6 DEF OutputInv

-----------------------------------------------------------------------------
(***************************************************************************)
(* With and without --allow-overrun a record is written the same way, or   *)
(* the writer is terminated.                                               *)
(***************************************************************************)
LEMMA StoreCases ==
  ASSUME NEW d, Store(d)
  PROVE  \/ Hard!StoreWrites(d)
         \/ terminated' = TRUE /\ UNCHANGED << filenames, files >>
<1>1. CASE opt.overrun
  BY <1>1 DEF Store, Soft!Store, Soft!StoreOverruns, Soft!StoreWrites, Hard!StoreWrites,
              Soft!IsTerminated, Hard!IsTerminated, Soft!Overrun, Hard!Overrun,
              Soft!FileIsFull, Hard!FileIsFull, Soft!IsLastFile, Hard!IsLastFile,
              Soft!CurrentFileIndex, Hard!CurrentFileIndex
<1>2. CASE ~ opt.overrun
  BY <1>2 DEF Store, Hard!Store, Hard!StoreOverruns
<1>. QED
  BY <1>1, <1>2

\* The record at a place after a step: one that was there, or d at the end of the last file.
OldRecord(f, m) ==
  f \in 1 .. Len(files) /\ m \in 1 .. Len(files[f]) /\ files'[f][m] = files[f][m]

NewRecord(f, m, d) == f = Len(files') /\ m = Len(files'[f]) /\ files'[f][m] = d

\* The old records stay, d is there, either in the same file or first in the next one.
RecordsStay ==
  \A f \in 1 .. Len(files) : f \in 1 .. Len(files') /\
    \A m \in 1 .. Len(files[f]) : m \in 1 .. Len(files'[f]) /\ files'[f][m] = files[f][m]

GoesTo(d, g, l) ==
  /\ g = Len(files') /\ l = Len(files'[g])
  /\ g \in 1 .. Len(files') /\ l \in 1 .. Len(files'[g])
  /\ files'[g][l] = d
  /\ \/ g = Len(files) /\ l = Len(files[g]) + 1
     \/ /\ g = Len(files) + 1 /\ l = 1
        /\ MaxPerFile > 0 /\ Len(files[Len(files)]) = MaxPerFile

(***************************************************************************)
(* A record that is written goes to the end of the last file, or to a new  *)
(* one when that is full.                                                  *)
(***************************************************************************)
LEMMA StoreWritesFills ==
  ASSUME FilledInv, filenames \in Nat, NEW d \in Record, Hard!StoreWrites(d)
  PROVE  /\ FilledInv' /\ UNCHANGED filenames
         /\ \A f \in 1 .. Len(files') : \A m \in 1 .. Len(files'[f]) :
              OldRecord(f, m) \/ NewRecord(f, m, d)
         /\ RecordsStay
         /\ \E g, l \in Nat : GoesTo(d, g, l)
<1>. DEFINE full == Hard!FileIsFull
            opened == IF full THEN Append(files, << >>) ELSE files
            n == Len(files)
            p == Len(opened)
<1>1. /\ ~ terminated /\ ~ (full /\ Len(files) - 1 + 1 = filenames)
      /\ files' = [opened EXCEPT ![Len(opened)] = Append(@, d)]
      /\ nrecords' = (IF full THEN 0 ELSE nrecords) + 1
      /\ filenames' = filenames
  BY DEF Hard!StoreWrites, Hard!IsTerminated, Hard!Overrun, Hard!IsLastFile, Hard!CurrentFileIndex
<1>2. /\ files \in Seq(Seq(Record)) /\ n \in 1 .. filenames
      /\ \A k \in 1 .. n : files[k] \in Seq(Record) /\ Len(files[k]) \in Nat
  <2>1. files \in Seq(Seq(Record)) /\ n \in 1 .. filenames
    BY DEF FilledInv
  <2>2. \A k \in 1 .. n : files[k] \in Seq(Record)
    BY <2>1, ElementOfSeq
  <2>. QED  BY <2>1, <2>2, SequenceFacts
<1>3. MaxPerFile > 0 =>
        /\ \A k \in 1 .. n - 1 : Len(files[k]) = MaxPerFile
        /\ Len(files[n]) <= MaxPerFile
        /\ nrecords = Len(files[n])
  BY <1>1 DEF FilledInv
<1>4. full <=> MaxPerFile > 0 /\ nrecords = MaxPerFile
  BY DEF Hard!FileIsFull
<1>. HIDE DEF full
<1>5. /\ opened \in Seq(Seq(Record)) /\ p \in Nat
      /\ p = IF full THEN n + 1 ELSE n
      /\ p \in 1 .. filenames
      /\ \A k \in 1 .. n : opened[k] = files[k]
      /\ full => opened[p] = << >>
  <2>1. CASE full
    <3>1. << >> \in Seq(Record)
      OBVIOUS
    <3>2. /\ opened \in Seq(Seq(Record)) /\ p = n + 1 /\ opened[n + 1] = << >>
          /\ \A k \in 1 .. n : opened[k] = files[k]
      BY <1>2, <2>1, <3>1, AppendProperties
    <3>3. n # filenames
      BY <1>1, <1>2, <2>1
    <3>. HIDE DEF n, p, opened
    <3>. QED  BY <1>2, <2>1, <3>2, <3>3
  <2>2. CASE ~ full
    BY <1>2, <2>2
  <2>. QED  BY <2>1, <2>2
<1>6. /\ MaxPerFile > 0 => \A k \in 1 .. p - 1 : Len(opened[k]) = MaxPerFile
      /\ MaxPerFile > 0 => Len(opened[p]) + 1 <= MaxPerFile
      /\ MaxPerFile > 0 => nrecords' = Len(opened[p]) + 1
  <2>. SUFFICES ASSUME MaxPerFile > 0
                PROVE  /\ \A k \in 1 .. p - 1 : Len(opened[k]) = MaxPerFile
                       /\ Len(opened[p]) + 1 <= MaxPerFile
                       /\ nrecords' = Len(opened[p]) + 1
    OBVIOUS
  <2>. HIDE DEF n, p, opened
  <2>1. MaxPerFile \in Nat
    BY Crd2RhdAssumption
  <2>2. CASE full
    <3>1. p = n + 1 /\ Len(opened[p]) = 0 /\ nrecords' = 1
      <4>1. Len(<< >>) = 0
        OBVIOUS
      <4>. QED  BY <1>1, <1>5, <2>2, <4>1
    <3>2. \A k \in 1 .. n : Len(files[k]) = MaxPerFile
      BY <1>2, <1>3, <1>4, <2>2
    <3>3. \A k \in 1 .. p - 1 : k \in 1 .. n /\ opened[k] = files[k]
      BY <1>2, <1>5, <3>1
    <3>4. \A k \in 1 .. p - 1 : Len(opened[k]) = MaxPerFile
      BY <3>2, <3>3
    <3>5. Len(opened[p]) + 1 = 1 /\ 1 <= MaxPerFile
      BY <2>1, <3>1
    <3>. QED  BY <3>1, <3>4, <3>5
  <2>3. CASE ~ full
    <3>1. p = n /\ opened[p] = files[n] /\ nrecords' = nrecords + 1
      BY <1>1, <1>2, <1>5, <2>3
    <3>2. nrecords = Len(files[n]) /\ Len(files[n]) # MaxPerFile /\ Len(files[n]) \in Nat
      BY <1>2, <1>3, <1>4, <2>3
    <3>3. Len(files[n]) + 1 <= MaxPerFile
      BY <1>3, <2>1, <3>2
    <3>4. \A k \in 1 .. p - 1 : Len(opened[k]) = MaxPerFile
      <4>1. \A k \in 1 .. p - 1 : k \in 1 .. n /\ k \in 1 .. n - 1
        BY <1>2, <1>5, <3>1
      <4>. QED  BY <1>3, <1>5, <4>1
    <3>. QED  BY <3>1, <3>2, <3>3, <3>4
  <2>. QED  BY <2>2, <2>3
<1>. HIDE DEF n, opened
<1>7. /\ opened[p] \in Seq(Record)
      /\ Append(opened[p], d) \in Seq(Record)
      /\ Len(Append(opened[p], d)) = Len(opened[p]) + 1
  <2>1. opened[p] \in Seq(Record)
    BY <1>5, ElementOfSeq
  <2>. QED  BY <2>1, AppendProperties
<1>8. /\ files' \in Seq(Seq(Record)) /\ Len(files') = p
      /\ \A k \in 1 .. p : files'[k] = IF k = p THEN Append(opened[p], d) ELSE opened[k]
  <2>. DEFINE e == Append(opened[p], d)
  <2>1. files' = [opened EXCEPT ![p] = e]
    BY <1>1
  <2>2. e \in Seq(Record) /\ p \in 1 .. Len(opened)
    BY <1>5, <1>7
  <2>. HIDE DEF e
  <2>3. /\ [opened EXCEPT ![p] = e] \in Seq(Seq(Record))
        /\ Len([opened EXCEPT ![p] = e]) = p
        /\ \A k \in 1 .. p : [opened EXCEPT ![p] = e][k] = IF k = p THEN e ELSE opened[k]
    BY <1>5, <2>2, ExceptSeq
  <2>. QED  BY <2>1, <2>3 DEF e
<1>. HIDE DEF p
<1>9. FilledInv'
  <2>1. Len(files') \in 1 .. filenames'
    BY <1>1, <1>5, <1>8
  <2>2. ASSUME MaxPerFile > 0
        PROVE  /\ \A k \in 1 .. p - 1 : Len(files'[k]) = MaxPerFile
               /\ Len(files'[p]) <= MaxPerFile
               /\ nrecords' = Len(files'[p])
    <3>1. \A k \in 1 .. p - 1 : k \in 1 .. p /\ k # p
      BY <1>5
    <3>2. p \in 1 .. p
      BY <1>5
    <3>. QED  BY <1>6, <1>7, <1>8, <2>2, <3>1, <3>2
  <2>. QED  BY <1>8, <2>1, <2>2 DEF FilledInv
<1>10. ASSUME NEW f \in 1 .. p, NEW m \in 1 .. Len(files'[f])
       PROVE  OldRecord(f, m) \/ NewRecord(f, m, d)
  <2>1. f \in 1 .. n => opened[f] = files[f]
    BY <1>5
  <2>2. f \notin 1 .. n => f = p /\ opened[p] = << >>
    BY <1>2, <1>5
  <2>3. Len(<< >>) = 0
    OBVIOUS
  <2>4. CASE f # p
    <3>1. f \in 1 .. n /\ files'[f] = files[f]
      BY <1>8, <2>1, <2>2, <2>4
    <3>. QED  BY <1>10, <3>1 DEF OldRecord, n
  <2>5. CASE f = p
    <3>1. opened[p] \in Seq(Record) /\ Len(opened[p]) \in Nat
      BY <1>7, SequenceFacts
    <3>2. /\ files'[p] = Append(opened[p], d)
          /\ Len(files'[p]) = Len(opened[p]) + 1
          /\ files'[p][Len(opened[p]) + 1] = d
          /\ \A k \in 1 .. Len(opened[p]) : files'[p][k] = opened[p][k]
      <4>1. /\ Append(opened[p], d)[Len(opened[p]) + 1] = d
            /\ \A k \in 1 .. Len(opened[p]) : Append(opened[p], d)[k] = opened[p][k]
        BY <3>1, AppendProperties
      <4>2. files'[p] = Append(opened[p], d)
        BY <1>8, <2>5
      <4>. QED  BY <1>7, <4>1, <4>2
    <3>3. CASE m = Len(opened[p]) + 1
      BY <1>8, <2>5, <3>2, <3>3 DEF NewRecord
    <3>4. CASE m # Len(opened[p]) + 1
      <4>1. m \in 1 .. Len(opened[p])
        BY <1>10, <2>5, <3>1, <3>2, <3>4
      <4>2. f \in 1 .. n
        BY <2>2, <2>3, <4>1
      <4>. QED  BY <2>1, <2>5, <3>2, <4>1, <4>2 DEF OldRecord, n
    <3>. QED  BY <3>3, <3>4
  <2>. QED  BY <2>4, <2>5
<1>11. /\ opened[p] \in Seq(Record) /\ Len(opened[p]) \in Nat
       /\ files'[p] = Append(opened[p], d)
       /\ Len(files'[p]) = Len(opened[p]) + 1
       /\ files'[p][Len(opened[p]) + 1] = d
       /\ \A k \in 1 .. Len(opened[p]) : files'[p][k] = opened[p][k]
  <2>1. p \in 1 .. p
    BY <1>5
  <2>2. /\ opened[p] \in Seq(Record) /\ Len(opened[p]) \in Nat
        /\ files'[p] = Append(opened[p], d)
    BY <1>7, <1>8, <2>1, SequenceFacts
  <2>3. /\ Append(opened[p], d)[Len(opened[p]) + 1] = d
        /\ \A k \in 1 .. Len(opened[p]) : Append(opened[p], d)[k] = opened[p][k]
    BY <2>2, AppendProperties
  <2>. QED  BY <1>7, <2>2, <2>3
<1>12. RecordsStay
  <2>. SUFFICES ASSUME NEW f \in 1 .. n
                PROVE  f \in 1 .. p /\
                       \A m \in 1 .. Len(files[f]) : m \in 1 .. Len(files'[f]) /\ files'[f][m] = files[f][m]
    BY <1>8 DEF RecordsStay, n
  <2>1. f \in 1 .. p /\ opened[f] = files[f] /\ Len(files[f]) \in Nat
    BY <1>2, <1>5
  <2>2. CASE f = p
    BY <1>11, <2>1, <2>2
  <2>3. CASE f # p
    BY <1>8, <2>1, <2>3
  <2>. QED  BY <2>1, <2>2, <2>3
<1>13. \E g, l \in Nat : GoesTo(d, g, l)
  <2>. DEFINE l == Len(opened[p]) + 1
  <2>1. /\ p \in Nat /\ l \in Nat /\ p = Len(files') /\ l = Len(files'[p])
        /\ p \in 1 .. Len(files') /\ l \in 1 .. Len(files'[p])
        /\ files'[p][l] = d
    BY <1>5, <1>8, <1>11
  <2>2. CASE full
    <3>1. Len(<< >>) = 0
      OBVIOUS
    <3>2. p = Len(files) + 1 /\ l = 1
      BY <1>5, <2>2, <3>1 DEF n
    <3>3. MaxPerFile > 0 /\ Len(files[Len(files)]) = MaxPerFile
      BY <1>3, <1>4, <2>2 DEF n
    <3>. HIDE DEF l
    <3>. QED  BY <2>1, <3>2, <3>3 DEF GoesTo
  <2>3. CASE ~ full
    <3>1. p = Len(files) /\ l = Len(files[p]) + 1
      <4>1. p = n /\ n \in 1 .. n
        BY <1>2, <1>5, <2>3
      <4>2. opened[p] = files[p]
        BY <1>5, <4>1
      <4>. QED  BY <4>1, <4>2 DEF n
    <3>. HIDE DEF l
    <3>. QED  BY <2>1, <3>1 DEF GoesTo
  <2>. QED  BY <2>2, <2>3
<1>. QED
  BY <1>1, <1>8, <1>9, <1>10, <1>12, <1>13

(***************************************************************************)
(* The steps that store, and those that leave the files alone.             *)
(***************************************************************************)
LEMMA StoreOutput ==
  ASSUME OutputInv, HasNextHit, NextKind \in {"calo", "tracker"},
         Store(NextRhd) \/ UNCHANGED writervars,
         fake' \in Int, Count
  PROVE  OutputInv'
<1>1. TypeInv /\ NamesInv /\ FilledInv
  BY DEF OutputInv
<1>2. NextRhd \in Record
  <2>1. ifile \in Nat /\ crdInFile + 1 \in Nat /\ fake \in Int
    BY <1>1 DEF TypeInv
  <2>2. (IF NextKind = "calo" /\ opt.force THEN fake ELSE OwnTrigger) \in Int
    BY <2>1 DEF OwnTrigger
  <2>. QED  BY <2>1, <2>2 DEF NextRhd, Record
<1>3. UNCHANGED << saved, ifile, part, names >> /\ crdInFile' = crdInFile + 1
  BY DEF Count
<1>4. TypeInv'
  BY <1>1, <1>3 DEF TypeInv
<1>5. filenames \in Nat
  <2>1. Len(names) \in Nat
    BY <1>1, SequenceFacts DEF TypeInv
  <2>. QED  BY <1>1, <2>1 DEF NamesInv
<1>6. FilledInv' /\ UNCHANGED filenames
  <2>1. CASE Hard!StoreWrites(NextRhd)
    BY <1>1, <1>2, <1>5, <2>1, StoreWritesFills
  <2>2. CASE terminated' = TRUE /\ UNCHANGED << filenames, files >>
    BY <1>1, <2>2 DEF FilledInv
  <2>3. CASE UNCHANGED writervars
    BY <1>1, <2>3 DEF FilledInv, writervars
  <2>. QED  BY <2>1, <2>2, <2>3, StoreCases
<1>7. NamesInv'
  BY <1>1, <1>3, <1>6 DEF NamesInv
<1>. QED
  BY <1>4, <1>6, <1>7 DEF OutputInv

LEMMA OtherOutput ==
  ASSUME OutputInv, UNCHANGED << part, names, writervars >>,
         ifile' \in Nat, crdInFile' \in Nat, fake' \in Int, saved' \in Int
  PROVE  OutputInv'
BY DEF OutputInv, TypeInv, NamesInv, FilledInv, writervars

\* A further output file gets a part number that no other one has.
LEMMA AddFileOutput ==
  ASSUME OutputInv, AddOutputFile, UNCHANGED << ifile, crdInFile, fake, saved >>
  PROVE  OutputInv'
<1>1. TypeInv /\ NamesInv /\ FilledInv
  BY DEF OutputInv
<1>2. /\ part' = part + 1 /\ names' = Append(names, part + 1) /\ filenames' = filenames + 1
      /\ UNCHANGED << files, nrecords, terminated >>
  BY DEF AddOutputFile, Hard!AddFilename
<1>. DEFINE n == Len(names)
<1>3. /\ part \in Nat /\ names \in Seq(Nat) /\ n \in Nat /\ \A k \in 1 .. n : names[k] \in Nat
  BY <1>1, SequenceFacts DEF TypeInv
<1>4. /\ names' \in Seq(Nat) /\ Len(names') = n + 1 /\ names'[n + 1] = part + 1
      /\ \A k \in 1 .. n : names'[k] = names[k]
  <2>1. part + 1 \in Nat
    BY <1>3
  <2>. QED  BY <1>2, <1>3, <2>1, AppendProperties
<1>5. /\ filenames = n
      /\ \A k \in 1 .. n : names[k] <= part
      /\ \A j, k \in 1 .. n : names[j] = names[k] => j = k
  BY <1>1 DEF NamesInv
<1>. HIDE DEF n
<1>6. TypeInv'
  BY <1>1, <1>2, <1>3, <1>4 DEF TypeInv
<1>7. NamesInv'
  <2>1. \A k \in 1 .. n + 1 : k \in 1 .. n \/ k = n + 1
    BY <1>3
  <2>2. \A k \in 1 .. n + 1 : names'[k] <= part'
    BY <1>2, <1>3, <1>4, <1>5, <2>1
  <2>3. \A j, k \in 1 .. n + 1 : names'[j] = names'[k] => j = k
    <3>. TAKE j, k \in 1 .. n + 1
    <3>1. \A i \in 1 .. n : names'[i] # part + 1
      BY <1>3, <1>4, <1>5
    <3>. QED  BY <1>4, <1>5, <2>1, <3>1
  <2>. QED  BY <1>2, <1>4, <1>5, <2>2, <2>3 DEF NamesInv
<1>8. FilledInv'
  <2>1. Len(files) \in 1 .. filenames + 1
    BY <1>1, <1>3, <1>5 DEF FilledInv
  <2>. QED  BY <1>1, <1>2, <2>1 DEF FilledInv
<1>. QED
  BY <1>6, <1>7, <1>8 DEF OutputInv

-----------------------------------------------------------------------------
(***************************************************************************)
(* In every state of every session, whatever failed before: the output     *)
(* files are filled one after the other and have different names.          *)
(***************************************************************************)
LEMMA InitOutput == Init => OutputInv
<1>. SUFFICES ASSUME Init PROVE OutputInv
  OBVIOUS
<1>. DEFINE p == Parts(opt)
<1>1. p \in Nat \ {0}
  BY PartsPositive
<1>2. /\ saved = -1 /\ ifile = 1 /\ crdInFile = 0 /\ fake = 0
      /\ part = p - 1 /\ names = [n \in 1 .. p |-> n - 1]
      /\ filenames = p /\ files = << << >> >> /\ nrecords = 0
  BY DEF Init, NoFile, Hard!WriterInit
<1>. HIDE DEF p
<1>3. /\ names \in Seq(Nat) /\ Len(names) = p
      /\ \A k \in 1 .. p : names[k] <= p - 1
      /\ \A j, k \in 1 .. p : names[j] = names[k] => j = k
  BY <1>1, <1>2, FreshNames
<1>4. TypeInv /\ NamesInv
  <2>1. p - 1 \in Nat
    BY <1>1
  <2>2. TypeInv
    BY <1>2, <1>3, <2>1 DEF TypeInv
  <2>3. NamesInv
    BY <1>2, <1>3 DEF NamesInv
  <2>. QED  BY <2>2, <2>3
<1>5. FilledInv
  <2>1. files \in Seq(Seq(Record)) /\ Len(files) = 1 /\ Len(files[1]) = 0
    BY <1>2, FirstFile
  <2>2. Len(files) \in 1 .. filenames
    BY <1>1, <1>2, <2>1
  <2>3. MaxPerFile > 0 =>
          /\ \A n \in 1 .. Len(files) - 1 : Len(files[n]) = MaxPerFile
          /\ Len(files[Len(files)]) <= MaxPerFile
          /\ nrecords = Len(files[Len(files)])
    BY <1>2, <2>1, Crd2RhdAssumption
  <2>. QED  BY <2>1, <2>2, <2>3 DEF FilledInv
<1>. QED
  BY <1>4, <1>5 DEF OutputInv

LEMMA NextOutput == OutputInv /\ [Next]_vars => OutputInv'
<1>. SUFFICES ASSUME OutputInv, [Next]_vars PROVE OutputInv'
  OBVIOUS
<1>0. TypeInv /\ 0 \in Nat /\ ifile + 1 \in Nat /\ fake + 1 \in Int /\ Truncated \in Int
  BY DEF OutputInv, TypeInv, Truncated
<1>1. CASE StartSession
  BY <1>0, <1>1, BootOutput DEF StartSession, TypeInv
<1>2. CASE LoadFakeId
  BY <1>0, <1>2, OtherOutput DEF LoadFakeId, TypeInv
<1>3. CASE StoreCalo
  <2>1. fake' \in Int
    BY <1>0, <1>3 DEF StoreCalo, TypeInv
  <2>. QED  BY <1>3, <2>1, StoreOutput DEF StoreCalo
<1>4. CASE StoreTracker
  BY <1>0, <1>4, StoreOutput DEF StoreTracker, TypeInv
<1>5. CASE Break
  BY <1>0, <1>5, OtherOutput DEF Break, TypeInv
<1>6. CASE Continue
  <2>1. UNCHANGED << ifile, crdInFile, fake, saved >>
    BY <1>6 DEF Continue
  <2>2. AddOutputFile \/ UNCHANGED << part, names, writervars >>
    BY <1>6 DEF Continue
  <2>. QED  BY <1>0, <2>1, <2>2, AddFileOutput, OtherOutput DEF TypeInv
<1>7. CASE NextInputFile
  BY <1>0, <1>7, OtherOutput DEF NextInputFile, TypeInv
<1>8. CASE EndOfReading
  BY <1>0, <1>8, OtherOutput DEF EndOfReading, TypeInv
<1>9. CASE ReturnUnsaved \/ WriteSave
  BY <1>0, <1>9, OtherOutput DEF ReturnUnsaved, WriteSave, Return, TypeInv
<1>10. CASE OpenSave
  BY <1>0, <1>10, OtherOutput DEF OpenSave, TypeInv
<1>11. CASE LoadFails \/ ParseFails \/ StoreFails \/ Crash
  BY <1>0, <1>11, OtherOutput DEF LoadFails, ParseFails, StoreFails, Crash, EndWith, TypeInv
<1>12. CASE Exit
  BY <1>0, <1>12, BootOutput DEF Exit, TypeInv
<1>13. CASE UNCHANGED vars
  BY <1>0, <1>13, OtherOutput DEF vars, TypeInv
<1>. QED
  BY <1>1, <1>2, <1>3, <1>4, <1>5, <1>6, <1>7, <1>8, <1>9, <1>10, <1>11, <1>12, <1>13
  DEF Next, Stop

(***************************************************************************)
(* No file is skipped, overfilled or overwritten, in any session.          *)
(***************************************************************************)
THEOREM OutputFilesFilled == Spec => []FilesFilled
<1>1. OutputInv => FilesFilled
  <2>. SUFFICES ASSUME OutputInv PROVE FilesFilled
    OBVIOUS
  <2>1. TypeInv /\ NamesInv /\ FilledInv
    BY DEF OutputInv
  <2>2. DOMAIN names = 1 .. Len(names)
    BY <2>1, SequenceFacts DEF TypeInv
  <2>3. Len(files) <= filenames
    <3>1. Len(names) \in Nat
      BY <2>1, SequenceFacts DEF TypeInv
    <3>. QED  BY <2>1, <3>1 DEF FilledInv, NamesInv
  <2>. QED  BY <2>1, <2>2, <2>3 DEF NamesInv, FilledInv, FilesFilled
<1>. QED
  BY <1>1, InitOutput, NextOutput, PTL DEF Spec

-----------------------------------------------------------------------------
(***************************************************************************)
(* The inductive invariant of the numbers.  SavedInv: the number in the    *)
(* save file is greater than all those in the files of the sessions that   *)
(* returned.  FakeInv: so is the one a session goes on with, and it is     *)
(* also greater than those in its own files, which are empty until it has  *)
(* loaded it.                                                              *)
(***************************************************************************)
SavedInv ==
  /\ saved \in Nat \cup {NoFile, Truncated}
  /\ saved = NoFile => kept = {}
  /\ saved \in Nat => \A k \in kept : k < saved

FakeInv ==
  /\ kept \subseteq Int
  /\ fake \in Nat
  /\ pc \in {"idle", "load"} => FakeIds = {}
  /\ \A t \in FakeIds : opt.force /\ t < fake
  /\ opt.force /\ pc \in {"read", "control", "save", "saving"} => \A k \in kept : k < fake
  /\ pc = "saving" => opt.force
  /\ pc \notin {"idle", "exit"} => outcome # "returned"

NumbersInv == OutputInv /\ SavedInv /\ FakeInv /\ FakeIdsIncrease

\* The fake trigger IDs are those at the places of the files.
LEMMA PlacesOfFiles ==
  ASSUME NEW fs \in Seq(Seq(Record))
  PROVE  /\ DOMAIN fs = 1 .. Len(fs) /\ Len(fs) \in Nat
         /\ \A f \in 1 .. Len(fs) :
              /\ DOMAIN fs[f] = 1 .. Len(fs[f])
              /\ Len(fs[f]) \in Nat
              /\ \A m \in 1 .. Len(fs[f]) : fs[f][m] \in Record
<1>1. DOMAIN fs = 1 .. Len(fs) /\ Len(fs) \in Nat /\ \A f \in 1 .. Len(fs) : fs[f] \in Seq(Record)
  BY SequenceFacts
<1>. QED
  BY <1>1, SequenceFacts

LEMMA TrigsAtPlaces ==
  ASSUME NEW fs \in Seq(Seq(Record)),
         NEW t \in (UNION {TrigsIn(fs[f]) : f \in DOMAIN fs}) \ {OwnTrigger}
  PROVE  /\ t \in Int
         /\ \E f \in 1 .. Len(fs) : \E m \in 1 .. Len(fs[f]) :
              t = fs[f][m].trig /\ fs[f][m].trig # OwnTrigger
<1>1. PICK f \in 1 .. Len(fs) : t \in TrigsIn(fs[f])
  BY PlacesOfFiles
<1>2. PICK m \in 1 .. Len(fs[f]) : t = fs[f][m].trig
  BY <1>1, PlacesOfFiles DEF TrigsIn
<1>3. fs[f][m].trig \in Int
  BY <1>1, <1>2, PlacesOfFiles DEF Record
<1>. QED
  BY <1>1, <1>2, <1>3

LEMMA PlacesHaveTrigs ==
  ASSUME NEW fs \in Seq(Seq(Record)), NEW f \in 1 .. Len(fs), NEW m \in 1 .. Len(fs[f]),
         fs[f][m].trig # OwnTrigger
  PROVE  fs[f][m].trig \in (UNION {TrigsIn(fs[g]) : g \in DOMAIN fs}) \ {OwnTrigger}
<1>1. f \in DOMAIN fs /\ m \in DOMAIN fs[f]
  BY PlacesOfFiles
<1>2. fs[f][m].trig \in TrigsIn(fs[f])
  BY <1>1 DEF TrigsIn
<1>. QED
  BY <1>1, <1>2

\* The process of a session starts without any fake trigger ID.
LEMMA BootNumbers ==
  ASSUME NEW o, NEW l, Boot(o, l)
  PROVE  FakeIds' = {} /\ IncreaseInFiles' /\ fake' = 0 /\ outcome' = "none"
<1>1. files' = << << >> >> /\ fake' = 0 /\ outcome' = "none"
  BY DEF Boot
<1>2. DOMAIN files' = {1} /\ DOMAIN files'[1] = {}
  BY <1>1
<1>3. FakeIds' = {}
  BY <1>2 DEF FakeIds, TrigsIn
<1>. QED
  BY <1>1, <1>2, <1>3 DEF IncreaseInFiles

\* A step that leaves the files alone.
LEMMA SameFiles ==
  ASSUME UNCHANGED files
  PROVE  FakeIds' = FakeIds /\ (IncreaseInFiles => IncreaseInFiles')
BY DEF FakeIds, TrigsIn, IncreaseInFiles, FakeAt

(***************************************************************************)
(* A record that is stored goes behind all the others, with a number that  *)
(* is greater than theirs, or with none.                                   *)
(***************************************************************************)
LEMMA StoreNumbers ==
  ASSUME NumbersInv, OutputInv', HasNextHit, NextKind \in {"calo", "tracker"},
         Store(NextRhd) \/ UNCHANGED writervars, Count,
         fake' = IF NextKind = "calo" /\ opt.force THEN fake + 1 ELSE fake
  PROVE  NumbersInv'
<1>. DEFINE d == NextRhd
<1>0. files \in Seq(Seq(Record)) /\ files' \in Seq(Seq(Record))
  BY DEF NumbersInv, OutputInv, FilledInv
<1>1. /\ OutputInv /\ SavedInv /\ FakeInv /\ IncreaseInFiles /\ FilledInv
      /\ outcome # "returned" => \A k \in kept, t \in FakeIds : k < t
  BY DEF NumbersInv, FakeIdsIncrease, OutputInv
<1>2. /\ pc = "read" /\ pc' = "control"
      /\ UNCHANGED << saved, kept, opt, outcome >>
  BY DEF Count, HasNextHit, Reading, convars
<1>3. /\ outcome # "returned"
      /\ fake \in Nat /\ fake' \in Nat /\ fake <= fake'
      /\ kept \subseteq Int
      /\ opt.force => \A k \in kept : k < fake
      /\ \A t \in FakeIds : opt.force /\ t < fake
  <2>1. fake \in Nat
    BY <1>1 DEF FakeInv
  <2>. QED  BY <1>1, <1>2, <2>1 DEF FakeInv
<1>4. d.trig # OwnTrigger => opt.force /\ d.trig = fake /\ fake' = fake + 1
  BY DEF NextRhd
<1>5. d \in Record
  <2>1. ifile \in Nat /\ crdInFile + 1 \in Nat
    BY <1>1 DEF OutputInv, TypeInv
  <2>2. (IF NextKind = "calo" /\ opt.force THEN fake ELSE OwnTrigger) \in Int
    BY <1>3 DEF OwnTrigger
  <2>. QED  BY <2>1, <2>2 DEF NextRhd, Record
<1>6. \A f \in 1 .. Len(files') : \A m \in 1 .. Len(files'[f]) :
        OldRecord(f, m) \/ NewRecord(f, m, d)
  <2>1. filenames \in Nat
    <3>1. Len(names) \in Nat /\ Len(names) = filenames
      BY <1>1, SequenceFacts DEF OutputInv, TypeInv, NamesInv
    <3>. QED  BY <3>1
  <2>2. CASE Hard!StoreWrites(d)
    BY <1>1, <1>5, <2>1, <2>2, StoreWritesFills
  <2>3. CASE UNCHANGED files
    BY <2>3 DEF OldRecord
  <2>. QED  BY <2>2, <2>3, StoreCases DEF writervars
<1>. HIDE DEF d
<1>7. ASSUME NEW t \in FakeIds'
      PROVE  t \in FakeIds \/ (opt.force /\ t = fake /\ fake' = fake + 1)
  <2>1. PICK f \in 1 .. Len(files') : \E m \in 1 .. Len(files'[f]) :
          t = files'[f][m].trig /\ files'[f][m].trig # OwnTrigger
    BY <1>0, <1>7, TrigsAtPlaces DEF FakeIds
  <2>2. PICK m \in 1 .. Len(files'[f]) :
          t = files'[f][m].trig /\ files'[f][m].trig # OwnTrigger
    BY <2>1
  <2>3. CASE OldRecord(f, m)
    <3>1. t = files[f][m].trig /\ t # OwnTrigger
      BY <2>2, <2>3 DEF OldRecord
    <3>. QED  BY <1>0, <2>3, <3>1, PlacesHaveTrigs DEF OldRecord, FakeIds
  <2>4. CASE NewRecord(f, m, d)
    BY <1>4, <2>2, <2>4 DEF NewRecord
  <2>. QED  BY <1>6, <2>3, <2>4
<1>8. FakeIds \subseteq Int
  BY <1>0, TrigsAtPlaces DEF FakeIds
<1>9. SavedInv' /\ FakeInv'
  <2>1. SavedInv'
    BY <1>1, <1>2 DEF SavedInv
  <2>2. ASSUME NEW t \in FakeIds'
        PROVE  opt'.force /\ t < fake'
    <3>1. CASE t \in FakeIds
      BY <1>2, <1>3, <1>8, <3>1
    <3>2. CASE opt.force /\ t = fake /\ fake' = fake + 1
      BY <1>2, <1>3, <3>2
    <3>. QED  BY <1>7, <3>1, <3>2
  <2>3. opt'.force => \A k \in kept' : k < fake'
    BY <1>2, <1>3
  <2>4. fake' \in Nat /\ kept' \subseteq Int
    BY <1>2, <1>3
  <2>. QED  BY <1>2, <1>3, <2>1, <2>2, <2>3, <2>4 DEF FakeInv
<1>10. outcome' # "returned" => \A k \in kept', t \in FakeIds' : k < t
  BY <1>1, <1>2, <1>3, <1>7
<1>11. IncreaseInFiles'
  <2>1. SUFFICES ASSUME NEW f \in 1 .. Len(files'), NEW g \in 1 .. Len(files'),
                        NEW m \in 1 .. Len(files'[f]), NEW n \in 1 .. Len(files'[g]),
                        Before(f, m, g, n), FakeAt(f, m)', FakeAt(g, n)'
                 PROVE  files'[f][m].trig < files'[g][n].trig
    <3>1. /\ DOMAIN files' = 1 .. Len(files')
          /\ \A f \in 1 .. Len(files') : DOMAIN files'[f] = 1 .. Len(files'[f])
      BY <1>0, PlacesOfFiles
    <3>. QED  BY <3>1, Zenon DEF IncreaseInFiles, Before
  <2>2. Len(files') \in Nat /\ Len(files'[f]) \in Nat
    BY <1>0, PlacesOfFiles
  <2>3. CASE OldRecord(f, m) /\ OldRecord(g, n)
    <3>1. /\ files'[f][m] = files[f][m] /\ FakeAt(f, m)
          /\ files'[g][n] = files[g][n] /\ FakeAt(g, n)
      BY <2>1, <2>3 DEF OldRecord, FakeAt
    <3>2. /\ f \in DOMAIN files /\ m \in DOMAIN files[f]
          /\ g \in DOMAIN files /\ n \in DOMAIN files[g]
      BY <1>0, <2>3, PlacesOfFiles DEF OldRecord
    <3>. QED  BY <1>1, <2>1, <3>1, <3>2 DEF IncreaseInFiles
  <2>4. CASE OldRecord(f, m) /\ NewRecord(g, n, d)
    <3>1. files'[f][m].trig \in FakeIds
      <4>1. files'[f][m].trig = files[f][m].trig /\ files[f][m].trig # OwnTrigger
        BY <2>1, <2>4 DEF OldRecord, FakeAt
      <4>. QED  BY <1>0, <2>4, <4>1, PlacesHaveTrigs DEF OldRecord, FakeIds
    <3>2. files'[g][n].trig = fake
      BY <1>4, <2>1, <2>4 DEF NewRecord, FakeAt
    <3>. QED  BY <1>3, <3>1, <3>2
  <2>5. CASE NewRecord(f, m, d)
    <3>1. f = Len(files') /\ m = Len(files'[f])
      BY <2>5 DEF NewRecord
    <3>2. f = g /\ m < n
      BY <2>1, <2>2, <3>1 DEF Before
    <3>. QED  BY <2>2, <3>1, <3>2
  <2>. QED  BY <1>6, <2>3, <2>4, <2>5
<1>. QED
  BY <1>9, <1>10, <1>11 DEF NumbersInv, FakeIdsIncrease

\* A step of a session that leaves the numbers alone.
LEMMA OtherNumbers ==
  ASSUME NumbersInv, OutputInv', UNCHANGED << saved, kept, opt, files, fake >>,
         pc \notin {"idle", "exit"}, pc' \notin {"idle", "load"}, outcome' # "returned",
         pc' # "exit" => pc \in {"read", "control", "save", "saving"},
         pc' = "saving" => opt.force
  PROVE  NumbersInv'
<1>1. SavedInv /\ FakeInv /\ FakeIdsIncrease
  BY DEF NumbersInv
<1>2. FakeIds' = FakeIds /\ (IncreaseInFiles => IncreaseInFiles')
  BY SameFiles
<1>3. SavedInv'
  BY <1>1 DEF SavedInv
<1>4. FakeInv'
  BY <1>1, <1>2 DEF FakeInv
<1>5. FakeIdsIncrease'
  BY <1>1, <1>2 DEF FakeIdsIncrease, FakeInv
<1>. QED
  BY <1>3, <1>4, <1>5 DEF NumbersInv

\* A session begins, or its process ends.
LEMMA OtherProcess ==
  ASSUME NumbersInv, OutputInv', UNCHANGED << saved, kept >>,
         NEW o, NEW l, Boot(o, l), pc' \in {"idle", "load"}
  PROVE  NumbersInv'
<1>1. SavedInv /\ FakeInv
  BY DEF NumbersInv
<1>2. FakeIds' = {} /\ IncreaseInFiles' /\ fake' = 0 /\ outcome' = "none"
  BY BootNumbers
<1>3. SavedInv' /\ FakeInv'
  BY <1>1, <1>2 DEF SavedInv, FakeInv
<1>. QED
  BY <1>2, <1>3 DEF NumbersInv, FakeIdsIncrease

\* The number that is saved is greater than those in the files of the session.
LEMMA ReturnNumbers ==
  ASSUME NumbersInv, OutputInv', ReturnUnsaved \/ WriteSave
  PROVE  NumbersInv'
<1>1. SavedInv /\ FakeInv /\ FakeIdsIncrease
  BY DEF NumbersInv
<1>2. /\ kept' = kept \cup FakeIds /\ pc' = "exit" /\ outcome' = "returned"
      /\ UNCHANGED << opt, fake, files >>
  BY DEF ReturnUnsaved, WriteSave, Return, writervars
<1>3. FakeIds' = FakeIds /\ (IncreaseInFiles => IncreaseInFiles')
  BY <1>2, SameFiles
<1>4. FakeIds \subseteq Int
  BY TrigsAtPlaces DEF FakeIds, NumbersInv, OutputInv, FilledInv
<1>5. SavedInv'
  <2>1. CASE ReturnUnsaved
    <3>1. saved' = saved /\ ~ opt.force
      BY <2>1 DEF ReturnUnsaved
    <3>2. FakeIds = {}
      BY <1>1, <3>1 DEF FakeInv
    <3>. QED  BY <1>1, <1>2, <3>1, <3>2 DEF SavedInv
  <2>2. CASE WriteSave
    <3>1. saved' = fake /\ pc = "saving"
      BY <2>2 DEF WriteSave
    <3>2. fake \in Nat /\ opt.force
      BY <1>1, <3>1 DEF FakeInv
    <3>3. \A k \in kept' : k < fake
      BY <1>1, <1>2, <3>1, <3>2 DEF FakeInv
    <3>. QED  BY <3>1, <3>2, <3>3 DEF SavedInv, NoFile
  <2>. QED  BY <2>1, <2>2
<1>6. FakeInv'
  BY <1>1, <1>2, <1>3, <1>4 DEF FakeInv
<1>. QED
  BY <1>1, <1>2, <1>3, <1>5, <1>6 DEF NumbersInv, FakeIdsIncrease

\* A session goes on with the number in the save file.
LEMMA LoadNumbers ==
  ASSUME NumbersInv, OutputInv', LoadFakeId
  PROVE  NumbersInv'
<1>1. SavedInv /\ FakeInv /\ FakeIdsIncrease
  BY DEF NumbersInv
<1>2. /\ pc = "load" /\ pc' = "read" /\ ~ (opt.force /\ saved = Truncated)
      /\ fake' = IF opt.force /\ saved # NoFile THEN saved ELSE 0
      /\ UNCHANGED << saved, kept, opt, outcome, files >>
  BY DEF LoadFakeId, convars, writervars
<1>3. FakeIds' = {} /\ (IncreaseInFiles => IncreaseInFiles')
  BY <1>1, <1>2, SameFiles DEF FakeInv
<1>4. fake' \in Nat /\ (opt.force => \A k \in kept : k < fake')
  <2>1. CASE opt.force /\ saved # NoFile
    BY <1>1, <1>2, <2>1 DEF SavedInv
  <2>2. CASE ~ (opt.force /\ saved # NoFile)
    BY <1>1, <1>2, <2>2 DEF SavedInv
  <2>. QED  BY <2>1, <2>2
<1>5. SavedInv'
  BY <1>1, <1>2 DEF SavedInv
<1>6. FakeInv'
  BY <1>1, <1>2, <1>3, <1>4 DEF FakeInv
<1>. QED
  BY <1>1, <1>2, <1>3, <1>5, <1>6 DEF NumbersInv, FakeIdsIncrease

-----------------------------------------------------------------------------
(***************************************************************************)
(* In every state of every session the numbers are in order.               *)
(***************************************************************************)
LEMMA InitNumbers == Init => NumbersInv
<1>. SUFFICES ASSUME Init PROVE NumbersInv
  OBVIOUS
<1>1. /\ saved = NoFile /\ kept = {} /\ pc = "idle" /\ outcome = "none" /\ fake = 0
      /\ files = << << >> >>
  BY DEF Init, Hard!WriterInit
<1>2. DOMAIN files = {1} /\ DOMAIN files[1] = {}
  BY <1>1
<1>3. FakeIds = {}
  BY <1>2 DEF FakeIds, TrigsIn
<1>4. FakeIdsIncrease
  BY <1>1, <1>2, <1>3 DEF FakeIdsIncrease, IncreaseInFiles
<1>5. SavedInv /\ FakeInv
  BY <1>1, <1>3 DEF SavedInv, FakeInv, NoFile
<1>. QED
  BY <1>4, <1>5, InitOutput DEF NumbersInv

LEMMA NextNumbers == NumbersInv /\ [Next]_vars => NumbersInv'
<1>. SUFFICES ASSUME NumbersInv, [Next]_vars PROVE NumbersInv'
  OBVIOUS
<1>0. FakeInv /\ OutputInv'
  BY NextOutput DEF NumbersInv
<1>1. CASE StartSession
  <2>1. PICK o \in Options : \E l \in InputLists : Boot(o, l)
    BY <1>1 DEF StartSession
  <2>2. PICK l \in InputLists : Boot(o, l)
    BY <2>1
  <2>. QED  BY <1>0, <1>1, <2>2, OtherProcess DEF StartSession
<1>2. CASE Exit
  BY <1>0, <1>2, OtherProcess DEF Exit
<1>3. CASE LoadFakeId
  BY <1>0, <1>3, LoadNumbers
<1>4. CASE StoreCalo
  BY <1>0, <1>4, StoreNumbers DEF StoreCalo
<1>5. CASE StoreTracker
  BY <1>0, <1>5, StoreNumbers DEF StoreTracker
<1>6. CASE Break \/ NextInputFile \/ EndOfReading
  BY <1>0, <1>6, OtherNumbers
  DEF Break, NextInputFile, EndOfReading, Reading, FakeInv, convars, writervars
<1>7. CASE Continue
  <2>1. UNCHANGED << saved, kept, opt, outcome, fake, files >>
    BY <1>7 DEF Continue, AddOutputFile, Hard!AddFilename, convars, writervars
  <2>. QED  BY <1>0, <1>7, <2>1, OtherNumbers DEF Continue, FakeInv
<1>8. CASE ReturnUnsaved \/ WriteSave
  BY <1>0, <1>8, ReturnNumbers
<1>9. CASE OpenSave
  <2>1. /\ saved' = Truncated /\ pc = "save" /\ pc' = "saving" /\ opt.force
        /\ UNCHANGED << kept, opt, outcome, fake, files >>
    BY <1>9 DEF OpenSave, convars, writervars
  <2>2. FakeIds' = FakeIds /\ (IncreaseInFiles => IncreaseInFiles')
    BY <2>1, SameFiles
  <2>3. SavedInv'
    BY <2>1 DEF SavedInv, Truncated, NoFile
  <2>4. FakeInv'
    BY <1>0, <2>1, <2>2 DEF FakeInv
  <2>. QED  BY <1>0, <2>1, <2>2, <2>3, <2>4 DEF NumbersInv, FakeIdsIncrease
<1>10. CASE LoadFails \/ ParseFails \/ StoreFails \/ Crash
  BY <1>0, <1>10, OtherNumbers
  DEF LoadFails, ParseFails, StoreFails, Crash, EndWith, HasNextHit, Reading, convars, writervars
<1>11. CASE UNCHANGED vars
  <2>1. UNCHANGED << saved, kept, opt, pc, outcome, fake, files >>
    BY <1>11 DEF vars, convars, writervars
  <2>2. FakeIds' = FakeIds /\ (IncreaseInFiles => IncreaseInFiles')
    BY <2>1, SameFiles
  <2>. QED  BY <1>0, <2>1, <2>2 DEF NumbersInv, SavedInv, FakeInv, FakeIdsIncrease
<1>. QED
  BY <1>1, <1>2, <1>3, <1>4, <1>5, <1>6, <1>7, <1>8, <1>9, <1>10, <1>11 DEF Next, Stop

(***************************************************************************)
(* No two calorimeter records share a fake trigger ID, within a session    *)
(* or between those that returned, whatever failed or crashed.             *)
(***************************************************************************)
THEOREM NumbersIncrease == Spec => []FakeIdsIncrease
<1>1. NumbersInv => FakeIdsIncrease
  BY DEF NumbersInv
<1>. QED
  BY <1>1, InitNumbers, NextNumbers, PTL DEF Spec
-----------------------------------------------------------------------------
(***************************************************************************)
(* The places of the records in the CRD files and their ranks.             *)
(***************************************************************************)
LEMMA InputFacts ==
  ASSUME inputs \in InputLists
  PROVE  /\ Len(inputs) \in Nat /\ DOMAIN inputs = 1 .. Len(inputs)
         /\ \A f \in 1 .. Len(inputs) :
              Len(inputs[f]) \in Nat /\ DOMAIN inputs[f] = 1 .. Len(inputs[f])
<1>1. inputs \in Seq(Seq({"calo", "tracker", "other"}))
  BY Crd2RhdAssumption
<1>2. /\ Len(inputs) \in Nat /\ DOMAIN inputs = 1 .. Len(inputs)
      /\ \A f \in 1 .. Len(inputs) : inputs[f] \in Seq({"calo", "tracker", "other"})
  BY <1>1, SequenceFacts
<1>. QED
  BY <1>2, SequenceFacts

IsPlace(p) ==
  /\ p = << p[1], p[2] >>
  /\ p[1] \in 1 .. Len(inputs) /\ p[2] \in 1 .. Len(inputs[p[1]])
  /\ opt.maxCrd = 0 \/ p[2] <= opt.maxCrd
  /\ p[1] \in Nat /\ p[2] \in Nat

LEMMA PlaceFacts ==
  ASSUME inputs \in InputLists, NEW p \in FirstOfEach
  PROVE  IsPlace(p)
<1>1. PICK f \in DOMAIN inputs : p \in {f} \X DOMAIN inputs[f]
  BY DEF FirstOfEach, CrdPlaces
<1>2. /\ p = << p[1], p[2] >> /\ p[1] = f /\ p[2] \in DOMAIN inputs[f]
      /\ opt.maxCrd = 0 \/ p[2] <= opt.maxCrd
  BY <1>1 DEF FirstOfEach
<1>3. f \in 1 .. Len(inputs) /\ p[2] \in 1 .. Len(inputs[f])
  BY <1>2, InputFacts
<1>4. f \in Nat /\ p[2] \in Nat
  BY <1>3, InputFacts
<1>. QED
  BY <1>2, <1>3, <1>4 DEF IsPlace

LEMMA PlaceIs ==
  ASSUME inputs \in InputLists, NEW f \in 1 .. Len(inputs), NEW k \in 1 .. Len(inputs[f]),
         opt.maxCrd = 0 \/ k <= opt.maxCrd
  PROVE  << f, k >> \in FirstOfEach
<1>1. f \in DOMAIN inputs /\ k \in DOMAIN inputs[f]
  BY InputFacts
<1>2. << f, k >> \in {f} \X DOMAIN inputs[f]
  BY <1>1
<1>3. << f, k >> \in CrdPlaces
  BY <1>1, <1>2 DEF CrdPlaces
<1>. QED
  BY <1>3 DEF FirstOfEach

LEMMA FinitePlaces ==
  ASSUME inputs \in InputLists
  PROVE  IsFiniteSet(FirstOfEach)
<1>. DEFINE Of(f) == {f} \X DOMAIN inputs[f]
            Files == DOMAIN inputs
<1>1. IsFiniteSet(Files)
  BY InputFacts, FS_Interval
<1>2. ASSUME NEW f \in Files PROVE IsFiniteSet(Of(f))
  <2>1. IsFiniteSet(DOMAIN inputs[f])
    BY InputFacts, FS_Interval
  <2>2. IsFiniteSet({f})
    BY FS_Singleton
  <2>. QED
    BY <2>1, <2>2, FS_Product
<1>3. IsFiniteSet({Of(f) : f \in Files})
  <2>. HIDE DEF Of, Files
  <2>. DEFINE of == [f \in Files |-> Of(f)]
  <2>1. IsFiniteSet({of[f] : f \in Files})
    <3>1. of \in Surjection(Files, {of[f] : f \in Files})
      BY DEF Surjection
    <3>. HIDE DEF of
    <3>. QED
      BY <1>1, <3>1, FS_Surjection
  <2>2. {of[f] : f \in Files} = {Of(f) : f \in Files}
    OBVIOUS
  <2>. QED
    BY <2>1, <2>2
<1>4. IsFiniteSet(UNION {Of(f) : f \in Files})
  <2>. HIDE DEF Of, Files
  <2>. QED
    BY <1>2, <1>3, FS_UNION
<1>5. FirstOfEach \in SUBSET UNION {Of(f) : f \in Files}
  BY DEF FirstOfEach, CrdPlaces
<1>. QED
  BY <1>4, <1>5, FS_Subset

LEMMA FinitePreceding ==
  ASSUME inputs \in InputLists, NEW x
  PROVE  IsFiniteSet(Preceding(x)) /\ Rank(x) \in Nat
<1>1. Preceding(x) \in SUBSET FirstOfEach
  BY DEF Preceding
<1>2. IsFiniteSet(Preceding(x))
  BY <1>1, FinitePlaces, FS_Subset
<1>. QED
  BY <1>2, FS_CardinalityType DEF Rank

\* A place has a smaller rank than all that comes behind it.
LEMMA RankBelow ==
  ASSUME inputs \in InputLists, NEW p \in FirstOfEach,
         NEW x, x[1] \in Nat, x[2] \in Nat, Before(p[1], p[2], x[1], x[2])
  PROVE  Rank(p) < Rank(x)
<1>1. IsPlace(p)
  BY PlaceFacts
<1>2. p \notin Preceding(p)
  BY <1>1 DEF Preceding, Before, IsPlace
<1>3. Preceding(p) \cup {p} \in SUBSET Preceding(x)
  <2>. SUFFICES ASSUME NEW q \in Preceding(p) PROVE q \in Preceding(x)
    BY DEF Preceding
  <2>1. q \in FirstOfEach /\ Before(q[1], q[2], p[1], p[2])
    BY DEF Preceding
  <2>2. IsPlace(q)
    BY <2>1, PlaceFacts
  <2>3. Before(q[1], q[2], x[1], x[2])
    BY <1>1, <2>1, <2>2 DEF Before, IsPlace
  <2>. QED
    BY <2>1, <2>3 DEF Preceding
<1>4. Cardinality(Preceding(p) \cup {p}) = Rank(p) + 1
  BY <1>2, FinitePreceding, FS_AddElement DEF Rank
<1>5. Cardinality(Preceding(p) \cup {p}) <= Cardinality(Preceding(x))
  BY <1>3, FinitePreceding, FS_Subset
<1>6. Rank(p) \in Nat /\ Rank(x) \in Nat /\ Rank(x) = Cardinality(Preceding(x))
  BY FinitePreceding DEF Rank
<1>. QED
  BY <1>4, <1>5, <1>6

\* No two places have the same rank.
LEMMA RankUnique ==
  ASSUME inputs \in InputLists, NEW p \in FirstOfEach, NEW q \in FirstOfEach, Rank(p) = Rank(q)
  PROVE  p = q
<1>1. IsPlace(p) /\ IsPlace(q)
  BY PlaceFacts
<1>2. /\ p[1] \in Nat /\ p[2] \in Nat /\ q[1] \in Nat /\ q[2] \in Nat
      /\ p = << p[1], p[2] >> /\ q = << q[1], q[2] >>
  BY <1>1 DEF IsPlace
<1>3. Rank(p) \in Nat /\ Rank(q) \in Nat
  BY FinitePreceding
<1>4. ~ Before(p[1], p[2], q[1], q[2]) /\ ~ Before(q[1], q[2], p[1], p[2])
  BY <1>2, <1>3, RankBelow
<1>5. p[1] = q[1] /\ p[2] = q[2]
  BY <1>2, <1>4 DEF Before
<1>. QED
  BY <1>2, <1>5

\* The place behind a record has the next rank.
LEMMA RankNext ==
  ASSUME inputs \in InputLists, NEW f \in Nat, NEW k \in Nat, << f, k >> \in FirstOfEach
  PROVE  Rank(<< f, k + 1 >>) = Rank(<< f, k >>) + 1
<1>. DEFINE p == << f, k >>
            x == << f, k + 1 >>
<1>1. p[1] = f /\ p[2] = k /\ x[1] = f /\ x[2] = k + 1
  OBVIOUS
<1>2. p \in FirstOfEach
  OBVIOUS
<1>. HIDE DEF p, x
<1>3. Preceding(x) = Preceding(p) \cup {p}
  <2>1. ASSUME NEW q \in FirstOfEach
        PROVE  Before(q[1], q[2], x[1], x[2]) <=> Before(q[1], q[2], p[1], p[2]) \/ q = p
    <3>1. IsPlace(q) /\ IsPlace(p)
      BY <1>2, PlaceFacts
    <3>2. q[1] \in Nat /\ q[2] \in Nat /\ q = << q[1], q[2] >> /\ p = << p[1], p[2] >>
      BY <3>1 DEF IsPlace
    <3>3. q = p <=> q[1] = p[1] /\ q[2] = p[2]
      BY <3>2
    <3>. QED
      BY <1>1, <3>2, <3>3 DEF Before
  <2>. QED
    BY <1>2, <2>1 DEF Preceding
<1>4. p \notin Preceding(p)
  BY <1>1 DEF Preceding, Before
<1>. QED
  BY <1>3, <1>4, FinitePreceding, FS_AddElement DEF Rank, p, x

\* Two places have the same rank if nothing that is selected is between them.
LEMMA RankSame ==
  ASSUME NEW x, NEW y,
         \A q \in FirstOfEach : Before(q[1], q[2], x[1], x[2]) <=> Before(q[1], q[2], y[1], y[2])
  PROVE  Rank(x) = Rank(y)
<1>1. Preceding(x) = Preceding(y)
  BY DEF Preceding
<1>. QED
  BY <1>1 DEF Rank

\* Within a session the ranks do not change.
LEMMA RanksStay ==
  ASSUME UNCHANGED << opt, inputs >>
  PROVE  /\ FirstOfEach' = FirstOfEach
         /\ Selected' = Selected
         /\ \A x : Rank(x)' = Rank(x)
<1>1. FirstOfEach' = FirstOfEach
  BY DEF FirstOfEach, CrdPlaces
<1>2. \A x : Rank(x)' = Rank(x)
  BY <1>1 DEF Rank, Preceding
<1>. QED
  BY <1>1, <1>2 DEF Selected

-----------------------------------------------------------------------------
(***************************************************************************)
(* The inductive invariant of the selection.  ReadingInv: the counters say *)
(* how many of the records selected of the CRD files have been read.       *)
(* StoredInv: what is in the output files are the first StoredCount of     *)
(* them.  TakenInv: those are the records read, unless the writer has      *)
(* dropped one.  EndInv: reading ends when all the selected are read.      *)
(***************************************************************************)
Loop == {"load", "read", "control"}

Here == << ifile, crdInFile + 1 >>

StoredCount == RankIn(Len(files), Len(files[Len(files)]) + 1)

SessionInv ==
  /\ pc \in Loop \cup {"idle", "save", "saving", "exit"}
  /\ pc # "idle" => opt \in Options /\ inputs \in InputLists
  /\ pc = "idle" => files = << << >> >>
  /\ pc # "exit" => outcome = "none"

ReadingInv ==
  pc \in Loop =>
    /\ crdCounter = Rank(Here)
    /\ ifile \in 1 .. Len(inputs) + 1
    /\ ifile <= Len(inputs) => crdInFile <= Len(inputs[ifile])
    /\ pc = "control" => ifile <= Len(inputs)
    /\ opt.maxCrd > 0 => crdInFile <= opt.maxCrd /\ (pc # "control" => crdInFile < opt.maxCrd)
    /\ MaxTotal > 0 => crdCounter <= MaxTotal /\ (pc # "control" => crdCounter < MaxTotal)

AllRightlyStored == \A f \in 1 .. Len(files) : \A m \in 1 .. Len(files[f]) : RightlyStored(f, m)

StoredInv ==
  /\ counter = StoredCount
  /\ MaxPerFile = 0 => Len(files) = 1
  /\ AllRightlyStored
  /\ \A p \in FirstOfEach : Rank(p) < StoredCount => IsStored(p)

Dropped ==
  /\ opt.overrun /\ terminated /\ FilesUsedUp
  /\ MaxPerFile > 0 /\ StoredCount = Len(files) * MaxPerFile

TakenInv ==
  pc # "exit" =>
    /\ StoredCount <= crdCounter
    /\ StoredCount = crdCounter \/ Dropped
    /\ terminated => Dropped \/ (MaxTotal > 0 /\ counter = MaxTotal)

NotLastInv == pc \in {"load", "read"} /\ opt.dynamic /\ opt.maxCrd = 0 => ~ IsLastFile \/ nrecords = 0

EndInv == pc \in {"save", "saving"} => \A p \in Selected : Rank(p) < crdCounter

ActiveInv ==
  pc # "idle" => ReadingInv /\ StoredInv /\ TakenInv /\ NotLastInv /\ EndInv

SelectionInv == SessionInv /\ ActiveInv /\ SelectionStored /\ OverrunJustified

\* What counts are numbers.
LEMMA CountTypes ==
  ASSUME OutputInv, SelectionInv, pc # "idle"
  PROVE  /\ ifile \in Nat /\ crdInFile \in Nat
         /\ pc \in Loop => crdCounter \in Nat
         /\ MaxPerFile \in Nat /\ MaxTotal \in Nat /\ opt.maxCrd \in Nat
         /\ opt.overrun \in BOOLEAN /\ opt.dynamic \in BOOLEAN
         /\ Len(files) \in Nat \ {0} /\ DOMAIN files = 1 .. Len(files)
         /\ \A f \in 1 .. Len(files) : Len(files[f]) \in Nat /\ DOMAIN files[f] = 1 .. Len(files[f])
         /\ StoredCount \in Nat
<1>1. ifile \in Nat /\ crdInFile \in Nat
  BY DEF OutputInv, TypeInv
<1>2. pc \in Loop => crdCounter \in Nat
  BY FinitePreceding DEF SelectionInv, SessionInv, ActiveInv, ReadingInv
<1>3. /\ MaxPerFile \in Nat /\ MaxTotal \in Nat /\ opt.maxCrd \in Nat
      /\ opt.overrun \in BOOLEAN /\ opt.dynamic \in BOOLEAN
  BY Crd2RhdAssumption DEF SelectionInv, SessionInv
<1>4. /\ Len(files) \in Nat \ {0} /\ DOMAIN files = 1 .. Len(files)
      /\ \A f \in 1 .. Len(files) : Len(files[f]) \in Nat /\ DOMAIN files[f] = 1 .. Len(files[f])
  <2>1. files \in Seq(Seq(Record)) /\ Len(files) \in 1 .. filenames
    BY DEF OutputInv, FilledInv
  <2>. QED
    BY <2>1, PlacesOfFiles
<1>5. StoredCount \in Nat
  <2>. DEFINE n == Len(files)
              l == Len(files[n])
  <2>1. n \in Nat \ {0} /\ l \in Nat
    BY <1>4
  <2>2. StoredCount = (n - 1) * MaxPerFile + (l + 1) - 1
    BY DEF StoredCount, RankIn
  <2>. HIDE DEF n, l
  <2>3. n - 1 \in Nat
    BY <2>1
  <2>4. (n - 1) * MaxPerFile \in Nat
    BY <1>3, <2>3
  <2>. QED
    BY <2>1, <2>2, <2>4
<1>. QED
  BY <1>1, <1>2, <1>3, <1>4, <1>5

\* Ranks from one file to the next.
LEMMA FullFiles ==
  ASSUME NEW n \in Nat \ {0}, NEW m \in Nat
  PROVE  /\ RankIn(n, MaxPerFile + 1) = n * MaxPerFile
         /\ RankIn(n + 1, m) = n * MaxPerFile + m - 1
         /\ RankIn(n, m + 1) = RankIn(n, m) + 1
<1>1. MaxPerFile \in Nat
  BY Crd2RhdAssumption
<1>2. (n - 1) * MaxPerFile + MaxPerFile = n * MaxPerFile
  BY <1>1
<1>3. n * MaxPerFile \in Nat /\ (n - 1) * MaxPerFile \in Nat
  <2>1. n - 1 \in Nat
    OBVIOUS
  <2>. QED
    BY <1>1, <2>1
<1>4. (n + 1) - 1 = n
  OBVIOUS
<1>5. RankIn(n, MaxPerFile + 1) = n * MaxPerFile
  BY <1>1, <1>2, <1>3 DEF RankIn
<1>6. RankIn(n + 1, m) = n * MaxPerFile + m - 1
  BY <1>4 DEF RankIn
<1>7. RankIn(n, m + 1) = RankIn(n, m) + 1
  BY <1>3 DEF RankIn
<1>. QED
  BY <1>5, <1>6, <1>7

-----------------------------------------------------------------------------
(***************************************************************************)
(* The next record that is read is a selected one.                         *)
(***************************************************************************)
LEMMA NextIsSelected ==
  ASSUME OutputInv, SelectionInv, HasNextHit
  PROVE  /\ Here \in FirstOfEach /\ Here \in Selected
         /\ Rank(Here) = crdCounter /\ Rank(<< ifile, crdInFile + 1 + 1 >>) = crdCounter + 1
         /\ PlaceOf(NextRhd) = Here /\ NextRhd.kind = inputs[NextRhd.file][NextRhd.pos]
<1>1. pc = "read" /\ pc \in Loop /\ ifile <= Len(inputs) /\ crdInFile < Len(inputs[ifile])
  BY DEF HasNextHit, Reading, Loop
<1>2. /\ ReadingInv /\ inputs \in InputLists
      /\ ifile \in Nat /\ crdInFile \in Nat /\ crdCounter \in Nat /\ opt.maxCrd \in Nat
      /\ MaxTotal \in Nat
  BY <1>1, CountTypes DEF SelectionInv, SessionInv, ActiveInv
<1>3. /\ ifile \in 1 .. Len(inputs) /\ crdCounter = Rank(Here)
      /\ opt.maxCrd > 0 => crdInFile < opt.maxCrd
      /\ MaxTotal > 0 => crdCounter < MaxTotal
  BY <1>1, <1>2 DEF ReadingInv
<1>4. Len(inputs[ifile]) \in Nat
  BY <1>2, <1>3, InputFacts
<1>5. crdInFile + 1 \in 1 .. Len(inputs[ifile]) /\ (opt.maxCrd = 0 \/ crdInFile + 1 <= opt.maxCrd)
  BY <1>1, <1>2, <1>3, <1>4
<1>6. Here \in FirstOfEach
  BY <1>2, <1>3, <1>5, PlaceIs DEF Here
<1>7. Here \in Selected
  BY <1>2, <1>3, <1>6 DEF Selected
<1>8. Rank(<< ifile, crdInFile + 1 + 1 >>) = crdCounter + 1
  <2>1. crdInFile + 1 \in Nat
    BY <1>2
  <2>. QED
    BY <1>2, <1>3, <1>6, <2>1, RankNext DEF Here
<1>9. PlaceOf(NextRhd) = Here /\ NextRhd.kind = inputs[NextRhd.file][NextRhd.pos]
  BY DEF PlaceOf, NextRhd, NextKind, Here
<1>. QED
  BY <1>3, <1>6, <1>7, <1>8, <1>9

\* The rank of the next place, as it is before the step.
LEMMA RankOfHere ==
  ASSUME UNCHANGED << opt, inputs >>, NEW x, Here' = x
  PROVE  Rank(Here)' = Rank(x)
<1>1. FirstOfEach' = FirstOfEach
  BY RanksStay
<1>2. Preceding(Here)' = Preceding(x)
  BY <1>1 DEF Preceding
<1>. QED
  BY <1>2 DEF Rank

LEMMA ReadOne ==
  ASSUME OutputInv, SelectionInv, HasNextHit, Count
  PROVE  /\ ReadingInv' /\ pc' = "control" /\ outcome' = "none"
         /\ opt' = opt /\ inputs' = inputs /\ crdCounter' = crdCounter + 1
<1>1. pc = "read" /\ pc \in Loop /\ ifile <= Len(inputs) /\ crdInFile < Len(inputs[ifile])
  BY DEF HasNextHit, Reading, Loop
<1>2. /\ pc' = "control" /\ crdCounter' = crdCounter + 1 /\ crdInFile' = crdInFile + 1
      /\ opt' = opt /\ inputs' = inputs /\ outcome' = outcome /\ ifile' = ifile
  BY DEF Count, convars
<1>3. /\ ReadingInv /\ inputs \in InputLists /\ outcome = "none"
      /\ ifile \in Nat /\ crdInFile \in Nat /\ crdCounter \in Nat /\ opt.maxCrd \in Nat
      /\ MaxTotal \in Nat
  BY <1>1, CountTypes DEF SelectionInv, SessionInv, ActiveInv
<1>4. /\ ifile \in 1 .. Len(inputs) + 1
      /\ opt.maxCrd > 0 => crdInFile < opt.maxCrd
      /\ MaxTotal > 0 => crdCounter < MaxTotal
  BY <1>1, <1>3 DEF ReadingInv
<1>5. Rank(Here)' = crdCounter'
  <2>1. Here' = << ifile, crdInFile + 1 + 1 >>
    BY <1>2 DEF Here
  <2>2. Rank(Here)' = Rank(<< ifile, crdInFile + 1 + 1 >>)
    BY <1>2, <2>1, RankOfHere
  <2>. QED
    BY <1>2, <2>2, NextIsSelected
<1>6. Len(inputs[ifile]) \in Nat
  <2>1. ifile \in 1 .. Len(inputs)
    BY <1>1, <1>3, <1>4
  <2>. QED
    BY <1>3, <2>1, InputFacts
<1>7. crdInFile + 1 <= Len(inputs[ifile])
  BY <1>1, <1>3, <1>6
<1>8. opt.maxCrd > 0 => crdInFile + 1 <= opt.maxCrd
  BY <1>3, <1>4
<1>9. MaxTotal > 0 => crdCounter + 1 <= MaxTotal
  BY <1>3, <1>4
<1>10. ReadingInv'
  BY <1>1, <1>2, <1>4, <1>5, <1>7, <1>8, <1>9 DEF ReadingInv
<1>. QED
  BY <1>2, <1>3, <1>10

\* Storing goes one of three ways.
LEMMA StoreWays ==
  ASSUME NEW d, Store(d)
  PROVE  \/ Hard!StoreWrites(d)
         \/ /\ opt.overrun /\ ~ Hard!IsTerminated /\ Hard!Overrun /\ terminated' = TRUE
            /\ UNCHANGED << filenames, files, counter >>
<1>1. CASE opt.overrun
  BY <1>1 DEF Store, Soft!Store, Soft!StoreOverruns, Soft!StoreWrites, Hard!StoreWrites,
              Soft!IsTerminated, Hard!IsTerminated, Soft!Overrun, Hard!Overrun,
              Soft!FileIsFull, Hard!FileIsFull, Soft!IsLastFile, Hard!IsLastFile,
              Soft!CurrentFileIndex, Hard!CurrentFileIndex
<1>2. CASE ~ opt.overrun
  BY <1>2 DEF Store, Hard!Store, Hard!StoreOverruns
<1>. QED
  BY <1>1, <1>2

LEMMA WriteSelected ==
  ASSUME OutputInv, SelectionInv, HasNextHit, NextKind \in {"calo", "tracker"},
         Hard!StoreWrites(NextRhd), Count
  PROVE  /\ StoredInv' /\ StoredCount = crdCounter /\ StoredCount' = StoredCount + 1
         /\ counter' = counter + 1 /\ terminated' = (MaxTotal > 0 /\ counter' = MaxTotal)
<1>. DEFINE d == NextRhd
            n == Len(files)
<1>1. pc = "read" /\ pc # "idle"
  BY DEF HasNextHit, Reading
<1>2. /\ StoredInv /\ TakenInv /\ inputs \in InputLists /\ FilledInv
      /\ n \in Nat \ {0} /\ MaxPerFile \in Nat /\ crdCounter \in Nat /\ StoredCount \in Nat
      /\ \A f \in 1 .. n : Len(files[f]) \in Nat
      /\ n \in 1 .. n
  BY <1>1, CountTypes DEF SelectionInv, SessionInv, ActiveInv, OutputInv, Loop
<1>3. /\ ~ terminated /\ counter' = counter + 1 /\ terminated' = (MaxTotal > 0 /\ counter' = MaxTotal)
  BY DEF Hard!StoreWrites, Hard!IsTerminated
<1>4. StoredCount = crdCounter
  BY <1>1, <1>2, <1>3 DEF TakenInv, Dropped
<1>5. /\ FilledInv' /\ RecordsStay /\ \E g, l \in Nat : GoesTo(d, g, l)
      /\ \A f \in 1 .. Len(files') : \A m \in 1 .. Len(files'[f]) : OldRecord(f, m) \/ NewRecord(f, m, d)
  <2>1. d \in Record
    <3>1. ifile \in Nat /\ crdInFile + 1 \in Nat /\ fake \in Int
      BY DEF OutputInv, TypeInv
    <3>2. (IF NextKind = "calo" /\ opt.force THEN fake ELSE OwnTrigger) \in Int
      BY <3>1 DEF OwnTrigger
    <3>. QED  BY <3>1, <3>2 DEF NextRhd, Record
  <2>2. filenames \in Nat
    BY SequenceFacts DEF OutputInv, TypeInv, NamesInv
  <2>. QED
    BY <1>2, <2>1, <2>2, StoreWritesFills
<1>6. PICK g \in Nat, l \in Nat : GoesTo(d, g, l)
  BY <1>5
<1>7. RankIn(g, l) = StoredCount /\ RankIn(g, l + 1) = StoredCount + 1
  <2>1. CASE g = n /\ l = Len(files[n]) + 1
    <3>1. RankIn(g, l) = StoredCount
      BY <2>1 DEF StoredCount
    <3>2. g \in Nat \ {0} /\ l \in Nat
      BY <1>2, <2>1
    <3>. QED
      BY <3>1, <3>2, FullFiles
  <2>2. CASE g = n + 1 /\ l = 1 /\ Len(files[n]) = MaxPerFile
    <3>1. StoredCount = n * MaxPerFile
      <4>1. StoredCount = RankIn(n, MaxPerFile + 1)
        BY <2>2 DEF StoredCount
      <4>. HIDE DEF n
      <4>. QED
        BY <1>2, <4>1, FullFiles
    <3>. HIDE DEF n
    <3>2. RankIn(n + 1, 1) = n * MaxPerFile + 1 - 1 /\ RankIn(n + 1, 2) = n * MaxPerFile + 2 - 1
      BY <1>2, FullFiles
    <3>. QED
      BY <1>2, <2>2, <3>1, <3>2
  <2>. QED
    BY <1>6, <2>1, <2>2 DEF GoesTo
<1>8. StoredCount' = StoredCount + 1
  <2>1. StoredCount' = RankIn(g, l + 1)
    BY <1>6 DEF GoesTo, StoredCount, RankIn
  <2>. QED
    BY <1>7, <2>1
<1>9. /\ FirstOfEach' = FirstOfEach /\ Selected' = Selected /\ \A x : Rank(x)' = Rank(x)
      /\ inputs' = inputs
  BY RanksStay DEF Count, convars
<1>10. counter' = StoredCount'
  BY <1>2, <1>3, <1>8 DEF StoredInv
<1>11. MaxPerFile = 0 => Len(files') = 1
  BY <1>2, <1>6 DEF GoesTo, StoredInv
<1>12. AllRightlyStored'
  <2>. SUFFICES ASSUME NEW f \in 1 .. Len(files'), NEW m \in 1 .. Len(files'[f])
                PROVE  RightlyStored(f, m)'
    BY DEF AllRightlyStored
  <2>1. CASE OldRecord(f, m)
    <3>1. RightlyStored(f, m) /\ files'[f][m] = files[f][m]
      BY <1>2, <2>1 DEF OldRecord, StoredInv, AllRightlyStored
    <3>. QED
      BY <1>9, <3>1 DEF RightlyStored
  <2>2. CASE NewRecord(f, m, d)
    <3>1. f = g /\ m = l /\ files'[f][m] = d
      BY <1>6, <2>2 DEF NewRecord, GoesTo
    <3>2. PlaceOf(d) \in Selected /\ Rank(PlaceOf(d)) = RankIn(g, l) /\ d.kind = inputs[d.file][d.pos]
      BY <1>4, <1>7, NextIsSelected
    <3>. HIDE DEF d
    <3>. QED
      BY <1>9, <3>1, <3>2 DEF RightlyStored
  <2>. QED
    BY <1>5, <2>1, <2>2
<1>13. ASSUME NEW p \in FirstOfEach, Rank(p) < StoredCount + 1 PROVE IsStored(p)'
  <2>1. Rank(p) \in Nat
    BY <1>2, FinitePreceding
  <2>2. CASE Rank(p) < StoredCount
    <3>1. PICK f \in DOMAIN files : \E m \in DOMAIN files[f] : PlaceOf(files[f][m]) = p
      BY <1>2, <2>2 DEF StoredInv, IsStored
    <3>2. PICK m \in DOMAIN files[f] : PlaceOf(files[f][m]) = p
      BY <3>1
    <3>3. f \in 1 .. Len(files) /\ m \in 1 .. Len(files[f])
      BY <1>1, <3>1, <3>2, CountTypes
    <3>4. f \in 1 .. Len(files') /\ m \in 1 .. Len(files'[f]) /\ files'[f][m] = files[f][m]
      BY <1>5, <3>3 DEF RecordsStay
    <3>5. f \in DOMAIN files' /\ m \in DOMAIN files'[f]
      BY <1>5, <3>4, PlacesOfFiles DEF FilledInv
    <3>. QED
      BY <3>2, <3>4, <3>5 DEF IsStored, PlaceOf
  <2>3. CASE Rank(p) = StoredCount
    <3>1. p = Here /\ PlaceOf(d) = Here
      BY <1>2, <1>4, <2>3, NextIsSelected, RankUnique
    <3>2. g \in 1 .. Len(files') /\ l \in 1 .. Len(files'[g]) /\ files'[g][l] = d
      BY <1>6 DEF GoesTo
    <3>3. g \in DOMAIN files' /\ l \in DOMAIN files'[g]
      BY <1>5, <3>2, PlacesOfFiles DEF FilledInv
    <3>. QED
      BY <3>1, <3>2, <3>3 DEF IsStored, PlaceOf
  <2>. QED
    BY <1>2, <1>13, <2>1, <2>2, <2>3
<1>14. StoredInv'
  BY <1>8, <1>9, <1>10, <1>11, <1>12, <1>13 DEF StoredInv
<1>. QED
  BY <1>3, <1>4, <1>8, <1>14

\* A session that goes on, or has failed, only has to have its files in order.
LEMMA StillSelected ==
  ASSUME OutputInv', StoredInv', outcome' \notin {"returned", "overrun"}
  PROVE  SelectionStored' /\ OverrunJustified'
<1>1. /\ DOMAIN files' = 1 .. Len(files')
      /\ \A f \in 1 .. Len(files') : DOMAIN files'[f] = 1 .. Len(files'[f])
  BY PlacesOfFiles DEF OutputInv, FilledInv
<1>2. ASSUME NEW f \in DOMAIN files', NEW m \in DOMAIN files'[f] PROVE RightlyStored(f, m)'
  BY <1>1, <1>2 DEF StoredInv, AllRightlyStored
<1>. QED
  BY <1>2 DEF SelectionStored, OverrunJustified

\* A step that leaves the files alone.
LEMMA StoredStays ==
  ASSUME StoredInv, UNCHANGED << opt, inputs, files, counter >>
  PROVE  StoredInv' /\ StoredCount' = StoredCount
<1>1. /\ FirstOfEach' = FirstOfEach /\ Selected' = Selected /\ \A x : Rank(x)' = Rank(x)
  BY RanksStay
<1>2. StoredCount' = StoredCount
  BY DEF StoredCount, RankIn
<1>3. AllRightlyStored'
  BY <1>1 DEF StoredInv, AllRightlyStored, RightlyStored, PlaceOf, RankIn
<1>4. ASSUME NEW p \in FirstOfEach, Rank(p) < StoredCount PROVE IsStored(p)'
  BY <1>4 DEF StoredInv, IsStored, PlaceOf
<1>. QED
  BY <1>1, <1>2, <1>3, <1>4 DEF StoredInv

(***************************************************************************)
(* A dropped record: the writer has terminated at the end of the last of   *)
(* its files.  With files added as needed that is only so if CRD files are *)
(* read in part.                                                           *)
(***************************************************************************)
LEMMA WhenFull ==
  ASSUME OutputInv, SelectionInv, HasNextHit, ~ Hard!IsTerminated, Hard!Overrun
  PROVE  /\ MaxPerFile > 0 /\ StoredCount = Len(files) * MaxPerFile /\ FilesUsedUp
         /\ StoredCount = crdCounter
<1>. DEFINE n == Len(files)
<1>1. pc = "read" /\ pc # "idle" /\ pc # "exit"
  BY DEF HasNextHit, Reading
<1>2. /\ StoredInv /\ TakenInv /\ NotLastInv /\ FilledInv
      /\ n \in Nat \ {0} /\ MaxPerFile \in Nat /\ opt.maxCrd \in Nat
  BY <1>1, CountTypes DEF SelectionInv, ActiveInv, OutputInv
<1>3. ~ terminated /\ MaxPerFile > 0 /\ nrecords = MaxPerFile /\ Hard!IsLastFile
  BY DEF Hard!IsTerminated, Hard!Overrun, Hard!FileIsFull
<1>4. Len(files[n]) = MaxPerFile
  BY <1>3 DEF OutputInv, FilledInv
<1>5. StoredCount = n * MaxPerFile
  <2>1. StoredCount = RankIn(n, MaxPerFile + 1)
    BY <1>4 DEF StoredCount
  <2>. HIDE DEF n
  <2>. QED
    BY <1>2, <2>1, FullFiles
<1>6. FilesUsedUp
  <2>1. CASE opt.dynamic
    <3>1. nrecords # 0
      BY <1>3
    <3>2. opt.maxCrd # 0
      BY <1>1, <1>2, <1>3, <2>1, <3>1 DEF NotLastInv, IsLastFile
    <3>. QED
      BY <1>2, <2>1, <3>2 DEF FilesUsedUp
  <2>2. CASE ~ opt.dynamic
    <3>1. Len(files) = filenames
      BY <1>2, <1>3 DEF Hard!IsLastFile, Hard!CurrentFileIndex
    <3>. QED
      BY <2>2, <3>1 DEF FilesUsedUp
  <2>. QED
    BY <2>1, <2>2
<1>7. StoredCount = crdCounter
  BY <1>1, <1>2, <1>3 DEF TakenInv, Dropped
<1>. QED
  BY <1>3, <1>5, <1>6, <1>7

\* While records are read only an overrun has terminated the writer.
LEMMA WhenTerminated ==
  ASSUME OutputInv, SelectionInv, HasNextHit, Hard!IsTerminated
  PROVE  Dropped
<1>1. pc = "read" /\ pc # "idle" /\ pc # "exit" /\ pc \in Loop
  BY DEF HasNextHit, Reading, Loop
<1>2. /\ StoredInv /\ TakenInv /\ ReadingInv /\ FilledInv
      /\ Len(files) \in Nat /\ crdCounter \in Nat /\ MaxTotal \in Nat /\ StoredCount \in Nat
  BY <1>1, CountTypes DEF SelectionInv, ActiveInv, OutputInv
<1>3. terminated
  <2>1. filenames \in Nat
    BY SequenceFacts DEF OutputInv, TypeInv, NamesInv
  <2>2. ~ (Len(files) - 1 >= filenames)
    BY <1>2, <2>1 DEF FilledInv
  <2>. QED
    BY <2>2 DEF Hard!IsTerminated, Hard!CurrentFileIndex
<1>4. ~ (MaxTotal > 0 /\ counter = MaxTotal)
  <2>1. MaxTotal > 0 => crdCounter < MaxTotal
    BY <1>1, <1>2 DEF ReadingInv
  <2>2. counter = StoredCount /\ StoredCount <= crdCounter
    BY <1>1, <1>2 DEF StoredInv, TakenInv
  <2>. QED
    BY <1>2, <2>1, <2>2
<1>. QED
  BY <1>1, <1>2, <1>3, <1>4 DEF TakenInv

\* What was dropped stays so.
LEMMA DroppedStays ==
  ASSUME Dropped, UNCHANGED << opt, files, filenames, terminated >>
  PROVE  Dropped'
BY DEF Dropped, FilesUsedUp, StoredCount, RankIn

(***************************************************************************)
(* A record is read, and stored, dropped, or skipped.                      *)
(***************************************************************************)
LEMMA StoreSelection ==
  ASSUME OutputInv, OutputInv', SelectionInv, HasNextHit, NextKind \in {"calo", "tracker"},
         Store(NextRhd) \/ (IsTerminated /\ UNCHANGED writervars), Count
  PROVE  SelectionInv'
<1>1. /\ ReadingInv' /\ pc' = "control" /\ outcome' = "none"
      /\ opt' = opt /\ inputs' = inputs /\ crdCounter' = crdCounter + 1
  BY ReadOne
<1>2. pc = "read" /\ pc # "idle" /\ pc # "exit" /\ pc \in Loop
  BY DEF HasNextHit, Reading, Loop
<1>3. /\ SessionInv /\ StoredInv /\ TakenInv /\ crdCounter \in Nat /\ StoredCount \in Nat
  BY <1>2, CountTypes DEF SelectionInv, ActiveInv
<1>4. StoredInv' /\ TakenInv'
  <2>1. CASE Hard!StoreWrites(NextRhd)
    <3>1. /\ StoredInv' /\ StoredCount = crdCounter /\ StoredCount' = StoredCount + 1
          /\ terminated' = (MaxTotal > 0 /\ counter' = MaxTotal)
      BY <2>1, WriteSelected
    <3>2. StoredCount' = crdCounter' /\ StoredCount' <= crdCounter'
      BY <1>1, <1>3, <3>1
    <3>. QED
      BY <3>1, <3>2 DEF TakenInv
  <2>2. CASE /\ opt.overrun /\ ~ Hard!IsTerminated /\ Hard!Overrun /\ terminated' = TRUE
             /\ UNCHANGED << filenames, files, counter >>
    <3>1. StoredInv' /\ StoredCount' = StoredCount
      BY <1>1, <1>3, <2>2, StoredStays
    <3>2. /\ MaxPerFile > 0 /\ StoredCount = Len(files) * MaxPerFile /\ FilesUsedUp
          /\ StoredCount = crdCounter
      BY <2>2, WhenFull
    <3>3. Dropped'
      BY <1>1, <2>2, <3>1, <3>2 DEF Dropped, FilesUsedUp
    <3>4. StoredCount' <= crdCounter'
      BY <1>1, <1>3, <3>1, <3>2
    <3>. QED
      BY <3>1, <3>3, <3>4 DEF TakenInv
  <2>3. CASE IsTerminated /\ UNCHANGED writervars
    <3>1. Dropped
      BY <2>3, WhenTerminated DEF IsTerminated
    <3>2. UNCHANGED << opt, inputs, files, filenames, counter, terminated >>
      BY <1>1, <2>3 DEF writervars
    <3>3. StoredInv' /\ StoredCount' = StoredCount /\ Dropped'
      BY <1>3, <3>1, <3>2, StoredStays, DroppedStays
    <3>4. StoredCount <= crdCounter
      BY <1>2, <1>3 DEF TakenInv
    <3>5. StoredCount' <= crdCounter'
      BY <1>1, <1>3, <3>3, <3>4
    <3>. QED
      BY <3>3, <3>5 DEF TakenInv
  <2>. QED
    BY <2>1, <2>2, <2>3, StoreWays
<1>5. SessionInv'
  BY <1>1, <1>2, <1>3 DEF SessionInv, Loop
<1>6. NotLastInv' /\ EndInv'
  BY <1>1 DEF NotLastInv, EndInv
<1>7. SelectionStored' /\ OverrunJustified'
  BY <1>1, <1>4, StillSelected
<1>. QED
  BY <1>1, <1>4, <1>5, <1>6, <1>7 DEF SelectionInv, ActiveInv

-----------------------------------------------------------------------------
(***************************************************************************)
(* The ranks of the places are numbers, and no place precedes the first,   *)
(* which is also needed of the state after a step.                         *)
(***************************************************************************)
HaveInputs == inputs \in InputLists

RanksAreNumbers == \A x : Rank(x) \in Nat /\ (x = << 1, 1 >> => Rank(x) = 0)

LEMMA RanksNow == HaveInputs => RanksAreNumbers
<1>. SUFFICES ASSUME inputs \in InputLists, NEW x
              PROVE  Rank(x) \in Nat /\ (x = << 1, 1 >> => Rank(x) = 0)
  BY DEF HaveInputs, RanksAreNumbers
<1>1. Rank(x) \in Nat
  BY FinitePreceding
<1>2. ASSUME x = << 1, 1 >> PROVE Rank(x) = 0
  <2>1. ASSUME NEW q \in FirstOfEach PROVE ~ Before(q[1], q[2], x[1], x[2])
    BY <1>2, PlaceFacts, InputFacts DEF Before, IsPlace
  <2>2. Preceding(x) = {}
    BY <2>1 DEF Preceding
  <2>. QED
    BY <2>2, FS_EmptySet DEF Rank
<1>. QED
  BY <1>1, <1>2

LEMMA RanksNext == HaveInputs' => RanksAreNumbers'
BY RanksNow, PTL

(***************************************************************************)
(* A session begins with nothing read and nothing stored.                  *)
(***************************************************************************)
LEMMA BootStored ==
  ASSUME NEW o, NEW l \in InputLists, Boot(o, l)
  PROVE  StoredInv' /\ StoredCount' = 0
<1>1. /\ inputs' = l /\ files' = << << >> >> /\ counter' = 0
  BY DEF Boot
<1>2. Len(files') = 1 /\ Len(files'[1]) = 0
  BY <1>1, FirstFile
<1>3. StoredCount' = 0
  BY <1>2, Crd2RhdAssumption DEF StoredCount, RankIn
<1>4. RanksAreNumbers'
  BY <1>1, RanksNext DEF HaveInputs
<1>5. AllRightlyStored'
  BY <1>2 DEF AllRightlyStored
<1>6. ASSUME NEW p PROVE ~ (Rank(p)' < StoredCount')
  BY <1>3, <1>4 DEF RanksAreNumbers
<1>. QED
  BY <1>1, <1>2, <1>3, <1>5, <1>6 DEF StoredInv

LEMMA BootSelection ==
  ASSUME OutputInv', NEW o \in Options, NEW l \in InputLists, Boot(o, l), pc' = "load"
  PROVE  SelectionInv'
<1>1. /\ opt' = o /\ inputs' = l /\ outcome' = "none" /\ ifile' = 1 /\ crdInFile' = 0
      /\ crdCounter' = 0 /\ nrecords' = 0 /\ terminated' = FALSE
  BY DEF Boot
<1>2. StoredInv' /\ StoredCount' = 0
  BY BootStored
<1>3. o.maxCrd \in Nat /\ MaxTotal \in Nat /\ l \in Seq(Seq({"calo", "tracker", "other"}))
  BY Crd2RhdAssumption
<1>4. ReadingInv'
  <2>1. RanksAreNumbers'
    BY <1>1, RanksNext DEF HaveInputs
  <2>2. Here' = << 1, 1 >>
    BY <1>1 DEF Here
  <2>3. Rank(Here)' = 0
    BY <2>1, <2>2 DEF RanksAreNumbers
  <2>4. Len(l) \in Nat /\ (1 <= Len(l) => Len(l[1]) \in Nat)
    <3>1. Len(l) \in Nat /\ \A f \in 1 .. Len(l) : l[f] \in Seq({"calo", "tracker", "other"})
      BY <1>3, SequenceFacts
    <3>. QED
      BY <3>1, SequenceFacts
  <2>. QED
    BY <1>1, <1>3, <2>3, <2>4 DEF ReadingInv
<1>5. SessionInv'
  BY <1>1 DEF SessionInv, Loop
<1>6. TakenInv'
  BY <1>1, <1>2 DEF TakenInv
<1>7. NotLastInv' /\ EndInv'
  BY <1>1 DEF NotLastInv, EndInv
<1>8. SelectionStored' /\ OverrunJustified'
  BY <1>1, <1>2, StillSelected
<1>. QED
  BY <1>2, <1>4, <1>5, <1>6, <1>7, <1>8 DEF SelectionInv, ActiveInv

\* Between sessions there is nothing to say of the files.
LEMMA IdleSelection ==
  ASSUME OutputInv', pc' = "idle", outcome' = "none", files' = << << >> >>
  PROVE  SelectionInv'
<1>1. /\ DOMAIN files' = 1 .. 1 /\ DOMAIN files'[1] = 1 .. 0
  BY FirstFile
<1>2. SelectionStored' /\ OverrunJustified'
  BY <1>1 DEF SelectionStored, OverrunJustified
<1>. QED
  BY <1>2 DEF SelectionInv, SessionInv, ActiveInv

-----------------------------------------------------------------------------
(***************************************************************************)
(* The steps between two records: the files stay as they are.              *)
(***************************************************************************)
LEMMA QuietSelection ==
  ASSUME OutputInv', SelectionInv, pc \notin {"idle", "exit"}, pc' \in Loop \cup {"save", "saving"},
         UNCHANGED << opt, inputs, outcome, crdCounter, files, counter, terminated >>,
         Dropped => Dropped', ReadingInv', NotLastInv', EndInv'
  PROVE  SelectionInv'
<1>1. /\ opt \in Options /\ inputs \in InputLists /\ outcome = "none"
      /\ StoredInv /\ TakenInv
  BY DEF SelectionInv, SessionInv, ActiveInv
<1>2. StoredInv' /\ StoredCount' = StoredCount
  BY <1>1, StoredStays
<1>3. TakenInv'
  BY <1>1, <1>2 DEF TakenInv
<1>4. SessionInv'
  BY <1>1 DEF SessionInv, Loop
<1>5. SelectionStored' /\ OverrunJustified'
  BY <1>1, <1>2, StillSelected
<1>. QED
  BY <1>2, <1>3, <1>4, <1>5 DEF SelectionInv, ActiveInv

LEMMA LoadSelection ==
  ASSUME OutputInv', SelectionInv, LoadFakeId
  PROVE  SelectionInv'
<1>1. /\ pc = "load" /\ pc' = "read"
      /\ UNCHANGED << opt, inputs, outcome, ifile, crdInFile, crdCounter, writervars >>
  BY DEF LoadFakeId, convars
<1>2. UNCHANGED << filenames, files, nrecords, counter, terminated >>
  BY <1>1 DEF writervars
<1>3. ReadingInv /\ NotLastInv
  BY <1>1 DEF SelectionInv, ActiveInv
<1>4. Rank(Here)' = Rank(Here)
  BY <1>1, RankOfHere DEF Here
<1>5. ReadingInv'
  BY <1>1, <1>3, <1>4 DEF ReadingInv, Loop
<1>6. NotLastInv' /\ EndInv'
  BY <1>1, <1>2, <1>3 DEF NotLastInv, EndInv, IsLastFile, Hard!IsLastFile, Hard!CurrentFileIndex
<1>7. Dropped => Dropped'
  BY <1>1, <1>2, DroppedStays
<1>. QED
  BY <1>1, <1>2, <1>5, <1>6, <1>7, QuietSelection DEF Loop

\* All the records selected of the CRD file are read: the next one is in the next file.
LEMMA NextFileReading ==
  ASSUME OutputInv, SelectionInv, pc \in {"read", "control"}, ifile <= Len(inputs),
         \A q \in FirstOfEach : q[1] = ifile => q[2] <= crdInFile,
         MaxTotal > 0 => crdCounter < MaxTotal,
         pc' = "read", UNCHANGED << opt, inputs, crdCounter >>, ifile' = ifile + 1, crdInFile' = 0
  PROVE  ReadingInv'
<1>1. pc \in Loop /\ pc # "idle"
  BY DEF Loop
<1>2. /\ inputs \in InputLists /\ opt.maxCrd \in Nat /\ MaxTotal \in Nat
      /\ ifile \in Nat /\ crdInFile \in Nat /\ crdCounter \in Nat
  BY <1>1, CountTypes DEF SelectionInv, SessionInv
<1>3. /\ crdCounter = Rank(Here) /\ ifile \in 1 .. Len(inputs) + 1
  BY <1>1 DEF SelectionInv, ActiveInv, ReadingInv
<1>. DEFINE x == << ifile + 1, 1 >>
<1>4. Rank(Here) = Rank(x)
  <2>1. ASSUME NEW q \in FirstOfEach
        PROVE  Before(q[1], q[2], Here[1], Here[2]) <=> Before(q[1], q[2], x[1], x[2])
    <3>1. q[1] \in Nat /\ q[2] \in Nat /\ 1 <= q[2] /\ (q[1] = ifile => q[2] <= crdInFile)
      BY <1>2, PlaceFacts, InputFacts DEF IsPlace
    <3>2. Here[1] = ifile /\ Here[2] = crdInFile + 1 /\ x[1] = ifile + 1 /\ x[2] = 1
      BY DEF Here
    <3>. QED
      BY <1>2, <3>1, <3>2 DEF Before
  <2>. QED
    BY <2>1, RankSame
<1>5. Rank(Here)' = crdCounter'
  <2>1. Here' = x
    BY DEF Here
  <2>. HIDE DEF x
  <2>2. Rank(Here)' = Rank(x)
    BY <2>1, RankOfHere
  <2>. QED
    BY <1>3, <1>4, <2>2
<1>6. Len(inputs) \in Nat /\ ifile + 1 \in 1 .. Len(inputs) + 1
  BY <1>2, <1>3, InputFacts
<1>7. ifile + 1 <= Len(inputs) => 0 <= Len(inputs[ifile + 1])
  <2>. SUFFICES ASSUME ifile + 1 <= Len(inputs) PROVE 0 <= Len(inputs[ifile + 1])
    OBVIOUS
  <2>1. ifile + 1 \in 1 .. Len(inputs)
    BY <1>2, <1>6
  <2>2. Len(inputs[ifile + 1]) \in Nat
    BY <1>2, <2>1, InputFacts
  <2>. QED
    BY <2>2
<1>. QED
  BY <1>2, <1>5, <1>6, <1>7 DEF ReadingInv

LEMMA BreakSelection ==
  ASSUME OutputInv, OutputInv', SelectionInv, Break
  PROVE  SelectionInv'
<1>1. /\ pc = "control" /\ pc \in Loop
      /\ UNCHANGED << opt, inputs, outcome, crdCounter, filenames, files, counter, terminated >>
  BY DEF Break, convars, writervars, Loop
<1>2. /\ ReadingInv /\ opt.maxCrd \in Nat /\ MaxTotal \in Nat /\ crdCounter \in Nat
      /\ crdInFile \in Nat /\ inputs \in InputLists
  BY <1>1, CountTypes DEF SelectionInv, SessionInv, ActiveInv
<1>3. Dropped => Dropped'
  BY <1>1, DroppedStays
<1>4. CASE EndOfInput
  <2>1. pc' = "save"
    BY <1>4 DEF Break
  <2>2. EndInv'
    <3>1. \A p \in Selected : Rank(p) < crdCounter
      BY <1>2, <1>4 DEF EndOfInput, Selected
    <3>2. Selected' = Selected /\ \A x : Rank(x)' = Rank(x)
      BY <1>1, RanksStay
    <3>. QED
      BY <1>1, <3>1, <3>2 DEF EndInv
  <2>3. ReadingInv' /\ NotLastInv'
    BY <2>1 DEF ReadingInv, NotLastInv, Loop
  <2>. QED
    BY <1>1, <1>3, <2>1, <2>2, <2>3, QuietSelection
<1>5. CASE ~ EndOfInput
  <2>1. /\ pc' = "read" /\ ifile' = ifile + 1 /\ crdInFile' = 0
        /\ opt.maxCrd > 0 /\ crdInFile = opt.maxCrd
    BY <1>5 DEF Break, EndOfInputFile
  <2>2. ASSUME NEW q \in FirstOfEach PROVE q[2] <= crdInFile
    BY <1>2, <2>1, PlaceFacts DEF IsPlace
  <2>3. ifile <= Len(inputs) /\ (MaxTotal > 0 => crdCounter < MaxTotal)
    BY <1>1, <1>2, <1>5 DEF ReadingInv, EndOfInput
  <2>4. ReadingInv'
    BY <1>1, <2>1, <2>2, <2>3, NextFileReading
  <2>5. NotLastInv' /\ EndInv'
    BY <1>1, <2>1 DEF NotLastInv, EndInv
  <2>. QED
    BY <1>1, <1>3, <2>1, <2>4, <2>5, QuietSelection DEF Loop
<1>. QED
  BY <1>4, <1>5

LEMMA NextFileSelection ==
  ASSUME OutputInv, OutputInv', SelectionInv, NextInputFile
  PROVE  SelectionInv'
<1>1. /\ pc = "read" /\ pc' = "read" /\ pc \in Loop /\ ifile <= Len(inputs)
      /\ ifile' = ifile + 1 /\ crdInFile' = 0
      /\ UNCHANGED << opt, inputs, outcome, crdCounter, filenames, files, nrecords, counter,
                      terminated >>
  BY DEF NextInputFile, Reading, convars, writervars, Loop
<1>2. /\ ReadingInv /\ NotLastInv /\ crdInFile \in Nat /\ ifile \in Nat /\ inputs \in InputLists
      /\ crdCounter \in Nat /\ MaxTotal \in Nat
  BY <1>1, CountTypes DEF SelectionInv, SessionInv, ActiveInv
<1>3. ASSUME NEW q \in FirstOfEach, q[1] = ifile PROVE q[2] <= crdInFile
  <2>1. IsPlace(q)
    BY <1>2, PlaceFacts
  <2>2. ~ (crdInFile < Len(inputs[ifile]))
    BY <1>1 DEF NextInputFile, HasNextHit, Reading
  <2>3. q[2] \in 1 .. Len(inputs[ifile]) /\ Len(inputs[ifile]) \in Nat
    BY <1>2, <1>3, <2>1, InputFacts DEF IsPlace
  <2>. QED
    BY <1>2, <2>2, <2>3
<1>4. MaxTotal > 0 => crdCounter < MaxTotal
  BY <1>1, <1>2 DEF ReadingInv
<1>5. ReadingInv'
  BY <1>1, <1>3, <1>4, NextFileReading
<1>6. NotLastInv' /\ EndInv'
  BY <1>1, <1>2 DEF NotLastInv, EndInv, IsLastFile, Hard!IsLastFile, Hard!CurrentFileIndex
<1>7. Dropped => Dropped'
  BY <1>1, DroppedStays
<1>. QED
  BY <1>1, <1>5, <1>6, <1>7, QuietSelection DEF Loop

\* When the CRD files are read to the end, all the selected records precede the place reached.
LEMMA EndSelection ==
  ASSUME OutputInv, OutputInv', SelectionInv, EndOfReading
  PROVE  SelectionInv'
<1>1. /\ pc = "read" /\ pc' = "save" /\ pc \in Loop /\ ifile > Len(inputs)
      /\ UNCHANGED << opt, inputs, outcome, crdCounter, filenames, files, counter, terminated >>
  BY DEF EndOfReading, convars, writervars, Loop
<1>2. /\ ReadingInv /\ crdInFile \in Nat /\ ifile \in Nat /\ inputs \in InputLists
  BY <1>1, CountTypes DEF SelectionInv, SessionInv, ActiveInv
<1>3. ASSUME NEW p \in Selected PROVE Rank(p) < crdCounter
  <2>1. p \in FirstOfEach /\ IsPlace(p)
    BY <1>2, PlaceFacts DEF Selected
  <2>2. Here[1] = ifile /\ Here[2] = crdInFile + 1 /\ crdInFile + 1 \in Nat
    BY <1>2 DEF Here
  <2>3. Before(p[1], p[2], Here[1], Here[2])
    BY <1>1, <1>2, <2>1, <2>2, InputFacts DEF IsPlace, Before
  <2>4. Rank(p) < Rank(Here)
    BY <1>2, <2>1, <2>2, <2>3, RankBelow
  <2>. QED
    BY <1>1, <1>2, <2>4 DEF ReadingInv
<1>4. EndInv'
  <2>1. Selected' = Selected /\ \A x : Rank(x)' = Rank(x)
    BY <1>1, RanksStay
  <2>. QED
    BY <1>1, <1>3, <2>1 DEF EndInv
<1>5. ReadingInv' /\ NotLastInv'
  BY <1>1 DEF ReadingInv, NotLastInv, Loop
<1>6. Dropped => Dropped'
  BY <1>1, DroppedStays
<1>. QED
  BY <1>1, <1>4, <1>5, <1>6, QuietSelection

(***************************************************************************)
(* A file is added at the end of the iteration that begins the last one:   *)
(* if CRD files are read whole, the next record never finds the last full. *)
(***************************************************************************)
LEMMA ContinueSelection ==
  ASSUME OutputInv, OutputInv', SelectionInv, Continue
  PROVE  SelectionInv'
<1>1. /\ pc = "control" /\ pc' = "read" /\ pc \in Loop /\ ~ EndOfInput /\ ~ EndOfInputFile
      /\ UNCHANGED << opt, inputs, outcome, ifile, crdInFile, crdCounter >>
  BY DEF Continue, convars, Loop
<1>2. /\ UNCHANGED << files, nrecords, counter, terminated >>
      /\ filenames' = IF opt.dynamic /\ IsLastFile THEN filenames + 1 ELSE filenames
  BY DEF Continue, AddOutputFile, Hard!AddFilename, writervars
<1>3. /\ ReadingInv /\ opt.maxCrd \in Nat /\ MaxTotal \in Nat /\ crdCounter \in Nat
      /\ crdInFile \in Nat /\ ifile \in Nat /\ inputs \in InputLists /\ Len(files) \in Nat
  BY <1>1, CountTypes DEF SelectionInv, SessionInv, ActiveInv
<1>4. filenames \in Nat
  BY SequenceFacts DEF OutputInv, TypeInv, NamesInv
<1>5. ReadingInv'
  <2>1. Rank(Here)' = Rank(Here)
    BY <1>1, RankOfHere DEF Here
  <2>2. /\ opt.maxCrd > 0 => crdInFile < opt.maxCrd
        /\ MaxTotal > 0 => crdCounter < MaxTotal
    BY <1>1, <1>3 DEF ReadingInv, EndOfInput, EndOfInputFile
  <2>. QED
    BY <1>1, <1>3, <2>1, <2>2 DEF ReadingInv
<1>6. NotLastInv'
  <2>1. opt.dynamic => (IsLastFile') = FALSE
    BY <1>2, <1>3, <1>4 DEF IsLastFile, Hard!IsLastFile, Hard!CurrentFileIndex
  <2>. QED
    BY <1>1, <2>1 DEF NotLastInv
<1>7. EndInv'
  BY <1>1 DEF EndInv
<1>8. Dropped => Dropped'
  BY <1>1, <1>2 DEF Dropped, FilesUsedUp, StoredCount, RankIn
<1>. QED
  BY <1>1, <1>2, <1>5, <1>6, <1>7, <1>8, QuietSelection DEF Loop

LEMMA OpenSelection ==
  ASSUME OutputInv', SelectionInv, OpenSave
  PROVE  SelectionInv'
<1>1. /\ pc = "save" /\ pc' = "saving"
      /\ UNCHANGED << opt, inputs, outcome, crdCounter, filenames, files, counter, terminated >>
  BY DEF OpenSave, convars, writervars
<1>2. EndInv'
  <2>1. Selected' = Selected /\ \A x : Rank(x)' = Rank(x)
    BY <1>1, RanksStay
  <2>. QED
    BY <1>1, <2>1 DEF SelectionInv, ActiveInv, EndInv
<1>3. ReadingInv' /\ NotLastInv'
  BY <1>1 DEF ReadingInv, NotLastInv, Loop
<1>4. Dropped => Dropped'
  BY <1>1, DroppedStays
<1>. QED
  BY <1>1, <1>2, <1>3, <1>4, QuietSelection

-----------------------------------------------------------------------------
(***************************************************************************)
(* The ends of a session.                                                  *)
(***************************************************************************)
LEMMA EndedSelection ==
  ASSUME OutputInv', SelectionInv, pc \notin {"idle", "exit"}, pc' = "exit",
         UNCHANGED << opt, inputs, files, counter >>, SelectionStored', OverrunJustified'
  PROVE  SelectionInv'
<1>1. opt \in Options /\ inputs \in InputLists /\ StoredInv
  BY DEF SelectionInv, SessionInv, ActiveInv
<1>2. StoredInv'
  BY <1>1, StoredStays
<1>3. SessionInv'
  BY <1>1 DEF SessionInv
<1>4. ReadingInv' /\ TakenInv' /\ NotLastInv' /\ EndInv'
  BY DEF ReadingInv, TakenInv, NotLastInv, EndInv, Loop
<1>. QED
  BY <1>2, <1>3, <1>4 DEF SelectionInv, ActiveInv

\* The part of SelectionStored that says what is in the files.
LEMMA FilesStayRight ==
  ASSUME OutputInv, SelectionInv, pc # "idle", UNCHANGED << opt, inputs, files >>
  PROVE  \A f \in DOMAIN files' : \A m \in DOMAIN files'[f] : RightlyStored(f, m)'
<1>1. /\ FirstOfEach' = FirstOfEach /\ Selected' = Selected /\ \A x : Rank(x)' = Rank(x)
  BY RanksStay
<1>2. \A f \in DOMAIN files : \A m \in DOMAIN files[f] : RightlyStored(f, m)
  BY DEF SelectionInv, SelectionStored
<1>. QED
  BY <1>1, <1>2 DEF RightlyStored, PlaceOf, RankIn

LEMMA FailureSelection ==
  ASSUME OutputInv, OutputInv', SelectionInv, LoadFails \/ ParseFails \/ Crash
  PROVE  SelectionInv'
<1>1. /\ pc \notin {"idle", "exit"} /\ pc' = "exit" /\ outcome' \notin {"returned", "overrun"}
      /\ UNCHANGED << opt, inputs, files, counter >>
  <2>1. pc \notin {"idle", "exit"} /\ (EndWith("unreadable") \/ EndWith("rejected") \/ EndWith("crashed"))
    BY DEF LoadFails, ParseFails, Crash, HasNextHit, Reading
  <2>. QED
    BY <2>1 DEF EndWith, convars, writervars
<1>2. StoredInv'
  BY <1>1, StoredStays DEF SelectionInv, ActiveInv
<1>3. SelectionStored' /\ OverrunJustified'
  BY <1>1, <1>2, StillSelected
<1>. QED
  BY <1>1, <1>3, EndedSelection

(***************************************************************************)
(* A session that returns: a selected record that is not stored has been   *)
(* dropped, or read after one that has.                                    *)
(***************************************************************************)
LEMMA ReturnSelection ==
  ASSUME OutputInv, OutputInv', SelectionInv, ReturnUnsaved \/ WriteSave
  PROVE  SelectionInv'
<1>1. /\ pc \in {"save", "saving"} /\ pc' = "exit" /\ outcome' = "returned"
      /\ UNCHANGED << opt, inputs, filenames, files, counter >>
  BY DEF ReturnUnsaved, WriteSave, Return, writervars
<1>2. /\ StoredInv /\ TakenInv /\ EndInv /\ inputs \in InputLists /\ StoredCount \in Nat
  BY <1>1, CountTypes DEF SelectionInv, SessionInv, ActiveInv
<1>3. ASSUME NEW p \in Selected
      PROVE  IsStored(p) \/ (opt.overrun /\ BeyondFiles(p) /\ FilesUsedUp)
  <2>1. p \in FirstOfEach /\ Rank(p) \in Nat /\ Rank(p) < crdCounter
    BY <1>1, <1>2, FinitePreceding DEF EndInv, Selected
  <2>2. CASE Rank(p) < StoredCount
    BY <1>2, <2>1, <2>2 DEF StoredInv
  <2>3. CASE ~ (Rank(p) < StoredCount)
    <3>1. Dropped
      BY <1>1, <1>2, <2>1, <2>3 DEF TakenInv
    <3>2. Rank(p) >= StoredCount
      BY <1>2, <2>1, <2>3
    <3>. QED
      BY <3>1, <3>2 DEF Dropped, BeyondFiles
  <2>. QED
    BY <2>2, <2>3
<1>4. /\ FirstOfEach' = FirstOfEach /\ Selected' = Selected /\ \A x : Rank(x)' = Rank(x)
  BY <1>1, RanksStay
<1>5. ASSUME NEW p \in Selected'
      PROVE  IsStored(p)' \/ (opt'.overrun /\ BeyondFiles(p)' /\ FilesUsedUp')
  BY <1>1, <1>3, <1>4, <1>5 DEF IsStored, PlaceOf, BeyondFiles, FilesUsedUp
<1>6. SelectionStored'
  BY <1>1, <1>5, FilesStayRight DEF SelectionStored
<1>7. OverrunJustified'
  BY <1>1 DEF OverrunJustified
<1>. QED
  BY <1>1, <1>6, <1>7, EndedSelection

(***************************************************************************)
(* A session that dies of the writer: the record it was storing is beyond  *)
(* the files.                                                              *)
(***************************************************************************)
LEMMA OverrunSelection ==
  ASSUME OutputInv, OutputInv', SelectionInv, StoreFails
  PROVE  SelectionInv'
<1>1. /\ HasNextHit /\ pc = "read" /\ pc' = "exit" /\ outcome' = "overrun"
      /\ UNCHANGED << opt, inputs, filenames, files, counter >>
  BY DEF StoreFails, EndWith, convars, writervars, HasNextHit, Reading
<1>2. /\ StoredInv /\ TakenInv /\ crdCounter \in Nat /\ StoredCount \in Nat /\ MaxPerFile \in Nat
      /\ opt.overrun \in BOOLEAN
  BY <1>1, CountTypes DEF SelectionInv, ActiveInv, Loop
<1>3. Here \in Selected /\ Rank(Here) = crdCounter /\ inputs[Here[1]][Here[2]] = NextKind
  BY <1>1, NextIsSelected DEF Here, NextKind
<1>4. /\ MaxPerFile > 0 /\ StoredCount = Len(files) * MaxPerFile /\ FilesUsedUp
      /\ opt.overrun => NextKind = "calo"
  <2>1. CASE IsTerminated
    <3>1. Dropped
      BY <1>1, <2>1, WhenTerminated DEF IsTerminated
    <3>2. NextKind = "calo"
      BY <2>1 DEF StoreFails
    <3>. QED
      BY <3>1, <3>2 DEF Dropped
  <2>2. CASE ~ IsTerminated
    <3>1. ~ opt.overrun /\ Hard!Overrun
      BY <1>2, <2>2 DEF StoreFails, StoreThrows, Soft!StoreThrows, Hard!StoreThrows, IsTerminated,
              Soft!IsTerminated, Hard!IsTerminated, Soft!CurrentFileIndex, Hard!CurrentFileIndex
    <3>. QED
      BY <1>1, <2>2, <3>1, WhenFull DEF IsTerminated
  <2>. QED
    BY <2>1, <2>2
<1>5. BeyondFiles(Here)
  <2>1. StoredCount <= crdCounter
    BY <1>1, <1>2 DEF TakenInv
  <2>2. Rank(Here) >= Len(files) * MaxPerFile
    BY <1>2, <1>3, <1>4, <2>1
  <2>. QED
    BY <1>4, <2>2 DEF BeyondFiles
<1>6. /\ FirstOfEach' = FirstOfEach /\ Selected' = Selected /\ \A x : Rank(x)' = Rank(x)
  BY <1>1, RanksStay
<1>7. OverrunJustified'
  <2>1. PICK p \in Selected : p = Here
    BY <1>3
  <2>2. p \in Selected' /\ BeyondFiles(p)' /\ FilesUsedUp'
    BY <1>1, <1>4, <1>5, <1>6, <2>1 DEF BeyondFiles, FilesUsedUp
  <2>3. opt'.overrun => inputs'[p[1]][p[2]] = "calo"
    BY <1>1, <1>3, <1>4, <2>1
  <2>. QED
    BY <2>2, <2>3 DEF OverrunJustified
<1>8. SelectionStored'
  BY <1>1, FilesStayRight DEF SelectionStored
<1>. QED
  BY <1>1, <1>7, <1>8, EndedSelection

LEMMA StutterSelection ==
  ASSUME OutputInv, SelectionInv, UNCHANGED vars
  PROVE  SelectionInv'
<1>1. UNCHANGED << pc, outcome, opt, inputs, ifile, crdInFile, crdCounter, filenames, files,
                   nrecords, counter, terminated >>
  BY DEF vars, convars, writervars
<1>2. /\ FirstOfEach' = FirstOfEach /\ Selected' = Selected /\ \A x : Rank(x)' = Rank(x)
  BY <1>1, RanksStay
<1>3. SelectionStored' /\ OverrunJustified'
  BY <1>1, <1>2 DEF SelectionInv, SelectionStored, RightlyStored, PlaceOf, RankIn, IsStored,
                    BeyondFiles, FilesUsedUp, OverrunJustified
<1>4. SessionInv'
  BY <1>1 DEF SelectionInv, SessionInv
<1>5. ASSUME pc # "idle"
      PROVE  ReadingInv' /\ StoredInv' /\ TakenInv' /\ NotLastInv' /\ EndInv'
  <2>1. ReadingInv /\ StoredInv /\ TakenInv /\ NotLastInv /\ EndInv
    BY <1>5 DEF SelectionInv, ActiveInv
  <2>2. StoredInv' /\ StoredCount' = StoredCount
    BY <1>1, <2>1, StoredStays
  <2>3. Rank(Here)' = Rank(Here)
    BY <1>1, RankOfHere DEF Here
  <2>4. ReadingInv'
    BY <1>1, <2>1, <2>3 DEF ReadingInv
  <2>5. Dropped => Dropped'
    BY <1>1, DroppedStays
  <2>6. TakenInv'
    BY <1>1, <2>1, <2>2, <2>5 DEF TakenInv
  <2>7. NotLastInv'
    BY <1>1, <2>1 DEF NotLastInv, IsLastFile, Hard!IsLastFile, Hard!CurrentFileIndex
  <2>8. EndInv'
    BY <1>1, <1>2, <2>1 DEF EndInv
  <2>. QED
    BY <2>2, <2>4, <2>6, <2>7, <2>8
<1>. QED
  BY <1>1, <1>3, <1>4, <1>5 DEF SelectionInv, ActiveInv

-----------------------------------------------------------------------------
(***************************************************************************)
(* In every state of every session: what is stored are selected records in *)
(* their order, and a session that returns has stored all of them, or has  *)
(* been allowed to overrun files it could not add to.                      *)
(***************************************************************************)
LEMMA InitSelection == Init => SelectionInv
<1>. SUFFICES ASSUME Init PROVE SelectionInv
  OBVIOUS
<1>1. pc = "idle" /\ outcome = "none" /\ files = << << >> >>
  BY DEF Init, Hard!WriterInit
<1>2. /\ DOMAIN files = 1 .. 1 /\ DOMAIN files[1] = 1 .. 0
  BY <1>1, FirstFile
<1>3. SelectionStored /\ OverrunJustified
  BY <1>1, <1>2 DEF SelectionStored, OverrunJustified
<1>. QED
  BY <1>1, <1>3 DEF SelectionInv, SessionInv, ActiveInv

LEMMA NextSelection == OutputInv /\ SelectionInv /\ [Next]_vars => OutputInv' /\ SelectionInv'
<1>. SUFFICES ASSUME OutputInv, SelectionInv, [Next]_vars PROVE OutputInv' /\ SelectionInv'
  OBVIOUS
<1>0. OutputInv'
  BY NextOutput
<1>1. CASE StartSession
  <2>1. PICK o \in Options, l \in InputLists : Boot(o, l)
    BY <1>1 DEF StartSession
  <2>2. pc' = "load"
    BY <1>1 DEF StartSession
  <2>. QED
    BY <1>0, <2>1, <2>2, BootSelection
<1>2. CASE LoadFakeId
  BY <1>0, <1>2, LoadSelection
<1>3. CASE StoreCalo
  BY <1>0, <1>3, StoreSelection DEF StoreCalo
<1>4. CASE StoreTracker
  BY <1>0, <1>4, StoreSelection DEF StoreTracker
<1>5. CASE Break
  BY <1>0, <1>5, BreakSelection
<1>6. CASE Continue
  BY <1>0, <1>6, ContinueSelection
<1>7. CASE NextInputFile
  BY <1>0, <1>7, NextFileSelection
<1>8. CASE EndOfReading
  BY <1>0, <1>8, EndSelection
<1>9. CASE ReturnUnsaved \/ WriteSave
  BY <1>0, <1>9, ReturnSelection
<1>10. CASE OpenSave
  BY <1>0, <1>10, OpenSelection
<1>11. CASE LoadFails \/ ParseFails \/ Crash
  BY <1>0, <1>11, FailureSelection
<1>12. CASE StoreFails
  BY <1>0, <1>12, OverrunSelection
<1>13. CASE Exit
  <2>1. pc' = "idle" /\ outcome' = "none" /\ files' = << << >> >>
    BY <1>13 DEF Exit, Boot
  <2>. QED
    BY <1>0, <2>1, IdleSelection
<1>14. CASE UNCHANGED vars
  BY <1>0, <1>14, StutterSelection
<1>. QED
  BY <1>1, <1>2, <1>3, <1>4, <1>5, <1>6, <1>7, <1>8, <1>9, <1>10, <1>11, <1>12, <1>13, <1>14
  DEF Next, Stop

(***************************************************************************)
(* The counters of the loop, the files and the writer agree on the rank of *)
(* the next record, in any session.                                        *)
(***************************************************************************)
THEOREM SelectionInvariant == Spec => [](OutputInv /\ SelectionInv)
BY InitOutput, InitSelection, NextSelection, PTL DEF Spec

(***************************************************************************)
(* No selected record is lost, duplicated or out of order in a session     *)
(* that returns, but for a tolerated overrun.                              *)
(***************************************************************************)
THEOREM SelectedAreStored == Spec => []SelectionStored
<1>1. SelectionInv => SelectionStored
  BY DEF SelectionInv
<1>. QED
  BY <1>1, SelectionInvariant, PTL

(***************************************************************************)
(* A session dies of an overrun only if its files are too small and it     *)
(* could not add any.                                                      *)
(***************************************************************************)
THEOREM OverrunsAreJustified == Spec => []OverrunJustified
<1>1. SelectionInv => OverrunJustified
  BY DEF SelectionInv
<1>. QED
  BY <1>1, SelectionInvariant, PTL
=============================================================================
