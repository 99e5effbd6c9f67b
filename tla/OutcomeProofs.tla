--------------------------- MODULE OutcomeProofs ---------------------------
(***************************************************************************)
(* What becomes of the RTDs that were built, and of the whole run: what is *)
(* in the files for any inputs and limits, that a run that returns has     *)
(* written what its limits admit, that only inputs that are not acceptable *)
(* make a thread throw, and that all of it builds events as EventBuilding  *)
(* says.                                                                   *)
(***************************************************************************)
EXTENDS EventProofs, SequenceTheorems, FiniteSetTheorems

-----------------------------------------------------------------------------
(***************************************************************************)
(* The inductive invariant of the output.  QueueInv: what is in the output *)
(* buffer is what was built last.                                          *)
(***************************************************************************)
QueueInv ==
  /\ orecords + Len(obuf) = Len(built)
  /\ \A k \in 1 .. Len(obuf) : obuf[k] = built[orecords + k]

(***************************************************************************)
(* CountInv: the writer has every RTD the output worker took until it is   *)
(* terminated, and it is terminated only at one of its limits.             *)
(***************************************************************************)
CountInv ==
  /\ filenames = OutputFiles
  /\ counter <= orecords
  /\ ~ terminated => counter = orecords
  /\ MaxTotal > 0 => counter <= MaxTotal /\ (~ terminated => counter < MaxTotal)
  /\ terminated =>
       \/ MaxTotal > 0 /\ counter = MaxTotal
       \/ TerminateOnOverrun /\ MaxPerFile > 0 /\ counter = Room

(***************************************************************************)
(* FilesInv: all files but the last one are full, and its count is right   *)
(* until the writer is terminated.                                         *)
(***************************************************************************)
FilesInv ==
  /\ Len(files) \in 1 .. OutputFiles
  /\ MaxPerFile = 0 => Len(files) = 1
  /\ MaxPerFile > 0 => Len(LastFile) <= MaxPerFile
  /\ ~ terminated => nrecords = Len(LastFile)
  /\ \A f \in 1 .. Len(files) - 1 : Len(files[f]) = MaxPerFile
  /\ counter = (Len(files) - 1) * MaxPerFile + Len(LastFile)

\* The k-th RTD of file f is where it belongs.
PlacesInv ==
  \A f \in 1 .. Len(files) : \A k \in 1 .. Len(files[f]) :
    files[f][k] = built[(f - 1) * MaxPerFile + k]

(***************************************************************************)
(* StopInv: the output worker stops when the writer is terminated, or when *)
(* the merger is and nothing is left to store.                             *)
(***************************************************************************)
StopInv ==
  /\ oterm => mpc = "done"
  /\ ostop => terminated \/ (oterm /\ obuf = << >>)
  /\ opc = "done" => ostop

OutputInv == TypeOK /\ QueueInv /\ CountInv /\ FilesInv /\ PlacesInv /\ StopInv

-----------------------------------------------------------------------------
(***************************************************************************)
(* Arithmetic of the files: n files of m records, of which the last one    *)
(* has l, are no more than o full ones.                                    *)
(***************************************************************************)
LEMMA Blocks ==
  ASSUME NEW m \in Nat, NEW n \in Nat \ {0}, NEW o \in Nat, n <= o, NEW l \in Nat, l <= m
  PROVE  /\ (n - 1) * m + l <= o * m
         /\ (n - 1) * m \in Nat
         /\ (n - 1) * m + m = n * m
<1>1. (n - 1) * m + m = n * m
  OBVIOUS
<1>2. (n - 1) * m \in Nat
  OBVIOUS
<1>3. (o - n) * m \in Nat
  OBVIOUS
<1>4. (o - n) * m = o * m - n * m
  OBVIOUS
<1>. QED
  BY <1>1, <1>2, <1>3, <1>4

\* What is known of the files.
LEMMA FileTypes ==
  ASSUME TypeOK
  PROVE  /\ files \in Seq(Seq(Rtd)) /\ Len(files) \in Nat \ {0}
         /\ DOMAIN files = 1 .. Len(files)
         /\ \A f \in 1 .. Len(files) :
              /\ files[f] \in Seq(Rtd) /\ Len(files[f]) \in Nat
              /\ DOMAIN files[f] = 1 .. Len(files[f])
         /\ LastFile \in Seq(Rtd) /\ Len(LastFile) \in Nat
<1>1. files \in Seq(Seq(Rtd)) /\ files # << >>
  BY DEF TypeOK, WriterTypeOK
<1>2. Len(files) \in Nat \ {0} /\ DOMAIN files = 1 .. Len(files)
  BY <1>1, LenProperties, EmptySeq
<1>3. \A f \in 1 .. Len(files) : files[f] \in Seq(Rtd)
  BY <1>1, ElementOfSeq
<1>4. \A f \in 1 .. Len(files) : Len(files[f]) \in Nat /\ DOMAIN files[f] = 1 .. Len(files[f])
  BY <1>3, LenProperties
<1>5. Len(files) \in 1 .. Len(files)
  BY <1>2
<1>. QED
  BY <1>1, <1>2, <1>3, <1>4, <1>5 DEF LastFile

\* What is known of the rest of the output.
LEMMA OutputTypes ==
  ASSUME TypeOK
  PROVE  /\ obuf \in Seq(Rtd) /\ Len(obuf) \in Nat /\ DOMAIN obuf = 1 .. Len(obuf)
         /\ built \in Seq(Rtd) /\ Len(built) \in Nat /\ DOMAIN built = 1 .. Len(built)
         /\ orecords \in Nat /\ counter \in Nat /\ nrecords \in Nat
         /\ MaxPerFile \in Nat /\ MaxTotal \in Nat /\ OutputFiles \in Nat \ {0}
         /\ terminated \in BOOLEAN /\ rtd \in Rtd
<1>1. /\ obuf \in Seq(Rtd) /\ built \in Seq(Rtd)
      /\ orecords \in Nat /\ counter \in Nat /\ nrecords \in Nat
      /\ terminated \in BOOLEAN /\ rtd \in Rtd
  BY DEF TypeOK, MergerTypeOK, OutputTypeOK, WriterTypeOK
<1>. QED
  BY <1>1, LenProperties, BuilderAssumption

\* The RTDs in the files are counted.
LEMMA PlaceInRange ==
  ASSUME TypeOK, FilesInv, NEW f \in 1 .. Len(files), NEW k \in 1 .. Len(files[f])
  PROVE  (f - 1) * MaxPerFile + k \in 1 .. counter
<1>. DEFINE n == Len(files)
            l == Len(LastFile)
            m == MaxPerFile
<1>1. n \in Nat \ {0} /\ l \in Nat /\ m \in Nat /\ f \in 1 .. n /\ counter = (n - 1) * m + l
  BY FileTypes, OutputTypes DEF FilesInv
<1>2. CASE f = n
  <2>1. k \in 1 .. l
    BY <1>2 DEF LastFile
  <2>. HIDE DEF n, l, m
  <2>2. (n - 1) * m \in Nat
    BY <1>1, Blocks
  <2>3. (f - 1) * m = (n - 1) * m
    BY <1>2
  <2>. QED
    BY <1>1, <2>1, <2>2, <2>3 DEF m
<1>3. CASE f # n
  <2>1. f \in 1 .. n - 1
    BY <1>1, <1>3
  <2>2. k \in 1 .. m
    BY <2>1 DEF FilesInv
  <2>. HIDE DEF n, l, m
  <2>3. (f - 1) * m + k <= (n - 1) * m /\ (f - 1) * m \in Nat /\ (n - 1) * m \in Nat
    <3>1. f \in Nat \ {0} /\ n - 1 \in Nat /\ f <= n - 1 /\ k \in Nat /\ k <= m
      BY <1>1, <2>1, <2>2
    <3>. QED
      BY <1>1, <3>1, Blocks
  <2>. QED
    BY <1>1, <2>2, <2>3 DEF m
<1>. QED
  BY <1>2, <1>3

LEMMA CounterBound ==
  ASSUME TypeOK, QueueInv, CountInv
  PROVE  counter <= Len(built) - Len(obuf)
<1>1. orecords + Len(obuf) = Len(built) /\ counter <= orecords
  BY DEF QueueInv, CountInv
<1>. QED
  BY <1>1, OutputTypes

-----------------------------------------------------------------------------
LEMMA InitOutput == Init => OutputInv
<1>. SUFFICES ASSUME Init PROVE OutputInv
  OBVIOUS
<1>1. TypeOK
  BY InitType
<1>2. /\ obuf = << >> /\ built = << >> /\ orecords = 0 /\ oterm = FALSE /\ ostop = FALSE
      /\ opc = "run" /\ filenames = OutputFiles /\ files = << << >> >> /\ nrecords = 0
      /\ counter = 0 /\ terminated = FALSE
  BY DEF Init, Writer!WriterInit
<1>3. Len(files) = 1 /\ files[1] = << >> /\ Len(files[1]) = 0 /\ Len(obuf) = 0 /\ Len(built) = 0
  BY <1>2
<1>4. QueueInv
  BY <1>2, <1>3 DEF QueueInv
<1>5. CountInv
  BY <1>2, BuilderAssumption DEF CountInv
<1>6. FilesInv
  <2>1. Len(LastFile) = 0
    BY <1>3 DEF LastFile
  <2>2. (Len(files) - 1) * MaxPerFile + Len(LastFile) = 0
    BY <1>3, <2>1, BuilderAssumption
  <2>. QED
    BY <1>2, <1>3, <2>1, <2>2, BuilderAssumption DEF FilesInv
<1>7. PlacesInv
  BY <1>3 DEF PlacesInv
<1>8. StopInv
  BY <1>2 DEF StopInv
<1>. QED
  BY <1>1, <1>4, <1>5, <1>6, <1>7, <1>8 DEF OutputInv

(***************************************************************************)
(* Steps that have nothing to do with the output.                          *)
(***************************************************************************)
LEMMA FrameOutput ==
  ASSUME OutputInv, TypeOK', UNCHANGED << built, obuf, oterm, ovars, writervars >>,
         oterm => mpc' = mpc
  PROVE  OutputInv'
<1>1. UNCHANGED << built, obuf, oterm, opc, ostop, orecords, filenames, files, nrecords, counter, terminated >>
  BY DEF ovars, writervars
<1>2. QueueInv' /\ CountInv'
  BY <1>1 DEF OutputInv, QueueInv, CountInv
<1>3. FilesInv' /\ PlacesInv'
  BY <1>1 DEF OutputInv, FilesInv, PlacesInv, LastFile
<1>4. StopInv'
  BY <1>1 DEF OutputInv, StopInv
<1>. QED
  BY <1>2, <1>3, <1>4 DEF OutputInv

\* The merger adds an RTD to its buffer.
LEMMA PushOutput ==
  ASSUME OutputInv, TypeOK', PushRtd
  PROVE  OutputInv'
<1>1. /\ obuf' = Append(obuf, rtd) /\ built' = Append(built, rtd) /\ mpc = "decide"
      /\ UNCHANGED << oterm, ovars, writervars >>
  BY DEF PushRtd
<1>2. UNCHANGED << oterm, opc, ostop, orecords, filenames, files, nrecords, counter, terminated >>
  BY <1>1 DEF ovars, writervars
<1>3. /\ TypeOK /\ QueueInv /\ CountInv /\ FilesInv /\ PlacesInv /\ StopInv
  BY DEF OutputInv
<1>4. /\ Len(obuf') = Len(obuf) + 1 /\ Len(built') = Len(built) + 1
      /\ \A k \in 1 .. Len(obuf) : obuf'[k] = obuf[k]
      /\ \A k \in 1 .. Len(built) : built'[k] = built[k]
      /\ obuf'[Len(obuf) + 1] = rtd /\ built'[Len(built) + 1] = rtd
  BY <1>1, <1>3, OutputTypes, AppendProperties
<1>5. QueueInv'
  <2>1. orecords' + Len(obuf') = Len(built')
    BY <1>2, <1>3, <1>4, OutputTypes DEF QueueInv
  <2>2. ASSUME NEW k \in 1 .. Len(obuf')
        PROVE  obuf'[k] = built'[orecords' + k]
    <3>1. CASE k \in 1 .. Len(obuf)
      <4>1. orecords + k \in 1 .. Len(built)
        BY <1>3, <3>1, OutputTypes DEF QueueInv
      <4>. QED
        BY <1>2, <1>3, <1>4, <3>1, <4>1 DEF QueueInv
    <3>2. CASE k = Len(obuf) + 1
      <4>1. orecords + k = Len(built) + 1
        <5>1. /\ orecords + Len(obuf) = Len(built)
              /\ orecords \in Nat /\ Len(obuf) \in Nat /\ Len(built) \in Nat
          BY <1>3, OutputTypes DEF QueueInv
        <5>. QED
          BY <3>2, <5>1
      <4>. QED
        BY <1>2, <1>4, <3>2, <4>1
    <3>. QED
      BY <1>3, <1>4, <3>1, <3>2, OutputTypes
  <2>. QED
    BY <2>1, <2>2 DEF QueueInv
<1>6. CountInv' /\ FilesInv'
  BY <1>2, <1>3 DEF CountInv, FilesInv, LastFile
<1>7. PlacesInv'
  <2>. SUFFICES ASSUME NEW f \in 1 .. Len(files), NEW k \in 1 .. Len(files[f])
                PROVE  files[f][k] = built'[(f - 1) * MaxPerFile + k]
    BY <1>2 DEF PlacesInv
  <2>1. (f - 1) * MaxPerFile + k \in 1 .. counter
    BY <1>3, PlaceInRange
  <2>2. counter <= Len(built)
    BY <1>3, CounterBound, OutputTypes
  <2>3. (f - 1) * MaxPerFile + k \in 1 .. Len(built)
    BY <1>3, <2>1, <2>2, OutputTypes
  <2>. QED
    BY <1>3, <1>4, <2>3 DEF PlacesInv
<1>8. StopInv'
  BY <1>1, <1>2, <1>3 DEF StopInv
<1>. QED
  BY <1>5, <1>6, <1>7, <1>8 DEF OutputInv

(***************************************************************************)
(* The output worker stores the oldest RTD.  The file that it goes to is   *)
(* the last one, or a new one if that is full.                             *)
(***************************************************************************)
Opened == IF Writer!FileIsFull THEN Append(files, << >>) ELSE files

LEMMA OpenedFile ==
  ASSUME TypeOK, CountInv, FilesInv, ~ Writer!IsTerminated, ~ Writer!Overrun
  PROVE  /\ Opened \in Seq(Seq(Rtd)) /\ Len(Opened) \in 1 .. OutputFiles
         /\ Len(Opened) >= Len(files)
         /\ \A f \in 1 .. Len(files) : Opened[f] = files[f]
         /\ \A f \in Len(files) + 1 .. Len(Opened) : Opened[f] = << >>
         /\ MaxPerFile = 0 => Len(Opened) = 1
         /\ MaxPerFile > 0 => Len(Opened[Len(Opened)]) < MaxPerFile
         /\ (IF Writer!FileIsFull THEN 0 ELSE nrecords) = Len(Opened[Len(Opened)])
         /\ \A f \in 1 .. Len(Opened) - 1 : Len(Opened[f]) = MaxPerFile
         /\ counter = (Len(Opened) - 1) * MaxPerFile + Len(Opened[Len(Opened)])
<1>. DEFINE n == Len(files)
            full == Writer!FileIsFull
            m == MaxPerFile
<1>1. /\ files \in Seq(Seq(Rtd)) /\ n \in Nat \ {0} /\ n \in 1 .. OutputFiles
      /\ m \in Nat /\ nrecords \in Nat /\ OutputFiles \in Nat
      /\ Len(LastFile) \in Nat /\ LastFile = files[n]
  BY FileTypes, OutputTypes DEF FilesInv, LastFile
<1>2. /\ ~ terminated /\ nrecords = Len(LastFile) /\ counter = (n - 1) * m + Len(LastFile)
      /\ full <=> m > 0 /\ nrecords = m
      /\ m > 0 => Len(LastFile) <= m
      /\ m = 0 => n = 1
      /\ \A f \in 1 .. n - 1 : Len(files[f]) = m
  BY DEF Writer!IsTerminated, Writer!FileIsFull, FilesInv
<1>3. full => n < OutputFiles
  <2>1. full => n - 1 + 1 # OutputFiles
    BY DEF Writer!Overrun, Writer!IsLastFile, Writer!CurrentFileIndex, CountInv
  <2>. QED
    BY <1>1, <2>1
<1>4. CASE full
  <2>1. << >> \in Seq(Rtd) /\ Len(<< >>) = 0
    OBVIOUS
  <2>2. /\ Opened \in Seq(Seq(Rtd)) /\ Len(Opened) = n + 1 /\ Opened[n + 1] = << >>
        /\ \A f \in 1 .. n : Opened[f] = files[f]
    BY <1>1, <1>4, <2>1, AppendProperties DEF Opened
  <2>. DEFINE p == Len(Opened)
              e == Len(Opened[p])
  <2>3. p = n + 1 /\ e = 0
    BY <2>1, <2>2
  <2>4. \A f \in 1 .. n : Len(files[f]) = m
    <3>1. Len(files[n]) = m
      BY <1>1, <1>2, <1>4
    <3>2. \A f \in 1 .. n : f = n \/ f \in 1 .. n - 1
      BY <1>1
    <3>. QED
      BY <1>2, <3>1, <3>2
  <2>5. \A f \in 1 .. p - 1 : Len(Opened[f]) = m
    <3>1. p - 1 = n
      BY <1>1, <2>3
    <3>2. \A f \in 1 .. n : Len(Opened[f]) = m
      BY <2>2, <2>4
    <3>. HIDE DEF n, p
    <3>. QED
      BY <3>1, <3>2
  <2>6. \A f \in n + 1 .. p : Opened[f] = << >>
    <3>1. \A f \in n + 1 .. p : f = n + 1
      BY <1>1, <2>3
    <3>. QED
      BY <2>2, <3>1
  <2>7. counter = (p - 1) * m + e
    <3>1. counter = (n - 1) * m + m
      BY <1>2, <1>4
    <3>2. p - 1 = n
      BY <1>1, <2>3
    <3>3. (n - 1) * m + m = n * m /\ n * m \in Nat
      BY <1>1, Blocks
    <3>. HIDE DEF n, m, p, e
    <3>. QED
      BY <2>3, <3>1, <3>2, <3>3
  <2>8. p \in 1 .. OutputFiles /\ p >= n /\ m > 0
    BY <1>1, <1>2, <1>3, <1>4, <2>3
  <2>9. (IF full THEN 0 ELSE nrecords) = e
    BY <1>4, <2>3
  <2>10. m > 0 => e < m
    BY <2>3
  <2>. QED
    BY <2>2, <2>5, <2>6, <2>7, <2>8, <2>9, <2>10
<1>5. CASE ~ full
  <2>1. Opened = files
    BY <1>5 DEF Opened
  <2>2. m > 0 => Len(files[n]) < m
    BY <1>1, <1>2, <1>5
  <2>. QED
    BY <1>1, <1>2, <1>5, <2>1, <2>2
<1>. QED
  BY <1>4, <1>5

LEMMA StoreWritesOutput ==
  ASSUME OutputInv, obuf # << >>, Writer!StoreWrites(Head(obuf))
  PROVE  /\ FilesInv'
         /\ built' = built => PlacesInv'
         /\ orecords' = orecords + 1 => CountInv'
<1>. DEFINE d == Head(obuf)
            p == Len(Opened)
            e == Append(Opened[p], d)
            m == MaxPerFile
<1>1. /\ TypeOK /\ QueueInv /\ CountInv /\ FilesInv /\ PlacesInv
      /\ ~ Writer!IsTerminated /\ ~ Writer!Overrun
  BY DEF OutputInv, Writer!StoreWrites
<1>2. /\ files' = [Opened EXCEPT ![p] = e]
      /\ nrecords' = Len(Opened[p]) + 1
      /\ counter' = counter + 1
      /\ terminated' = (MaxTotal > 0 /\ counter' = MaxTotal)
      /\ filenames' = filenames
  BY <1>1, OpenedFile DEF Writer!StoreWrites, Opened
<1>3. ~ terminated /\ counter = orecords
  BY <1>1 DEF Writer!IsTerminated, CountInv
<1>4. /\ p \in 1 .. OutputFiles /\ p \in Nat \ {0} /\ m \in Nat /\ OutputFiles \in Nat
      /\ counter \in Nat /\ MaxTotal \in Nat
      /\ Opened[p] \in Seq(Rtd) /\ Len(Opened[p]) \in Nat /\ d \in Rtd
  <2>1. p \in 1 .. OutputFiles /\ OutputFiles \in Nat /\ m \in Nat /\ Opened \in Seq(Seq(Rtd))
    BY <1>1, OpenedFile, OutputTypes
  <2>2. Opened[p] \in Seq(Rtd)
    BY <2>1, ElementOfSeq
  <2>3. d \in Rtd
    BY <1>1, OutputTypes, HeadTailProperties
  <2>. QED
    BY <1>1, <2>1, <2>2, <2>3, OutputTypes, LenProperties
<1>5. /\ e \in Seq(Rtd) /\ Len(e) = Len(Opened[p]) + 1
      /\ \A k \in 1 .. Len(Opened[p]) : e[k] = Opened[p][k]
      /\ e[Len(Opened[p]) + 1] = d
  BY <1>4, AppendProperties
<1>6. /\ Len(files') = p
      /\ \A f \in 1 .. p : files'[f] = IF f = p THEN e ELSE Opened[f]
  <2>. HIDE DEF e
  <2>1. p \in 1 .. Len(Opened) /\ Opened \in Seq(Seq(Rtd))
    BY <1>1, <1>4, OpenedFile
  <2>2. /\ Len([Opened EXCEPT ![p] = e]) = p
        /\ \A f \in 1 .. p : [Opened EXCEPT ![p] = e][f] = IF f = p THEN e ELSE Opened[f]
    BY <1>5, <2>1, ExceptSeq
  <2>. QED
    BY <1>2, <2>2
<1>7. LastFile' = e /\ Len(LastFile') = Len(Opened[p]) + 1
  <2>1. LastFile' = files'[p]
    BY <1>6 DEF LastFile
  <2>2. p \in 1 .. p
    BY <1>4
  <2>. HIDE DEF e, p
  <2>. QED
    BY <1>5, <1>6, <2>1, <2>2
<1>8. /\ m = 0 => p = 1
      /\ m > 0 => Len(Opened[p]) < m
      /\ \A f \in 1 .. p - 1 : Len(Opened[f]) = m
      /\ counter = (p - 1) * m + Len(Opened[p])
  BY <1>1, OpenedFile
<1>9. counter + 1 = (p - 1) * m + (Len(Opened[p]) + 1)
  <2>. DEFINE l == Len(Opened[p])
  <2>1. l \in Nat /\ counter = (p - 1) * m + l
    BY <1>4, <1>8
  <2>2. (p - 1) * m \in Nat
    BY <1>4, Blocks
  <2>. HIDE DEF l, p, m
  <2>3. counter + 1 = (p - 1) * m + (l + 1)
    BY <2>1, <2>2
  <2>. QED
    BY <2>3 DEF l
<1>10. FilesInv'
  <2>1. Len(files') \in 1 .. OutputFiles
    BY <1>4, <1>6
  <2>2. MaxPerFile = 0 => Len(files') = 1
    BY <1>6, <1>8
  <2>3. MaxPerFile > 0 => Len(LastFile') <= MaxPerFile
    BY <1>4, <1>7, <1>8
  <2>4. nrecords' = Len(LastFile')
    BY <1>2, <1>7
  <2>5. \A f \in 1 .. Len(files') - 1 : Len(files'[f]) = MaxPerFile
    <3>1. \A f \in 1 .. p - 1 : f \in 1 .. p /\ f # p
      BY <1>4
    <3>. QED
      BY <1>6, <1>8, <3>1
  <2>6. counter' = (Len(files') - 1) * MaxPerFile + Len(LastFile')
    <3>. HIDE DEF p
    <3>. QED
      BY <1>2, <1>6, <1>7, <1>9
  <2>. QED
    BY <2>1, <2>2, <2>3, <2>4, <2>5, <2>6 DEF FilesInv
<1>11. ASSUME built' = built PROVE PlacesInv'
  <2>. SUFFICES ASSUME NEW f \in 1 .. p, NEW k \in 1 .. Len(files'[f])
                PROVE  files'[f][k] = built[(f - 1) * m + k]
    BY <1>6, <1>11 DEF PlacesInv
  <2>1. ASSUME NEW g \in 1 .. p, NEW j \in 1 .. Len(Opened[g])
        PROVE  Opened[g][j] = built[(g - 1) * m + j]
    <3>1. CASE g \in 1 .. Len(files)
      BY <1>1, <2>1, <3>1, OpenedFile DEF PlacesInv
    <3>2. CASE g \in Len(files) + 1 .. p
      <4>1. Opened[g] = << >>
        BY <1>1, <3>2, OpenedFile
      <4>. QED
        BY <2>1, <4>1
    <3>. QED
      BY <1>1, <1>4, <3>1, <3>2, FileTypes
  <2>2. CASE f # p
    BY <1>6, <2>1, <2>2
  <2>3. CASE f = p /\ k \in 1 .. Len(Opened[p])
    BY <1>5, <1>6, <2>1, <2>3
  <2>4. CASE f = p /\ k = Len(Opened[p]) + 1
    <3>1. d = built[counter + 1]
      <4>1. d = obuf[1] /\ 1 \in 1 .. Len(obuf)
        BY <1>1, OutputTypes, EmptySeq, HeadTailProperties
      <4>. QED
        BY <1>1, <1>3, <4>1 DEF QueueInv
    <3>2. files'[f][k] = d
      BY <1>5, <1>6, <2>4
    <3>3. (f - 1) * m + k = counter + 1
      BY <1>9, <2>4
    <3>. QED
      BY <3>1, <3>2, <3>3
  <2>5. f = p => k \in 1 .. Len(Opened[p]) + 1
    BY <1>5, <1>6
  <2>6. f = p => k \in 1 .. Len(Opened[p]) \/ k = Len(Opened[p]) + 1
    <3>. HIDE DEF p
    <3>. QED
      BY <1>4, <2>5
  <2>. QED
    BY <2>2, <2>3, <2>4, <2>6, Zenon
<1>12. ASSUME orecords' = orecords + 1 PROVE CountInv'
  <2>1. MaxTotal > 0 => counter < MaxTotal
    BY <1>1, <1>3 DEF CountInv
  <2>2. filenames' = OutputFiles /\ counter' = orecords'
    BY <1>1, <1>2, <1>3, <1>12 DEF CountInv
  <2>3. MaxTotal > 0 => counter' <= MaxTotal /\ (~ terminated' => counter' < MaxTotal)
    <3>1. CASE MaxTotal > 0 /\ counter' = MaxTotal
      <4>1. terminated' = TRUE
        BY <1>2, <3>1
      <4>2. counter' <= MaxTotal
        BY <1>4, <3>1
      <4>. QED
        BY <4>1, <4>2
    <3>2. CASE MaxTotal > 0 /\ counter' # MaxTotal
      <4>1. counter' < MaxTotal
        BY <1>2, <1>4, <2>1, <3>2
      <4>. QED
        BY <1>2, <1>4, <4>1
    <3>. QED
      BY <3>1, <3>2
  <2>4. counter' <= orecords'
    BY <1>2, <1>4, <2>2
  <2>. QED
    BY <1>2, <2>2, <2>3, <2>4 DEF CountInv
<1>. QED
  BY <1>10, <1>11, <1>12

(***************************************************************************)
(* The oldest RTD leaves the buffer, stored or not.                        *)
(***************************************************************************)
LEMMA PopQueue ==
  ASSUME TypeOK, QueueInv, obuf # << >>, obuf' = Tail(obuf), orecords' = orecords + 1,
         built' = built
  PROVE  QueueInv'
<1>1. /\ Len(obuf) \in Nat /\ orecords \in Nat /\ Len(built) \in Nat
      /\ orecords + Len(obuf) = Len(built)
  BY OutputTypes DEF QueueInv
<1>2. /\ Len(Tail(obuf)) = Len(obuf) - 1
      /\ \A k \in 1 .. Len(Tail(obuf)) : Tail(obuf)[k] = obuf[k + 1]
  BY OutputTypes, HeadTailProperties
<1>3. orecords' + Len(obuf') = Len(built')
  BY <1>1, <1>2
<1>4. ASSUME NEW k \in 1 .. Len(obuf') PROVE obuf'[k] = built'[orecords' + k]
  <2>1. k + 1 \in 1 .. Len(obuf) /\ orecords' + k = orecords + (k + 1)
    BY <1>1, <1>2
  <2>. QED
    BY <1>2, <2>1 DEF QueueInv
<1>. QED
  BY <1>3, <1>4 DEF QueueInv

LEMMA StoreOutput ==
  ASSUME OutputInv, TypeOK', StoreRtd
  PROVE  OutputInv'
<1>1. /\ opc = "drain" /\ obuf # << >> /\ Writer!Store(Head(obuf)) /\ ~ Writer!IsTerminated
      /\ obuf' = Tail(obuf) /\ orecords' = orecords + 1
      /\ UNCHANGED << built, mpc, oterm, opc, ostop >>
  BY DEF StoreRtd, mvars, Writer!Store, Writer!StoreOverruns, Writer!StoreWrites
<1>2. TypeOK /\ QueueInv /\ CountInv /\ FilesInv /\ PlacesInv /\ StopInv
  BY DEF OutputInv
<1>3. QueueInv'
  BY <1>1, <1>2, PopQueue
<1>4. ~ ostop /\ ~ terminated
  BY <1>1, <1>2 DEF StopInv, Writer!IsTerminated
<1>5. StopInv'
  BY <1>1, <1>2, <1>4 DEF StopInv
<1>6. CASE Writer!StoreWrites(Head(obuf))
  BY <1>1, <1>3, <1>5, <1>6, StoreWritesOutput DEF OutputInv
<1>7. CASE Writer!StoreOverruns
  <2>1. /\ terminated' = TRUE /\ MaxPerFile > 0 /\ nrecords = MaxPerFile
        /\ TerminateOnOverrun
        /\ Len(files) - 1 + 1 = filenames
        /\ UNCHANGED << filenames, files, counter >>
    BY <1>7 DEF Writer!StoreOverruns, Writer!Overrun, Writer!FileIsFull, Writer!IsLastFile,
                Writer!CurrentFileIndex
  <2>2. counter = Room
    <3>. DEFINE n == Len(files)
                m == MaxPerFile
    <3>1. n \in Nat \ {0} /\ m \in Nat /\ OutputFiles \in Nat /\ n = OutputFiles
      BY <1>2, <2>1, FileTypes, OutputTypes DEF CountInv
    <3>2. counter = (n - 1) * m + m
      BY <1>2, <1>4, <2>1 DEF FilesInv
    <3>. HIDE DEF n, m
    <3>3. counter = OutputFiles * m
      BY <3>1, <3>2, Blocks
    <3>. QED
      BY <3>3 DEF m, Room
  <2>3. CountInv'
    <3>1. counter' <= orecords'
      BY <1>1, <1>2, <2>1, OutputTypes DEF CountInv
    <3>. QED
      BY <1>2, <2>1, <2>2, <3>1 DEF CountInv, Room
  <2>4. FilesInv' /\ PlacesInv'
    BY <1>1, <1>2, <2>1 DEF FilesInv, PlacesInv, LastFile
  <2>. QED
    BY <1>3, <1>5, <2>3, <2>4 DEF OutputInv
<1>. QED
  BY <1>1, <1>6, <1>7 DEF Writer!Store

LEMMA DropOutput ==
  ASSUME OutputInv, TypeOK', DropRtd
  PROVE  OutputInv'
<1>1. /\ opc = "drain" /\ obuf # << >> /\ Writer!IsTerminated
      /\ obuf' = Tail(obuf) /\ orecords' = orecords + 1 /\ ostop' = TRUE
      /\ UNCHANGED << built, mpc, oterm, opc, filenames, files, nrecords, counter, terminated >>
  BY DEF DropRtd, mvars, writervars
<1>2. TypeOK /\ QueueInv /\ CountInv /\ FilesInv /\ PlacesInv /\ StopInv
  BY DEF OutputInv
<1>3. terminated
  BY <1>1, <1>2, FileTypes, OutputTypes
  DEF Writer!IsTerminated, Writer!CurrentFileIndex, CountInv, FilesInv
<1>4. QueueInv'
  BY <1>1, <1>2, PopQueue
<1>5. CountInv'
  <2>1. counter' <= orecords'
    BY <1>1, <1>2, OutputTypes DEF CountInv
  <2>. QED
    BY <1>1, <1>2, <1>3, <2>1 DEF CountInv
<1>6. FilesInv' /\ PlacesInv'
  BY <1>1, <1>2 DEF FilesInv, PlacesInv, LastFile
<1>7. StopInv'
  BY <1>1, <1>2, <1>3 DEF StopInv
<1>. QED
  BY <1>4, <1>5, <1>6, <1>7 DEF OutputInv

\* The sections that only lock, unlock and terminate.
LEMMA LockingOutput ==
  ASSUME OutputInv, TypeOK', LockOutput \/ UnlockOutput \/ TerminateOutput
  PROVE  OutputInv'
<1>1. UNCHANGED << built, obuf, orecords, filenames, files, nrecords, counter, terminated >>
  BY DEF LockOutput, UnlockOutput, TerminateOutput, mvars, ovars, writervars
<1>2. TypeOK /\ QueueInv /\ CountInv /\ FilesInv /\ PlacesInv /\ StopInv
  BY DEF OutputInv
<1>3. QueueInv' /\ CountInv'
  BY <1>1, <1>2 DEF QueueInv, CountInv
<1>4. FilesInv' /\ PlacesInv'
  BY <1>1, <1>2 DEF FilesInv, PlacesInv, LastFile
<1>5. StopInv'
  <2>1. CASE LockOutput
    BY <1>2, <2>1 DEF StopInv, LockOutput, mvars, writervars
  <2>2. CASE UnlockOutput
    BY <1>2, <2>2 DEF StopInv, UnlockOutput, mvars, writervars
  <2>3. CASE TerminateOutput
    BY <1>2, <2>3 DEF StopInv, TerminateOutput, ovars, writervars
  <2>. QED
    BY <2>1, <2>2, <2>3
<1>. QED
  BY <1>3, <1>4, <1>5 DEF OutputInv

LEMMA NextOutput == OutputInv /\ [Next]_vars => OutputInv'
<1>. SUFFICES ASSUME OutputInv, [Next]_vars PROVE OutputInv'
  OBVIOUS
<1>1. TypeOK'
  BY NextType DEF OutputInv
<1>2. CASE UNCHANGED vars
  BY <1>1, <1>2, FrameOutput DEF vars, mvars
<1>3. ASSUME NEW i \in Inputs, InputStep(i) PROVE OutputInv'
  BY <1>1, <1>3, FrameOutput
  DEF InputStep, LoadRecord, InsertHeld, TerminateInput, InputThrows, Abort, mvars
<1>4. CASE MergerStep
  <2>1. CASE PushRtd
    BY <1>1, <2>1, PushOutput
  <2>2. CASE TerminateOutput
    BY <1>1, <2>2, LockingOutput
  <2>3. CASE ScanBuffer \/ BeginCollect \/ SkipCollect \/ PopMatching \/ LeaveBuffer
             \/ CountBuffer \/ MergerThrows
    <3>1. UNCHANGED << built, obuf, oterm, ovars, writervars >>
      BY <2>3 DEF ScanBuffer, BeginCollect, SkipCollect, PopMatching, LeaveBuffer, CountBuffer,
                  MergerThrows, Abort, mvars
    <3>2. mpc # "done"
      BY <2>3 DEF ScanBuffer, BeginCollect, SkipCollect, PopMatching, LeaveBuffer, CountBuffer,
                  MergerThrows, Decided
    <3>3. ~ oterm
      BY <3>2 DEF OutputInv, StopInv
    <3>. QED
      BY <1>1, <3>1, <3>3, FrameOutput
  <2>. QED
    BY <1>4, <2>1, <2>2, <2>3 DEF MergerStep
<1>5. CASE OutputStep
  <2>1. CASE OutputThrows
    BY <1>1, <2>1, FrameOutput DEF OutputThrows, Abort, mvars
  <2>. QED
    BY <1>1, <1>5, <2>1, StoreOutput, DropOutput, LockingOutput DEF OutputStep
<1>. QED
  BY <1>2, <1>3, <1>4, <1>5 DEF Next, Ended

(***************************************************************************)
(* For any inputs, sorted or not, the files are filled one after the other *)
(* with the RTDs in the order in which they were built, each at its place, *)
(* up to the point where the writer is terminated.                         *)
(***************************************************************************)
THEOREM FilesInOrder == Spec => []FilesHoldPrefix
<1>1. Spec => Init /\ [][Next]_vars
  BY DEF Spec, Safety
<1>2. OutputInv => FilesHoldPrefix
  <2>. SUFFICES ASSUME OutputInv PROVE FilesHoldPrefix
    OBVIOUS
  <2>. QED
    BY FileTypes DEF OutputInv, QueueInv, FilesInv, PlacesInv, FilesHoldPrefix
<1>. QED
  BY <1>1, <1>2, InitOutput, NextOutput, PTL


-----------------------------------------------------------------------------
(***************************************************************************)
(* Every RTD, built or under way, is of a trigger ID of the inputs.        *)
(***************************************************************************)
TriggersInv ==
  /\ HasRtd => rtd.trig \in Triggers
  /\ \A n \in DOMAIN built : built[n].trig \in Triggers

LEMMA TriggersAre ==
  /\ \A i \in Inputs : \A k \in DOMAIN stream[i] :
       stream[i][k] \in Records /\ stream[i][k].trig \in Triggers
  /\ \A t \in Triggers : \E i \in Inputs : \E k \in DOMAIN stream[i] : stream[i][k].trig = t
BY DEF Triggers, Records

LEMMA InitTriggers == Init => TriggersInv
BY DEF Init, TriggersInv, HasRtd, NoRtd

LEMMA NextTriggers ==
  ASSUME EventIInv, SortedInputs, TriggersInv, [Next]_vars
  PROVE  TriggersInv'
<1>1. stream' = stream
  BY StreamsStay
<1>2. Triggers' = Triggers
  BY <1>1 DEF Triggers, Records
<1>3. ASSUME UNCHANGED << rtd, built >> PROVE TriggersInv'
  BY <1>2, <1>3 DEF TriggersInv, HasRtd
<1>4. CASE PushRtd
  <2>1. rtd' = NoRtd /\ built' = Append(built, rtd) /\ rtd.trig \in Triggers
    BY <1>4, PushDecision DEF PushRtd, TriggersInv
  <2>2. built \in Seq(Rtd) /\ rtd \in Rtd
    BY DEF EventIInv, TypeOK, MergerTypeOK
  <2>3. \A n \in DOMAIN built' : built'[n].trig \in Triggers
    <3>1. /\ DOMAIN built' = 1 .. Len(built) + 1 /\ built'[Len(built) + 1] = rtd
          /\ DOMAIN built = 1 .. Len(built) /\ Len(built) \in Nat
          /\ \A n \in 1 .. Len(built) : built'[n] = built[n]
      BY <2>1, <2>2, AppendProperties, LenProperties
    <3>2. \A n \in DOMAIN built' : n \in DOMAIN built \/ n = Len(built) + 1
      BY <3>1
    <3>. QED
      BY <2>1, <3>1, <3>2 DEF TriggersInv
  <2>. QED
    BY <1>2, <2>1, <2>3 DEF TriggersInv, HasRtd, NoRtd
<1>5. CASE BeginCollect
  <2>1. /\ Decided /\ Fetchable /\ UNCHANGED built
        /\ rtd' = IF HasRtd THEN rtd ELSE [trig |-> mmin, recs |-> << >>]
    BY <1>5 DEF BeginCollect
  <2>2. mmin \in Triggers
    <3>1. mpc \in {"decide", "process"} /\ Visited = Inputs
      BY <2>1 DEF Decided, Visited
    <3>2. PICK j \in Inputs : \E k \in Unpopped(j) : stream[j][k].trig = mmin
      BY <2>1, <3>1 DEF EventIInv, EventInv, ScanInv
    <3>3. PICK k \in Unpopped(j) : stream[j][k].trig = mmin
      BY <3>2
    <3>4. k \in DOMAIN stream[j]
      BY UnpoppedInStream, StreamFacts DEF EventIInv, EventInv
    <3>. QED
      BY <3>3, <3>4, TriggersAre
  <2>3. rtd'.trig \in Triggers
    BY <2>1, <2>2 DEF TriggersInv
  <2>. QED
    BY <1>2, <2>1, <2>3 DEF TriggersInv
<1>6. CASE PopMatching
  <2>1. rtd'.trig = rtd.trig /\ built' = built
    BY <1>6 DEF PopMatching, InstallRhd
  <2>. QED
    BY <1>2, <2>1 DEF TriggersInv, HasRtd
<1>7. CASE TerminateOutput
  BY <1>2, <1>7 DEF TerminateOutput, TriggersInv, HasRtd, NoRtd
<1>8. ASSUME NEW i \in Inputs, InputStep(i) PROVE UNCHANGED << rtd, built >>
  BY <1>8 DEF InputStep, LoadRecord, InsertHeld, TerminateInput, InputThrows, Abort, mvars
<1>9. CASE ScanBuffer \/ SkipCollect \/ LeaveBuffer \/ CountBuffer \/ MergerThrows
  BY <1>3, <1>9 DEF ScanBuffer, SkipCollect, LeaveBuffer, CountBuffer, MergerThrows, Abort, mvars
<1>10. CASE OutputStep
  BY <1>3, <1>10 DEF OutputStep, LockOutput, StoreRtd, DropRtd, UnlockOutput, OutputThrows, Abort,
                     mvars
<1>11. CASE UNCHANGED vars
  BY <1>3, <1>11 DEF vars, mvars
<1>. QED
  BY <1>3, <1>4, <1>5, <1>6, <1>7, <1>8, <1>9, <1>10, <1>11 DEF Next, Ended, MergerStep

-----------------------------------------------------------------------------
(***************************************************************************)
(* There are as many RTDs as trigger IDs.                                  *)
(***************************************************************************)
LEMMA TriggersFinite ==
  ASSUME SortedInputs, stream \in Streams
  PROVE  IsFiniteSet(Triggers)
<1>. DEFINE R(i) == {stream[i][k] : k \in DOMAIN stream[i]}
            T == {R(i) : i \in Inputs}
<1>1. ASSUME NEW i \in Inputs PROVE IsFiniteSet(R(i))
  <2>1. Len(stream[i]) \in Nat /\ DOMAIN stream[i] = 1 .. Len(stream[i])
    BY StreamFacts
  <2>2. [k \in 1 .. Len(stream[i]) |-> stream[i][k]] \in Surjection(1 .. Len(stream[i]), R(i))
    BY <2>1 DEF Surjection
  <2>. QED
    BY <2>1, <2>2, FS_Interval, FS_Surjection
<1>2. IsFiniteSet(Inputs)
  BY BuilderAssumption, FS_Interval DEF Inputs
<1>3. [i \in Inputs |-> R(i)] \in Surjection(Inputs, T)
  BY DEF Surjection
<1>4. IsFiniteSet(T)
  <2>. HIDE DEF T, R
  <2>. QED
    BY <1>2, <1>3, FS_Surjection
<1>5. IsFiniteSet(UNION T)
  <2>1. \A t \in T : IsFiniteSet(t)
    BY <1>1
  <2>. HIDE DEF T
  <2>. QED
    BY <1>4, <2>1, FS_UNION
<1>6. UNION T = Records
  BY DEF Records
<1>7. [r \in Records |-> r.trig] \in Surjection(Records, Triggers)
  BY DEF Surjection, Triggers
<1>. QED
  BY <1>5, <1>6, <1>7, FS_Surjection

LEMMA EventCount ==
  ASSUME EventIInv, SortedInputs, TriggersInv
  PROVE  /\ Cardinality(Triggers) \in Nat
         /\ Len(built) <= Cardinality(Triggers)
         /\ mpc = "done" => Len(built) = Cardinality(Triggers)
<1>. DEFINE n == Len(built)
            g == [k \in 1 .. n |-> built[k].trig]
<1>1. /\ n \in Nat /\ DOMAIN built = 1 .. n
      /\ IsFiniteSet(1 .. n) /\ Cardinality(1 .. n) = n
  <2>1. n \in Nat /\ DOMAIN built = 1 .. n
    BY OutputTypes DEF EventIInv
  <2>. HIDE DEF n
  <2>2. IsFiniteSet(1 .. n) /\ Cardinality(1 .. n) = n
    BY <2>1, FS_Interval
  <2>. QED
    BY <2>1, <2>2
<1>2. IsFiniteSet(Triggers) /\ Cardinality(Triggers) \in Nat
  BY TriggersFinite, FS_CardinalityType DEF EventIInv
<1>3. \A k \in 1 .. n : built[k].trig \in Triggers
  BY <1>1 DEF TriggersInv
<1>4. \A j, k \in 1 .. n : j < k => built[j].trig # built[k].trig
  <2>1. \A k \in 1 .. n : built[k] \in Rtd
    BY <1>1, ElementOfSeq DEF EventIInv, TypeOK, MergerTypeOK
  <2>2. \A j, k \in 1 .. n : j < k => built[j].trig < built[k].trig
    BY <1>1 DEF EventIInv, EventInv, EventsOrdered
  <2>. QED
    BY <2>1, <2>2 DEF Rtd, INVALID_TRIGGER_ID
<1>5. g \in Injection(1 .. n, Triggers)
  <2>1. g \in [1 .. n -> Triggers]
    BY <1>3
  <2>2. \A j, k \in 1 .. n : g[j] = g[k] => j = k
    BY <1>1, <1>4
  <2>. HIDE DEF g, n
  <2>. QED
    BY <2>1, <2>2 DEF Injection, IsInjective
<1>6. mpc = "done" => g \in Surjection(1 .. n, Triggers)
  <2>. SUFFICES ASSUME mpc = "done", NEW t \in Triggers
                PROVE  \E k \in 1 .. n : built[k].trig = t
    BY <1>3 DEF Surjection
  <2>0. PICK i \in Inputs : \E k \in DOMAIN stream[i] : stream[i][k].trig = t
    BY TriggersAre
  <2>1. PICK k \in DOMAIN stream[i] : stream[i][k].trig = t
    BY <2>0
  <2>2. PICK e \in DOMAIN built : \E m \in DOMAIN built[e].recs : built[e].recs[m] = stream[i][k]
    BY NothingLostAtTheEnd DEF NothingLost, InAnEvent
  <2>3. FromStreams(built[e], Lengths)
    BY DEF EventIInv, EventInv, EventsComplete, EventComplete
  <2>4. built[e].trig = t
    BY <2>1, <2>2, <2>3 DEF FromStreams
  <2>. QED
    BY <1>1, <2>4
<1>. HIDE DEF g, n
<1>7. /\ Cardinality(1 .. n) <= Cardinality(Triggers)
      /\ Cardinality(1 .. n) = Cardinality(Triggers) <=> g \in Surjection(1 .. n, Triggers)
  BY <1>2, <1>5, FS_Injection
<1>. QED
  BY <1>1, <1>2, <1>6, <1>7 DEF n

(***************************************************************************)
(* The limits of the output, and what a run that returns has written.      *)
(***************************************************************************)
LEMMA CounterInRoom ==
  ASSUME TypeOK, FilesInv, MaxPerFile > 0
  PROVE  counter <= Room
<1>. DEFINE n == Len(files)
            l == Len(LastFile)
            m == MaxPerFile
<1>1. /\ n \in Nat \ {0} /\ l \in Nat /\ m \in Nat /\ OutputFiles \in Nat
      /\ n <= OutputFiles /\ l <= m /\ counter = (n - 1) * m + l
  BY FileTypes, OutputTypes DEF FilesInv
<1>. HIDE DEF n, l, m
<1>2. (n - 1) * m + l <= OutputFiles * m
  BY <1>1, Blocks
<1>. QED
  BY <1>1, <1>2 DEF Room, m

LEMMA ReturnComplete ==
  ASSUME EventIInv, SortedInputs, TriggersInv, OutputInv
  PROVE  FilesComplete
<1>. SUFFICES ASSUME AllJoined
              PROVE  counter \in Limits /\ \A n \in Limits : counter <= n
  BY DEF FilesComplete
<1>. DEFINE c == Cardinality(Triggers)
<1>1. /\ TypeOK /\ QueueInv /\ CountInv /\ FilesInv /\ StopInv
      /\ mpc = "done" /\ opc = "done"
  BY DEF OutputInv, AllJoined
<1>2. c \in Nat /\ Len(built) = c
  BY <1>1, EventCount
<1>3. counter <= c
  BY <1>1, <1>2, CounterBound, OutputTypes
<1>4. counter \in Limits
  <2>1. CASE terminated
    BY <1>1, <2>1 DEF CountInv, Limits
  <2>2. CASE ~ terminated
    <3>1. obuf = << >> /\ counter = orecords
      BY <1>1, <2>2 DEF StopInv, CountInv
    <3>2. Len(obuf) = 0 /\ orecords + Len(obuf) = Len(built) /\ orecords \in Nat
      BY <1>1, <3>1, OutputTypes, EmptySeq DEF QueueInv
    <3>3. counter = c
      BY <1>2, <3>1, <3>2
    <3>. QED
      BY <3>3 DEF Limits
  <2>. QED
    BY <2>1, <2>2
<1>5. ASSUME NEW n \in Limits PROVE counter <= n
  <2>1. n = c \/ (MaxTotal > 0 /\ n = MaxTotal) \/ (MaxPerFile > 0 /\ n = Room)
    BY DEF Limits
  <2>. HIDE DEF c
  <2>. QED
    BY <1>1, <1>3, <2>1, CounterInRoom DEF CountInv
<1>. QED
  BY <1>4, <1>5


-----------------------------------------------------------------------------
(***************************************************************************)
(* No thread throws for acceptable inputs.  An input thread has complete   *)
(* records in order to insert.                                             *)
(***************************************************************************)
LEMMA RecordKinds ==
  ASSUME Acceptable, NEW i \in Inputs, NEW k \in DOMAIN stream[i]
  PROVE  stream[i][k].kind \notin {"incomplete", "unknown"}
BY TriggersAre DEF Acceptable

LEMMA InputNeverThrows ==
  ASSUME EventIInv, SortedInputs, Acceptable, NEW i \in Inputs
  PROVE  ~ InputThrows(i)
<1>1. TypeOK /\ stream \in Streams /\ BufferInv(i)
  BY DEF EventIInv, EventInv
<1>2. ASSUME HasRecordTag(i) PROVE NextRecord(i).kind # "unknown"
  <2>1. taken[i] \in Nat /\ taken[i] + 1 \in DOMAIN stream[i]
    BY <1>1, <1>2, BufferTypes, StreamFacts DEF HasRecordTag
  <2>. QED
    BY <2>1, RecordKinds DEF NextRecord
<1>3. ASSUME held[i] # NoRec PROVE ~ OutOfOrder(ibuf[i], held[i])
  <2>1. ibuf[i] \in BufferOf(RhdOf(Inputs)) /\ held[i] \in RhdOf(Inputs)
    BY <1>1, <1>3 DEF TypeOK, InputTypeOK, Rhd
  <2>2. ibuf[i].front = FrontTrigId(ibuf[i].recs) /\ ibuf[i].trigIds = TrigIdsOf(ibuf[i].recs)
    BY <1>1 DEF BufferInv
  <2>. QED
    BY <1>1, <1>3, <2>1, <2>2, HeldIsNewest, InsertInOrder
<1>. QED
  BY <1>2, <1>3 DEF InputThrows, InsertThrows

(***************************************************************************)
(* The merger installs complete records of the working RTD's trigger ID,   *)
(* at most one trigger record among them, and an RTD that it pushes has    *)
(* all the records of its trigger ID, with a hit among them.               *)
(***************************************************************************)
LEMMA MergerNeverThrows ==
  ASSUME EventIInv, SortedInputs, TriggersInv, Acceptable
  PROVE  ~ MergerThrows
<1>1. ASSUME mpc = "decide", PushCurrent, ForceComplete PROVE IsComplete(rtd)
  <2>1. HasRtd /\ EventComplete(rtd)
    BY <1>1, PushDecision
  <2>2. PICK r \in Records : r.trig = rtd.trig /\ r.kind \in HitKinds
    BY <1>1, <2>1 DEF TriggersInv, Acceptable
  <2>3. PICK i \in Inputs : r \in {stream[i][k] : k \in DOMAIN stream[i]}
    BY <2>2 DEF Records
  <2>4. PICK k \in DOMAIN stream[i] : r = stream[i][k]
    BY <2>3
  <2>5. k \in 1 .. Lengths[i]
    BY <2>4, StreamFacts DEF EventIInv, Lengths
  <2>6. \E m \in DOMAIN rtd.recs : rtd.recs[m] = r
    BY <2>1, <2>2, <2>4, <2>5 DEF EventComplete, Holds
  <2>. QED
    BY <2>2, <2>6 DEF IsComplete
<1>2. ASSUME mpc = "collect", Matching PROVE ~ InstallThrows(rtd, Head(ibuf[midx].recs))
  <2>. DEFINE i == midx
              rec == Head(ibuf[i].recs)
              q == Popped(i) + 1
  <2>1. /\ TypeOK /\ stream \in Streams /\ i \in Inputs /\ BufferInv(i)
        /\ ibuf[i].recs # << >> /\ ibuf[i].front = rtd.trig
    BY <1>2 DEF EventIInv, EventInv, TypeOK, MergerTypeOK, Matching, IsEmpty
  <2>2. /\ rec = ibuf[i].recs[1] /\ 1 \in 1 .. Len(ibuf[i].recs)
        /\ rec.trig = rtd.trig
    <3>1. rec = ibuf[i].recs[1] /\ 1 \in 1 .. Len(ibuf[i].recs)
      BY <2>1, BufferTypes, EmptySeq, HeadTailProperties
    <3>2. ibuf[i].front = FrontTrigId(ibuf[i].recs)
      BY <2>1 DEF BufferInv
    <3>. QED
      BY <2>1, <3>1, <3>2 DEF FrontTrigId
  <2>3. rec = stream[i][q] /\ q \in 1 .. Len(stream[i]) /\ Popped(i) \in Nat
    <3>1. rec = stream[i][q]
      BY <2>1, <2>2 DEF BufferInv
    <3>2. /\ Popped(i) \in 0 .. Len(stream[i]) /\ Popped(i) + Len(ibuf[i].recs) <= Len(stream[i])
          /\ Len(stream[i]) \in Nat /\ Len(ibuf[i].recs) \in Nat
      BY <2>1, BufferWindow, BufferTypes, StreamFacts
    <3>. QED
      BY <2>2, <3>1, <3>2
  <2>4. /\ rec.src = i /\ rec.pos = q /\ rec \in Records
        /\ rec.kind \notin {"incomplete", "unknown"}
    BY <2>1, <2>3, StreamFacts, TriggersAre, RecordKinds
  <2>5. HasRtd
    <3>1. rec.trig \in Nat
      BY <2>1, <2>3, StreamFacts
    <3>. QED
      BY <2>2, <3>1 DEF HasRtd, INVALID_TRIGGER_ID
  <2>6. ASSUME rec.kind = "trig", NEW m \in DOMAIN rtd.recs, rtd.recs[m].kind = "trig"
        PROVE  FALSE
    <3>1. FromStreams(rtd, PoppedSoFar)
      BY <2>5 DEF EventIInv, EventInv, ContentInv
    <3>2. /\ rtd.recs[m].trig = rtd.trig
          /\ \E j \in Inputs : \E p \in 1 .. PoppedSoFar[j] : rtd.recs[m] = stream[j][p]
      BY <3>1 DEF FromStreams
    <3>3. PICK j \in Inputs : \E p \in 1 .. PoppedSoFar[j] : rtd.recs[m] = stream[j][p]
      BY <3>2
    <3>4. PICK p \in 1 .. Popped(j) : rtd.recs[m] = stream[j][p]
      BY <3>3 DEF PoppedSoFar
    <3>5. p \in 1 .. Len(stream[j])
      <4>1. BufferInv(j)
        BY DEF EventIInv, EventInv
      <4>. QED
        BY <2>1, <3>4, <4>1, StreamSplit
    <3>6. stream[j][p] \in Records /\ stream[j][p].src = j /\ stream[j][p].pos = p
      BY <2>1, <3>5, StreamFacts, TriggersAre
    <3>7. rtd.recs[m] = rec
      BY <2>2, <2>4, <2>6, <3>2, <3>4, <3>6 DEF Acceptable
    <3>8. j = i /\ p = q
      BY <2>4, <3>4, <3>6, <3>7
    <3>. QED
      BY <2>3, <3>4, <3>8
  <2>. QED
    BY <2>2, <2>4, <2>6 DEF InstallThrows
<1>. QED
  BY <1>1, <1>2 DEF MergerThrows

(***************************************************************************)
(* The writer has room: it stops at its limit, or the RTDs are few.        *)
(***************************************************************************)
LEMMA OutputNeverThrows ==
  ASSUME EventIInv, SortedInputs, TriggersInv, OutputInv, Acceptable
  PROVE  ~ OutputThrows
<1>. SUFFICES ASSUME obuf # << >>, ~ Writer!IsTerminated, Writer!Overrun, ~ TerminateOnOverrun
              PROVE  FALSE
  BY DEF OutputThrows, Writer!StoreThrows
<1>1. TypeOK /\ QueueInv /\ CountInv /\ FilesInv /\ ~ terminated
  BY DEF OutputInv, Writer!IsTerminated
<1>2. MaxPerFile > 0 /\ nrecords = MaxPerFile /\ Len(files) - 1 + 1 = filenames
  BY DEF Writer!Overrun, Writer!FileIsFull, Writer!IsLastFile, Writer!CurrentFileIndex
<1>3. counter = Room
  <2>. DEFINE n == Len(files)
              m == MaxPerFile
  <2>1. n \in Nat \ {0} /\ m \in Nat /\ OutputFiles \in Nat /\ n = OutputFiles
    BY <1>1, <1>2, FileTypes, OutputTypes DEF CountInv
  <2>2. counter = (n - 1) * m + m
    BY <1>1, <1>2 DEF FilesInv
  <2>. HIDE DEF n, m
  <2>3. counter = OutputFiles * m
    BY <2>1, <2>2, Blocks
  <2>. QED
    BY <2>3 DEF m, Room
<1>4. counter < Len(built)
  <2>1. Len(obuf) > 0
    BY <1>1, OutputTypes, EmptySeq
  <2>. QED
    BY <1>1, <2>1, CounterBound, OutputTypes
<1>5. Len(built) <= Cardinality(Triggers) /\ Cardinality(Triggers) \in Nat
  BY EventCount
<1>6. MaxTotal > 0 => counter < MaxTotal
  BY <1>1 DEF CountInv
<1>7. OutputFits /\ counter \in Nat /\ Len(built) \in Nat /\ MaxTotal \in Nat /\ MaxPerFile \in Nat
  BY <1>1, OutputTypes DEF Acceptable
<1>8. CASE MaxTotal \in 1 .. Room
  <2>1. MaxTotal > 0 /\ MaxTotal <= counter
    BY <1>3, <1>8
  <2>. QED
    BY <1>6, <1>7, <2>1
<1>9. CASE Cardinality(Triggers) <= Room
  <2>1. Cardinality(Triggers) <= counter
    BY <1>3, <1>9
  <2>. QED
    BY <1>4, <1>5, <1>7, <2>1
<1>. QED
  BY <1>2, <1>7, <1>8, <1>9 DEF OutputFits

-----------------------------------------------------------------------------
(***************************************************************************)
(* The invariant of the outcome.                                           *)
(***************************************************************************)
OutcomeInv ==
  /\ stream \in Streams
  /\ OutputInv
  /\ SortedInputs => EventIInv /\ TriggersInv
  /\ FailureJustified

LEMMA AcceptableSorted == Acceptable => SortedInputs
BY DEF Acceptable, SortedInputs

LEMMA InitOutcome == Init => OutcomeInv
<1>. SUFFICES ASSUME Init PROVE OutcomeInv
  OBVIOUS
<1>1. stream \in Streams /\ FailureJustified
  BY DEF Init, FailureJustified
<1>. QED
  BY <1>1, InitOutput, InitEvents, InitTriggers DEF OutcomeInv

LEMMA NextOutcome == OutcomeInv /\ [Next]_vars => OutcomeInv'
<1>. SUFFICES ASSUME OutcomeInv, [Next]_vars PROVE OutcomeInv'
  OBVIOUS
<1>1. stream' = stream /\ SortedInputs' = SortedInputs
  BY StreamsStay
<1>2. OutputInv'
  BY NextOutput DEF OutcomeInv
<1>3. SortedInputs' => EventIInv' /\ TriggersInv'
  BY <1>1, NextEvents, NextTriggers DEF OutcomeInv
<1>4. FailureJustified'
  <2>. SUFFICES ASSUME Acceptable, aborted' PROVE FALSE
    BY <1>1 DEF FailureJustified, Acceptable, Records, Triggers, OutputFits
  <2>1. EventIInv /\ SortedInputs /\ TriggersInv /\ OutputInv /\ ~ aborted
    BY AcceptableSorted DEF OutcomeInv, FailureJustified
  <2>2. ASSUME NEW i \in Inputs, InputStep(i) PROVE FALSE
    BY <2>1, <2>2, InputNeverThrows DEF InputStep, LoadRecord, InsertHeld, TerminateInput
  <2>3. ASSUME MergerStep PROVE FALSE
    BY <2>1, <2>3, MergerNeverThrows
    DEF MergerStep, ScanBuffer, PushRtd, BeginCollect, SkipCollect, PopMatching, LeaveBuffer,
        CountBuffer, TerminateOutput
  <2>4. ASSUME OutputStep PROVE FALSE
    BY <2>1, <2>4, OutputNeverThrows
    DEF OutputStep, LockOutput, StoreRtd, DropRtd, UnlockOutput
  <2>5. CASE UNCHANGED vars
    BY <2>1, <2>5 DEF vars
  <2>. QED
    BY <2>2, <2>3, <2>4, <2>5 DEF Next, Ended
<1>. QED
  BY <1>1, <1>2, <1>3, <1>4 DEF OutcomeInv

THEOREM OutcomeInvariant == Spec => []OutcomeInv
<1>1. Spec => Init /\ [][Next]_vars
  BY DEF Spec, Safety
<1>. QED
  BY <1>1, InitOutcome, NextOutcome, PTL

(***************************************************************************)
(* Whatever kills a run is in its inputs: with complete records in order,  *)
(* a hit for each trigger ID if that is asked for and room for the output  *)
(* no thread throws, however they interleave.                              *)
(***************************************************************************)
THEOREM FailuresAreJustified == Spec => []FailureJustified
<1>1. OutcomeInv => FailureJustified
  BY DEF OutcomeInv
<1>. QED
  BY <1>1, OutcomeInvariant, PTL

(***************************************************************************)
(* For sorted inputs a run that returns has written as many RTDs as its    *)
(* limits admit.                                                           *)
(***************************************************************************)
THEOREM ReturnsAreComplete ==
  ASSUME SortedStreams
  PROVE  Spec => []FilesComplete
<1>1. OutcomeInv => FilesComplete
  BY ReturnComplete DEF OutcomeInv, SortedStreams, SortedInputs
<1>. QED
  BY <1>1, OutcomeInvariant, PTL

-----------------------------------------------------------------------------
(***************************************************************************)
(* The merger emits the events of EventBuilding.  Pushing an RTD is the    *)
(* step Emit, everything else happens behind the scenes.                   *)
(***************************************************************************)
LEMMA PendingAre ==
  ASSUME EventIInv, SortedInputs, TriggersInv, mpc = "decide", PushCurrent
  PROVE  /\ rtd.trig \in Abstract!Pending
         /\ \A u \in Abstract!Pending : rtd.trig <= u
<1>1. /\ TypeOK /\ stream \in Streams /\ HasRtd /\ EventComplete(rtd)
      /\ \A j \in Inputs : \A k \in Unpopped(j) : stream[j][k].trig > rtd.trig
      /\ \A j \in Inputs : BufferInv(j)
      /\ rtd.trig \in Triggers
  BY PushDecision DEF EventIInv, EventInv, TriggersInv
<1>2. Abstract!Pending = Triggers \ {built[n].trig : n \in DOMAIN built}
  <2>1. Abstract!Records = Records
    BY DEF Abstract!Records, Records
  <2>2. Abstract!Emitted = {built[n].trig : n \in DOMAIN built}
    BY DEF Abstract!Emitted, EventsOf
  <2>. QED
    BY <2>1, <2>2 DEF Abstract!Pending, Triggers
<1>3. ASSUME NEW n \in DOMAIN built PROVE built[n].trig < rtd.trig
  <2>1. LastTrig < rtd.trig
    BY <1>1 DEF EventIInv, EventInv, OrderInv
  <2>2. n \in 1 .. Len(built) /\ Len(built) \in Nat /\ built \in Seq(Rtd)
    BY <1>1, OutputTypes
  <2>3. LastTrig = built[Len(built)].trig
    BY <2>2 DEF LastTrig
  <2>4. n < Len(built) => built[n].trig < built[Len(built)].trig
    BY <2>2 DEF EventIInv, EventInv, EventsOrdered
  <2>5. built[n].trig \in Int /\ built[Len(built)].trig \in Int /\ rtd.trig \in Int
    <3>1. built[n] \in Rtd /\ built[Len(built)] \in Rtd /\ rtd \in Rtd
      BY <1>1, <2>2, ElementOfSeq DEF TypeOK, MergerTypeOK
    <3>. QED
      BY <3>1 DEF Rtd, INVALID_TRIGGER_ID
  <2>. QED
    BY <2>1, <2>2, <2>3, <2>4, <2>5
<1>4. rtd.trig \in Nat
  BY <1>1 DEF TypeOK, MergerTypeOK, Rtd, HasRtd
<1>5. rtd.trig \in Abstract!Pending
  BY <1>1, <1>2, <1>3, <1>4
<1>6. ASSUME NEW u \in Abstract!Pending PROVE rtd.trig <= u
  <2>1. PICK j \in Inputs : \E k \in DOMAIN stream[j] : stream[j][k].trig = u
    BY <1>2, TriggersAre
  <2>2. PICK k \in DOMAIN stream[j] : stream[j][k].trig = u
    BY <2>1
  <2>3. k \in 1 .. Popped(j) \/ k \in Unpopped(j)
    BY <1>1, StreamSplit, StreamFacts
  <2>4. u \in Nat
    BY <1>1, <2>2, StreamFacts
  <2>5. CASE k \in 1 .. Popped(j)
    <3>1. u = rtd.trig
      BY <1>2, <2>2, <2>5 DEF EventIInv, EventInv, ContentInv
    <3>. QED
      BY <1>4, <3>1
  <2>6. CASE k \in Unpopped(j)
    <3>1. u > rtd.trig
      BY <1>1, <2>2, <2>6
    <3>. QED
      BY <1>4, <2>4, <3>1
  <2>. QED
    BY <2>3, <2>5, <2>6
<1>. QED
  BY <1>5, <1>6

LEMMA PushedIsComplete ==
  ASSUME EventComplete(rtd), stream \in Streams, SortedInputs
  PROVE  RecsOf(rtd) = Abstract!RecordsOf(rtd.trig)
<1>1. Abstract!Records = Records
  BY DEF Abstract!Records, Records
<1>2. ASSUME NEW r \in RecsOf(rtd) PROVE r \in Records /\ r.trig = rtd.trig
  <2>1. PICK m \in DOMAIN rtd.recs : r = rtd.recs[m]
    BY DEF RecsOf
  <2>2. r.trig = rtd.trig /\ \E i \in Inputs : \E k \in 1 .. Lengths[i] : r = stream[i][k]
    BY <2>1 DEF EventComplete, FromStreams
  <2>3. PICK i \in Inputs : \E k \in 1 .. Lengths[i] : r = stream[i][k]
    BY <2>2
  <2>. QED
    BY <2>2, <2>3, StreamFacts, TriggersAre DEF Lengths
<1>3. ASSUME NEW r \in Records, r.trig = rtd.trig PROVE r \in RecsOf(rtd)
  <2>1. PICK i \in Inputs : r \in {stream[i][k] : k \in DOMAIN stream[i]}
    BY DEF Records
  <2>2. PICK k \in DOMAIN stream[i] : r = stream[i][k]
    BY <2>1
  <2>3. k \in 1 .. Lengths[i]
    BY <2>2, StreamFacts DEF Lengths
  <2>4. \E m \in DOMAIN rtd.recs : rtd.recs[m] = r
    BY <1>3, <2>2, <2>3 DEF EventComplete, Holds
  <2>. QED
    BY <2>4 DEF RecsOf
<1>. QED
  BY <1>1, <1>2, <1>3 DEF Abstract!RecordsOf

LEMMA PushEmits ==
  ASSUME EventIInv, SortedInputs, TriggersInv, PushRtd
  PROVE  Abstract!Emit
<1>. DEFINE n == Len(built)
            E(r) == [trig |-> r.trig, recs |-> RecsOf(r)]
<1>1. /\ mpc = "decide" /\ PushCurrent /\ built' = Append(built, rtd) /\ stream' = stream
  BY DEF PushRtd, ivars
<1>2. built \in Seq(Rtd) /\ rtd \in Rtd /\ n \in Nat /\ DOMAIN built = 1 .. n
  BY OutputTypes DEF EventIInv
<1>3. /\ DOMAIN built' = 1 .. n + 1 /\ built'[n + 1] = rtd
      /\ \A k \in 1 .. n : built'[k] = built[k]
  BY <1>1, <1>2, AppendProperties, LenProperties
<1>4. EventsOf(built) = [k \in 1 .. n |-> E(built[k])]
  BY <1>2 DEF EventsOf
<1>5. EventsOf(built)' = [k \in 1 .. n + 1 |-> E(built'[k])]
  BY <1>3 DEF EventsOf, RecsOf
<1>. HIDE DEF E, n
<1>6. EventsOf(built)' = Append(EventsOf(built), E(rtd))
  <2>1. Append(EventsOf(built), E(rtd)) = [k \in 1 .. n + 1 |-> IF k = n + 1 THEN E(rtd) ELSE E(built[k])]
    <3>1. Len(EventsOf(built)) = n /\ EventsOf(built) \in Seq({E(built[k]) : k \in 1 .. n})
      BY <1>2, <1>4
    <3>. QED
      BY <1>2, <1>4, <3>1
  <2>2. \A k \in 1 .. n + 1 : E(built'[k]) = IF k = n + 1 THEN E(rtd) ELSE E(built[k])
    BY <1>2, <1>3
  <2>. QED
    BY <1>5, <2>1, <2>2
<1>7. E(rtd) = [trig |-> rtd.trig, recs |-> Abstract!RecordsOf(rtd.trig)]
  BY <1>1, PushDecision, PushedIsComplete DEF E, EventIInv
<1>. QED
  BY <1>1, <1>6, <1>7, PendingAre DEF Abstract!Emit

LEMMA OthersStutter ==
  ASSUME [Next]_vars, ~ PushRtd
  PROVE  UNCHANGED built
BY DEF Next, Ended, InputStep, LoadRecord, InsertHeld, TerminateInput, InputThrows, MergerStep,
       ScanBuffer, BeginCollect, SkipCollect, PopMatching, LeaveBuffer, CountBuffer,
       TerminateOutput, MergerThrows, OutputStep, LockOutput, StoreRtd, DropRtd, UnlockOutput,
       OutputThrows, Abort, vars, mvars

LEMMA StepImplements ==
  ASSUME OutcomeInv, SortedInputs, [Next]_vars
  PROVE  [Abstract!Emit]_(Abstract!evars)
<1>1. CASE PushRtd
  BY <1>1, PushEmits DEF OutcomeInv
<1>2. CASE ~ PushRtd
  <2>1. stream' = stream /\ built' = built
    BY <1>2, StreamsStay, OthersStutter
  <2>. QED
    BY <2>1 DEF Abstract!evars, EventsOf, RecsOf
<1>. QED
  BY <1>1, <1>2

LEMMA InitImplements == Init => Abstract!Init
<1>. SUFFICES ASSUME Init PROVE Abstract!Init
  OBVIOUS
<1>1. stream \in Streams /\ built = << >>
  BY DEF Init
<1>2. EventsOf(built) = << >>
  <2>1. DOMAIN EventsOf(built) = {}
    BY <1>1 DEF EventsOf
  <2>. QED
    BY <1>1, <2>1 DEF EventsOf
<1>. QED
  BY <1>1, <1>2 DEF Abstract!Init

(***************************************************************************)
(* The threads, buffers and passes of the builder implement EventBuilding: *)
(* for sorted inputs the RTDs appear oldest trigger ID first and nothing   *)
(* else appears.                                                           *)
(***************************************************************************)
THEOREM BuilderImplements ==
  ASSUME SortedStreams
  PROVE  Spec => Abstract!Safety
<1>1. Spec => Init /\ [][Next]_vars
  BY DEF Spec, Safety
<1>2. OutcomeInv => SortedInputs
  BY DEF OutcomeInv, SortedStreams, SortedInputs
<1>3. OutcomeInv /\ [Next]_vars => [Abstract!Emit]_(Abstract!evars)
  BY <1>2, StepImplements
<1>. QED
  BY <1>1, <1>3, InitImplements, OutcomeInvariant, PTL DEF Abstract!Safety
=============================================================================
