---------------------------- MODULE EventProofs ----------------------------
(***************************************************************************)
(* For inputs sorted by trigger ID: the events are complete and ordered    *)
(* and no record is lost.  The invariant is EventInv, with the types and   *)
(* the fact that the streams are the ones of the beginning.                *)
(***************************************************************************)
EXTENDS RtdBuilderProofs

EventIInv == TypeOK /\ stream \in Streams /\ EventInv

SortedInputs == \A i \in Inputs : Sorted(stream[i])

-----------------------------------------------------------------------------
(***************************************************************************)
(* What the assumptions say of one input.                                  *)
(***************************************************************************)
LEMMA StreamFacts ==
  ASSUME stream \in Streams, NEW i \in Inputs
  PROVE  /\ stream[i] \in Seq(Rhd)
         /\ Len(stream[i]) \in Nat
         /\ DOMAIN stream[i] = 1 .. Len(stream[i])
         /\ \A k \in 1 .. Len(stream[i]) :
              /\ stream[i][k] \in Rhd
              /\ stream[i][k].trig \in Nat
              /\ stream[i][k].src = i
              /\ stream[i][k].pos = k
<1>1. stream[i] \in Seq(Rhd)
  BY StreamsAssumption
<1>2. Len(stream[i]) \in Nat /\ DOMAIN stream[i] = 1 .. Len(stream[i])
  BY <1>1, LenProperties
<1>3. \A k \in 1 .. Len(stream[i]) : stream[i][k] \in Rhd
  BY <1>1, ElementOfSeq
<1>4. \A k \in 1 .. Len(stream[i]) : stream[i][k].trig \in Nat
  BY <1>3 DEF Rhd, RhdOf
<1>5. \A k \in 1 .. Len(stream[i]) : stream[i][k].src = i /\ stream[i][k].pos = k
  BY <1>2, StreamsAssumption
<1>. QED
  BY <1>1, <1>2, <1>3, <1>4, <1>5

LEMMA StreamOrder ==
  ASSUME SortedInputs, stream \in Streams, NEW i \in Inputs
  PROVE  \A j, k \in 1 .. Len(stream[i]) : j <= k => stream[i][j].trig <= stream[i][k].trig
BY StreamFacts DEF SortedInputs, Sorted

LEMMA BufferTypes ==
  ASSUME TypeOK, NEW i \in Inputs
  PROVE  /\ ibuf[i] \in BufferOf(Rhd)
         /\ ibuf[i].recs \in Seq(Rhd)
         /\ Len(ibuf[i].recs) \in Nat
         /\ DOMAIN ibuf[i].recs = 1 .. Len(ibuf[i].recs)
         /\ taken[i] \in Nat
         /\ Inserted(i) \in Int
         /\ Popped(i) \in Int
         /\ Popped(i) = Inserted(i) - Len(ibuf[i].recs)
<1>1. ibuf[i] \in BufferOf(Rhd) /\ taken[i] \in Nat
  BY DEF TypeOK, InputTypeOK
<1>2. ibuf[i].recs \in Seq(Rhd)
  BY <1>1 DEF BufferOf
<1>3. Len(ibuf[i].recs) \in Nat /\ DOMAIN ibuf[i].recs = 1 .. Len(ibuf[i].recs)
  BY <1>2, LenProperties
<1>4. Inserted(i) \in Int
  BY <1>1 DEF Inserted
<1>. QED
  BY <1>1, <1>2, <1>3, <1>4 DEF Popped

(***************************************************************************)
(* A buffer stands between what was popped and what is still to come; one  *)
(* that is finished has given all its stream away.                         *)
(***************************************************************************)
LEMMA BufferWindow ==
  ASSUME TypeOK, stream \in Streams, NEW i \in Inputs, BufferInv(i)
  PROVE  /\ Popped(i) \in 0 .. Len(stream[i])
         /\ Popped(i) + Len(ibuf[i].recs) <= Len(stream[i])
         /\ IsFinished(ibuf[i]) => Popped(i) = Len(stream[i])
         /\ ~ IsEmpty(ibuf[i]) =>
              /\ Popped(i) + 1 \in 1 .. Len(stream[i])
              /\ Head(ibuf[i].recs) = stream[i][Popped(i) + 1]
              /\ ibuf[i].front = stream[i][Popped(i) + 1].trig
<1>0. Len(stream[i]) \in Nat
  BY StreamFacts
<1>1. /\ Inserted(i) \in Nat
      /\ Inserted(i) <= Len(stream[i])
      /\ Inserted(i) <= taken[i]
  <2>1. taken[i] \in Nat /\ taken[i] <= Len(stream[i])
    BY BufferTypes DEF BufferInv
  <2>2. held[i] # NoRec => taken[i] > 0
    BY DEF BufferInv
  <2>. QED
    BY <1>0, <2>1, <2>2 DEF Inserted
<1>2. /\ Len(ibuf[i].recs) \in Nat
      /\ Len(ibuf[i].recs) <= Inserted(i)
      /\ Popped(i) = Inserted(i) - Len(ibuf[i].recs)
  BY BufferTypes DEF BufferInv
<1>3. ASSUME IsFinished(ibuf[i]) PROVE Popped(i) = Len(stream[i])
  <2>1. ibuf[i].recs = << >> /\ Inserted(i) = Len(stream[i])
    BY <1>3 DEF IsFinished, IsEmpty, BufferInv, Inserted
  <2>2. Len(ibuf[i].recs) = 0
    BY <2>1
  <2>. QED
    BY <1>0, <1>2, <2>1, <2>2
<1>4. ASSUME ~ IsEmpty(ibuf[i])
      PROVE  /\ Popped(i) + 1 \in 1 .. Len(stream[i])
             /\ Head(ibuf[i].recs) = stream[i][Popped(i) + 1]
             /\ ibuf[i].front = stream[i][Popped(i) + 1].trig
  <2>1. ibuf[i].recs # << >> /\ ibuf[i].recs \in Seq(Rhd)
    BY <1>4, BufferTypes DEF IsEmpty
  <2>2. Len(ibuf[i].recs) \in Nat \ {0} /\ Head(ibuf[i].recs) = ibuf[i].recs[1]
    BY <2>1, EmptySeq
  <2>3. ibuf[i].recs[1] = stream[i][Popped(i) + 1]
    BY <2>2 DEF BufferInv
  <2>4. ibuf[i].front = Head(ibuf[i].recs).trig
    BY <2>1 DEF BufferInv, FrontTrigId
  <2>. QED
    BY <1>0, <1>1, <1>2, <2>2, <2>3, <2>4
<1>5. Popped(i) \in 0 .. Len(stream[i]) /\ Popped(i) + Len(ibuf[i].recs) <= Len(stream[i])
  BY <1>0, <1>1, <1>2
<1>. QED
  BY <1>3, <1>4, <1>5, Zenon

-----------------------------------------------------------------------------
(***************************************************************************)
(* The input threads.  Whatever they do, nothing is popped, and a finished *)
(* buffer stays finished.                                                  *)
(***************************************************************************)
LEMMA OtherInputs ==
  ASSUME TypeOK, NEW i \in Inputs, InputStep(i), NEW j \in Inputs, j # i
  PROVE  /\ stream' = stream
         /\ taken'[j] = taken[j] /\ held'[j] = held[j]
         /\ running'[j] = running[j] /\ ibuf'[j] = ibuf[j]
BY DEF TypeOK, InputTypeOK, InputStep, LoadRecord, InsertHeld, TerminateInput, InputThrows,
       Abort, ivars

LEMMA LoadKeepsBuffer ==
  ASSUME TypeOK, stream \in Streams, NEW i \in Inputs, BufferInv(i),
         LoadRecord(i)
  PROVE  BufferInv(i)' /\ Popped(i)' = Popped(i) /\ ibuf'[i] = ibuf[i]
<1>1. /\ taken'[i] = taken[i] + 1 /\ held[i] = NoRec /\ held'[i] = stream[i][taken[i] + 1]
      /\ stream' = stream /\ running' = running /\ ibuf' = ibuf /\ running[i]
      /\ taken[i] < Len(stream[i])
  BY DEF LoadRecord, TypeOK, InputTypeOK, NextRecord, HasRecordTag
<1>2. taken[i] \in Nat /\ Len(stream[i]) \in Nat
  BY StreamFacts, BufferTypes
<1>3. held'[i] # NoRec
  <2>1. stream[i][taken[i] + 1].trig \in Nat
    BY <1>1, <1>2, StreamFacts
  <2>. QED
    BY <1>1, <2>1 DEF NoRec, INVALID_TRIGGER_ID
<1>4. Inserted(i)' = Inserted(i) /\ Popped(i)' = Popped(i)
  BY <1>1, <1>2, <1>3 DEF Inserted, Popped
<1>5. ~ ibuf[i].terminated
  BY <1>1 DEF BufferInv
<1>. QED
  BY <1>1, <1>2, <1>3, <1>4, <1>5 DEF BufferInv

(***************************************************************************)
(* The record that an input worker holds is not older than what is in its  *)
(* buffer.                                                                 *)
(***************************************************************************)
LEMMA HeldIsNewest ==
  ASSUME TypeOK, SortedInputs, stream \in Streams, NEW i \in Inputs, BufferInv(i),
         held[i] # NoRec
  PROVE  /\ \A j, k \in 1 .. Len(ibuf[i].recs) :
              j <= k => ibuf[i].recs[j].trig <= ibuf[i].recs[k].trig
         /\ \A k \in 1 .. Len(ibuf[i].recs) : ibuf[i].recs[k].trig <= held[i].trig
<1>. DEFINE b == ibuf[i]
            r == held[i]
            n == Len(b.recs)
<1>1. b \in BufferOf(Rhd) /\ b.recs \in Seq(Rhd) /\ n \in Nat /\ r \in Rhd
  BY BufferTypes DEF TypeOK, InputTypeOK
<1>2. taken[i] \in 1 .. Len(stream[i]) /\ r = stream[i][taken[i]] /\ Len(stream[i]) \in Nat
  BY BufferTypes, StreamFacts DEF BufferInv
<1>3. Inserted(i) = taken[i] - 1 /\ Popped(i) = taken[i] - 1 - n /\ n <= taken[i] - 1
  BY DEF Inserted, Popped, BufferInv
<1>4. \A k \in 1 .. n : b.recs[k] = stream[i][Popped(i) + k]
                        /\ Popped(i) + k \in 1 .. taken[i] - 1
  <2>1. \A k \in 1 .. n : b.recs[k] = stream[i][Popped(i) + k]
    BY DEF BufferInv
  <2>2. \A k \in 1 .. n : Popped(i) + k \in 1 .. taken[i] - 1
    <3>. HIDE DEF n
    <3>. QED
      BY <1>1, <1>2, <1>3
  <2>. QED
    BY <2>1, <2>2
<1>5. /\ \A j, k \in 1 .. n : j <= k => b.recs[j].trig <= b.recs[k].trig
      /\ \A k \in 1 .. n : b.recs[k].trig <= r.trig
  <2>1. \A j, k \in 1 .. Len(stream[i]) : j <= k => stream[i][j].trig <= stream[i][k].trig
    BY StreamOrder
  <2>2. ASSUME NEW j \in 1 .. n, NEW k \in 1 .. n, j <= k
        PROVE  b.recs[j].trig <= b.recs[k].trig
    <3>1. Popped(i) + j \in 1 .. taken[i] - 1 /\ Popped(i) + k \in 1 .. taken[i] - 1
      BY <1>4
    <3>2. Popped(i) + j \in 1 .. Len(stream[i]) /\ Popped(i) + k \in 1 .. Len(stream[i])
      BY <1>2, <3>1
    <3>3. Popped(i) + j <= Popped(i) + k
      <4>1. n \in Nat /\ Popped(i) \in Int
        BY <1>1, BufferTypes
      <4>. QED
        BY <2>2, <4>1
    <3>4. /\ b.recs[j] = stream[i][Popped(i) + j]
          /\ b.recs[k] = stream[i][Popped(i) + k]
      BY <1>4
    <3>. HIDE DEF b
    <3>. QED
      BY <2>1, <3>2, <3>3, <3>4
  <2>3. ASSUME NEW k \in 1 .. n
        PROVE  b.recs[k].trig <= r.trig
    <3>1. Popped(i) + k \in 1 .. Len(stream[i]) /\ Popped(i) + k <= taken[i]
      BY <1>1, <1>2, <1>3, <1>4
    <3>. QED
      BY <1>2, <1>4, <2>1, <3>1
  <2>. QED
    BY <2>2, <2>3
<1>. QED
  BY <1>5

(***************************************************************************)
(* In a run whose inputs are sorted, or that does not accept others, every *)
(* record that is inserted comes in order.                                 *)
(***************************************************************************)
OrderKept == SortedInputs \/ MinPop <= 1

LEMMA InsertedInOrder ==
  ASSUME TypeOK, OrderKept, stream \in Streams, NEW i \in Inputs, BufferInv(i),
         InsertHeld(i)
  PROVE  ~ OutOfOrder(ibuf[i], held[i])
<1>1. CASE MinPop <= 1
  BY <1>1 DEF InsertHeld, InsertThrows
<1>2. CASE SortedInputs
  <2>1. held[i] # NoRec
    BY DEF InsertHeld
  <2>2. ibuf[i] \in BufferOf(RhdOf(Inputs)) /\ held[i] \in RhdOf(Inputs)
    BY <2>1 DEF TypeOK, InputTypeOK, Rhd
  <2>3. ibuf[i].front = FrontTrigId(ibuf[i].recs) /\ ibuf[i].trigIds = TrigIdsOf(ibuf[i].recs)
    BY DEF BufferInv
  <2>. QED
    BY <1>2, <2>1, <2>2, <2>3, HeldIsNewest, InsertInOrder
<1>. QED
  BY <1>1, <1>2 DEF OrderKept

LEMMA InsertKeepsBuffer ==
  ASSUME TypeOK, OrderKept, stream \in Streams, NEW i \in Inputs, BufferInv(i),
         InsertHeld(i)
  PROVE  BufferInv(i)' /\ Popped(i)' = Popped(i) /\ ~ IsFinished(ibuf[i])
<1>. DEFINE b == ibuf[i]
            r == held[i]
            n == Len(b.recs)
<1>1. /\ ibuf'[i] = InsertRecord(b, r) /\ held'[i] = NoRec /\ r # NoRec
      /\ stream' = stream /\ running' = running /\ taken' = taken /\ running[i]
  BY DEF InsertHeld, TypeOK, InputTypeOK
<1>2. b \in BufferOf(Rhd) /\ b.recs \in Seq(Rhd) /\ n \in Nat /\ r \in Rhd
  BY <1>1, BufferTypes DEF TypeOK, InputTypeOK
<1>3. taken[i] \in 1 .. Len(stream[i]) /\ r = stream[i][taken[i]] /\ Len(stream[i]) \in Nat
  BY <1>1, BufferTypes, StreamFacts DEF BufferInv
<1>4. Inserted(i) = taken[i] - 1 /\ Inserted(i)' = taken[i] /\ Popped(i) = taken[i] - 1 - n
      /\ n <= taken[i] - 1
  BY <1>1 DEF Inserted, Popped, BufferInv
<1>5. \A k \in 1 .. n : b.recs[k] = stream[i][Popped(i) + k]
                        /\ Popped(i) + k \in 1 .. taken[i] - 1
  BY <1>2, <1>3, <1>4 DEF BufferInv
<1>6. ~ OutOfOrder(b, r)
  BY InsertedInOrder
<1>7. b.front = FrontTrigId(b.recs) /\ b.trigIds = TrigIdsOf(b.recs)
  BY DEF BufferInv
<1>8. /\ ibuf'[i].recs = Append(b.recs, r)
      /\ ibuf'[i].front = FrontTrigId(Append(b.recs, r))
      /\ ibuf'[i].trigIds = TrigIdsOf(Append(b.recs, r))
      /\ ibuf'[i].terminated = b.terminated
  <2>1. b \in BufferOf(RhdOf(Inputs)) /\ r \in RhdOf(Inputs)
    BY <1>2 DEF Rhd
  <2>. HIDE DEF b, r
  <2>. QED
    BY <1>1, <1>6, <1>7, <2>1, InsertAppends
<1>9. /\ Len(Append(b.recs, r)) = n + 1
      /\ \A k \in 1 .. n : Append(b.recs, r)[k] = b.recs[k]
      /\ Append(b.recs, r)[n + 1] = r
  BY <1>2, AppendProperties
<1>. HIDE DEF b, r, n
<1>10. Popped(i)' = Popped(i)
  <2>1. Popped(i)' = Inserted(i)' - Len(ibuf'[i].recs)
    BY DEF Popped
  <2>2. Len(ibuf'[i].recs) = n + 1
    BY <1>8, <1>9
  <2>. QED
    BY <1>2, <1>3, <1>4, <2>1, <2>2
<1>11. ASSUME NEW k \in 1 .. n + 1
       PROVE  ibuf'[i].recs[k] = stream[i][Popped(i) + k]
  <2>1. CASE k \in 1 .. n
    BY <1>5, <1>8, <1>9, <2>1
  <2>2. CASE k = n + 1
    <3>1. taken[i] \in Int /\ n \in Int
      BY <1>2, <1>3
    <3>2. Popped(i) + k = taken[i]
      BY <1>4, <2>2, <3>1
    <3>. QED
      BY <1>3, <1>8, <1>9, <2>2, <3>2
  <2>. QED
    BY <1>2, <2>1, <2>2
<1>12. ibuf[i].terminated = FALSE
  BY <1>1 DEF BufferInv, BufferOf, TypeOK, InputTypeOK
<1>13. BufferInv(i)'
  <2>1. /\ taken'[i] <= Len(stream'[i])
        /\ Len(ibuf'[i].recs) <= Inserted(i)'
    BY <1>1, <1>2, <1>3, <1>4, <1>8, <1>9
  <2>2. \A k \in 1 .. Len(ibuf'[i].recs) : ibuf'[i].recs[k] = stream'[i][Popped(i)' + k]
    BY <1>1, <1>8, <1>9, <1>10, <1>11
  <2>3. /\ ibuf'[i].front = FrontTrigId(ibuf'[i].recs)
        /\ ibuf'[i].trigIds = TrigIdsOf(ibuf'[i].recs)
    BY <1>8
  <2>4. ibuf'[i].terminated = FALSE
    BY <1>8, <1>12 DEF b
  <2>5. running'[i] = TRUE
    BY <1>1 DEF TypeOK, InputTypeOK
  <2>. QED
    BY <1>1, <2>1, <2>2, <2>3, <2>4, <2>5 DEF BufferInv
<1>. QED
  BY <1>10, <1>12, <1>13 DEF IsFinished

LEMMA TerminateKeepsBuffer ==
  ASSUME TypeOK, NEW i \in Inputs, BufferInv(i), TerminateInput(i)
  PROVE  BufferInv(i)' /\ Popped(i)' = Popped(i) /\ ibuf'[i].recs = ibuf[i].recs
                      /\ ibuf'[i].terminated
<1>1. /\ ibuf'[i] = Terminate(ibuf[i]) /\ held' = held /\ taken' = taken /\ stream' = stream
      /\ held[i] = NoRec /\ ~ (taken[i] < Len(stream[i])) /\ running'[i] = FALSE
  BY DEF TerminateInput, HasRecordTag, TypeOK, InputTypeOK
<1>2. ibuf[i] \in BufferOf(Rhd)
  BY BufferTypes
<1>3. /\ ibuf'[i].recs = ibuf[i].recs /\ ibuf'[i].front = ibuf[i].front
      /\ ibuf'[i].trigIds = ibuf[i].trigIds /\ ibuf'[i].terminated = TRUE
  BY <1>1, <1>2 DEF Terminate, BufferOf
<1>4. taken[i] = Len(stream[i])
  <2>1. taken[i] \in Nat /\ taken[i] <= Len(stream[i])
    BY BufferTypes DEF BufferInv
  <2>2. Len(stream[i]) \in Nat
    BY LenProperties DEF TypeOK, InputTypeOK
  <2>. QED
    BY <1>1, <2>1, <2>2
<1>5. Popped(i)' = Popped(i) /\ Inserted(i)' = Inserted(i)
  BY <1>1, <1>3 DEF Popped, Inserted
<1>. QED
  BY <1>1, <1>3, <1>4, <1>5 DEF BufferInv

LEMMA InputFrame ==
  ASSUME TypeOK, OrderKept, stream \in Streams, \A j \in Inputs : BufferInv(j),
         NEW i \in Inputs, InputStep(i)
  PROVE  \A j \in Inputs :
           /\ BufferInv(j)'
           /\ Popped(j)' = Popped(j)
           /\ IsFinished(ibuf[j]) => IsFinished(ibuf'[j])
<1>. SUFFICES ASSUME NEW j \in Inputs
              PROVE  /\ BufferInv(j)'
                     /\ Popped(j)' = Popped(j)
                     /\ IsFinished(ibuf[j]) => IsFinished(ibuf'[j])
  OBVIOUS
<1>1. CASE j # i
  <2>1. /\ stream' = stream
        /\ taken'[j] = taken[j] /\ held'[j] = held[j]
        /\ running'[j] = running[j] /\ ibuf'[j] = ibuf[j]
    BY <1>1, OtherInputs
  <2>. QED
    BY <2>1 DEF BufferInv, Popped, Inserted
<1>2. CASE j = i /\ LoadRecord(i)
  BY <1>2, LoadKeepsBuffer
<1>3. CASE j = i /\ InsertHeld(i)
  BY <1>3, InsertKeepsBuffer
<1>4. CASE j = i /\ TerminateInput(i)
  BY <1>4, TerminateKeepsBuffer DEF IsFinished, IsEmpty
<1>5. CASE j = i /\ InputThrows(i)
  BY <1>5 DEF InputThrows, Abort, ivars, BufferInv, Popped, Inserted
<1>. QED
  BY <1>1, <1>2, <1>3, <1>4, <1>5 DEF InputStep

(***************************************************************************)
(* The rest of EventInv speaks of what was popped and of what the merger   *)
(* has: an input step does not touch either.                               *)
(***************************************************************************)
LEMMA InputStepEvents ==
  ASSUME EventIInv, SortedInputs, NEW i \in Inputs, InputStep(i)
  PROVE  EventInv' /\ stream' = stream
<1>1. \A j \in Inputs :
        /\ BufferInv(j)'
        /\ Popped(j)' = Popped(j)
        /\ IsFinished(ibuf[j]) => IsFinished(ibuf'[j])
  BY InputFrame DEF EventIInv, EventInv, OrderKept
<1>2. stream' = stream /\ UNCHANGED mvars
  BY DEF InputStep, LoadRecord, InsertHeld, TerminateInput, InputThrows, Abort, ivars
<1>3. /\ mpc' = mpc /\ midx' = midx /\ mmin' = mmin /\ nfinished' = nfinished
      /\ allFin' = allFin /\ rtd' = rtd /\ built' = built
  BY <1>2 DEF mvars
<1>4. \A j \in Inputs : Unpopped(j)' = Unpopped(j)
  BY <1>1, <1>2 DEF Unpopped
<1>5. PoppedSoFar' = PoppedSoFar
  BY <1>1 DEF PoppedSoFar
<1>6. OrderInv'
  BY <1>1, <1>2, <1>3, <1>4 DEF EventIInv, EventInv, OrderInv, HasRtd, LastTrig
<1>7. ContentInv'
  BY <1>1, <1>2, <1>3, <1>5
  DEF EventIInv, EventInv, ContentInv, HasRtd, Holds, FromStreams, NoRepeat
<1>8. ScanInv'
  <2>1. Visited' = Visited /\ Visited \subseteq Inputs
    BY <1>3, BuilderAssumption DEF Visited, Inputs, EventIInv, TypeOK, MergerTypeOK
  <2>. QED
    BY <1>1, <1>2, <1>3, <1>4, <2>1 DEF EventIInv, EventInv, ScanInv, Fetchable
<1>9. FinishInv'
  <2>1. 1 .. midx - 1 \subseteq Inputs
    BY BuilderAssumption DEF Inputs, EventIInv, TypeOK, MergerTypeOK
  <2>. QED
    BY <1>1, <1>3, <2>1 DEF EventIInv, EventInv, FinishInv, HasRtd
<1>10. EventsComplete' /\ EventsOrdered'
  BY <1>2, <1>3
  DEF EventIInv, EventInv, EventsComplete, EventsOrdered, EventComplete, Holds, FromStreams,
      NoRepeat, Lengths
<1>. QED
  BY <1>1, <1>2, <1>6, <1>7, <1>8, <1>9, <1>10 DEF EventInv

-----------------------------------------------------------------------------
(***************************************************************************)
(* The merger.  A step that neither pops nor touches the working RTD or    *)
(* the built ones only has to keep ScanInv and FinishInv.                  *)
(***************************************************************************)
LEMMA NoPopFrame ==
  ASSUME UNCHANGED << ivars, ibuf >>
  PROVE  /\ stream' = stream /\ ibuf' = ibuf
         /\ PoppedSoFar' = PoppedSoFar
         /\ \A j \in Inputs :
              /\ BufferInv(j)' = BufferInv(j)
              /\ Popped(j)' = Popped(j)
              /\ Unpopped(j)' = Unpopped(j)
BY DEF ivars, BufferInv, Popped, Inserted, Unpopped, PoppedSoFar

LEMMA StableEvents ==
  ASSUME EventInv, UNCHANGED << ivars, ibuf, rtd, built >>
  PROVE  /\ \A j \in Inputs : BufferInv(j)'
         /\ OrderInv' /\ ContentInv' /\ EventsComplete' /\ EventsOrdered'
<1>1. /\ stream' = stream /\ rtd' = rtd /\ built' = built
      /\ PoppedSoFar' = PoppedSoFar
      /\ \A j \in Inputs :
           /\ BufferInv(j)' = BufferInv(j)
           /\ Popped(j)' = Popped(j)
           /\ Unpopped(j)' = Unpopped(j)
  BY NoPopFrame
<1>2. \A j \in Inputs : BufferInv(j)'
  BY <1>1 DEF EventInv
<1>3. OrderInv'
  BY <1>1 DEF EventInv, OrderInv, HasRtd, LastTrig
<1>4. ContentInv'
  BY <1>1 DEF EventInv, ContentInv, HasRtd, Holds, FromStreams, NoRepeat
<1>5. EventsComplete' /\ EventsOrdered'
  BY <1>1 DEF EventInv, EventsComplete, EventsOrdered, EventComplete, Holds, FromStreams,
              NoRepeat, Lengths
<1>. QED
  BY <1>2, <1>3, <1>4, <1>5

(***************************************************************************)
(* What a buffer offers while the merger scans is its oldest record.       *)
(***************************************************************************)
LEMMA PoppableIsOldest ==
  ASSUME TypeOK, SortedInputs, stream \in Streams, NEW j \in Inputs, BufferInv(j),
         NextPoppable(ibuf[j], MinPop) # INVALID_TRIGGER_ID
  PROVE  /\ NextPoppable(ibuf[j], MinPop) \in Nat
         /\ \A k \in Unpopped(j) : stream[j][k].trig >= NextPoppable(ibuf[j], MinPop)
         /\ \E k \in Unpopped(j) : stream[j][k].trig = NextPoppable(ibuf[j], MinPop)
<1>1. ~ IsEmpty(ibuf[j]) /\ NextPoppable(ibuf[j], MinPop) = ibuf[j].front
  BY DEF NextPoppable
<1>2. /\ Popped(j) \in 0 .. Len(stream[j])
      /\ Popped(j) + 1 \in 1 .. Len(stream[j])
      /\ ibuf[j].front = stream[j][Popped(j) + 1].trig
  BY <1>1, BufferWindow
<1>3. /\ Len(stream[j]) \in Nat
      /\ stream[j][Popped(j) + 1].trig \in Nat
      /\ \A k, l \in 1 .. Len(stream[j]) : k <= l => stream[j][k].trig <= stream[j][l].trig
      /\ \A k \in 1 .. Len(stream[j]) : stream[j][k].trig \in Nat
  BY <1>2, StreamFacts, StreamOrder
<1>4. Popped(j) + 1 \in Unpopped(j)
  BY <1>2, <1>3 DEF Unpopped
<1>5. ASSUME NEW k \in Unpopped(j)
      PROVE  stream[j][k].trig >= stream[j][Popped(j) + 1].trig
  <2>1. k \in 1 .. Len(stream[j]) /\ Popped(j) + 1 <= k
    BY <1>2, <1>3 DEF Unpopped
  <2>. QED
    BY <1>2, <1>3, <2>1
<1>. QED
  BY <1>1, <1>2, <1>3, <1>4, <1>5

LEMMA FinishedHasNoMore ==
  ASSUME TypeOK, stream \in Streams, NEW j \in Inputs, BufferInv(j),
         IsFinished(ibuf[j])
  PROVE  Unpopped(j) = {}
BY BufferWindow, StreamFacts DEF Unpopped

LEMMA UnpoppedInStream ==
  ASSUME TypeOK, stream \in Streams, NEW j \in Inputs, BufferInv(j)
  PROVE  /\ Unpopped(j) \subseteq 1 .. Len(stream[j])
         /\ \A k \in Unpopped(j) : stream[j][k].trig \in Nat
<1>1. Popped(j) \in 0 .. Len(stream[j]) /\ Len(stream[j]) \in Nat
  BY BufferWindow, StreamFacts
<1>2. Unpopped(j) \subseteq 1 .. Len(stream[j])
  BY <1>1 DEF Unpopped
<1>. QED
  BY <1>2, StreamFacts

LEMMA ScanBufferEvents ==
  ASSUME EventIInv, SortedInputs, ScanBuffer
  PROVE  EventInv'
<1>. DEFINE t == NextPoppable(ibuf[midx], MinPop)
<1>0. /\ TypeOK /\ EventInv /\ stream \in Streams /\ midx \in Inputs
      /\ NInputs \in Nat /\ Inputs = 1 .. NInputs
      /\ BufferInv(midx) /\ ScanInv /\ FinishInv
      /\ mmin \in Nat \cup {INVALID_TRIGGER_ID}
  BY BuilderAssumption DEF EventIInv, EventInv, TypeOK, MergerTypeOK, Inputs
<1>1. /\ mpc = "scan"
      /\ UNCHANGED << ivars, ibuf, rtd, built, allFin, nfinished >>
  BY DEF ScanBuffer
<1>2. /\ \A j \in Inputs : BufferInv(j)'
      /\ OrderInv' /\ ContentInv' /\ EventsComplete' /\ EventsOrdered'
  BY <1>0, <1>1, StableEvents
<1>3. /\ stream' = stream /\ ibuf' = ibuf
      /\ \A j \in Inputs : Unpopped(j)' = Unpopped(j)
  BY <1>1, NoPopFrame
<1>4. mpc' \in {"scan", "decide"}
  BY <1>1 DEF ScanBuffer, AdvanceLoop
<1>5. FinishInv'
  BY <1>0, <1>1, <1>3, <1>4 DEF FinishInv, HasRtd
<1>6. Visited = 1 .. midx - 1
  BY <1>1 DEF Visited
<1>7. ASSUME AdvanceLoop("decide")
      PROVE  /\ Visited' = Visited \cup {midx} /\ Visited' \subseteq Inputs
             /\ mpc' = "scan" => Visited' = 1 .. midx
  BY <1>0, <1>1, <1>6, <1>7 DEF AdvanceLoop, Visited
<1>8. CASE /\ IsFinished(ibuf[midx])
           /\ AdvanceLoop("decide")
           /\ UNCHANGED mmin
  <2>1. Unpopped(midx) = {}
    BY <1>0, <1>8, FinishedHasNoMore
  <2>2. Fetchable' = Fetchable /\ mmin' = mmin
    BY <1>8 DEF Fetchable
  <2>3. mpc' = "scan" /\ ~ Fetchable' => \A j \in Visited' : IsFinished(ibuf'[j])
    BY <1>0, <1>1, <1>3, <1>7, <1>8, <2>2 DEF ScanInv
  <2>4. Fetchable' =>
          /\ \A j \in Visited' : \A k \in Unpopped(j)' : stream'[j][k].trig >= mmin'
          /\ \E j \in Visited' : \E k \in Unpopped(j)' : stream'[j][k].trig = mmin'
    BY <1>0, <1>1, <1>3, <1>7, <1>8, <2>1, <2>2 DEF ScanInv
  <2>. QED
    BY <1>2, <1>5, <2>3, <2>4 DEF EventInv, ScanInv
<1>9. CASE /\ ~ IsFinished(ibuf[midx])
           /\ t # INVALID_TRIGGER_ID
           /\ AdvanceLoop("decide")
           /\ mmin' = LowerOf(mmin, t)
  <2>1. /\ t \in Nat
        /\ \A k \in Unpopped(midx) : stream[midx][k].trig >= t
        /\ \E k \in Unpopped(midx) : stream[midx][k].trig = t
    BY <1>0, <1>9, PoppableIsOldest
  <2>. HIDE DEF t
  <2>2. mmin' \in Nat /\ mmin' <= t /\ (mmin' = t \/ (Fetchable /\ mmin' = mmin))
        /\ (Fetchable => mmin' <= mmin)
    BY <1>0, <1>9, <2>1 DEF LowerOf, Fetchable, INVALID_TRIGGER_ID
  <2>3. Fetchable'
    BY <2>2 DEF Fetchable, INVALID_TRIGGER_ID
  <2>4. \A j \in Visited : \A k \in Unpopped(j) : stream[j][k].trig >= mmin'
    <3>1. CASE Fetchable
      <4>1. \A j \in Visited : \A k \in Unpopped(j) : stream[j][k].trig >= mmin
        BY <1>0, <1>1, <3>1 DEF ScanInv
      <4>2. mmin \in Nat
        BY <1>0, <3>1 DEF Fetchable
      <4>3. \A j \in Inputs : \A k \in Unpopped(j) : stream[j][k].trig \in Nat
        <5>1. \A j \in Inputs : BufferInv(j)
          BY <1>0 DEF EventInv
        <5>. QED
          BY <1>0, <5>1, UnpoppedInStream
      <4>4. Visited \subseteq Inputs
        BY <1>0, <1>6
      <4>. QED
        BY <2>2, <3>1, <4>1, <4>2, <4>3, <4>4
    <3>2. CASE ~ Fetchable
      <4>1. \A j \in Visited : j \in Inputs /\ IsFinished(ibuf[j]) /\ BufferInv(j)
        BY <1>0, <1>1, <1>6, <3>2 DEF ScanInv, EventInv
      <4>2. \A j \in Visited : Unpopped(j) = {}
        BY <1>0, <4>1, FinishedHasNoMore
      <4>. QED
        BY <4>2
    <3>. QED
      BY <3>1, <3>2
  <2>5. \A k \in Unpopped(midx) : stream[midx][k].trig >= mmin'
    <3>1. \A k \in Unpopped(midx) : stream[midx][k].trig \in Nat
      BY <1>0, UnpoppedInStream
    <3>. QED
      BY <2>1, <2>2, <3>1
  <2>6. \A j \in Visited' : \A k \in Unpopped(j)' : stream'[j][k].trig >= mmin'
    BY <1>0, <1>3, <1>7, <1>9, <2>4, <2>5
  <2>7. \E j \in Visited' : \E k \in Unpopped(j)' : stream'[j][k].trig = mmin'
    <3>1. CASE mmin' = t
      BY <1>0, <1>3, <1>7, <1>9, <2>1, <3>1
    <3>2. CASE Fetchable /\ mmin' = mmin
      <4>1. \E j \in Visited : \E k \in Unpopped(j) : stream[j][k].trig = mmin
        BY <1>0, <1>1, <3>2 DEF ScanInv
      <4>. QED
        BY <1>3, <1>7, <1>9, <3>2, <4>1
    <3>. QED
      BY <2>2, <3>1, <3>2
  <2>. QED
    BY <1>2, <1>5, <2>3, <2>6, <2>7 DEF EventInv, ScanInv
<1>10. CASE /\ ~ IsFinished(ibuf[midx])
            /\ t = INVALID_TRIGGER_ID
            /\ mpc' = "decide"
            /\ midx' = 1
            /\ mmin' = INVALID_TRIGGER_ID
  BY <1>2, <1>5, <1>10 DEF EventInv, ScanInv, Fetchable
<1>. QED
  BY <1>8, <1>9, <1>10 DEF ScanBuffer

(***************************************************************************)
(* Where the records of a stream are: popped or not.                       *)
(***************************************************************************)
LEMMA StreamSplit ==
  ASSUME TypeOK, stream \in Streams, NEW j \in Inputs, BufferInv(j)
  PROVE  /\ 1 .. Len(stream[j]) = 1 .. Popped(j) \cup Unpopped(j)
         /\ 1 .. Popped(j) \subseteq 1 .. Len(stream[j])
         /\ \A k \in 1 .. Popped(j) : stream[j][k].trig \in Nat
<1>1. Popped(j) \in 0 .. Len(stream[j]) /\ Len(stream[j]) \in Nat
  BY BufferWindow, StreamFacts
<1>2. /\ 1 .. Len(stream[j]) = 1 .. Popped(j) \cup Unpopped(j)
      /\ 1 .. Popped(j) \subseteq 1 .. Len(stream[j])
  BY <1>1 DEF Unpopped
<1>. QED
  BY <1>2, StreamFacts

(***************************************************************************)
(* The decision to push is right: every record of the working RTD's        *)
(* trigger ID has been popped, and so it is complete.                      *)
(***************************************************************************)
LEMMA PushDecision ==
  ASSUME EventIInv, SortedInputs, mpc = "decide", PushCurrent
  PROVE  /\ HasRtd
         /\ \A j \in Inputs : \A k \in Unpopped(j) : stream[j][k].trig > rtd.trig
         /\ EventComplete(rtd)
<1>0. /\ TypeOK /\ stream \in Streams /\ ContentInv /\ ScanInv /\ FinishInv
      /\ \A j \in Inputs : BufferInv(j)
      /\ mmin \in Nat \cup {INVALID_TRIGGER_ID} /\ rtd.trig \in Nat \cup {INVALID_TRIGGER_ID}
  BY DEF EventIInv, EventInv, TypeOK, MergerTypeOK, Rtd
<1>1. Visited = Inputs
  BY DEF Visited
<1>2. HasRtd
  BY <1>0 DEF PushCurrent, FinishInv
<1>3. ASSUME NEW j \in Inputs, NEW k \in Unpopped(j)
      PROVE  stream[j][k].trig > rtd.trig
  <2>1. CASE Fetchable
    <3>1. stream[j][k].trig >= mmin
      BY <1>0, <1>1, <2>1 DEF ScanInv
    <3>2. rtd.trig < mmin
      BY <2>1 DEF PushCurrent
    <3>3. stream[j][k].trig \in Nat
      BY <1>0, UnpoppedInStream
    <3>. QED
      BY <1>0, <1>2, <2>1, <3>1, <3>2, <3>3 DEF HasRtd, Fetchable
  <2>2. CASE ~ Fetchable
    <3>1. IsFinished(ibuf[j])
      BY <1>0, <2>2 DEF PushCurrent, FinishInv
    <3>. QED
      BY <1>0, <3>1, FinishedHasNoMore
  <2>. QED
    BY <2>1, <2>2
<1>4. Holds(rtd, Lengths)
  <2>. SUFFICES ASSUME NEW j \in Inputs, NEW k \in 1 .. Len(stream[j]),
                       stream[j][k].trig = rtd.trig
                PROVE  \E m \in DOMAIN rtd.recs : rtd.recs[m] = stream[j][k]
    BY DEF Holds, Lengths
  <2>1. k \notin Unpopped(j)
    BY <1>0, <1>2, <1>3 DEF HasRtd
  <2>2. k \in 1 .. Popped(j)
    BY <1>0, <2>1, StreamSplit
  <2>. QED
    BY <1>0, <1>2, <2>2 DEF ContentInv, Holds, PoppedSoFar
<1>5. FromStreams(rtd, Lengths)
  <2>1. FromStreams(rtd, PoppedSoFar)
    BY <1>0, <1>2 DEF ContentInv
  <2>2. \A j \in Inputs : 1 .. PoppedSoFar[j] \subseteq 1 .. Lengths[j]
    BY <1>0, StreamSplit DEF PoppedSoFar, Lengths
  <2>. QED
    BY <2>1, <2>2 DEF FromStreams
<1>6. NoRepeat(rtd)
  BY <1>0 DEF ContentInv
<1>. QED
  BY <1>2, <1>3, <1>4, <1>5, <1>6 DEF EventComplete

LEMMA PushRtdEvents ==
  ASSUME EventIInv, SortedInputs, PushRtd
  PROVE  EventInv'
<1>. DEFINE n == Len(built)
<1>0. /\ TypeOK /\ stream \in Streams /\ OrderInv /\ ContentInv /\ ScanInv /\ FinishInv
      /\ \A j \in Inputs : BufferInv(j)
      /\ EventsComplete /\ EventsOrdered
      /\ built \in Seq(Rtd) /\ rtd \in Rtd
  BY DEF EventIInv, EventInv, TypeOK, MergerTypeOK
<1>1. /\ mpc = "decide" /\ mpc' = "process" /\ rtd' = NoRtd /\ built' = Append(built, rtd)
      /\ UNCHANGED << ivars, ibuf, midx, mmin, nfinished, allFin >>
      /\ PushCurrent
  BY DEF PushRtd
<1>2. /\ HasRtd
      /\ \A j \in Inputs : \A k \in Unpopped(j) : stream[j][k].trig > rtd.trig
      /\ EventComplete(rtd)
  BY <1>1, PushDecision
<1>3. /\ stream' = stream /\ ibuf' = ibuf
      /\ \A j \in Inputs :
           /\ BufferInv(j)' = BufferInv(j)
           /\ Popped(j)' = Popped(j)
           /\ Unpopped(j)' = Unpopped(j)
  BY <1>1, NoPopFrame
<1>4. /\ n \in Nat /\ DOMAIN built = 1 .. n /\ DOMAIN built' = 1 .. n + 1
      /\ Len(built') = n + 1 /\ built' # << >>
      /\ \A m \in 1 .. n : built'[m] = built[m]
      /\ built'[n + 1] = rtd
  BY <1>0, <1>1, AppendProperties, LenProperties
<1>. HIDE DEF n
<1>5. LastTrig' = rtd.trig /\ ~ HasRtd'
  BY <1>1, <1>4 DEF LastTrig, HasRtd, NoRtd
<1>6. OrderInv'
  <2>1. \A j \in Inputs : \A k \in 1 .. Popped(j) : stream[j][k].trig <= rtd.trig
    BY <1>0, <1>2 DEF OrderInv
  <2>. QED
    BY <1>2, <1>3, <1>5, <2>1 DEF OrderInv
<1>7. ContentInv'
  <2>1. NoRepeat(rtd')
    BY <1>1 DEF NoRepeat, NoRtd
  <2>2. ASSUME NEW j \in Inputs, NEW k \in 1 .. Popped(j)
        PROVE  \E m \in DOMAIN built' : built'[m].trig = stream[j][k].trig
    <3>1. CASE stream[j][k].trig = rtd.trig
      BY <1>4, <3>1
    <3>2. CASE \E m \in DOMAIN built : built[m].trig = stream[j][k].trig
      BY <1>4, <3>2
    <3>. QED
      BY <1>0, <3>1, <3>2 DEF ContentInv
  <2>. QED
    BY <1>3, <1>5, <2>1, <2>2 DEF ContentInv
<1>8. ScanInv'
  BY <1>0, <1>1, <1>3 DEF ScanInv, Visited, Fetchable
<1>9. FinishInv'
  BY <1>0, <1>1, <1>3 DEF FinishInv
<1>10. EventsComplete'
  <2>1. \A r : EventComplete(r)' = EventComplete(r)
    BY <1>3 DEF EventComplete, Holds, FromStreams, NoRepeat, Lengths
  <2>2. ASSUME NEW m \in 1 .. n + 1 PROVE EventComplete(built'[m])
    BY <1>0, <1>2, <1>4 DEF EventsComplete
  <2>. QED
    BY <1>4, <2>1, <2>2 DEF EventsComplete
<1>11. EventsOrdered'
  <2>1. \A m \in 1 .. n : built[m].trig < rtd.trig
    <3>1. \A m \in 1 .. n : built[m].trig \in Int /\ rtd.trig \in Int
      <4>1. \A m \in 1 .. n : built[m] \in Rtd
        BY <1>0, ElementOfSeq DEF n
      <4>. QED
        BY <1>0, <4>1 DEF Rtd, INVALID_TRIGGER_ID
    <3>2. n > 0 => built[n].trig < rtd.trig
      BY <1>0, <1>2, <1>4 DEF OrderInv, LastTrig, n
    <3>3. \A m \in 1 .. n : m < n => built[m].trig < built[n].trig
      BY <1>0, <1>4 DEF EventsOrdered
    <3>. QED
      BY <1>4, <3>1, <3>2, <3>3
  <2>. QED
    BY <1>0, <1>4, <2>1 DEF EventsOrdered
<1>. QED
  BY <1>0, <1>3, <1>6, <1>7, <1>8, <1>9, <1>10, <1>11 DEF EventInv

LEMMA BeginCollectEvents ==
  ASSUME EventIInv, SortedInputs, BeginCollect
  PROVE  EventInv'
<1>0. /\ TypeOK /\ stream \in Streams /\ EventInv /\ OrderInv /\ ContentInv /\ ScanInv
      /\ FinishInv /\ \A j \in Inputs : BufferInv(j)
      /\ mmin \in Nat \cup {INVALID_TRIGGER_ID}
  BY DEF EventIInv, EventInv, TypeOK, MergerTypeOK
<1>1. /\ mpc \in {"decide", "process"} /\ mpc' = "collect" /\ Fetchable
      /\ UNCHANGED << ivars, ibuf, mmin, nfinished, allFin, built >>
      /\ rtd' = IF HasRtd THEN rtd ELSE [trig |-> mmin, recs |-> << >>]
  BY DEF BeginCollect, Decided
<1>2. /\ stream' = stream /\ ibuf' = ibuf /\ PoppedSoFar' = PoppedSoFar
      /\ \A j \in Inputs :
           /\ BufferInv(j)' = BufferInv(j)
           /\ Popped(j)' = Popped(j)
           /\ Unpopped(j)' = Unpopped(j)
  BY <1>1, NoPopFrame
<1>3. ScanInv' /\ FinishInv'
  BY <1>0, <1>1, <1>2 DEF ScanInv, FinishInv
<1>4. CASE HasRtd
  <2>1. rtd' = rtd
    BY <1>1, <1>4
  <2>. QED
    BY <1>0, <1>1, <1>3, <2>1, StableEvents DEF EventInv
<1>5. CASE ~ HasRtd
  <2>1. rtd'.trig = mmin /\ rtd'.recs = << >> /\ HasRtd' /\ mmin \in Nat
    BY <1>0, <1>1, <1>5 DEF HasRtd, Fetchable
  <2>2. Visited = Inputs
    BY <1>1 DEF Visited
  <2>3. /\ \A j \in Inputs : \A k \in Unpopped(j) : stream[j][k].trig >= mmin
        /\ \E j \in Inputs : \E k \in Unpopped(j) : stream[j][k].trig = mmin
    BY <1>0, <1>1, <2>2 DEF ScanInv
  <2>4. LastTrig < mmin
    BY <1>0, <2>3 DEF OrderInv
  <2>5. LastTrig' = LastTrig
    BY <1>1 DEF LastTrig
  <2>6. ASSUME NEW j \in Inputs, NEW k \in 1 .. Popped(j)
        PROVE  stream[j][k].trig < mmin
    <3>1. stream[j][k].trig <= LastTrig /\ stream[j][k].trig \in Nat
      BY <1>0, <1>5, StreamSplit DEF OrderInv
    <3>2. LastTrig \in Int
      <4>1. built # << >> => built[Len(built)] \in Rtd
        BY <1>0, EmptySeq, ElementOfSeq DEF TypeOK, MergerTypeOK
      <4>. QED
        BY <4>1 DEF LastTrig, Rtd, INVALID_TRIGGER_ID
    <3>. QED
      BY <2>1, <2>4, <3>1, <3>2
  <2>7. OrderInv'
    <3>1. \A j \in Inputs : \A k \in 1 .. Popped(j) : stream[j][k].trig <= mmin
      <4>1. \A j \in Inputs : \A k \in 1 .. Popped(j) : stream[j][k].trig \in Nat
        BY <1>0, StreamSplit
      <4>. QED
        BY <2>1, <2>6, <4>1
    <3>2. \A j \in Inputs : \A k \in Unpopped(j) : stream[j][k].trig > LastTrig
      BY <1>0 DEF OrderInv
    <3>. QED
      BY <1>2, <2>1, <2>3, <2>4, <2>5, <3>1, <3>2 DEF OrderInv
  <2>8. ContentInv'
    <3>1. Holds(rtd, PoppedSoFar)'
      <4>1. \A j \in Inputs : \A k \in 1 .. Popped(j) : stream[j][k].trig # mmin
        <5>1. \A j \in Inputs : \A k \in 1 .. Popped(j) : stream[j][k].trig \in Nat
          BY <1>0, StreamSplit
        <5>. QED
          BY <2>1, <2>6, <5>1
      <4>. QED
        BY <1>2, <2>1, <4>1 DEF Holds, PoppedSoFar
    <3>2. FromStreams(rtd, PoppedSoFar)' /\ NoRepeat(rtd)'
      BY <2>1 DEF FromStreams, NoRepeat
    <3>3. \A j \in Inputs : \A k \in 1 .. Popped(j) :
            \E m \in DOMAIN built : built[m].trig = stream[j][k].trig
      BY <1>0, <1>5 DEF ContentInv
    <3>. QED
      BY <1>1, <1>2, <2>1, <3>1, <3>2, <3>3 DEF ContentInv
  <2>9. EventsComplete' /\ EventsOrdered'
    BY <1>0, <1>1, <1>2 DEF EventInv, EventsComplete, EventsOrdered, EventComplete, Holds,
                            FromStreams, NoRepeat, Lengths
  <2>. QED
    BY <1>0, <1>2, <1>3, <2>7, <2>8, <2>9 DEF EventInv
<1>. QED
  BY <1>4, <1>5

(***************************************************************************)
(* The end of a pass that has collected or had nothing to collect.         *)
(***************************************************************************)
LEMMA EndOfPass ==
  ASSUME FinishInv, mpc # "count", CountOrEnd, UNCHANGED << ibuf, rtd, allFin >>
  PROVE  ScanInv' /\ FinishInv'
<1>0. FinishInv /\ ibuf' = ibuf /\ rtd' = rtd /\ allFin' = allFin /\ nfinished = 0
  BY DEF FinishInv
<1>1. CASE allFin
  <2>1. /\ midx' = 1 /\ mmin' = INVALID_TRIGGER_ID /\ nfinished' = 0
        /\ mpc' = IF rtd.trig = INVALID_TRIGGER_ID THEN "stopping" ELSE "scan"
    BY <1>0, <1>1 DEF CountOrEnd, EndPass
  <2>2. ScanInv'
    BY <2>1 DEF ScanInv, Visited, Fetchable
  <2>3. FinishInv'
    BY <1>0, <1>1, <2>1 DEF FinishInv, HasRtd
  <2>. QED
    BY <2>2, <2>3
<1>2. CASE ~ allFin
  <2>1. mpc' = "count" /\ midx' = 1 /\ nfinished' = 0
    BY <1>0, <1>2 DEF CountOrEnd
  <2>2. ScanInv'
    BY <2>1 DEF ScanInv
  <2>3. FinishInv'
    BY <1>0, <1>2, <2>1 DEF FinishInv
  <2>. QED
    BY <2>2, <2>3
<1>. QED
  BY <1>1, <1>2

LEMMA SkipCollectEvents ==
  ASSUME EventIInv, SortedInputs, SkipCollect
  PROVE  EventInv'
<1>1. /\ mpc # "count" /\ CountOrEnd
      /\ UNCHANGED << ivars, ibuf, rtd, allFin >>
      /\ UNCHANGED << ivars, ibuf, rtd, built >>
  BY DEF SkipCollect, Decided
<1>. QED
  BY <1>1, EndOfPass, StableEvents DEF EventInv, EventIInv

LEMMA LeaveBufferEvents ==
  ASSUME EventIInv, SortedInputs, LeaveBuffer
  PROVE  EventInv'
<1>1. /\ mpc = "collect"
      /\ UNCHANGED << ivars, ibuf, rtd, allFin >>
      /\ UNCHANGED << ivars, ibuf, rtd, built >>
  BY DEF LeaveBuffer
<1>2. ScanInv' /\ FinishInv'
  <2>1. CASE midx < NInputs
    <3>1. mpc' = "collect" /\ nfinished' = nfinished
      BY <1>1, <2>1 DEF LeaveBuffer
    <3>. QED
      BY <1>1, <3>1 DEF EventIInv, EventInv, ScanInv, FinishInv
  <2>2. CASE ~ (midx < NInputs)
    <3>1. CountOrEnd
      BY <2>2 DEF LeaveBuffer
    <3>. QED
      BY <1>1, <3>1, EndOfPass DEF EventIInv, EventInv
  <2>. QED
    BY <2>1, <2>2
<1>. QED
  BY <1>1, <1>2, StableEvents DEF EventInv, EventIInv

(***************************************************************************)
(* Counting the finished buffers.  A buffer that was counted is still      *)
(* finished when the last one is.                                          *)
(***************************************************************************)
LEMMA CountingFinished ==
  ASSUME TypeOK, FinishInv, CountBuffer
  PROVE  ScanInv' /\ FinishInv'
<1>. DEFINE n == IF IsFinished(ibuf[midx]) THEN nfinished + 1 ELSE nfinished
<1>0. /\ FinishInv /\ midx \in Inputs /\ nfinished \in Nat
      /\ NInputs \in Nat /\ Inputs = 1 .. NInputs
  BY BuilderAssumption DEF TypeOK, MergerTypeOK, Inputs
<1>1. /\ mpc = "count"
      /\ UNCHANGED << ivars, ibuf, rtd, built >>
  BY DEF CountBuffer
<1>2. /\ nfinished < midx
      /\ nfinished + 1 = midx => \A j \in 1 .. midx - 1 : IsFinished(ibuf[j])
  BY <1>0, <1>1 DEF FinishInv
<1>3. n \in Nat /\ n <= midx /\ (n = midx => \A j \in 1 .. midx : IsFinished(ibuf[j]))
  <2>1. CASE IsFinished(ibuf[midx])
    <3>1. n = nfinished + 1
      BY <2>1
    <3>2. nfinished + 1 = midx => \A j \in 1 .. midx : IsFinished(ibuf[j])
      BY <1>0, <1>2, <2>1
    <3>. HIDE DEF n
    <3>. QED
      BY <1>0, <1>2, <3>1, <3>2
  <2>2. CASE ~ IsFinished(ibuf[midx])
    <3>1. n = nfinished
      BY <2>2
    <3>. HIDE DEF n
    <3>. QED
      BY <1>0, <1>2, <3>1
  <2>. QED
    BY <2>1, <2>2
<1>4. CASE midx < NInputs
  <2>1. midx' = midx + 1 /\ nfinished' = n /\ mpc' = "count" /\ allFin' = allFin
    BY <1>1, <1>4 DEF CountBuffer
  <2>. HIDE DEF n
  <2>2. ScanInv'
    BY <2>1 DEF ScanInv
  <2>3. /\ nfinished' < midx'
        /\ nfinished' + 1 = midx' => \A j \in 1 .. midx' - 1 : IsFinished(ibuf'[j])
    BY <1>0, <1>1, <1>3, <2>1
  <2>4. FinishInv'
    BY <1>0, <1>1, <2>1, <2>3 DEF FinishInv
  <2>. QED
    BY <2>2, <2>4
<1>5. CASE ~ (midx < NInputs)
  <2>1. allFin' = (n = NInputs) /\ EndPass(allFin', rtd)
    BY <1>5 DEF CountBuffer
  <2>2. allFin' => \A j \in Inputs : IsFinished(ibuf[j])
    <3>1. midx = NInputs
      BY <1>0, <1>5
    <3>. QED
      BY <1>0, <1>3, <2>1, <3>1
  <2>. HIDE DEF n
  <2>3. /\ midx' = 1 /\ mmin' = INVALID_TRIGGER_ID /\ nfinished' = 0
        /\ mpc' = IF allFin' /\ rtd.trig = INVALID_TRIGGER_ID THEN "stopping" ELSE "scan"
    BY <2>1 DEF EndPass
  <2>4. ScanInv'
    BY <2>3 DEF ScanInv, Visited, Fetchable
  <2>5. FinishInv'
    BY <1>1, <2>2, <2>3 DEF FinishInv, HasRtd
  <2>. QED
    BY <2>4, <2>5
<1>. QED
  BY <1>4, <1>5

LEMMA CountBufferEvents ==
  ASSUME EventIInv, SortedInputs, CountBuffer
  PROVE  EventInv'
<1>1. UNCHANGED << ivars, ibuf, rtd, built >>
  BY DEF CountBuffer
<1>. QED
  BY <1>1, CountingFinished, StableEvents DEF EventInv, EventIInv

LEMMA TerminateOutputEvents ==
  ASSUME EventIInv, SortedInputs, TerminateOutput
  PROVE  EventInv'
<1>0. /\ EventInv /\ OrderInv /\ ContentInv /\ ScanInv /\ FinishInv
      /\ \A j \in Inputs : BufferInv(j)
  BY DEF EventIInv, EventInv
<1>1. /\ mpc = "stopping" /\ mpc' = "done" /\ rtd' = NoRtd
      /\ UNCHANGED << ivars, ibuf, built, midx, nfinished, allFin >>
  BY DEF TerminateOutput
<1>2. ~ HasRtd /\ ~ HasRtd'
  BY <1>0, <1>1 DEF FinishInv, HasRtd, NoRtd
<1>3. /\ stream' = stream /\ ibuf' = ibuf /\ PoppedSoFar' = PoppedSoFar /\ built' = built
      /\ \A j \in Inputs :
           /\ BufferInv(j)' = BufferInv(j)
           /\ Popped(j)' = Popped(j)
           /\ Unpopped(j)' = Unpopped(j)
  BY <1>1, NoPopFrame
<1>4. OrderInv'
  BY <1>0, <1>2, <1>3 DEF OrderInv, LastTrig
<1>5. ContentInv'
  <2>1. NoRepeat(rtd)'
    BY <1>1 DEF NoRepeat, NoRtd
  <2>. QED
    BY <1>0, <1>2, <1>3, <2>1 DEF ContentInv
<1>6. ScanInv' /\ FinishInv'
  BY <1>0, <1>1, <1>2, <1>3 DEF ScanInv, FinishInv
<1>7. EventsComplete' /\ EventsOrdered'
  BY <1>0, <1>3 DEF EventInv, EventsComplete, EventsOrdered, EventComplete, Holds,
                    FromStreams, NoRepeat, Lengths
<1>. QED
  BY <1>0, <1>3, <1>4, <1>5, <1>6, <1>7 DEF EventInv

-----------------------------------------------------------------------------
(***************************************************************************)
(* Popping: the window of the buffer moves by one record.                  *)
(***************************************************************************)
LEMMA PopKeepsBuffer ==
  ASSUME TypeOK, stream \in Streams, NEW i \in Inputs, BufferInv(i),
         ~ IsEmpty(ibuf[i]), UNCHANGED ivars,
         ibuf' = [ibuf EXCEPT ![i] = PopRecord(@)]
  PROVE  BufferInv(i)' /\ Popped(i)' = Popped(i) + 1
<1>. DEFINE recs == ibuf[i].recs
            n == Len(recs)
<1>1. /\ stream' = stream /\ taken' = taken /\ held' = held /\ running' = running
      /\ ibuf'[i] = PopRecord(ibuf[i])
  BY DEF ivars, TypeOK, InputTypeOK
<1>2. /\ ibuf'[i].recs = Tail(recs)
      /\ ibuf'[i].front = FrontTrigId(Tail(recs))
      /\ ibuf'[i].trigIds = TrigIdsOf(Tail(recs))
      /\ ibuf'[i].terminated = ibuf[i].terminated
  <2>1. PopRecord(ibuf[i]) = [recs |-> Tail(recs), trigIds |-> TrigIdsOf(Tail(recs)),
                              front |-> FrontTrigId(Tail(recs)),
                              terminated |-> ibuf[i].terminated]
    BY DEF PopRecord
  <2>. DEFINE rest == Tail(recs)
              ids == TrigIdsOf(rest)
              first == FrontTrigId(rest)
              ended == ibuf[i].terminated
  <2>2. ibuf'[i] = [recs |-> rest, trigIds |-> ids, front |-> first, terminated |-> ended]
    BY <1>1, <2>1
  <2>. HIDE DEF rest, ids, first, ended
  <2>3. /\ ibuf'[i].recs = rest /\ ibuf'[i].front = first
        /\ ibuf'[i].trigIds = ids /\ ibuf'[i].terminated = ended
    BY <2>2
  <2>. QED
    BY <2>3 DEF rest, ids, first, ended
<1>3. recs \in Seq(Rhd) /\ recs # << >> /\ n \in Nat
  BY BufferTypes DEF IsEmpty
<1>4. /\ Len(Tail(recs)) = n - 1 /\ n > 0
      /\ \A k \in 1 .. n - 1 : Tail(recs)[k] = recs[k + 1]
  BY <1>3, EmptySeq, HeadTailProperties
<1>5. Inserted(i)' = Inserted(i) /\ Inserted(i) \in Int
  BY <1>1, BufferTypes DEF Inserted
<1>6. Popped(i) = Inserted(i) - n /\ Popped(i)' = Inserted(i)' - Len(ibuf'[i].recs)
  BY DEF Popped
<1>7. /\ n <= Inserted(i)
      /\ \A k \in 1 .. n : recs[k] = stream[i][Popped(i) + k]
  BY DEF BufferInv
<1>. HIDE DEF recs, n
<1>8. Popped(i)' = Popped(i) + 1
  BY <1>2, <1>3, <1>4, <1>5, <1>6
<1>9. Len(ibuf'[i].recs) <= Inserted(i)'
  BY <1>2, <1>3, <1>4, <1>5, <1>7
<1>10. \A k \in 1 .. Len(ibuf'[i].recs) : ibuf'[i].recs[k] = stream'[i][Popped(i)' + k]
  <2>. SUFFICES ASSUME NEW k \in 1 .. n - 1
                PROVE  Tail(recs)[k] = stream[i][Popped(i)' + k]
    BY <1>1, <1>2, <1>4
  <2>1. Tail(recs)[k] = stream[i][Popped(i) + (k + 1)]
    BY <1>3, <1>4, <1>7
  <2>2. Popped(i) + (k + 1) = Popped(i)' + k
    BY <1>3, <1>5, <1>6, <1>8
  <2>. QED
    BY <2>1, <2>2
<1>11. BufferInv(i)'
  BY <1>1, <1>2, <1>9, <1>10 DEF BufferInv
<1>. QED
  BY <1>8, <1>11

LEMMA PopMatchingEvents ==
  ASSUME EventIInv, SortedInputs, PopMatching
  PROVE  EventInv'
<1>i. PICK i \in Inputs : i = midx
  BY DEF EventIInv, TypeOK, MergerTypeOK
<1>. DEFINE rec == Head(ibuf[i].recs)
            p == Popped(i) + 1
            n == Len(rtd.recs)
<1>0. /\ TypeOK /\ stream \in Streams /\ EventInv /\ OrderInv /\ ContentInv /\ FinishInv
      /\ \A j \in Inputs : BufferInv(j)
      /\ rtd \in Rtd
  BY DEF EventIInv, EventInv, TypeOK, MergerTypeOK
<1>1. /\ mpc = "collect" /\ mpc' = mpc /\ ~ IsEmpty(ibuf[i]) /\ ibuf[i].front = rtd.trig
      /\ UNCHANGED << ivars, mmin, nfinished, allFin, built >>
      /\ ibuf' = [ibuf EXCEPT ![i] = PopRecord(@)]
      /\ rtd' = [trig |-> rtd.trig, recs |-> Append(rtd.recs, rec)]
  BY <1>i DEF PopMatching, Matching, InstallRhd
<1>2. /\ p \in 1 .. Len(stream[i]) /\ Popped(i) \in 0 .. Len(stream[i])
      /\ Len(stream[i]) \in Nat
      /\ rec = stream[i][p] /\ rec.trig = rtd.trig /\ rec \in Rhd
      /\ rec.trig \in Nat /\ rec.src = i /\ rec.pos = p
  BY <1>0, <1>1, BufferWindow, StreamFacts
<1>3. HasRtd /\ HasRtd' /\ rtd'.trig = rtd.trig
  BY <1>1, <1>2 DEF HasRtd, INVALID_TRIGGER_ID
<1>4. BufferInv(i)' /\ Popped(i)' = p
  BY <1>0, <1>1, PopKeepsBuffer
<1>5. stream' = stream /\ built' = built
  BY <1>1 DEF ivars
<1>6. ASSUME NEW j \in Inputs, j # i
      PROVE  BufferInv(j)' /\ Popped(j)' = Popped(j) /\ Unpopped(j)' = Unpopped(j)
  <2>1. ibuf'[j] = ibuf[j]
    BY <1>0, <1>1, <1>6 DEF TypeOK, InputTypeOK
  <2>2. stream' = stream /\ taken' = taken /\ held' = held /\ running' = running
    BY <1>1 DEF ivars
  <2>3. Inserted(j)' = Inserted(j)
    BY <2>2 DEF Inserted
  <2>4. Popped(j)' = Popped(j)
    BY <2>1, <2>3 DEF Popped
  <2>5. Unpopped(j)' = Unpopped(j)
    BY <2>2, <2>4 DEF Unpopped
  <2>6. BufferInv(j)
    BY <1>0
  <2>7. BufferInv(j)'
    BY <2>1, <2>2, <2>3, <2>4, <2>6 DEF BufferInv
  <2>. QED
    BY <2>4, <2>5, <2>7
<1>. HIDE DEF rec, p
<1>7. /\ 1 .. p = 1 .. Popped(i) \cup {p}
      /\ Unpopped(i)' \subseteq Unpopped(i)
      /\ p \in Unpopped(i)
  BY <1>2, <1>4, <1>5 DEF Unpopped, p
<1>8. \A j \in Inputs : BufferInv(j)'
  BY <1>4, <1>6
<1>9. OrderInv'
  <2>1. LastTrig' = LastTrig
    BY <1>5 DEF LastTrig
  <2>2. ASSUME NEW j \in Inputs, NEW k \in 1 .. Popped(j)'
        PROVE  stream[j][k].trig <= rtd.trig
    <3>1. CASE j = i /\ k = p
      BY <1>2, <3>1
    <3>2. CASE k \in 1 .. Popped(j)
      BY <1>0, <1>3, <3>2 DEF OrderInv
    <3>. QED
      BY <1>4, <1>6, <1>7, <3>1, <3>2
  <2>3. ASSUME NEW j \in Inputs, NEW k \in Unpopped(j)'
        PROVE  stream[j][k].trig > LastTrig /\ stream[j][k].trig >= rtd.trig
    <3>1. k \in Unpopped(j)
      BY <1>6, <1>7
    <3>. QED
      BY <1>0, <1>3, <3>1 DEF OrderInv
  <2>. QED
    BY <1>0, <1>3, <1>5, <2>1, <2>2, <2>3 DEF OrderInv
<1>10. /\ n \in Nat /\ DOMAIN rtd.recs = 1 .. n /\ DOMAIN rtd'.recs = 1 .. n + 1
       /\ \A m \in 1 .. n : rtd'.recs[m] = rtd.recs[m]
       /\ rtd'.recs[n + 1] = rec
  <2>1. rtd.recs \in Seq(Rhd)
    BY <1>0 DEF Rtd
  <2>2. rtd'.recs = Append(rtd.recs, rec)
    BY <1>1
  <2>. QED
    BY <1>2, <2>1, <2>2, AppendProperties, LenProperties
<1>. HIDE DEF n
<1>11. Holds(rtd, PoppedSoFar)'
  <2>. SUFFICES ASSUME NEW j \in Inputs, NEW k \in 1 .. Popped(j)', stream[j][k].trig = rtd.trig
                PROVE  \E m \in DOMAIN rtd'.recs : rtd'.recs[m] = stream[j][k]
    BY <1>3, <1>5 DEF Holds, PoppedSoFar
  <2>1. CASE j = i /\ k = p
    <3>1. rtd'.recs[n + 1] = stream[j][k]
      BY <1>2, <1>10, <2>1
    <3>2. n + 1 \in DOMAIN rtd'.recs
      BY <1>10
    <3>. QED
      BY <3>1, <3>2
  <2>2. CASE k \in 1 .. Popped(j)
    <3>1. \E m \in DOMAIN rtd.recs : rtd.recs[m] = stream[j][k]
      BY <1>0, <1>3, <2>2 DEF ContentInv, Holds, PoppedSoFar
    <3>. QED
      BY <1>10, <3>1
  <2>. QED
    BY <1>4, <1>6, <1>7, <2>1, <2>2
<1>12. ASSUME NEW m \in 1 .. n
       PROVE  /\ rtd.recs[m].trig = rtd.trig
              /\ \E j \in Inputs : \E k \in 1 .. Popped(j) : rtd.recs[m] = stream[j][k]
  BY <1>0, <1>3, <1>10 DEF ContentInv, FromStreams, PoppedSoFar
<1>13. FromStreams(rtd, PoppedSoFar)'
  <2>. SUFFICES ASSUME NEW m \in 1 .. n + 1
                PROVE  /\ rtd'.recs[m].trig = rtd.trig
                       /\ \E j \in Inputs : \E k \in 1 .. Popped(j)' : rtd'.recs[m] = stream[j][k]
    BY <1>3, <1>5, <1>10 DEF FromStreams, PoppedSoFar
  <2>1. CASE m \in 1 .. n
    <3>1. \A j \in Inputs : 1 .. Popped(j) \subseteq 1 .. Popped(j)'
      BY <1>4, <1>6, <1>7
    <3>. QED
      BY <1>10, <1>12, <2>1, <3>1
  <2>2. CASE m = n + 1
    <3>1. p \in 1 .. Popped(i)'
      BY <1>2, <1>4
    <3>. QED
      BY <1>0, <1>2, <1>10, <2>2, <3>1
  <2>. QED
    BY <1>10, <2>1, <2>2
<1>14. NoRepeat(rtd)'
  <2>1. ASSUME NEW m \in 1 .. n
        PROVE  rtd.recs[m] # rec
    <3>1. PICK j \in Inputs : \E k \in 1 .. Popped(j) : rtd.recs[m] = stream[j][k]
      BY <1>12
    <3>2. PICK k \in 1 .. Popped(j) : rtd.recs[m] = stream[j][k]
      BY <3>1
    <3>3. stream[j][k].src = j /\ stream[j][k].pos = k
      BY <1>0, StreamFacts, StreamSplit
    <3>4. ~ (j = i /\ k = p)
      BY <1>2 DEF p
    <3>. QED
      BY <1>2, <3>2, <3>3, <3>4
  <2>2. \A m, q \in 1 .. n : rtd.recs[m] = rtd.recs[q] => m = q
    BY <1>0, <1>10 DEF ContentInv, NoRepeat
  <2>. QED
    BY <1>10, <2>1, <2>2 DEF NoRepeat
<1>15. ASSUME NEW j \in Inputs, NEW k \in 1 .. Popped(j)'
       PROVE  \/ stream[j][k].trig = rtd.trig
              \/ \E m \in DOMAIN built : built[m].trig = stream[j][k].trig
  <2>1. CASE j = i /\ k = p
    BY <1>2, <2>1
  <2>2. CASE k \in 1 .. Popped(j)
    BY <1>0, <1>3, <2>2 DEF ContentInv
  <2>. QED
    BY <1>4, <1>6, <1>7, <2>1, <2>2
<1>16. ContentInv'
  BY <1>3, <1>5, <1>11, <1>13, <1>14, <1>15 DEF ContentInv
<1>17. ScanInv'
  BY <1>1 DEF ScanInv
<1>18. FinishInv'
  <2>1. ~ allFin
    BY <1>0, <1>1 DEF FinishInv, IsFinished
  <2>. QED
    BY <1>0, <1>1, <2>1 DEF FinishInv
<1>19. EventsComplete' /\ EventsOrdered'
  BY <1>0, <1>5 DEF EventInv, EventsComplete, EventsOrdered, EventComplete, Holds,
                    FromStreams, NoRepeat, Lengths
<1>. QED
  BY <1>8, <1>9, <1>16, <1>17, <1>18, <1>19 DEF EventInv

-----------------------------------------------------------------------------
(***************************************************************************)
(* The whole system.  EventInv only speaks of the inputs, their buffers    *)
(* and the merger: the output worker and an exception leave it alone.      *)
(***************************************************************************)
LEMMA OtherStepEvents ==
  ASSUME EventIInv, UNCHANGED << ivars, ibuf, mvars >>
  PROVE  EventInv'
<1>0. EventInv /\ TypeOK
  BY DEF EventIInv
<1>1. /\ \A j \in Inputs : BufferInv(j)'
      /\ OrderInv' /\ ContentInv' /\ EventsComplete' /\ EventsOrdered'
  BY <1>0, StableEvents DEF mvars
<1>2. /\ stream' = stream /\ ibuf' = ibuf
      /\ \A j \in Inputs : Unpopped(j)' = Unpopped(j)
  BY NoPopFrame
<1>3. /\ mpc' = mpc /\ midx' = midx /\ mmin' = mmin /\ nfinished' = nfinished
      /\ allFin' = allFin /\ rtd' = rtd
  BY DEF mvars
<1>4. ScanInv'
  <2>1. Visited' = Visited /\ Visited \subseteq Inputs
    BY <1>0, <1>3, BuilderAssumption DEF Visited, Inputs, TypeOK, MergerTypeOK
  <2>. QED
    BY <1>0, <1>2, <1>3, <2>1 DEF EventInv, ScanInv, Fetchable
<1>5. FinishInv'
  BY <1>0, <1>2, <1>3 DEF EventInv, FinishInv, HasRtd
<1>. QED
  BY <1>1, <1>4, <1>5 DEF EventInv

LEMMA InitBuffer ==
  ASSUME Init, NEW i \in Inputs
  PROVE  BufferInv(i) /\ Popped(i) = 0
<1>1. /\ taken[i] = 0 /\ held[i] = NoRec /\ running[i] = TRUE
      /\ ibuf[i] = EmptyBuffer
  BY DEF Init
<1>2. /\ ibuf[i].recs = << >> /\ ibuf[i].trigIds = {} /\ ibuf[i].terminated = FALSE
      /\ ibuf[i].front = INVALID_TRIGGER_ID /\ Len(ibuf[i].recs) = 0
  BY <1>1 DEF EmptyBuffer
<1>3. Inserted(i) = 0
  BY <1>1 DEF Inserted
<1>4. Popped(i) = 0
  <2>1. Popped(i) = Inserted(i) - Len(ibuf[i].recs)
    BY DEF Popped
  <2>2. Len(ibuf[i].recs) = 0
    BY <1>2
  <2>. QED
    BY <1>3, <2>1, <2>2
<1>5. Len(stream[i]) \in Nat
  BY StreamFacts DEF Init
<1>6. TrigIdsOf(<< >>) = {} /\ FrontTrigId(<< >>) = INVALID_TRIGGER_ID
  BY DEF TrigIdsOf, FrontTrigId
<1>7. 1 .. Len(ibuf[i].recs) = {}
  BY <1>2
<1>8. 0 <= Len(stream[i]) /\ 0 <= 0
  BY <1>5
<1>9. Len(ibuf[i].recs) <= Inserted(i) /\ taken[i] <= Len(stream[i])
  BY <1>1, <1>2, <1>3, <1>8
<1>10. running[i] = ~ ibuf[i].terminated
  BY <1>1, <1>2
<1>11. BufferInv(i)
  BY <1>1, <1>2, <1>6, <1>7, <1>9, <1>10, Zenon DEF BufferInv
<1>. QED
  BY <1>4, <1>11

LEMMA InitEvents ==
  ASSUME SortedInputs, Init
  PROVE  EventIInv
<1>1. TypeOK
  BY InitType
<1>2. /\ stream \in Streams /\ built = << >> /\ rtd = NoRtd /\ ~ HasRtd
      /\ mpc = "scan" /\ midx = 1 /\ mmin = INVALID_TRIGGER_ID /\ nfinished = 0
      /\ allFin = FALSE
  BY DEF Init, HasRtd, NoRtd
<1>3. ASSUME NEW i \in Inputs
      PROVE  BufferInv(i) /\ Popped(i) = 0
  BY <1>3, InitBuffer
<1>4. \A i \in Inputs : 1 .. Popped(i) = {}
  BY <1>3
<1>5. OrderInv
  <2>1. LastTrig = -1
    BY <1>2 DEF LastTrig, INVALID_TRIGGER_ID
  <2>2. ASSUME NEW i \in Inputs, NEW k \in Unpopped(i)
        PROVE  stream[i][k].trig > LastTrig
    <3>1. stream[i][k].trig \in Nat
      BY <1>1, <1>2, <1>3, UnpoppedInStream
    <3>. QED
      BY <2>1, <3>1
  <2>. QED
    BY <1>2, <1>4, <2>2 DEF OrderInv
<1>6. ContentInv
  BY <1>2, <1>4 DEF ContentInv, NoRepeat, NoRtd
<1>7. ScanInv /\ FinishInv
  <2>1. Visited = {}
    BY <1>2 DEF Visited
  <2>. QED
    BY <1>2, <2>1 DEF ScanInv, FinishInv, Fetchable
<1>8. EventsComplete /\ EventsOrdered
  BY <1>2 DEF EventsComplete, EventsOrdered
<1>. QED
  BY <1>1, <1>2, <1>3, <1>5, <1>6, <1>7, <1>8 DEF EventIInv, EventInv

LEMMA MergerStepEvents ==
  ASSUME EventIInv, SortedInputs, MergerStep
  PROVE  EventInv'
<1>1. CASE MergerThrows
  BY <1>1, OtherStepEvents DEF MergerThrows, Abort
<1>. QED
  BY <1>1, ScanBufferEvents, PushRtdEvents, BeginCollectEvents, SkipCollectEvents,
     PopMatchingEvents, LeaveBufferEvents, CountBufferEvents, TerminateOutputEvents
  DEF MergerStep

LEMMA NextEvents ==
  ASSUME SortedInputs
  PROVE  EventIInv /\ [Next]_vars => EventIInv'
<1>. SUFFICES ASSUME EventIInv, [Next]_vars PROVE EventIInv'
  OBVIOUS
<1>1. TypeOK'
  BY NextType DEF EventIInv
<1>2. stream' = stream /\ EventInv'
  <2>1. CASE UNCHANGED << ivars, ibuf, mvars >>
    BY <2>1, OtherStepEvents DEF ivars
  <2>2. CASE \E i \in Inputs : InputStep(i)
    BY <2>2, InputStepEvents
  <2>3. CASE MergerStep
    <3>1. UNCHANGED ivars
      BY <2>3 DEF MergerStep, ScanBuffer, PushRtd, BeginCollect, SkipCollect, PopMatching,
                  LeaveBuffer, CountBuffer, TerminateOutput, MergerThrows, Abort
    <3>. QED
      BY <2>3, <3>1, MergerStepEvents DEF ivars
  <2>4. CASE OutputStep
    <3>1. UNCHANGED << ivars, ibuf, mvars >>
      BY <2>4 DEF OutputStep, LockOutput, StoreRtd, DropRtd, UnlockOutput, OutputThrows, Abort
    <3>. QED
      BY <2>1, <3>1
  <2>5. CASE UNCHANGED vars
    <3>1. UNCHANGED << ivars, ibuf, mvars >>
      BY <2>5 DEF vars
    <3>. QED
      BY <2>1, <3>1
  <2>. QED
    BY <2>2, <2>3, <2>4, <2>5 DEF Next, Ended
<1>. QED
  BY <1>1, <1>2 DEF EventIInv

LEMMA NothingLostAtTheEnd ==
  ASSUME EventIInv, SortedInputs
  PROVE  NothingLost
<1>. SUFFICES ASSUME mpc \in {"stopping", "done"}, NEW i \in Inputs,
                     NEW k \in DOMAIN stream[i]
              PROVE  InAnEvent(stream[i][k])
  BY DEF NothingLost
<1>1. ~ HasRtd /\ IsFinished(ibuf[i])
  BY DEF EventIInv, EventInv, FinishInv
<1>2. k \in 1 .. Popped(i)
  BY <1>1, BufferWindow, StreamFacts DEF EventIInv, EventInv
<1>3. PICK n \in DOMAIN built : built[n].trig = stream[i][k].trig
  BY <1>1, <1>2 DEF EventIInv, EventInv, ContentInv
<1>4. Holds(built[n], Lengths)
  BY <1>3 DEF EventIInv, EventInv, EventsComplete, EventComplete
<1>5. k \in 1 .. Lengths[i]
  BY StreamFacts DEF EventIInv, Lengths
<1>. QED
  BY <1>3, <1>4, <1>5 DEF Holds, InAnEvent

\* The streams are what they are.
LEMMA StreamsStay ==
  ASSUME [Next]_vars
  PROVE  stream' = stream /\ SortedInputs' = SortedInputs
<1>1. stream' = stream
  BY DEF Next, Ended, InputStep, LoadRecord, InsertHeld, TerminateInput, InputThrows, MergerStep,
         ScanBuffer, PushRtd, BeginCollect, SkipCollect, PopMatching, LeaveBuffer, CountBuffer,
         TerminateOutput, MergerThrows, OutputStep, LockOutput, StoreRtd, DropRtd, UnlockOutput,
         OutputThrows, Abort, vars, ivars
<1>. QED
  BY <1>1 DEF SortedInputs

(***************************************************************************)
(* The invariant of the merger, for every run whose inputs are sorted: the *)
(* buffers are windows of their streams, what it scanned stays true, and   *)
(* the working RTD separates what has been built from what has not been    *)
(* popped.                                                                 *)
(***************************************************************************)
THEOREM EventInvariant == Spec => [](stream \in Streams /\ (SortedInputs => EventIInv))
<1>1. Spec => Init /\ [][Next]_vars
  BY DEF Spec, Safety
<1>2. Init => stream \in Streams /\ (SortedInputs => EventIInv)
  BY InitEvents DEF Init
<1>3. /\ stream \in Streams /\ (SortedInputs => EventIInv)
      /\ [Next]_vars
      => (stream \in Streams /\ (SortedInputs => EventIInv))'
  BY NextEvents, StreamsStay
<1>. QED
  BY <1>1, <1>2, <1>3, PTL

(***************************************************************************)
(* However the threads interleave, every RTD has all the records of its    *)
(* trigger ID from all the inputs, only them, each once.                   *)
(***************************************************************************)
THEOREM EventsAreComplete ==
  ASSUME SortedStreams
  PROVE  Spec => []EventsComplete
<1>1. stream \in Streams /\ (SortedInputs => EventIInv) => EventsComplete
  BY DEF SortedStreams, SortedInputs, EventIInv, EventInv
<1>. QED
  BY <1>1, EventInvariant, PTL

(***************************************************************************)
(* RTDs are built in strictly increasing order of trigger ID.              *)
(***************************************************************************)
THEOREM EventsAreOrdered ==
  ASSUME SortedStreams
  PROVE  Spec => []EventsOrdered
<1>1. stream \in Streams /\ (SortedInputs => EventIInv) => EventsOrdered
  BY DEF SortedStreams, SortedInputs, EventIInv, EventInv
<1>. QED
  BY <1>1, EventInvariant, PTL

(***************************************************************************)
(* When the merger stops, every record of every input is in an RTD.        *)
(***************************************************************************)
THEOREM NothingIsLost ==
  ASSUME SortedStreams
  PROVE  Spec => []NothingLost
<1>1. stream \in Streams /\ (SortedInputs => EventIInv) => NothingLost
  BY NothingLostAtTheEnd DEF SortedStreams, SortedInputs
<1>. QED
  BY <1>1, EventInvariant, PTL
=============================================================================
