---------------------------- MODULE ReturnProofs ----------------------------
(***************************************************************************)
(* A run that returns was given inputs that the builder accepts: whatever  *)
(* it has to refuse, it has met by then.  And a run with an input that is  *)
(* too shallow for its buffer never returns.                               *)
(***************************************************************************)
EXTENDS OutcomeProofs

-----------------------------------------------------------------------------
(***************************************************************************)
(* Inputs in any order.  As long as no record older than its buffer gets   *)
(* into it (OrderKept), the merger pops a sorted prefix of each stream:    *)
(* nothing above the horizon, the trigger ID of the working RTD or of the  *)
(* last one that was built.                                                *)
(***************************************************************************)
Horizon == IF HasRtd THEN rtd.trig ELSE LastTrig

PoppedInOrder ==
  \A i \in Inputs : \A j, k \in 1 .. Popped(i) :
    j <= k => stream[i][j].trig <= stream[i][k].trig

BelowHorizon == \A i \in Inputs : \A k \in 1 .. Popped(i) : stream[i][k].trig <= Horizon

\* When an RTD was pushed, the next one is of a later trigger ID or there is none.
BetweenRtds ==
  ~ HasRtd /\ built # << >> =>
    /\ mpc \in {"process", "stopping", "done"}
    /\ mpc = "process" => IF Fetchable THEN LastTrig < mmin ELSE allFin

(***************************************************************************)
(* What has been read is known, what has been installed is complete, with  *)
(* one trigger record at most in an RTD, and what has been pushed has hits *)
(* if that was asked for.                                                  *)
(***************************************************************************)
OneTrigger(r) ==
  \A m, p \in DOMAIN r.recs : r.recs[m].kind = "trig" /\ r.recs[p].kind = "trig" => m = p

ChecksPassed ==
  /\ \A i \in Inputs : \A k \in 1 .. taken[i] : stream[i][k].kind # "unknown"
  /\ \A i \in Inputs : \A k \in 1 .. Popped(i) : stream[i][k].kind # "incomplete"
  /\ OneTrigger(rtd)
  /\ \A n \in DOMAIN built : OneTrigger(built[n])
  /\ ForceComplete => \A n \in DOMAIN built : IsComplete(built[n])

PassInv ==
  /\ TypeOK
  /\ stream \in Streams
  /\ \A i \in Inputs : BufferInv(i)
  /\ FinishInv
  /\ PoppedInOrder
  /\ BelowHorizon
  /\ BetweenRtds
  /\ ChecksPassed

LEMMA InitPass == Init => PassInv
<1>. SUFFICES ASSUME Init PROVE PassInv
  OBVIOUS
<1>1. TypeOK /\ stream \in Streams
  BY InitType DEF Init
<1>2. /\ built = << >> /\ rtd = NoRtd /\ mpc = "scan" /\ nfinished = 0 /\ allFin = FALSE
      /\ taken = [i \in Inputs |-> 0]
  BY DEF Init
<1>3. ASSUME NEW i \in Inputs PROVE BufferInv(i) /\ Popped(i) = 0
  BY <1>3, InitBuffer
<1>4. \A i \in Inputs : 1 .. Popped(i) = {} /\ 1 .. taken[i] = {}
  BY <1>2, <1>3
<1>5. PoppedInOrder /\ BelowHorizon
  BY <1>4 DEF PoppedInOrder, BelowHorizon
<1>6. FinishInv /\ BetweenRtds
  BY <1>2 DEF FinishInv, BetweenRtds
<1>7. ChecksPassed
  BY <1>2, <1>4 DEF ChecksPassed, OneTrigger, NoRtd
<1>. QED
  BY <1>1, <1>3, <1>5, <1>6, <1>7 DEF PassInv

-----------------------------------------------------------------------------
(***************************************************************************)
(* Input threads: the checks of LoadRecord.                                *)
(***************************************************************************)
LEMMA InputStepPass ==
  ASSUME PassInv, OrderKept, TypeOK', NEW i \in Inputs, InputStep(i)
  PROVE  PassInv'
<1>0. TypeOK /\ stream \in Streams /\ \A j \in Inputs : BufferInv(j)
  BY DEF PassInv
<1>1. \A j \in Inputs :
        /\ BufferInv(j)'
        /\ Popped(j)' = Popped(j)
        /\ IsFinished(ibuf[j]) => IsFinished(ibuf'[j])
  BY <1>0, InputFrame
<1>2. /\ stream' = stream /\ UNCHANGED mvars
  BY DEF InputStep, LoadRecord, InsertHeld, TerminateInput, InputThrows, Abort, ivars
<1>3. /\ mpc' = mpc /\ midx' = midx /\ mmin' = mmin /\ nfinished' = nfinished
      /\ allFin' = allFin /\ rtd' = rtd /\ built' = built
  BY <1>2 DEF mvars
<1>4. FinishInv'
  <2>1. 1 .. midx - 1 \subseteq Inputs
    BY <1>0, BuilderAssumption DEF Inputs, TypeOK, MergerTypeOK
  <2>. QED
    BY <1>1, <1>3, <2>1 DEF PassInv, FinishInv, HasRtd
<1>5. PoppedInOrder' /\ BelowHorizon' /\ BetweenRtds'
  BY <1>1, <1>2, <1>3
  DEF PassInv, PoppedInOrder, BelowHorizon, BetweenRtds, Horizon, HasRtd, LastTrig, Fetchable
<1>6. ASSUME NEW j \in Inputs, NEW k \in 1 .. taken'[j]
      PROVE  stream[j][k].kind # "unknown"
  <2>1. CASE taken'[j] = taken[j]
    BY <1>6, <2>1 DEF PassInv, ChecksPassed
  <2>2. CASE LoadRecord(i) /\ j = i
    <3>1. taken'[i] = taken[i] + 1 /\ taken[i] \in Nat
      BY <1>0, <2>2 DEF LoadRecord, TypeOK, InputTypeOK
    <3>2. stream[i][taken[i] + 1].kind # "unknown"
      BY <2>2 DEF LoadRecord, NextRecord
    <3>3. k \in 1 .. taken[i] \/ k = taken[i] + 1
      BY <2>2, <3>1
    <3>. QED
      BY <2>2, <3>2, <3>3 DEF PassInv, ChecksPassed
  <2>3. LoadRecord(i) /\ j # i => taken'[j] = taken[j]
    BY <1>0 DEF LoadRecord, TypeOK, InputTypeOK
  <2>4. ~ LoadRecord(i) => taken' = taken
    BY DEF InputStep, InsertHeld, TerminateInput, InputThrows, Abort, ivars
  <2>. QED
    BY <2>1, <2>2, <2>3, <2>4
<1>7. ChecksPassed'
  BY <1>1, <1>2, <1>3, <1>6 DEF PassInv, ChecksPassed, OneTrigger, IsComplete
<1>. QED
  BY <1>0, <1>1, <1>2, <1>4, <1>5, <1>7 DEF PassInv

-----------------------------------------------------------------------------
(***************************************************************************)
(* The merger, as long as it pops nothing.                                 *)
(***************************************************************************)
LEMMA QuietStepPass ==
  ASSUME PassInv, TypeOK', UNCHANGED << ivars, ibuf, rtd, built >>, FinishInv', BetweenRtds'
  PROVE  PassInv'
<1>1. /\ stream' = stream /\ taken' = taken /\ rtd' = rtd /\ built' = built
      /\ \A j \in Inputs : BufferInv(j)' = BufferInv(j) /\ Popped(j)' = Popped(j)
  BY NoPopFrame DEF ivars
<1>2. PoppedInOrder' /\ BelowHorizon'
  BY <1>1 DEF PassInv, PoppedInOrder, BelowHorizon, Horizon, HasRtd, LastTrig
<1>3. ChecksPassed'
  BY <1>1 DEF PassInv, ChecksPassed, OneTrigger, IsComplete
<1>. QED
  BY <1>1, <1>2, <1>3 DEF PassInv

LEMMA LastTrigType ==
  ASSUME TypeOK
  PROVE  LastTrig \in Nat \cup {INVALID_TRIGGER_ID}
<1>1. built # << >> => built[Len(built)] \in Rtd
  <2>1. built \in Seq(Rtd)
    BY DEF TypeOK, MergerTypeOK
  <2>. QED
    BY <2>1, EmptySeq, ElementOfSeq
<1>. QED
  BY <1>1 DEF LastTrig, Rtd

LEMMA ScanBufferPass ==
  ASSUME PassInv, TypeOK', ScanBuffer
  PROVE  PassInv'
<1>1. /\ mpc = "scan" /\ mpc' \in {"scan", "decide"}
      /\ UNCHANGED << ivars, ibuf, rtd, built, allFin, nfinished >>
  BY DEF ScanBuffer, AdvanceLoop
<1>2. FinishInv'
  BY <1>1 DEF PassInv, FinishInv, HasRtd
<1>3. BetweenRtds'
  BY <1>1 DEF PassInv, BetweenRtds, HasRtd
<1>. QED
  BY <1>1, <1>2, <1>3, QuietStepPass

LEMMA PushRtdPass ==
  ASSUME PassInv, TypeOK', PushRtd
  PROVE  PassInv'
<1>0. /\ TypeOK /\ FinishInv /\ BelowHorizon /\ PoppedInOrder /\ ChecksPassed
      /\ built \in Seq(Rtd) /\ rtd \in Rtd /\ Len(built) \in Nat
      /\ DOMAIN built = 1 .. Len(built)
  BY OutputTypes DEF PassInv
<1>1. /\ mpc = "decide" /\ mpc' = "process" /\ rtd' = NoRtd /\ built' = Append(built, rtd)
      /\ UNCHANGED << ivars, ibuf, mmin, nfinished, allFin >>
      /\ PushCurrent /\ (ForceComplete => IsComplete(rtd))
  BY DEF PushRtd
<1>2. HasRtd
  BY <1>0, <1>1 DEF PushCurrent, FinishInv
<1>3. /\ stream' = stream /\ taken' = taken /\ ibuf' = ibuf
      /\ \A j \in Inputs : BufferInv(j)' = BufferInv(j) /\ Popped(j)' = Popped(j)
  BY <1>1, NoPopFrame DEF ivars
<1>4. /\ DOMAIN built' = 1 .. Len(built) + 1 /\ Len(built') = Len(built) + 1
      /\ built' # << >> /\ built'[Len(built) + 1] = rtd
      /\ \A n \in 1 .. Len(built) : built'[n] = built[n]
  BY <1>0, <1>1, AppendProperties, LenProperties
<1>5. LastTrig' = rtd.trig /\ ~ HasRtd'
  BY <1>1, <1>4 DEF LastTrig, HasRtd, NoRtd
<1>6. FinishInv'
  BY <1>0, <1>1, <1>3 DEF FinishInv
<1>7. PoppedInOrder' /\ BelowHorizon'
  BY <1>0, <1>2, <1>3, <1>5 DEF PoppedInOrder, BelowHorizon, Horizon
<1>8. BetweenRtds'
  BY <1>1, <1>5 DEF BetweenRtds, PushCurrent, Fetchable
<1>9. ChecksPassed'
  <2>1. OneTrigger(rtd)'
    BY <1>1 DEF OneTrigger, NoRtd
  <2>2. ASSUME NEW n \in 1 .. Len(built) + 1
        PROVE  OneTrigger(built'[n]) /\ (ForceComplete => IsComplete(built'[n]))
    <3>1. CASE n \in 1 .. Len(built)
      BY <1>0, <1>4, <3>1 DEF ChecksPassed
    <3>2. CASE n = Len(built) + 1
      BY <1>0, <1>1, <1>4, <3>2 DEF ChecksPassed
    <3>. QED
      BY <1>0, <3>1, <3>2
  <2>3. \A n \in DOMAIN built' : OneTrigger(built'[n]) /\ (ForceComplete => IsComplete(built'[n]))
    BY <1>4, <2>2
  <2>. QED
    BY <1>0, <1>3, <2>1, <2>3 DEF ChecksPassed, OneTrigger, IsComplete
<1>. QED
  BY <1>3, <1>6, <1>7, <1>8, <1>9 DEF PassInv

LEMMA BeginCollectPass ==
  ASSUME PassInv, TypeOK', BeginCollect
  PROVE  PassInv'
<1>0. /\ TypeOK /\ FinishInv /\ BelowHorizon /\ PoppedInOrder /\ ChecksPassed /\ BetweenRtds
      /\ stream \in Streams /\ (\A j \in Inputs : BufferInv(j))
      /\ mmin \in Nat \cup {INVALID_TRIGGER_ID}
  BY DEF PassInv, TypeOK, MergerTypeOK
<1>1. /\ mpc \in {"decide", "process"} /\ mpc' = "collect" /\ Fetchable
      /\ UNCHANGED << ivars, ibuf, mmin, nfinished, allFin, built >>
      /\ rtd' = IF HasRtd THEN rtd ELSE [trig |-> mmin, recs |-> << >>]
  BY DEF BeginCollect, Decided
<1>2. /\ stream' = stream /\ taken' = taken /\ ibuf' = ibuf
      /\ \A j \in Inputs : BufferInv(j)' = BufferInv(j) /\ Popped(j)' = Popped(j)
  BY <1>1, NoPopFrame DEF ivars
<1>3. HasRtd'
  BY <1>1 DEF HasRtd, Fetchable
<1>4. FinishInv'
  BY <1>0, <1>1, <1>2 DEF FinishInv
<1>5. PoppedInOrder'
  BY <1>0, <1>2 DEF PoppedInOrder
<1>6. BelowHorizon'
  <2>1. CASE HasRtd
    BY <1>0, <1>1, <1>2, <2>1 DEF BelowHorizon, Horizon, HasRtd
  <2>2. CASE ~ HasRtd
    <3>1. Horizon' = mmin /\ Horizon = LastTrig /\ mmin \in Nat
      BY <1>0, <1>1, <1>3, <2>2 DEF Horizon, HasRtd, Fetchable
    <3>2. LastTrig <= mmin /\ LastTrig \in Int
      <4>1. built # << >> => LastTrig < mmin
        BY <1>0, <1>1, <2>2 DEF BetweenRtds
      <4>2. LastTrig \in Nat \cup {INVALID_TRIGGER_ID}
        BY <1>0, LastTrigType
      <4>3. built = << >> => LastTrig = INVALID_TRIGGER_ID
        BY DEF LastTrig
      <4>. QED
        BY <3>1, <4>1, <4>2, <4>3 DEF INVALID_TRIGGER_ID
    <3>3. \A j \in Inputs : \A k \in 1 .. Popped(j) :
            stream[j][k].trig \in Nat /\ stream[j][k].trig <= LastTrig
      BY <1>0, <3>1, StreamSplit DEF BelowHorizon
    <3>4. \A j \in Inputs : \A k \in 1 .. Popped(j) : stream[j][k].trig <= mmin
      BY <3>1, <3>2, <3>3
    <3>. QED
      BY <1>2, <3>1, <3>4 DEF BelowHorizon
  <2>. QED
    BY <2>1, <2>2
<1>7. BetweenRtds'
  BY <1>3 DEF BetweenRtds
<1>8. ChecksPassed'
  <2>1. OneTrigger(rtd')
    BY <1>0, <1>1 DEF ChecksPassed, OneTrigger
  <2>. QED
    BY <1>0, <1>1, <1>2, <2>1 DEF ChecksPassed, OneTrigger, IsComplete
<1>. QED
  BY <1>0, <1>2, <1>4, <1>5, <1>6, <1>7, <1>8 DEF PassInv

LEMMA EndOfPassStops ==
  ASSUME FinishInv, BetweenRtds, CountOrEnd, mpc \in {"decide", "process", "collect"},
         UNCHANGED << rtd, built, allFin >>,
         mpc = "process" => ~ Fetchable
  PROVE  BetweenRtds'
<1>. SUFFICES ASSUME ~ HasRtd', built' # << >>
              PROVE  mpc' = "stopping"
  BY DEF BetweenRtds
<1>1. ~ HasRtd /\ built # << >> /\ rtd' = rtd /\ allFin' = allFin
  BY DEF HasRtd
<1>2. mpc = "process" /\ allFin
  BY <1>1 DEF BetweenRtds
<1>. QED
  BY <1>1, <1>2 DEF CountOrEnd, EndPass, HasRtd

LEMMA SkipCollectPass ==
  ASSUME PassInv, TypeOK', SkipCollect
  PROVE  PassInv'
<1>1. /\ mpc \in {"decide", "process"} /\ CountOrEnd /\ ~ Fetchable
      /\ UNCHANGED << ivars, ibuf, rtd, built, allFin >>
  BY DEF SkipCollect, Decided
<1>2. FinishInv'
  BY <1>1, EndOfPass DEF PassInv
<1>3. BetweenRtds'
  BY <1>1, EndOfPassStops DEF PassInv
<1>. QED
  BY <1>1, <1>2, <1>3, QuietStepPass

LEMMA LeaveBufferPass ==
  ASSUME PassInv, TypeOK', LeaveBuffer
  PROVE  PassInv'
<1>1. /\ mpc = "collect" /\ UNCHANGED << ivars, ibuf, rtd, built, allFin >>
  BY DEF LeaveBuffer
<1>2. FinishInv' /\ BetweenRtds'
  <2>1. CASE midx < NInputs
    <3>1. mpc' = "collect" /\ nfinished' = nfinished
      BY <1>1, <2>1 DEF LeaveBuffer
    <3>. QED
      BY <1>1, <3>1 DEF PassInv, FinishInv, BetweenRtds, HasRtd
  <2>2. CASE ~ (midx < NInputs)
    <3>1. CountOrEnd
      BY <2>2 DEF LeaveBuffer
    <3>2. FinishInv'
      BY <1>1, <3>1, EndOfPass DEF PassInv
    <3>3. BetweenRtds'
      BY <1>1, <3>1, EndOfPassStops DEF PassInv
    <3>. QED
      BY <3>2, <3>3
  <2>. QED
    BY <2>1, <2>2
<1>. QED
  BY <1>1, <1>2, QuietStepPass

LEMMA CountBufferPass ==
  ASSUME PassInv, TypeOK', CountBuffer
  PROVE  PassInv'
<1>1. /\ mpc = "count" /\ UNCHANGED << ivars, ibuf, rtd, built >>
  BY DEF CountBuffer
<1>2. FinishInv'
  BY CountingFinished DEF PassInv
<1>3. BetweenRtds'
  BY <1>1 DEF PassInv, BetweenRtds, HasRtd
<1>. QED
  BY <1>1, <1>2, <1>3, QuietStepPass

LEMMA TerminateOutputPass ==
  ASSUME PassInv, TypeOK', TerminateOutput
  PROVE  PassInv'
<1>1. /\ mpc = "stopping" /\ mpc' = "done" /\ rtd' = NoRtd
      /\ UNCHANGED << ivars, ibuf, built, midx, nfinished, allFin >>
  BY DEF TerminateOutput
<1>2. ~ HasRtd /\ ~ HasRtd' /\ OneTrigger(rtd')
  BY <1>1 DEF PassInv, FinishInv, HasRtd, NoRtd, OneTrigger
<1>3. /\ stream' = stream /\ taken' = taken /\ ibuf' = ibuf /\ built' = built
      /\ \A j \in Inputs : BufferInv(j)' = BufferInv(j) /\ Popped(j)' = Popped(j)
  BY <1>1, NoPopFrame DEF ivars
<1>4. FinishInv' /\ BetweenRtds'
  BY <1>1, <1>2, <1>3 DEF PassInv, FinishInv, BetweenRtds
<1>5. PoppedInOrder' /\ BelowHorizon'
  BY <1>2, <1>3 DEF PassInv, PoppedInOrder, BelowHorizon, Horizon, LastTrig
<1>6. ChecksPassed'
  BY <1>2, <1>3 DEF PassInv, ChecksPassed, OneTrigger, IsComplete
<1>. QED
  BY <1>3, <1>4, <1>5, <1>6 DEF PassInv

-----------------------------------------------------------------------------
(***************************************************************************)
(* Popping: the record is of the horizon's trigger ID, and it has passed   *)
(* the checks of install_rhd.                                              *)
(***************************************************************************)
LEMMA PopMatchingPass ==
  ASSUME PassInv, TypeOK', PopMatching
  PROVE  PassInv'
<1>i. PICK i \in Inputs : i = midx
  BY DEF PassInv, TypeOK, MergerTypeOK
<1>. DEFINE rec == Head(ibuf[i].recs)
            p == Popped(i) + 1
            n == Len(rtd.recs)
<1>0. /\ TypeOK /\ stream \in Streams /\ FinishInv /\ BelowHorizon /\ PoppedInOrder
      /\ ChecksPassed /\ \A j \in Inputs : BufferInv(j)
      /\ rtd \in Rtd
  BY DEF PassInv, TypeOK, MergerTypeOK
<1>1. /\ mpc = "collect" /\ mpc' = mpc /\ ~ IsEmpty(ibuf[i]) /\ ibuf[i].front = rtd.trig
      /\ UNCHANGED << ivars, mmin, nfinished, allFin, built >>
      /\ ibuf' = [ibuf EXCEPT ![i] = PopRecord(@)]
      /\ rtd' = [trig |-> rtd.trig, recs |-> Append(rtd.recs, rec)]
      /\ ~ InstallThrows(rtd, rec)
  BY <1>i DEF PopMatching, Matching, InstallRhd
<1>2. /\ p \in 1 .. Len(stream[i]) /\ Popped(i) \in 0 .. Len(stream[i])
      /\ Len(stream[i]) \in Nat
      /\ rec = stream[i][p] /\ rec.trig = rtd.trig /\ rec \in Rhd
      /\ rec.trig \in Nat
  BY <1>0, <1>1, BufferWindow, StreamFacts
<1>3. HasRtd /\ HasRtd' /\ rtd'.trig = rtd.trig
  BY <1>1, <1>2 DEF HasRtd, INVALID_TRIGGER_ID
<1>4. BufferInv(i)' /\ Popped(i)' = p
  BY <1>0, <1>1, PopKeepsBuffer
<1>5. stream' = stream /\ taken' = taken /\ held' = held /\ running' = running /\ built' = built
  BY <1>1 DEF ivars
<1>6. ASSUME NEW j \in Inputs, j # i
      PROVE  BufferInv(j)' /\ Popped(j)' = Popped(j)
  <2>1. ibuf'[j] = ibuf[j]
    BY <1>0, <1>1, <1>6 DEF TypeOK, InputTypeOK
  <2>2. Inserted(j)' = Inserted(j)
    BY <1>5 DEF Inserted
  <2>3. Popped(j)' = Popped(j)
    BY <2>1, <2>2 DEF Popped
  <2>4. BufferInv(j)
    BY <1>0
  <2>5. BufferInv(j)'
    BY <1>5, <2>1, <2>2, <2>3, <2>4 DEF BufferInv
  <2>. QED
    BY <2>3, <2>5
<1>7. rec.kind # "incomplete" /\ (rec.kind = "trig" => \A m \in DOMAIN rtd.recs : rtd.recs[m].kind # "trig")
  BY <1>1 DEF InstallThrows
<1>. HIDE DEF rec, p
<1>8. 1 .. p = 1 .. Popped(i) \cup {p} /\ p \notin 1 .. Popped(i) /\ \A k \in 1 .. Popped(i) : k <= p
  BY <1>2 DEF p
<1>9. \A j \in Inputs : BufferInv(j)'
  BY <1>4, <1>6
<1>10. \A j \in Inputs : \A k \in 1 .. Popped(j) : stream[j][k].trig <= rtd.trig
  BY <1>0, <1>3 DEF BelowHorizon, Horizon
<1>11. BelowHorizon'
  <2>1. ASSUME NEW j \in Inputs, NEW k \in 1 .. Popped(j)'
        PROVE  stream[j][k].trig <= rtd.trig
    <3>1. CASE j = i /\ k = p
      BY <1>2, <3>1
    <3>2. CASE k \in 1 .. Popped(j)
      BY <1>10, <3>2
    <3>. QED
      BY <1>4, <1>6, <1>8, <3>1, <3>2
  <2>. QED
    BY <1>3, <1>5, <2>1 DEF BelowHorizon, Horizon
<1>12. PoppedInOrder'
  <2>. SUFFICES ASSUME NEW j \in Inputs, NEW k \in 1 .. Popped(j)', NEW l \in 1 .. Popped(j)',
                       k <= l
                PROVE  stream[j][k].trig <= stream[j][l].trig
    BY <1>5 DEF PoppedInOrder
  <2>1. CASE j # i
    BY <1>0, <1>6, <2>1 DEF PoppedInOrder
  <2>2. CASE j = i
    <3>1. k \in 1 .. p /\ l \in 1 .. p
      BY <1>4, <2>2
    <3>2. CASE l \in 1 .. Popped(i)
      <4>1. k \in 1 .. Popped(i)
        BY <1>2, <3>1, <3>2
      <4>. QED
        BY <1>0, <2>2, <3>2, <4>1 DEF PoppedInOrder
    <3>3. CASE l = p
      <4>1. stream[i][k].trig <= rtd.trig
        BY <1>2, <1>8, <1>10, <3>1
      <4>. QED
        BY <1>2, <2>2, <3>3, <4>1
    <3>. QED
      BY <1>8, <3>1, <3>2, <3>3
  <2>. QED
    BY <2>1, <2>2
<1>13. FinishInv'
  <2>1. ~ allFin
    BY <1>0, <1>1 DEF FinishInv, IsFinished
  <2>. QED
    BY <1>0, <1>1, <2>1 DEF FinishInv
<1>14. BetweenRtds'
  BY <1>3 DEF BetweenRtds
<1>15. OneTrigger(rtd')
  <2>1. /\ n \in Nat /\ DOMAIN rtd.recs = 1 .. n /\ DOMAIN rtd'.recs = 1 .. n + 1
        /\ \A m \in 1 .. n : rtd'.recs[m] = rtd.recs[m]
        /\ rtd'.recs[n + 1] = rec
    <3>1. rtd.recs \in Seq(Rhd) /\ rtd'.recs = Append(rtd.recs, rec)
      BY <1>0, <1>1 DEF Rtd
    <3>. QED
      BY <1>2, <3>1, AppendProperties, LenProperties
  <2>2. OneTrigger(rtd)
    BY <1>0 DEF ChecksPassed
  <2>. HIDE DEF n
  <2>3. \A m \in 1 .. n + 1 : m \in 1 .. n \/ m = n + 1
    BY <2>1
  <2>. QED
    BY <1>7, <2>1, <2>2, <2>3 DEF OneTrigger
<1>16. ASSUME NEW j \in Inputs, NEW k \in 1 .. Popped(j)'
       PROVE  stream[j][k].kind # "incomplete"
  <2>1. CASE j = i /\ k = p
    BY <1>2, <1>7, <2>1
  <2>2. CASE k \in 1 .. Popped(j)
    BY <1>0, <2>2 DEF ChecksPassed
  <2>. QED
    BY <1>4, <1>6, <1>8, <2>1, <2>2
<1>17. ChecksPassed'
  BY <1>0, <1>5, <1>15, <1>16 DEF ChecksPassed, OneTrigger, IsComplete
<1>. QED
  BY <1>0, <1>5, <1>9, <1>11, <1>12, <1>13, <1>14, <1>17 DEF PassInv

-----------------------------------------------------------------------------
LEMMA OtherStepPass ==
  ASSUME PassInv, TypeOK', UNCHANGED << ivars, ibuf, mvars >>
  PROVE  PassInv'
<1>1. /\ UNCHANGED << ivars, ibuf, rtd, built >>
      /\ mpc' = mpc /\ midx' = midx /\ mmin' = mmin /\ nfinished' = nfinished
      /\ allFin' = allFin
  BY DEF mvars
<1>2. FinishInv' /\ BetweenRtds'
  BY <1>1 DEF PassInv, FinishInv, BetweenRtds, HasRtd, LastTrig, Fetchable
<1>. QED
  BY <1>1, <1>2, QuietStepPass

LEMMA NextPass ==
  ASSUME OrderKept
  PROVE  PassInv /\ [Next]_vars => PassInv'
<1>. SUFFICES ASSUME PassInv, [Next]_vars PROVE PassInv'
  OBVIOUS
<1>1. TypeOK'
  BY NextType DEF PassInv
<1>2. CASE \E i \in Inputs : InputStep(i)
  BY <1>1, <1>2, InputStepPass
<1>3. CASE MergerStep
  <2>1. CASE MergerThrows
    BY <1>1, <2>1, OtherStepPass DEF MergerThrows, Abort
  <2>. QED
    BY <1>1, <1>3, <2>1, ScanBufferPass, PushRtdPass, BeginCollectPass, SkipCollectPass,
       PopMatchingPass, LeaveBufferPass, CountBufferPass, TerminateOutputPass
    DEF MergerStep
<1>4. CASE OutputStep
  <2>1. UNCHANGED << ivars, ibuf, mvars >>
    BY <1>4 DEF OutputStep, LockOutput, StoreRtd, DropRtd, UnlockOutput, OutputThrows, Abort
  <2>. QED
    BY <1>1, <2>1, OtherStepPass
<1>5. CASE UNCHANGED vars
  BY <1>1, <1>5, OtherStepPass DEF vars
<1>. QED
  BY <1>2, <1>3, <1>4, <1>5 DEF Next, Ended

(***************************************************************************)
(* The invariant of the passes, for every run in which records come in     *)
(* order or are refused, whatever its inputs.                              *)
(***************************************************************************)
THEOREM PassInvariant ==
  ASSUME MinPop <= 1 \/ SortedStreams
  PROVE  Spec => []PassInv
<1>1. Spec => Init /\ [][Next]_vars
  BY DEF Spec, Safety
<1>2. PassInv => OrderKept
  BY DEF PassInv, OrderKept, SortedStreams, SortedInputs
<1>3. PassInv /\ [Next]_vars => PassInv'
  BY <1>2, NextPass
<1>. QED
  BY <1>1, <1>3, InitPass, PTL

-----------------------------------------------------------------------------
(***************************************************************************)
(* When all the threads have ended all the records were popped: the        *)
(* prefixes of PassInv are the streams.                                    *)
(***************************************************************************)
LEMMA AllPopped ==
  ASSUME PassInv, AllJoined
  PROVE  \A i \in Inputs : Popped(i) = Len(stream[i]) /\ taken[i] = Len(stream[i])
<1>. SUFFICES ASSUME NEW i \in Inputs
              PROVE  Popped(i) = Len(stream[i]) /\ taken[i] = Len(stream[i])
  OBVIOUS
<1>1. BufferInv(i) /\ TypeOK /\ stream \in Streams /\ FinishInv /\ mpc = "done"
  BY DEF PassInv, AllJoined
<1>2. IsFinished(ibuf[i])
  BY <1>1 DEF FinishInv
<1>3. Popped(i) = Len(stream[i])
  BY <1>1, <1>2, BufferWindow
<1>4. taken[i] = Len(stream[i])
  BY <1>1, <1>2 DEF BufferInv, IsFinished
<1>. QED
  BY <1>3, <1>4

LEMMA ReturnSorted ==
  ASSUME PassInv, AllJoined
  PROVE  SortedInputs
<1>. SUFFICES ASSUME NEW i \in Inputs PROVE Sorted(stream[i])
  BY DEF SortedInputs
<1>1. Popped(i) = Len(stream[i])
  BY AllPopped
<1>2. DOMAIN stream[i] = 1 .. Len(stream[i])
  BY StreamFacts DEF PassInv
<1>. QED
  BY <1>1, <1>2 DEF PassInv, PoppedInOrder, Sorted

LEMMA ReturnKinds ==
  ASSUME PassInv, AllJoined, NEW r \in Records
  PROVE  r.kind \notin {"incomplete", "unknown"}
<1>1. PICK i \in Inputs : r \in {stream[i][k] : k \in DOMAIN stream[i]}
  BY DEF Records
<1>2. PICK k \in DOMAIN stream[i] : r = stream[i][k]
  BY <1>1
<1>3. k \in 1 .. Popped(i) /\ k \in 1 .. taken[i]
  BY AllPopped, StreamFacts DEF PassInv
<1>. QED
  BY <1>2, <1>3 DEF PassInv, ChecksPassed

(***************************************************************************)
(* Every record is in an RTD that passed the checks.                       *)
(***************************************************************************)
LEMMA RecordInEvent ==
  ASSUME EventIInv, SortedInputs, mpc = "done", NEW r \in Records
  PROVE  \E n \in DOMAIN built :
           /\ built[n].trig = r.trig
           /\ \A s \in Records : s.trig = r.trig =>
                \E m \in DOMAIN built[n].recs : built[n].recs[m] = s
<1>1. PICK i \in Inputs : r \in {stream[i][k] : k \in DOMAIN stream[i]}
  BY DEF Records
<1>2. PICK k \in DOMAIN stream[i] : r = stream[i][k]
  BY <1>1
<1>3. PICK n \in DOMAIN built : \E m \in DOMAIN built[n].recs : built[n].recs[m] = r
  BY <1>2, NothingLostAtTheEnd DEF NothingLost, InAnEvent
<1>4. Holds(built[n], Lengths) /\ FromStreams(built[n], Lengths)
  BY DEF EventIInv, EventInv, EventsComplete, EventComplete
<1>5. built[n].trig = r.trig
  BY <1>3, <1>4 DEF FromStreams
<1>6. ASSUME NEW s \in Records, s.trig = r.trig
      PROVE  \E m \in DOMAIN built[n].recs : built[n].recs[m] = s
  <2>1. PICK j \in Inputs : s \in {stream[j][l] : l \in DOMAIN stream[j]}
    BY DEF Records
  <2>2. PICK l \in DOMAIN stream[j] : s = stream[j][l]
    BY <2>1
  <2>3. l \in 1 .. Lengths[j]
    BY <2>2, StreamFacts DEF EventIInv, Lengths
  <2>. QED
    BY <1>4, <1>5, <1>6, <2>2, <2>3 DEF Holds
<1>. QED
  BY <1>5, <1>6

(***************************************************************************)
(* The writer did not refuse an RTD: they fit, or it was to stop before.   *)
(***************************************************************************)
LEMMA ReturnFits ==
  ASSUME EventIInv, SortedInputs, TriggersInv, OutputInv, AllJoined
  PROVE  OutputFits
<1>. SUFFICES ASSUME MaxPerFile # 0, ~ TerminateOnOverrun
              PROVE  MaxTotal \in 1 .. Room \/ Cardinality(Triggers) <= Room
  BY DEF OutputFits
<1>1. /\ TypeOK /\ QueueInv /\ CountInv /\ FilesInv /\ StopInv
      /\ mpc = "done" /\ opc = "done"
  BY DEF OutputInv, AllJoined
<1>2. counter <= Room /\ counter \in Nat /\ MaxTotal \in Nat
  BY <1>1, CounterInRoom, OutputTypes
<1>3. CASE terminated
  <2>1. MaxTotal > 0 /\ counter = MaxTotal
    BY <1>1, <1>3 DEF CountInv
  <2>2. Room \in Int
    BY BuilderAssumption DEF Room
  <2>. QED
    BY <1>2, <2>1, <2>2
<1>4. CASE ~ terminated
  <2>1. obuf = << >> /\ counter = orecords
    BY <1>1, <1>4 DEF StopInv, CountInv
  <2>2. Len(obuf) = 0 /\ orecords + Len(obuf) = Len(built) /\ orecords \in Nat
    BY <1>1, <2>1, OutputTypes, EmptySeq DEF QueueInv
  <2>3. Len(built) = Cardinality(Triggers)
    BY <1>1, EventCount
  <2>. QED
    BY <1>2, <2>1, <2>2, <2>3
<1>. QED
  BY <1>3, <1>4

LEMMA ReturnAcceptable ==
  ASSUME PassInv, OutcomeInv, AllJoined
  PROVE  Acceptable
<1>1. /\ SortedInputs /\ EventIInv /\ TriggersInv /\ OutputInv /\ mpc = "done"
  BY ReturnSorted DEF OutcomeInv, AllJoined
<1>2. \A r \in Records : r.kind \notin {"incomplete", "unknown"}
  BY ReturnKinds
<1>3. ASSUME NEW r \in Records, NEW s \in Records,
             r.kind = "trig", s.kind = "trig", r.trig = s.trig
      PROVE  r = s
  <2>1. PICK n \in DOMAIN built :
          \A q \in Records : q.trig = r.trig =>
            \E m \in DOMAIN built[n].recs : built[n].recs[m] = q
    BY <1>1, RecordInEvent
  <2>2. PICK m \in DOMAIN built[n].recs : built[n].recs[m] = r
    BY <2>1
  <2>3. PICK p \in DOMAIN built[n].recs : built[n].recs[p] = s
    BY <1>3, <2>1
  <2>4. OneTrigger(built[n])
    BY DEF PassInv, ChecksPassed
  <2>. QED
    BY <1>3, <2>2, <2>3, <2>4 DEF OneTrigger
<1>4. ASSUME ForceComplete, NEW t \in Triggers
      PROVE  \E r \in Records : r.trig = t /\ r.kind \in HitKinds
  <2>1. PICK r \in Records : r.trig = t
    BY DEF Triggers
  <2>2. PICK n \in DOMAIN built : built[n].trig = t
    BY <1>1, <2>1, RecordInEvent
  <2>3. IsComplete(built[n]) /\ FromStreams(built[n], Lengths)
    BY <1>1, <1>4 DEF PassInv, ChecksPassed, EventIInv, EventInv, EventsComplete, EventComplete
  <2>4. PICK m \in DOMAIN built[n].recs : built[n].recs[m].kind \in HitKinds
    BY <2>3 DEF IsComplete
  <2>5. /\ built[n].recs[m].trig = built[n].trig
        /\ \E i \in Inputs : \E k \in 1 .. Lengths[i] : built[n].recs[m] = stream[i][k]
    BY <2>3 DEF FromStreams
  <2>6. PICK i \in Inputs : \E k \in 1 .. Lengths[i] : built[n].recs[m] = stream[i][k]
    BY <2>5
  <2>7. built[n].recs[m] \in Records
    BY <2>6, StreamFacts, TriggersAre DEF Lengths, PassInv
  <2>. QED
    BY <2>2, <2>4, <2>5, <2>7
<1>5. OutputFits
  BY <1>1, ReturnFits
<1>. QED
  BY <1>1, <1>2, <1>3, <1>4, <1>5 DEF Acceptable, SortedInputs

(***************************************************************************)
(* A run that does not accept unsorted records, or has none, returns only  *)
(* for acceptable inputs: every record known, complete, in order and       *)
(* unique as a trigger record, with hits if they are asked for, and output *)
(* files for all the RTDs.                                                 *)
(***************************************************************************)
THEOREM ReturnsAreJustified ==
  ASSUME MinPop <= 1 \/ SortedStreams
  PROVE  Spec => []ReturnJustified
<1>1. PassInv /\ OutcomeInv => ReturnJustified
  BY ReturnAcceptable DEF ReturnJustified
<1>. QED
  BY <1>1, PassInvariant, OutcomeInvariant, PTL

-----------------------------------------------------------------------------
(***************************************************************************)
(* Shallow inputs.  A buffer never holds more than its capacity.  It shows *)
(* its front to the merger only if it is deep, and as long as the merger   *)
(* has not begun to pop a trigger ID from it, it remains so: at a shallow  *)
(* place the input is barred.                                              *)
(***************************************************************************)
RoomInv == \A i \in Inputs : Capacity[i] > 0 => Len(ibuf[i].recs) <= Capacity[i]

Deep(i) == ibuf[i].terminated \/ Cardinality(ibuf[i].trigIds) >= MinPop

Begins(i) ==
  /\ Popped(i) + 1 \in GroupStarts(stream[i])
  /\ stream[i][Popped(i) + 1].trig = rtd.trig

ShownDeep ==
  /\ mpc = "scan" /\ ~ Fetchable => \A j \in Visited : Unpopped(j) = {}
  /\ mpc \in {"scan", "decide", "process"} /\ Fetchable =>
       \A j \in Visited : Unpopped(j) # {} => Deep(j)
  /\ mpc = "collect" => \A j \in Inputs : Begins(j) => Deep(j)

ShallowAt(i, k) ==
  /\ Capacity[i] > 0
  /\ k + Capacity[i] <= Len(stream[i])
  /\ Cardinality(TrigIdsOf(Window(stream[i], k, Capacity[i]))) < MinPop

Barred == \A i \in Inputs : \A k \in GroupStarts(stream[i]) : ShallowAt(i, k) => Popped(i) < k

DepthInv == RoomInv /\ ShownDeep /\ Barred

LEMMA TrigIdsFinite ==
  ASSUME NEW S, NEW recs \in Seq(S)
  PROVE  IsFiniteSet(TrigIdsOf(recs)) /\ Cardinality(TrigIdsOf(recs)) \in Nat
<1>. DEFINE n == Len(recs)
<1>1. n \in Nat /\ DOMAIN recs = 1 .. n
  BY LenProperties
<1>2. IsFiniteSet(1 .. n)
  <2>. HIDE DEF n
  <2>. QED
    BY <1>1, FS_Interval
<1>3. [k \in 1 .. n |-> recs[k].trig] \in Surjection(1 .. n, TrigIdsOf(recs))
  BY <1>1 DEF Surjection, TrigIdsOf
<1>. QED
  BY <1>2, <1>3, FS_Surjection, FS_CardinalityType

LEMMA InitDepth ==
  ASSUME Init
  PROVE  DepthInv
<1>1. \A i \in Inputs : Len(ibuf[i].recs) = 0 /\ Popped(i) = 0
  BY InitBuffer DEF Init, EmptyBuffer
<1>2. RoomInv
  BY <1>1, BuilderAssumption DEF RoomInv
<1>3. ShownDeep
  <2>1. Visited = {}
    BY DEF Init, Visited
  <2>. QED
    BY <2>1 DEF Init, ShownDeep, Fetchable
<1>4. Barred
  <2>1. \A i \in Inputs : \A k \in GroupStarts(stream[i]) : k \in Nat \ {0}
    BY StreamFacts DEF Init, GroupStarts
  <2>. QED
    BY <1>1, <2>1 DEF Barred
<1>. QED
  BY <1>2, <1>3, <1>4 DEF DepthInv

-----------------------------------------------------------------------------
(***************************************************************************)
(* An input step makes no buffer shallower.                                *)
(***************************************************************************)
LEMMA StaysDeep ==
  ASSUME PassInv, OrderKept, TypeOK', NEW i \in Inputs, InputStep(i), NEW j \in Inputs, Deep(j)
  PROVE  Deep(j)'
<1>0. /\ TypeOK /\ stream \in Streams /\ BufferInv(j)
      /\ ibuf[j] \in BufferOf(Rhd) /\ ibuf[j].recs \in Seq(Rhd)
  BY BufferTypes DEF PassInv
<1>1. CASE ibuf'[j] = ibuf[j]
  BY <1>1 DEF Deep
<1>2. CASE j = i /\ InsertHeld(i)
  <2>. DEFINE r == held[i]
  <2>1. ibuf'[i] = InsertRecord(ibuf[i], r)
    BY <1>0, <1>2 DEF InsertHeld, TypeOK, InputTypeOK
  <2>2. ibuf'[i].trigIds = ibuf[i].trigIds \cup {r.trig} /\ ibuf'[i].terminated = ibuf[i].terminated
    BY <2>1 DEF InsertRecord
  <2>3. IsFiniteSet(ibuf[i].trigIds) /\ Cardinality(ibuf[i].trigIds) \in Nat
    BY <1>0, <1>2, TrigIdsFinite DEF BufferInv
  <2>4. Cardinality(ibuf'[i].trigIds) \in Nat /\ Cardinality(ibuf'[i].trigIds) >= Cardinality(ibuf[i].trigIds)
    <3>1. Cardinality(ibuf[i].trigIds \cup {r.trig})
            = IF r.trig \in ibuf[i].trigIds THEN Cardinality(ibuf[i].trigIds)
              ELSE Cardinality(ibuf[i].trigIds) + 1
      BY <2>3, FS_AddElement
    <3>. QED
      BY <2>2, <2>3, <3>1
  <2>. QED
    BY <1>2, <2>2, <2>3, <2>4, BuilderAssumption DEF Deep
<1>3. CASE j = i /\ TerminateInput(i)
  BY <1>0, <1>3, TerminateKeepsBuffer DEF Deep
<1>4. ibuf' = ibuf \/ (j = i /\ (InsertHeld(i) \/ TerminateInput(i))) \/ j # i
  BY DEF InputStep, LoadRecord, InputThrows, Abort
<1>. QED
  BY <1>0, <1>1, <1>2, <1>3, <1>4, OtherInputs

LEMMA InputStepDepth ==
  ASSUME PassInv, DepthInv, OrderKept, TypeOK', NEW i \in Inputs, InputStep(i)
  PROVE  DepthInv'
<1>0. TypeOK /\ stream \in Streams /\ \A j \in Inputs : BufferInv(j)
  BY DEF PassInv
<1>1. \A j \in Inputs : Popped(j)' = Popped(j)
  BY <1>0, InputFrame
<1>2. /\ stream' = stream /\ UNCHANGED mvars
  BY DEF InputStep, LoadRecord, InsertHeld, TerminateInput, InputThrows, Abort, ivars
<1>3. /\ mpc' = mpc /\ midx' = midx /\ mmin' = mmin /\ rtd' = rtd
  BY <1>2 DEF mvars
<1>4. \A j \in Inputs : Unpopped(j)' = Unpopped(j)
  BY <1>1, <1>2 DEF Unpopped
<1>5. RoomInv'
  <2>. SUFFICES ASSUME NEW j \in Inputs, Capacity[j] > 0
                PROVE  Len(ibuf'[j].recs) <= Capacity[j]
    BY DEF RoomInv
  <2>1. Len(ibuf[j].recs) <= Capacity[j] /\ Len(ibuf[j].recs) \in Nat /\ Capacity[j] \in Nat
    BY <1>0, BufferTypes, BuilderAssumption DEF DepthInv, RoomInv
  <2>2. CASE ibuf'[j].recs = ibuf[j].recs
    BY <2>1, <2>2
  <2>3. CASE j = i /\ InsertHeld(i)
    <3>1. /\ ibuf'[i] = InsertRecord(ibuf[i], held[i]) /\ CanPush(ibuf[i], Capacity[i])
          /\ held[i] # NoRec
      BY <1>0, <2>3 DEF InsertHeld, TypeOK, InputTypeOK
    <3>2. ibuf[i] \in BufferOf(RhdOf(Inputs)) /\ held[i] \in RhdOf(Inputs)
      BY <1>0, <3>1 DEF TypeOK, InputTypeOK, Rhd
    <3>3. ibuf'[i].recs = Append(ibuf[i].recs, held[i])
      <4>1. ~ OutOfOrder(ibuf[i], held[i])
        BY <1>0, <2>3, InsertedInOrder
      <4>2. ibuf[i].front = FrontTrigId(ibuf[i].recs) /\ ibuf[i].trigIds = TrigIdsOf(ibuf[i].recs)
        BY <1>0 DEF BufferInv
      <4>. QED
        BY <3>1, <3>2, <4>1, <4>2, InsertAppends
    <3>4. Len(ibuf'[i].recs) = Len(ibuf[i].recs) + 1
      BY <3>2, <3>3, AppendProperties DEF BufferOf
    <3>5. ~ (Len(ibuf[i].recs) >= Capacity[i])
      BY <2>3, <3>1 DEF CanPush
    <3>. QED
      BY <2>1, <2>3, <3>4, <3>5
  <2>4. CASE j = i /\ TerminateInput(i)
    BY <1>0, <2>2, <2>4, TerminateKeepsBuffer
  <2>5. j # i => ibuf'[j].recs = ibuf[j].recs
    BY <1>0, OtherInputs
  <2>6. LoadRecord(i) \/ InputThrows(i) => ibuf' = ibuf
    BY DEF LoadRecord, InputThrows, Abort
  <2>. QED
    BY <2>2, <2>3, <2>4, <2>5, <2>6 DEF InputStep
<1>6. ShownDeep'
  <2>1. \A j \in Inputs : Deep(j) => Deep(j)'
    BY StaysDeep
  <2>2. Visited' = Visited /\ Visited \subseteq Inputs
    BY <1>0, <1>3, BuilderAssumption DEF Visited, Inputs, TypeOK, MergerTypeOK
  <2>3. \A j \in Inputs : Begins(j)' = Begins(j)
    BY <1>1, <1>2, <1>3 DEF Begins
  <2>4. ASSUME mpc' \in {"scan", "decide", "process"}, Fetchable', NEW j \in Visited',
               Unpopped(j)' # {}
        PROVE  Deep(j)'
    BY <1>3, <1>4, <2>1, <2>2, <2>4 DEF DepthInv, ShownDeep, Fetchable
  <2>5. ASSUME mpc' = "collect", NEW j \in Inputs, Begins(j)'
        PROVE  Deep(j)'
    BY <1>3, <2>1, <2>3, <2>5 DEF DepthInv, ShownDeep
  <2>6. ASSUME mpc' = "scan", ~ Fetchable', NEW j \in Visited'
        PROVE  Unpopped(j)' = {}
    BY <1>3, <1>4, <2>2, <2>6 DEF DepthInv, ShownDeep, Fetchable
  <2>. QED
    BY <2>4, <2>5, <2>6 DEF ShownDeep
<1>7. Barred'
  BY <1>1, <1>2 DEF DepthInv, Barred, ShallowAt
<1>. QED
  BY <1>5, <1>6, <1>7 DEF DepthInv

-----------------------------------------------------------------------------
(***************************************************************************)
(* The merger: a scan that finds something to fetch has found every buffer *)
(* that has more to give deep.                                             *)
(***************************************************************************)
LEMMA QuietDepth ==
  ASSUME DepthInv, UNCHANGED << ivars, ibuf >>, ShownDeep'
  PROVE  DepthInv'
<1>1. /\ stream' = stream /\ ibuf' = ibuf
      /\ \A j \in Inputs : Popped(j)' = Popped(j)
  BY NoPopFrame
<1>. QED
  BY <1>1 DEF DepthInv, RoomInv, Barred, ShallowAt

LEMMA ScanBufferDepth ==
  ASSUME PassInv, DepthInv, ScanBuffer
  PROVE  DepthInv'
<1>. DEFINE t == NextPoppable(ibuf[midx], MinPop)
<1>0. /\ TypeOK /\ stream \in Streams /\ midx \in Inputs /\ BufferInv(midx)
      /\ NInputs \in Nat /\ Inputs = 1 .. NInputs
      /\ \A j \in Inputs : BufferInv(j)
  BY BuilderAssumption DEF PassInv, TypeOK, MergerTypeOK, Inputs
<1>1. /\ mpc = "scan" /\ UNCHANGED << ivars, ibuf, rtd >>
      /\ mpc' \in {"scan", "decide"}
  BY DEF ScanBuffer, AdvanceLoop
<1>2. /\ ibuf' = ibuf /\ \A j \in Inputs : Unpopped(j)' = Unpopped(j)
  BY <1>1, NoPopFrame
<1>3. \A j \in Inputs : Deep(j)' = Deep(j)
  BY <1>2 DEF Deep
<1>4. Visited = 1 .. midx - 1
  BY <1>1 DEF Visited
<1>5. ASSUME AdvanceLoop("decide"), Unpopped(midx) # {} => Deep(midx),
             Fetchable => \A j \in Visited : Unpopped(j) # {} => Deep(j),
             ~ Fetchable => \A j \in Visited : Unpopped(j) = {},
             ~ Fetchable' => ~ Fetchable /\ Unpopped(midx) = {}
      PROVE  ShownDeep'
  <2>1. Visited' = Visited \cup {midx} /\ Visited' \subseteq Inputs
    BY <1>0, <1>1, <1>4, <1>5 DEF AdvanceLoop, Visited
  <2>2. ASSUME NEW j \in Visited', Unpopped(j)' # {} PROVE Deep(j)'
    BY <1>0, <1>2, <1>3, <1>5, <2>1, <2>2
  <2>3. ASSUME ~ Fetchable', NEW j \in Visited' PROVE Unpopped(j)' = {}
    BY <1>0, <1>2, <1>5, <2>1, <2>3
  <2>. QED
    BY <1>1, <2>2, <2>3 DEF ShownDeep
<1>6. Fetchable => \A j \in Visited : Unpopped(j) # {} => Deep(j)
  BY <1>1 DEF DepthInv, ShownDeep
<1>7. ShownDeep'
  <2>1. CASE mpc' = "decide" /\ mmin' = INVALID_TRIGGER_ID
    BY <2>1 DEF ShownDeep, Fetchable
  <2>2. CASE /\ AdvanceLoop("decide")
             /\ \/ IsFinished(ibuf[midx]) /\ UNCHANGED mmin
                \/ t # INVALID_TRIGGER_ID /\ mmin' = LowerOf(mmin, t)
    <3>1. Unpopped(midx) # {} => Deep(midx)
      <4>1. IsFinished(ibuf[midx]) => Unpopped(midx) = {}
        BY <1>0, FinishedHasNoMore
      <4>2. t # INVALID_TRIGGER_ID => Deep(midx)
        BY DEF NextPoppable, Deep
      <4>. QED
        BY <2>2, <4>1, <4>2
    <3>2. ~ Fetchable => \A j \in Visited : Unpopped(j) = {}
      BY <1>1 DEF DepthInv, ShownDeep
    <3>3. ~ Fetchable' => ~ Fetchable /\ Unpopped(midx) = {}
      BY <1>0, <2>2, FinishedHasNoMore DEF Fetchable, LowerOf
    <3>. QED
      BY <1>5, <1>6, <2>2, <3>1, <3>2, <3>3
  <2>. QED
    BY <1>1, <2>1, <2>2 DEF ScanBuffer
<1>. QED
  BY <1>1, <1>7, QuietDepth

LEMMA StartScanDepth ==
  ASSUME midx' = 1, mmin' = INVALID_TRIGGER_ID, mpc' \in {"scan", "stopping"}
  PROVE  ShownDeep'
<1>1. Visited' = {} \/ mpc' # "scan"
  BY DEF Visited
<1>. QED
  BY <1>1 DEF ShownDeep, Fetchable

LEMMA EndOfPassDepth ==
  ASSUME CountOrEnd
  PROVE  ShownDeep'
<1>1. CASE allFin
  BY <1>1, StartScanDepth DEF CountOrEnd, EndPass
<1>2. CASE ~ allFin
  BY <1>2 DEF CountOrEnd, ShownDeep
<1>. QED
  BY <1>1, <1>2

LEMMA PushRtdDepth ==
  ASSUME PassInv, DepthInv, PushRtd
  PROVE  DepthInv'
<1>1. /\ mpc = "decide" /\ mpc' = "process" /\ UNCHANGED << ivars, ibuf, mmin >>
  BY DEF PushRtd
<1>2. ibuf' = ibuf /\ \A j \in Inputs : Unpopped(j)' = Unpopped(j)
  BY <1>1, NoPopFrame
<1>3. Visited = Inputs /\ Visited' = Inputs
  BY <1>1 DEF Visited
<1>4. ShownDeep'
  BY <1>1, <1>2, <1>3 DEF DepthInv, ShownDeep, Fetchable, Deep
<1>. QED
  BY <1>1, <1>4, QuietDepth

LEMMA BeginCollectDepth ==
  ASSUME PassInv, DepthInv, BeginCollect
  PROVE  DepthInv'
<1>1. /\ mpc \in {"decide", "process"} /\ mpc' = "collect" /\ UNCHANGED << ivars, ibuf >>
      /\ Fetchable
  BY DEF BeginCollect, Decided
<1>2. ibuf' = ibuf /\ stream' = stream /\ \A j \in Inputs : Popped(j)' = Popped(j)
  BY <1>1, NoPopFrame
<1>3. Visited = Inputs
  BY <1>1 DEF Visited
<1>4. ASSUME NEW j \in Inputs, Begins(j)' PROVE Deep(j)'
  <2>1. Popped(j) + 1 \in DOMAIN stream[j]
    BY <1>2, <1>4 DEF Begins, GroupStarts
  <2>2. Popped(j) + 1 \in Unpopped(j)
    <3>1. Popped(j) \in Int /\ Len(stream[j]) \in Nat /\ DOMAIN stream[j] = 1 .. Len(stream[j])
      BY BufferTypes, StreamFacts DEF PassInv
    <3>. QED
      BY <2>1, <3>1 DEF Unpopped
  <2>. QED
    BY <1>1, <1>2, <1>3, <2>2 DEF DepthInv, ShownDeep, Deep
<1>5. ShownDeep'
  BY <1>1, <1>4 DEF ShownDeep
<1>. QED
  BY <1>1, <1>5, QuietDepth

LEMMA SkipCollectDepth ==
  ASSUME PassInv, DepthInv, SkipCollect
  PROVE  DepthInv'
<1>1. CountOrEnd /\ UNCHANGED << ivars, ibuf >>
  BY DEF SkipCollect
<1>. QED
  BY <1>1, EndOfPassDepth, QuietDepth

LEMMA LeaveBufferDepth ==
  ASSUME PassInv, DepthInv, LeaveBuffer
  PROVE  DepthInv'
<1>1. /\ mpc = "collect" /\ UNCHANGED << ivars, ibuf, rtd >>
  BY DEF LeaveBuffer
<1>2. CASE midx < NInputs
  <2>1. mpc' = "collect"
    BY <1>1, <1>2 DEF LeaveBuffer
  <2>2. ibuf' = ibuf /\ stream' = stream /\ rtd' = rtd
        /\ \A j \in Inputs : Popped(j)' = Popped(j)
    BY <1>1, NoPopFrame
  <2>3. ShownDeep'
    BY <1>1, <2>1, <2>2 DEF DepthInv, ShownDeep, Begins, Deep
  <2>. QED
    BY <1>1, <2>3, QuietDepth
<1>3. CASE ~ (midx < NInputs)
  <2>1. CountOrEnd
    BY <1>3 DEF LeaveBuffer
  <2>. QED
    BY <1>1, <2>1, EndOfPassDepth, QuietDepth
<1>. QED
  BY <1>2, <1>3

LEMMA CountBufferDepth ==
  ASSUME PassInv, DepthInv, CountBuffer
  PROVE  DepthInv'
<1>1. /\ mpc = "count" /\ UNCHANGED << ivars, ibuf >>
  BY DEF CountBuffer
<1>2. CASE midx < NInputs
  <2>1. mpc' = "count"
    BY <1>1, <1>2 DEF CountBuffer
  <2>2. ShownDeep'
    BY <2>1 DEF ShownDeep
  <2>. QED
    BY <1>1, <2>2, QuietDepth
<1>3. CASE ~ (midx < NInputs)
  <2>1. EndPass(allFin', rtd)
    BY <1>3 DEF CountBuffer
  <2>2. ShownDeep'
    BY <2>1, StartScanDepth DEF EndPass
  <2>. QED
    BY <1>1, <2>2, QuietDepth
<1>. QED
  BY <1>2, <1>3

LEMMA TerminateOutputDepth ==
  ASSUME PassInv, DepthInv, TerminateOutput
  PROVE  DepthInv'
<1>1. mpc' = "done" /\ UNCHANGED << ivars, ibuf >>
  BY DEF TerminateOutput
<1>2. ShownDeep'
  BY <1>1 DEF ShownDeep
<1>. QED
  BY <1>1, <1>2, QuietDepth

(***************************************************************************)
(* At a shallow place no buffer that begins is deep: one that is           *)
(* terminated would have to hold all the rest of the stream, and one with  *)
(* enough trigger IDs more than its capacity.                              *)
(***************************************************************************)
LEMMA ShallowIsNotDeep ==
  ASSUME TypeOK, stream \in Streams, NEW i \in Inputs, BufferInv(i),
         Capacity[i] > 0 => Len(ibuf[i].recs) <= Capacity[i],
         ShallowAt(i, Popped(i) + 1)
  PROVE  ~ Deep(i)
<1>. DEFINE n == Len(ibuf[i].recs)
            c == Capacity[i]
            k == Popped(i) + 1
            w == Window(stream[i], k, c)
<1>1. /\ n \in Nat /\ c \in Nat \ {0} /\ n <= c /\ Len(stream[i]) \in Nat
      /\ k + c <= Len(stream[i]) /\ Popped(i) \in 0 .. Len(stream[i])
      /\ Cardinality(TrigIdsOf(w)) < MinPop
  BY BufferTypes, BufferWindow, StreamFacts, BuilderAssumption DEF ShallowAt
<1>2. ~ ibuf[i].terminated
  <2>. SUFFICES ASSUME ibuf[i].terminated PROVE FALSE
    OBVIOUS
  <2>1. Popped(i) = Len(stream[i]) - n
    BY DEF BufferInv, Popped, Inserted
  <2>. HIDE DEF n, c
  <2>. QED
    BY <1>1, <2>1
<1>3. /\ w \in Seq(Rhd) /\ Len(w) = c
      /\ \A m \in 1 .. c : w[m] = stream[i][k + m - 1]
  <2>. DEFINE e == k + c - 1
  <2>1. k \in Int /\ e \in Int /\ (k <= e) /\ e - k + 1 = c
    BY <1>1
  <2>2. \A m \in k .. e : stream[i][m] \in Rhd
    <3>1. \A m \in k .. e : m \in 1 .. Len(stream[i])
      BY <1>1
    <3>. QED
      BY <3>1, StreamFacts
  <2>3. w = SubSeq(stream[i], k, e)
    BY DEF Window
  <2>. HIDE DEF w, k, c, e
  <2>4. /\ SubSeq(stream[i], k, e) \in Seq(Rhd)
        /\ Len(SubSeq(stream[i], k, e)) = IF k <= e THEN e - k + 1 ELSE 0
        /\ \A m \in 1 .. e - k + 1 : SubSeq(stream[i], k, e)[m] = stream[i][k + m - 1]
    BY <2>1, <2>2, SubSeqProperties
  <2>. QED
    BY <2>1, <2>3, <2>4
<1>4. TrigIdsOf(ibuf[i].recs) \subseteq TrigIdsOf(w)
  <2>. SUFFICES ASSUME NEW m \in 1 .. n PROVE ibuf[i].recs[m].trig \in TrigIdsOf(w)
    BY BufferTypes DEF TrigIdsOf
  <2>1. ibuf[i].recs[m] = stream[i][Popped(i) + m]
    BY DEF BufferInv
  <2>2. m \in 1 .. c /\ k + m - 1 = Popped(i) + m
    <3>. HIDE DEF n, c
    <3>. QED
      BY <1>1
  <2>3. m \in DOMAIN w
    BY <1>3, <2>2, LenProperties
  <2>4. ibuf[i].recs[m] = w[m]
    BY <1>3, <2>1, <2>2
  <2>. QED
    BY <2>3, <2>4 DEF TrigIdsOf
<1>5. Cardinality(TrigIdsOf(ibuf[i].recs)) <= Cardinality(TrigIdsOf(w))
  BY <1>3, <1>4, TrigIdsFinite, FS_Subset
<1>6. Cardinality(TrigIdsOf(ibuf[i].recs)) \in Nat /\ Cardinality(TrigIdsOf(w)) \in Nat
  BY <1>3, BufferTypes, TrigIdsFinite
<1>. HIDE DEF w
<1>7. ibuf[i].trigIds = TrigIdsOf(ibuf[i].recs)
  BY DEF BufferInv
<1>. QED
  BY <1>1, <1>2, <1>5, <1>6, <1>7, BuilderAssumption DEF Deep

LEMMA PopMatchingDepth ==
  ASSUME PassInv, DepthInv, PopMatching
  PROVE  DepthInv'
<1>i. PICK i \in Inputs : i = midx
  BY DEF PassInv, TypeOK, MergerTypeOK
<1>. DEFINE p == Popped(i) + 1
<1>0. /\ TypeOK /\ stream \in Streams /\ \A j \in Inputs : BufferInv(j)
  BY DEF PassInv
<1>1. /\ mpc = "collect" /\ mpc' = mpc /\ ~ IsEmpty(ibuf[i]) /\ ibuf[i].front = rtd.trig
      /\ UNCHANGED ivars
      /\ ibuf' = [ibuf EXCEPT ![i] = PopRecord(@)]
      /\ rtd'.trig = rtd.trig
  BY <1>i DEF PopMatching, Matching, InstallRhd
<1>2. /\ p \in 1 .. Len(stream[i]) /\ Popped(i) \in 0 .. Len(stream[i])
      /\ Len(stream[i]) \in Nat /\ DOMAIN stream[i] = 1 .. Len(stream[i])
      /\ stream[i][p].trig = rtd.trig
  BY <1>0, <1>1, BufferWindow, StreamFacts
<1>3. Popped(i)' = p
  BY <1>0, <1>1, PopKeepsBuffer
<1>4. stream' = stream /\ taken' = taken /\ held' = held
  BY <1>1 DEF ivars
<1>5. ASSUME NEW j \in Inputs, j # i
      PROVE  ibuf'[j] = ibuf[j] /\ Popped(j)' = Popped(j)
  <2>1. ibuf'[j] = ibuf[j]
    BY <1>0, <1>1, <1>5 DEF TypeOK, InputTypeOK
  <2>2. Inserted(j)' = Inserted(j)
    BY <1>4 DEF Inserted
  <2>. QED
    BY <2>1, <2>2 DEF Popped
<1>6. RoomInv'
  <2>. SUFFICES ASSUME NEW j \in Inputs, Capacity[j] > 0
                PROVE  Len(ibuf'[j].recs) <= Capacity[j]
    BY DEF RoomInv
  <2>1. Len(ibuf[j].recs) <= Capacity[j] /\ Len(ibuf[j].recs) \in Nat /\ Capacity[j] \in Nat
    BY <1>0, BufferTypes, BuilderAssumption DEF DepthInv, RoomInv
  <2>2. CASE j = i
    <3>1. ibuf'[i] = PopRecord(ibuf[i])
      BY <1>0, <1>1 DEF TypeOK, InputTypeOK
    <3>2. ibuf'[i].recs = Tail(ibuf[i].recs)
      BY <3>1 DEF PopRecord
    <3>3. ibuf[i].recs \in Seq(Rhd) /\ ibuf[i].recs # << >>
      BY <1>0, <1>1, BufferTypes DEF IsEmpty
    <3>4. Len(Tail(ibuf[i].recs)) = Len(ibuf[i].recs) - 1
      BY <3>3, HeadTailProperties
    <3>. QED
      BY <2>1, <2>2, <3>2, <3>4
  <2>. QED
    BY <1>5, <2>1, <2>2
<1>. HIDE DEF p
<1>7. ShownDeep'
  <2>1. ASSUME NEW j \in Inputs, Begins(j)' PROVE Deep(j)'
    <3>1. CASE j = i
      <4>1. p + 1 # 1 /\ p + 1 - 1 = p
        BY <1>2
      <4>2. stream[i][p + 1].trig = rtd.trig /\ p + 1 \in GroupStarts(stream[i])
        BY <1>1, <1>3, <1>4, <2>1, <3>1 DEF Begins
      <4>3. FALSE
        BY <1>2, <4>1, <4>2 DEF GroupStarts
      <4>. QED
        BY <4>3
    <3>2. CASE j # i
      <4>1. Begins(j)
        BY <1>1, <1>4, <1>5, <2>1, <3>2 DEF Begins
      <4>2. Deep(j)
        BY <1>1, <4>1 DEF DepthInv, ShownDeep
      <4>. QED
        BY <1>5, <3>2, <4>2 DEF Deep
    <3>. QED
      BY <3>1, <3>2
  <2>. QED
    BY <1>1, <2>1 DEF ShownDeep
<1>8. Barred'
  <2>. SUFFICES ASSUME NEW j \in Inputs, NEW k \in GroupStarts(stream[j]), ShallowAt(j, k)
                PROVE  Popped(j)' < k
    BY <1>4 DEF Barred, ShallowAt
  <2>1. Popped(j) < k
    BY DEF DepthInv, Barred
  <2>2. CASE j # i
    BY <1>5, <2>1, <2>2
  <2>3. CASE j = i
    <3>1. k \in Nat
      BY <1>0, StreamFacts DEF GroupStarts
    <3>2. k # p
      <4>. SUFFICES ASSUME k = p PROVE FALSE
        OBVIOUS
      <4>1. Begins(i)
        BY <1>2, <2>3 DEF Begins, p
      <4>2. Deep(i)
        BY <1>1, <4>1 DEF DepthInv, ShownDeep
      <4>3. ShallowAt(i, Popped(i) + 1)
        BY <2>3 DEF p
      <4>. QED
        BY <1>0, <4>2, <4>3, ShallowIsNotDeep DEF DepthInv, RoomInv
    <3>. QED
      BY <1>2, <1>3, <2>1, <2>3, <3>1, <3>2 DEF p
  <2>. QED
    BY <2>2, <2>3
<1>. QED
  BY <1>6, <1>7, <1>8 DEF DepthInv

-----------------------------------------------------------------------------
LEMMA OtherStepDepth ==
  ASSUME PassInv, DepthInv, UNCHANGED << ivars, ibuf, mvars >>
  PROVE  DepthInv'
<1>1. /\ stream' = stream /\ ibuf' = ibuf
      /\ \A j \in Inputs : Popped(j)' = Popped(j) /\ Unpopped(j)' = Unpopped(j)
  BY NoPopFrame
<1>2. mpc' = mpc /\ midx' = midx /\ mmin' = mmin /\ rtd' = rtd
  BY DEF mvars
<1>3. Visited' = Visited /\ Visited \subseteq Inputs
  BY <1>2, BuilderAssumption DEF Visited, Inputs, PassInv, TypeOK, MergerTypeOK
<1>4. ShownDeep'
  BY <1>1, <1>2, <1>3 DEF DepthInv, ShownDeep, Fetchable, Deep, Begins
<1>. QED
  BY <1>4, QuietDepth

LEMMA NextDepth ==
  ASSUME OrderKept, PassInv, TypeOK', DepthInv, [Next]_vars
  PROVE  DepthInv'
<1>1. CASE \E i \in Inputs : InputStep(i)
  BY <1>1, InputStepDepth
<1>2. CASE MergerStep
  <2>1. CASE MergerThrows
    BY <2>1, OtherStepDepth DEF MergerThrows, Abort
  <2>. QED
    BY <1>2, <2>1, ScanBufferDepth, PushRtdDepth, BeginCollectDepth, SkipCollectDepth,
       PopMatchingDepth, LeaveBufferDepth, CountBufferDepth, TerminateOutputDepth
    DEF MergerStep
<1>3. CASE OutputStep
  <2>1. UNCHANGED << ivars, ibuf, mvars >>
    BY <1>3 DEF OutputStep, LockOutput, StoreRtd, DropRtd, UnlockOutput, OutputThrows, Abort
  <2>. QED
    BY <2>1, OtherStepDepth
<1>4. CASE UNCHANGED vars
  BY <1>4, OtherStepDepth DEF vars
<1>. QED
  BY <1>1, <1>2, <1>3, <1>4 DEF Next, Ended

(***************************************************************************)
(* For sorted inputs and any safety depth: a run with a shallow input      *)
(* never returns, however its threads are scheduled.                       *)
(***************************************************************************)
THEOREM ShallowInputsNeverReturn ==
  ASSUME SortedStreams
  PROVE  Spec => []ShallowNeverReturns
<1>1. Spec => Init /\ [][Next]_vars
  BY DEF Spec, Safety
<1>2. PassInv => OrderKept
  BY DEF PassInv, OrderKept, SortedStreams, SortedInputs
<1>3. Init => DepthInv
  BY InitDepth
<1>4. PassInv /\ DepthInv /\ [Next]_vars => DepthInv'
  <2>1. PassInv => TypeOK
    BY DEF PassInv
  <2>. QED
    BY <1>2, <2>1, NextType, NextDepth
<1>5. PassInv /\ DepthInv => ShallowNeverReturns
  <2>. SUFFICES ASSUME PassInv, DepthInv, NEW i \in Inputs, Shallow(i), AllJoined PROVE FALSE
    BY DEF ShallowNeverReturns
  <2>1. PICK k \in GroupStarts(stream[i]) : ShallowAt(i, k)
    BY DEF Shallow, ShallowAt
  <2>2. Popped(i) < k /\ Popped(i) = Len(stream[i])
    BY <2>1, AllPopped DEF DepthInv, Barred
  <2>3. k \in 1 .. Len(stream[i]) /\ Len(stream[i]) \in Nat
    BY StreamFacts DEF GroupStarts, PassInv
  <2>. QED
    BY <2>2, <2>3
<1>6. Spec => []PassInv
  BY PassInvariant
<1>. QED
  BY <1>1, <1>3, <1>4, <1>5, <1>6, PTL
=============================================================================
