-------------------------- MODULE RtdBuilderProofs --------------------------
(***************************************************************************)
(* Proofs about the RTD builder, for any number of inputs, any capacities  *)
(* and any input files.                                                    *)
(***************************************************************************)
EXTENDS RtdBuilderProps, RhdBufferProofs

-----------------------------------------------------------------------------
(***************************************************************************)
(* Type correctness.                                                       *)
(***************************************************************************)
LEMMA InitType == Init => TypeOK
<1>. SUFFICES ASSUME Init PROVE TypeOK
  OBVIOUS
<1>1. InputTypeOK
  <2>1. stream \in [Inputs -> Seq(Rhd)]
    BY StreamsAssumption DEF Init
  <2>2. EmptyBuffer \in BufferOf(Rhd)
    BY DEF EmptyBuffer, BufferOf
  <2>. QED
    BY <2>1, <2>2 DEF Init, InputTypeOK
<1>2. MergerTypeOK
  <2>1. rtd \in Rtd /\ built \in Seq(Rtd)
    BY DEF Init, NoRtd, Rtd
  <2>2. midx \in Inputs /\ mmin \in Nat \cup {INVALID_TRIGGER_ID} /\ nfinished \in Nat
    BY BuilderAssumption DEF Init, Inputs
  <2>. QED
    BY <2>1, <2>2 DEF Init, MergerTypeOK, MergerLocations
<1>3. OutputTypeOK
  <2>1. obuf \in Seq(Rtd) /\ orecords \in Nat /\ ostored \in Nat
    BY DEF Init
  <2>. QED
    BY <2>1 DEF Init, OutputTypeOK
<1>4. WriterTypeOK
  <2>1. << << >> >> \in Seq(Seq(Rtd)) /\ << << >> >> # << >>
    OBVIOUS
  <2>. QED
    BY <2>1, BuilderAssumption DEF Init, WriterTypeOK, Writer!WriterInit
<1>. QED
  BY <1>1, <1>2, <1>3, <1>4 DEF TypeOK, Init

LEMMA InputStepType ==
  ASSUME TypeOK, NEW i \in Inputs, InputStep(i)
  PROVE  TypeOK'
<1>1. CASE LoadRecord(i)
  <2>1. NextRecord(i) \in Rhd
    BY <1>1, ElementOfSeq DEF LoadRecord, NextRecord, HasRecordTag, TypeOK, InputTypeOK
  <2>. QED
    BY <1>1, <2>1
    DEF LoadRecord, TypeOK, InputTypeOK, MergerTypeOK, OutputTypeOK, WriterTypeOK,
        ivars, mvars, ovars, writervars
<1>2. CASE InsertHeld(i)
  <2>1. held[i] \in Rhd /\ ibuf[i] \in BufferOf(Rhd)
    BY <1>2 DEF InsertHeld, TypeOK, InputTypeOK
  <2>2. InsertRecord(ibuf[i], held[i]) \in BufferOf(Rhd)
    BY <2>1, InsertRecordType DEF Rhd
  <2>. QED
    BY <1>2, <2>2
    DEF InsertHeld, TypeOK, InputTypeOK, MergerTypeOK, OutputTypeOK, WriterTypeOK,
        ivars, mvars, ovars, writervars
<1>3. CASE TerminateInput(i)
  <2>1. Terminate(ibuf[i]) \in BufferOf(Rhd)
    BY DEF Terminate, BufferOf, TypeOK, InputTypeOK
  <2>. QED
    BY <1>3, <2>1
    DEF TerminateInput, TypeOK, InputTypeOK, MergerTypeOK, OutputTypeOK, WriterTypeOK,
        ivars, mvars, ovars, writervars
<1>4. CASE InputThrows(i)
  BY <1>4
  DEF InputThrows, Abort, TypeOK, InputTypeOK, MergerTypeOK, OutputTypeOK, WriterTypeOK,
      ivars, mvars, ovars, writervars
<1>. QED
  BY <1>1, <1>2, <1>3, <1>4 DEF InputStep

LEMMA MergerStepType ==
  ASSUME TypeOK, MergerStep
  PROVE  TypeOK'
<1>. USE DEF TypeOK, InputTypeOK, MergerTypeOK, OutputTypeOK, WriterTypeOK
<1>0. /\ 1 \in Inputs
      /\ midx < NInputs => midx + 1 \in Inputs
  BY BuilderAssumption DEF Inputs
<1>1. CASE ScanBuffer
  <2>1. NextPoppable(ibuf[midx], MinPop) \in Nat \cup {INVALID_TRIGGER_ID}
    BY NextPoppableType
  <2>2. mmin' \in Nat \cup {INVALID_TRIGGER_ID}
    BY <1>1, <2>1 DEF ScanBuffer, LowerOf
  <2>3. midx' \in Inputs /\ mpc' \in MergerLocations
    BY <1>0, <1>1 DEF ScanBuffer, AdvanceLoop, MergerLocations
  <2>. QED
    BY <1>1, <2>2, <2>3 DEF ScanBuffer, ivars, ovars, writervars
<1>2. CASE PushRtd
  <2>1. NoRtd \in Rtd
    BY DEF NoRtd, Rtd
  <2>2. Append(obuf, rtd) \in Seq(Rtd) /\ Append(built, rtd) \in Seq(Rtd)
    OBVIOUS
  <2>. QED
    BY <1>2, <2>1, <2>2 DEF PushRtd, MergerLocations, ivars, ovars, writervars
<1>3. CASE BeginCollect
  <2>1. [trig |-> mmin, recs |-> << >>] \in Rtd
    BY DEF Rtd
  <2>. QED
    BY <1>0, <1>3, <2>1 DEF BeginCollect, MergerLocations, ivars, ovars, writervars
<1>4. ASSUME CountOrEnd
      PROVE  /\ midx' \in Inputs
             /\ mpc' \in MergerLocations
             /\ mmin' \in Nat \cup {INVALID_TRIGGER_ID}
             /\ nfinished' \in Nat
  BY <1>0, <1>4 DEF CountOrEnd, EndPass, MergerLocations
<1>5. CASE SkipCollect
  BY <1>4, <1>5 DEF SkipCollect, ivars, ovars, writervars
<1>6. CASE PopMatching
  <2>1. /\ PopRecord(ibuf[midx]) \in BufferOf(Rhd)
        /\ Head(ibuf[midx].recs) \in Rhd
    BY <1>6, PopRecordType DEF PopMatching, Matching, IsEmpty, Rhd
  <2>2. InstallRhd(rtd, Head(ibuf[midx].recs)) \in Rtd
    BY <2>1 DEF InstallRhd, Rtd
  <2>. QED
    BY <1>6, <2>1, <2>2 DEF PopMatching, ivars, ovars, writervars
<1>7. CASE LeaveBuffer
  <2>1. /\ midx' \in Inputs
        /\ mpc' \in MergerLocations
        /\ mmin' \in Nat \cup {INVALID_TRIGGER_ID}
        /\ nfinished' \in Nat
    BY <1>0, <1>4, <1>7 DEF LeaveBuffer
  <2>. QED
    BY <1>7, <2>1 DEF LeaveBuffer, ivars, ovars, writervars
<1>8. CASE CountBuffer
  <2>1. /\ midx' \in Inputs
        /\ mpc' \in MergerLocations
        /\ mmin' \in Nat \cup {INVALID_TRIGGER_ID}
        /\ nfinished' \in Nat
    <3>1. CASE midx < NInputs
      BY <1>0, <1>8, <3>1 DEF CountBuffer
    <3>2. CASE ~ (midx < NInputs)
      <4>1. EndPass(allFin', rtd)
        BY <1>8, <3>2 DEF CountBuffer
      <4>. QED
        BY <1>0, <4>1 DEF EndPass, MergerLocations
    <3>. QED
      BY <3>1, <3>2
  <2>2. allFin' \in BOOLEAN
    BY <1>8 DEF CountBuffer
  <2>. QED
    BY <1>8, <2>1, <2>2 DEF CountBuffer, ivars, ovars, writervars
<1>9. CASE TerminateOutput
  <2>1. NoRtd \in Rtd
    BY DEF NoRtd, Rtd
  <2>. QED
    BY <1>9, <2>1 DEF TerminateOutput, MergerLocations, ivars, ovars, writervars
<1>10. CASE MergerThrows
  BY <1>10 DEF MergerThrows, Abort, ivars, mvars, ovars, writervars
<1>. QED
  BY <1>1, <1>2, <1>3, <1>5, <1>6, <1>7, <1>8, <1>9, <1>10 DEF MergerStep

LEMMA OpenFileType ==
  ASSUME NEW D, NEW fs \in Seq(Seq(D))
  PROVE  Append(fs, << >>) \in Seq(Seq(D)) /\ Append(fs, << >>) # << >>
<1>. DEFINE F == Seq(D)
<1>1. << >> \in F
  OBVIOUS
<1>. HIDE DEF F
<1>2. fs \in Seq(F)
  BY DEF F
<1>3. Append(fs, << >>) \in Seq(F) /\ Append(fs, << >>) # << >>
  BY <1>1, <1>2, AppendProperties
<1>. QED
  BY <1>3 DEF F

LEMMA OutputStepType ==
  ASSUME TypeOK, OutputStep
  PROVE  TypeOK'
<1>. USE DEF TypeOK, InputTypeOK, MergerTypeOK, OutputTypeOK, WriterTypeOK
<1>1. CASE LockOutput
  BY <1>1 DEF LockOutput, ivars, mvars, writervars
<1>2. CASE StoreRtd
  <2>1. Head(obuf) \in Rtd /\ Tail(obuf) \in Seq(Rtd)
    BY <1>2, HeadTailProperties DEF StoreRtd
  <2>2. CASE Writer!StoreOverruns
    BY <1>2, <2>1, <2>2 DEF StoreRtd, Writer!StoreOverruns, ivars, mvars
  <2>3. CASE Writer!StoreWrites(Head(obuf))
    <3>. DEFINE opened == IF Writer!FileIsFull THEN Append(files, << >>) ELSE files
    <3>1. << >> \in Seq(Rtd)
      OBVIOUS
    <3>2. opened \in Seq(Seq(Rtd)) /\ opened # << >>
      BY OpenFileType
    <3>3. Len(opened) \in DOMAIN opened
      BY <3>2, EmptySeq, LenProperties
    <3>. HIDE DEF opened
    <3>4. opened[Len(opened)] \in Seq(Rtd)
      BY <3>2, <3>3, ElementOfSeq
    <3>5. Append(opened[Len(opened)], Head(obuf)) \in Seq(Rtd)
      BY <2>1, <3>4, AppendProperties
    <3>6. files' = [opened EXCEPT ![Len(opened)] = Append(@, Head(obuf))]
      BY <2>3 DEF Writer!StoreWrites, opened
    <3>7. files' \in Seq(Seq(Rtd)) /\ files' # << >>
      BY <3>2, <3>3, <3>5, <3>6, ExceptSeq
    <3>8. nrecords' \in Nat /\ counter' \in Nat /\ terminated' \in BOOLEAN
      BY <2>3 DEF Writer!StoreWrites
    <3>. QED
      BY <1>2, <2>1, <2>3, <3>7, <3>8 DEF StoreRtd, Writer!StoreWrites, ivars, mvars
  <2>. QED
    BY <1>2, <2>2, <2>3 DEF StoreRtd, Writer!Store
<1>3. CASE DropRtd
  BY <1>3, HeadTailProperties DEF DropRtd, ivars, mvars, writervars
<1>4. CASE UnlockOutput
  BY <1>4 DEF UnlockOutput, ivars, mvars, writervars
<1>5. CASE OutputThrows
  BY <1>5 DEF OutputThrows, Abort, ivars, mvars, ovars, writervars
<1>. QED
  BY <1>1, <1>2, <1>3, <1>4, <1>5 DEF OutputStep

LEMMA NextType == TypeOK /\ [Next]_vars => TypeOK'
<1>. SUFFICES ASSUME TypeOK, [Next]_vars PROVE TypeOK'
  OBVIOUS
<1>1. CASE vars' = vars
  BY <1>1
  DEF vars, ivars, mvars, ovars, writervars, TypeOK, InputTypeOK, MergerTypeOK,
      OutputTypeOK, WriterTypeOK
<1>2. CASE Next
  BY <1>1, <1>2, InputStepType, MergerStepType, OutputStepType DEF Next, Ended
<1>. QED
  BY <1>1, <1>2

(***************************************************************************)
(* The builder's variables keep the domains of their C++ types.            *)
(***************************************************************************)
THEOREM TypeCorrect == Spec => []TypeOK
<1>1. Spec => Init /\ [][Next]_vars
  BY DEF Spec, Safety
<1>. QED
  BY <1>1, InitType, NextType, PTL
=============================================================================
