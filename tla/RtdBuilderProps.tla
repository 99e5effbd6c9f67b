-------------------------- MODULE RtdBuilderProps --------------------------
(***************************************************************************)
(* What the RTD builder has to guarantee, and the inductive invariant that *)
(* explains why it does for sorted inputs.                                 *)
(***************************************************************************)
EXTENDS RtdBuilder

-----------------------------------------------------------------------------
(***************************************************************************)
(* Type correctness.                                                       *)
(***************************************************************************)
MergerLocations ==
  {"scan", "decide", "process", "collect", "count", "stopping", "done"}

InputTypeOK ==
  /\ stream \in [Inputs -> Seq(Rhd)]
  /\ taken \in [Inputs -> Nat]
  /\ held \in [Inputs -> Rhd \cup {NoRec}]
  /\ running \in [Inputs -> BOOLEAN]
  /\ ibuf \in [Inputs -> BufferOf(Rhd)]

MergerTypeOK ==
  /\ mpc \in MergerLocations
  /\ midx \in Inputs
  /\ mmin \in Nat \cup {INVALID_TRIGGER_ID}
  /\ popping \in BOOLEAN
  /\ nfinished \in Nat
  /\ allFin \in BOOLEAN
  /\ rtd \in Rtd
  /\ built \in Seq(Rtd)

OutputTypeOK ==
  /\ obuf \in Seq(Rtd)
  /\ oterm \in BOOLEAN
  /\ opc \in {"run", "drain", "done"}
  /\ ostop \in BOOLEAN
  /\ orecords \in Nat
  /\ ostored \in Nat

WriterTypeOK ==
  /\ filenames \in Nat \ {0}
  /\ files \in Seq(Seq(Rtd)) /\ files # << >>
  /\ nrecords \in Nat
  /\ counter \in Nat
  /\ terminated \in BOOLEAN

\* Every variable of the builder stays in the domain its C++ type gives it.
TypeOK ==
  /\ aborted \in BOOLEAN
  /\ InputTypeOK
  /\ MergerTypeOK
  /\ OutputTypeOK
  /\ WriterTypeOK

-----------------------------------------------------------------------------
(***************************************************************************)
(* How far each input has come.  Records 1 .. Popped(i) of stream i have   *)
(* left the buffer, Popped(i)+1 .. Inserted(i) are in it.                  *)
(***************************************************************************)
Inserted(i) == IF held[i] = NoRec THEN taken[i] ELSE taken[i] - 1

Popped(i) == Inserted(i) - Len(ibuf[i].recs)

(***************************************************************************)
(* r holds every record of its trigger ID that stream positions 1 .. n[i]  *)
(* of each input i have, nothing else, and nothing twice.                  *)
(***************************************************************************)
Holds(r, n) ==
  \A i \in Inputs : \A k \in 1 .. n[i] :
    stream[i][k].trig = r.trig => \E m \in DOMAIN r.recs : r.recs[m] = stream[i][k]

FromStreams(r, n) ==
  \A m \in DOMAIN r.recs :
    /\ r.recs[m].trig = r.trig
    /\ \E i \in Inputs : \E k \in 1 .. n[i] : r.recs[m] = stream[i][k]

NoRepeat(r) == \A m, p \in DOMAIN r.recs : r.recs[m] = r.recs[p] => m = p

Lengths == [i \in Inputs |-> Len(stream[i])]

(***************************************************************************)
(* Every RTD the merger hands to the output (PushRtd) has all the records  *)
(* of its trigger ID from all the input files, only them, each once,       *)
(* although the merger only sees the fronts of buffers that the input      *)
(* threads are filling meanwhile.                                          *)
(***************************************************************************)
EventComplete(r) == Holds(r, Lengths) /\ FromStreams(r, Lengths) /\ NoRepeat(r)

EventsComplete == \A n \in DOMAIN built : EventComplete(built[n])

(***************************************************************************)
(* RTDs leave the merger in strictly increasing order of trigger ID: none  *)
(* is built twice and none late.                                           *)
(***************************************************************************)
EventsOrdered == \A m, n \in DOMAIN built : m < n => built[m].trig < built[n].trig

(***************************************************************************)
(* When the merger has stopped, every record of every input file is in     *)
(* some RTD it has built: no record is left in a buffer or dropped by the  *)
(* detection of the end of the inputs.                                     *)
(***************************************************************************)
InAnEvent(rec) == \E n \in DOMAIN built : \E m \in DOMAIN built[n].recs : built[n].recs[m] = rec

NothingLost ==
  mpc \in {"stopping", "done"} =>
    \A i \in Inputs : \A k \in DOMAIN stream[i] : InAnEvent(stream[i][k])

(***************************************************************************)
(* The output files, one after the other and each full before the next is  *)
(* opened, hold the first `counter' RTDs the merger built, in its order:   *)
(* what the output worker drains while the merger keeps pushing is neither *)
(* lost, repeated nor reordered up to the point where the writer stops.    *)
(***************************************************************************)
LastFile == files[Len(files)]

FilesHoldPrefix ==
  /\ orecords + Len(obuf) = Len(built)
  /\ counter = (Len(files) - 1) * MaxPerFile + Len(LastFile)
  /\ \A f \in 1 .. Len(files) - 1 : Len(files[f]) = MaxPerFile
  /\ \A f \in DOMAIN files : \A k \in DOMAIN files[f] :
       files[f][k] = built[(f - 1) * MaxPerFile + k]

-----------------------------------------------------------------------------
(***************************************************************************)
(* Which inputs the builder accepts: known and complete records, sorted,   *)
(* at most one trigger record for a trigger ID, hits for every trigger ID  *)
(* if complete RTDs are forced, and enough output files unless the writer  *)
(* is told to stop before (MaxTotal) or when (TerminateOnOverrun) they are *)
(* full.                                                                   *)
(***************************************************************************)
Records == UNION {{stream[i][k] : k \in DOMAIN stream[i]} : i \in Inputs}

Triggers == {r.trig : r \in Records}

Room == OutputFiles * MaxPerFile

OutputFits ==
  \/ MaxPerFile = 0
  \/ TerminateOnOverrun
  \/ MaxTotal \in 1 .. Room
  \/ Cardinality(Triggers) <= Room

Acceptable ==
  /\ \A r \in Records : r.kind \notin {"incomplete", "unknown"}
  /\ \A i \in Inputs : Sorted(stream[i])
  /\ \A r, s \in Records : r.kind = "trig" /\ s.kind = "trig" /\ r.trig = s.trig => r = s
  /\ ForceComplete => \A t \in Triggers : \E r \in Records : r.trig = t /\ r.kind \in HitKinds
  /\ OutputFits

(***************************************************************************)
(* How a run ends depends on its inputs alone, not on the scheduling.  An  *)
(* exception kills it only for inputs that are not acceptable: the checks  *)
(* of insert_record, install_rhd, of complete RTDs and of the writer never *)
(* misfire, whatever the threads see of each other's progress ...          *)
(***************************************************************************)
FailureJustified == aborted => ~ Acceptable

(***************************************************************************)
(* ... and it only returns normally for inputs that are acceptable.        *)
(***************************************************************************)
ReturnJustified == AllJoined => Acceptable

(***************************************************************************)
(* A run that returns has written all the RTDs its limits allow, even if   *)
(* the output worker stopped while the merger was still building.          *)
(***************************************************************************)
Limits ==
  {Cardinality(Triggers)}
    \cup (IF MaxTotal > 0 THEN {MaxTotal} ELSE {})
    \cup (IF MaxPerFile > 0 THEN {Room} ELSE {})

FilesComplete == AllJoined => counter \in Limits /\ \A n \in Limits : counter <= n

(***************************************************************************)
(* What the assertion of builder.cc:294 says ("Unsorted input RHD! This is *)
(* a bug!"): an input that is not sorted by trigger ID is detected, unless *)
(* unsorted records were asked for.                                        *)
(***************************************************************************)
UnsortedDetected ==
  (MinPop <= 1 /\ \E i \in Inputs : ~ Sorted(stream[i])) ~> aborted

(***************************************************************************)
(* What builder.cc:276 says of insert_record ("Insert a new record in the  *)
(* buffer", its diagrams show one place for each record): a record that is *)
(* accepted out of order is in the RTD of its trigger ID once.             *)
(***************************************************************************)
EachRecordOnce == \A n \in DOMAIN built : NoRepeat(built[n])

-----------------------------------------------------------------------------
(***************************************************************************)
(* builder::run returns: every thread ends, whatever the order in which    *)
(* they are scheduled (unless an exception ends the program).              *)
(***************************************************************************)
RunReturns == <>(aborted \/ AllJoined)

(***************************************************************************)
(* With accept_unsorted_records a buffer cannot be popped before it holds  *)
(* MinPop trigger IDs (or its input has ended).  An input is shallow if    *)
(* somewhere a full buffer that begins with a new trigger ID shows fewer,  *)
(* and the input goes on after it.                                         *)
(***************************************************************************)
GroupStarts(recs) == {k \in DOMAIN recs : k = 1 \/ recs[k - 1].trig # recs[k].trig}

Window(recs, k, n) == SubSeq(recs, k, k + n - 1)

Shallow(i) ==
  /\ Capacity[i] > 0
  /\ \E k \in GroupStarts(stream[i]) :
       /\ k + Capacity[i] <= Len(stream[i])
       /\ Cardinality(TrigIdsOf(Window(stream[i], k, Capacity[i]))) < MinPop

(***************************************************************************)
(* builder::run returns for sorted hits whose full buffers always show the *)
(* merger enough trigger IDs, however the threads are scheduled ...        *)
(***************************************************************************)
ReturnsUnlessShallow == (\A i \in Inputs : ~ Shallow(i)) => <>AllJoined

(***************************************************************************)
(* ... and never for others: the input thread waits for room in its buffer *)
(* and the merger for one more trigger ID in it, for ever and whatever the *)
(* order of events.  With the defaults of builder_config.h:165-172 (100    *)
(* calorimeter records, depth 3) any 100 records of two trigger IDs do it. *)
(***************************************************************************)
ShallowNeverReturns == (\E i \in Inputs : Shallow(i)) => ~ AllJoined

(***************************************************************************)
(* The merger builds the events the abstract specification emits.          *)
(***************************************************************************)
RecsOf(r) == {r.recs[m] : m \in DOMAIN r.recs}

EventsOf(rtds) == [n \in DOMAIN rtds |-> [trig |-> rtds[n].trig, recs |-> RecsOf(rtds[n])]]

Abstract == INSTANCE EventBuilding WITH Sources <- Inputs, events <- EventsOf(built)

BuildsEvents == Abstract!Spec

-----------------------------------------------------------------------------
(***************************************************************************)
(* Why the events are complete and ordered when the inputs are sorted.     *)
(*                                                                         *)
(* BufferInv: a buffer is a window of its stream, and what it says of      *)
(* itself (front, trigger IDs, terminated) is true.                        *)
(***************************************************************************)
BufferInv(i) ==
  /\ taken[i] <= Len(stream[i])
  /\ held[i] # NoRec => taken[i] > 0 /\ held[i] = stream[i][taken[i]]
  /\ Len(ibuf[i].recs) <= Inserted(i)
  /\ \A k \in 1 .. Len(ibuf[i].recs) : ibuf[i].recs[k] = stream[i][Popped(i) + k]
  /\ ibuf[i].front = FrontTrigId(ibuf[i].recs)
  /\ ibuf[i].trigIds = TrigIdsOf(ibuf[i].recs)
  /\ ibuf[i].terminated => held[i] = NoRec /\ taken[i] = Len(stream[i])
  /\ running[i] = ~ ibuf[i].terminated

(***************************************************************************)
(* OrderInv: the merger's horizon (the working RTD, or the last one pushed) *)
(* separates what has left the buffers from what has not.                  *)
(***************************************************************************)
LastTrig == IF built = << >> THEN INVALID_TRIGGER_ID ELSE built[Len(built)].trig

Unpopped(i) == Popped(i) + 1 .. Len(stream[i])

OrderInv ==
  /\ HasRtd => LastTrig < rtd.trig
  /\ \A i \in Inputs : \A k \in 1 .. Popped(i) :
       stream[i][k].trig <= (IF HasRtd THEN rtd.trig ELSE LastTrig)
  /\ \A i \in Inputs : \A k \in Unpopped(i) :
       /\ stream[i][k].trig > LastTrig
       /\ HasRtd => stream[i][k].trig >= rtd.trig

(***************************************************************************)
(* ContentInv: the working RTD has what was popped of its trigger ID, and  *)
(* whatever else was popped belongs to a trigger ID already built.         *)
(***************************************************************************)
PoppedSoFar == [i \in Inputs |-> Popped(i)]

ContentInv ==
  /\ HasRtd => Holds(rtd, PoppedSoFar) /\ FromStreams(rtd, PoppedSoFar)
  /\ NoRepeat(rtd)
  /\ \A i \in Inputs : \A k \in 1 .. Popped(i) :
       \/ HasRtd /\ stream[i][k].trig = rtd.trig
       \/ \E n \in DOMAIN built : built[n].trig = stream[i][k].trig

(***************************************************************************)
(* ScanInv: what the scan has found of the buffers it has visited remains  *)
(* true while the input threads go on filling them.                        *)
(***************************************************************************)
Visited == IF mpc = "scan" THEN 1 .. midx - 1 ELSE Inputs

ScanInv ==
  /\ mpc = "scan" /\ ~ Fetchable => \A j \in Visited : IsFinished(ibuf[j])
  /\ mpc \in {"scan", "decide", "process"} /\ Fetchable =>
       /\ \A j \in Visited : \A k \in Unpopped(j) : stream[j][k].trig >= mmin
       /\ \E j \in Visited : \E k \in Unpopped(j) : stream[j][k].trig = mmin

(***************************************************************************)
(* FinishInv: the merger believes that the inputs are finished only if     *)
(* they are, and stops with nothing in its hands.                          *)
(***************************************************************************)
FinishInv ==
  /\ allFin => \A i \in Inputs : IsFinished(ibuf[i])
  /\ mpc # "count" => nfinished = 0
  /\ mpc = "count" =>
       /\ nfinished < midx
       /\ nfinished + 1 = midx => \A j \in 1 .. midx - 1 : IsFinished(ibuf[j])
  /\ allFin /\ mpc \in {"scan", "decide"} => HasRtd
  /\ mpc \in {"stopping", "done"} => allFin /\ ~ HasRtd

EventInv ==
  /\ \A i \in Inputs : BufferInv(i)
  /\ OrderInv
  /\ ContentInv
  /\ ScanInv
  /\ FinishInv
  /\ EventsComplete
  /\ EventsOrdered
=============================================================================
