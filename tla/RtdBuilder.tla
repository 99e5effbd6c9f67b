----------------------------- MODULE RtdBuilder -----------------------------
(***************************************************************************)
(* The RTD builder of programs/rhd2rtd/builder.cc while builder::run is    *)
(* executing: one thread per input source reads raw hit records (RHD) into *)
(* its own bounded buffer, one merger thread collects from all the buffers *)
(* the records of one trigger ID after the other into raw trigger data     *)
(* (RTD), one output thread stores them with a multi-file writer.          *)
(*                                                                         *)
(*   stream[i] -> input worker i -> ibuf[i] -.                             *)
(*                                            > merger -> obuf -> output   *)
(*   stream[j] -> input worker j -> ibuf[j] -'            worker -> files  *)
(*                                                                         *)
(* Every section of code that holds a mutex is one action, except the two  *)
(* that loop while they hold it: the merger popping an input buffer (imtx  *)
(* is then held by it) and the output worker draining the output buffer    *)
(* (omtx).  What a thread does on its own variables between two sections   *)
(* is part of one of the neighbouring actions.  A polling pass that        *)
(* changes nothing (a full buffer, an empty output buffer) is a stuttering *)
(* step.  An exception that leaves a thread function ends the program      *)
(* (std::terminate): `aborted'.                                            *)
(***************************************************************************)
EXTENDS RhdBuffer

CONSTANTS
  NInputs,         \* number of input sources (input_configs.size())
  Streams,         \* possible contents of the input files
  Capacity,        \* RHD buffer capacity of each input, 0 for no limit
  MinPop,          \* _min_popping_trig_ids_ of the buffers
  ForceComplete,   \* _force_complete_rtd_
  OutputFiles,     \* number of output files
  MaxPerFile, MaxTotal, TerminateOnOverrun   \* as in MultifileWriter

Inputs == 1 .. NInputs

Rhd == RhdOf(Inputs)

ASSUME BuilderAssumption ==
  /\ NInputs \in Nat \ {0}
  /\ Capacity \in [Inputs -> Nat]
  /\ MinPop \in Nat
  /\ ForceComplete \in BOOLEAN
  /\ OutputFiles \in Nat \ {0}
  /\ MaxPerFile \in Nat
  /\ MaxTotal \in Nat

(***************************************************************************)
(* A record of a stream is identified by its place in it.                  *)
(***************************************************************************)
ASSUME StreamsAssumption ==
  \A s \in Streams :
    /\ s \in [Inputs -> Seq(Rhd)]
    /\ \A i \in Inputs : \A k \in DOMAIN s[i] : s[i][k].src = i /\ s[i][k].pos = k

(***************************************************************************)
(* The inputs a run without --accept-unsorted-rhd is meant for.            *)
(***************************************************************************)
Sorted(recs) == \A j, k \in DOMAIN recs : j <= k => recs[j].trig <= recs[k].trig

SortedStreams == \A s \in Streams : \A i \in Inputs : Sorted(s[i])

VARIABLES
  aborted,   \* an exception has left one of the thread functions
  \* input workers
  stream,    \* what the reader of each input worker delivers, never changed
  taken,     \* records each input worker has loaded (_records_counter_)
  held,      \* the loaded record not yet in the buffer (rec), or NoRec
  running,   \* ~ _stop_request_ of each input worker
  ibuf,      \* the input buffers
  \* merger
  mpc,       \* where the merger is in its loop
  midx,      \* index of its current loop over the input buffers
  mmin,      \* mintrigid while it scans, fetchable_trig_id afterwards
  popping,   \* it holds the mutex of buffer midx
  nfinished, \* finished buffers counted in this pass
  allFin,    \* all_input_buffers_finished
  rtd,       \* the working RTD record
  built,     \* all the RTD records it has pushed, in order (history)
  \* output worker
  obuf,      \* FIFO of the output buffer
  oterm,     \* the output buffer is terminated
  opc,       \* where the output worker is in its loop
  ostop,     \* _stop_request_ of the output worker
  orecords,  \* _records_counter_
  ostored,   \* _stored_records_counter_
  \* its writer
  filenames, files, nrecords, counter, terminated

ivars == << stream, taken, held, running >>
mvars == << mpc, midx, mmin, popping, nfinished, allFin, rtd, built >>
ovars == << opc, ostop, orecords, ostored >>
writervars == << filenames, files, nrecords, counter, terminated >>
vars == << aborted, ivars, ibuf, mvars, obuf, oterm, ovars, writervars >>

Writer == INSTANCE MultifileWriter

NoRec == [src |-> 0, pos |-> 0, trig |-> INVALID_TRIGGER_ID, kind |-> "none"]

NoRtd == [trig |-> INVALID_TRIGGER_ID, recs |-> << >>]

Rtd == [trig : Nat \cup {INVALID_TRIGGER_ID}, recs : Seq(Rhd)]

Init ==
  /\ aborted = FALSE
  /\ stream \in Streams
  /\ taken = [i \in Inputs |-> 0]
  /\ held = [i \in Inputs |-> NoRec]
  /\ running = [i \in Inputs |-> TRUE]
  /\ ibuf = [i \in Inputs |-> EmptyBuffer]
  /\ mpc = "scan" /\ midx = 1 /\ mmin = INVALID_TRIGGER_ID
  /\ popping = FALSE /\ nfinished = 0 /\ allFin = FALSE
  /\ rtd = NoRtd
  /\ built = << >>
  /\ obuf = << >> /\ oterm = FALSE
  /\ opc = "run" /\ ostop = FALSE /\ orecords = 0 /\ ostored = 0
  /\ Writer!WriterInit(OutputFiles)

-----------------------------------------------------------------------------
(***************************************************************************)
(* Input worker i.                                                         *)
(***************************************************************************)
HasRecordTag(i) == taken[i] < Len(stream[i])

NextRecord(i) == stream[i][taken[i] + 1]

InputUnlocked(i) == ~ (popping /\ midx = i)

LoadRecord(i) ==
  /\ running[i]
  /\ held[i] = NoRec
  /\ HasRecordTag(i)
  /\ NextRecord(i).kind # "unknown"
  /\ held' = [held EXCEPT ![i] = NextRecord(i)]
  /\ taken' = [taken EXCEPT ![i] = @ + 1]
  /\ UNCHANGED << aborted, stream, running, ibuf, mvars, obuf, oterm, ovars, writervars >>

InsertHeld(i) ==
  /\ running[i]
  /\ held[i] # NoRec
  /\ InputUnlocked(i)
  /\ CanPush(ibuf[i], Capacity[i])
  /\ ~ InsertThrows(ibuf[i], held[i], MinPop)
  /\ ibuf' = [ibuf EXCEPT ![i] = InsertRecord(@, held[i])]
  /\ held' = [held EXCEPT ![i] = NoRec]
  /\ UNCHANGED << aborted, stream, taken, running, mvars, obuf, oterm, ovars, writervars >>

TerminateInput(i) ==
  /\ running[i]
  /\ held[i] = NoRec
  /\ ~ HasRecordTag(i)
  /\ InputUnlocked(i)
  /\ ibuf' = [ibuf EXCEPT ![i] = Terminate(@)]
  /\ running' = [running EXCEPT ![i] = FALSE]
  /\ UNCHANGED << aborted, stream, taken, held, mvars, obuf, oterm, ovars, writervars >>

(***************************************************************************)
(* An input thread dies on an object it does not know, and on a record     *)
(* older than the buffer if the records have to be sorted.                 *)
(***************************************************************************)
Abort ==
  /\ aborted' = TRUE
  /\ UNCHANGED << ivars, ibuf, mvars, obuf, oterm, ovars, writervars >>

InputThrows(i) ==
  /\ running[i]
  /\ \/ held[i] = NoRec /\ HasRecordTag(i) /\ NextRecord(i).kind = "unknown"
     \/ /\ held[i] # NoRec
        /\ InputUnlocked(i)
        /\ CanPush(ibuf[i], Capacity[i])
        /\ InsertThrows(ibuf[i], held[i], MinPop)
  /\ Abort

InputStep(i) ==
  \/ LoadRecord(i)
  \/ InsertHeld(i)
  \/ TerminateInput(i)
  \/ InputThrows(i)

-----------------------------------------------------------------------------
(***************************************************************************)
(* The merger.  "scan" is get_minimum_trigger_id_from_input_buffers, which *)
(* locks one buffer after the other.                                       *)
(***************************************************************************)
Fetchable == mmin # INVALID_TRIGGER_ID

HasRtd == rtd.trig # INVALID_TRIGGER_ID

\* Mutant: the first trigger ID found is kept.
FirstFound(min, t) == IF min = INVALID_TRIGGER_ID THEN t ELSE min

LowerOf(min, t) == IF min = INVALID_TRIGGER_ID \/ min > t THEN t ELSE min

\* Mutant: the loop index runs beyond the last buffer.
AdvancePastEnd(after) ==
  /\ midx' = midx + 1
  /\ mpc' = IF midx < NInputs THEN mpc ELSE after

(***************************************************************************)
(* What follows buffer midx in a loop over the buffers: the next one, or   *)
(* location `after' once all were visited.                                 *)
(***************************************************************************)
AdvanceLoop(after) ==
  /\ midx' = IF midx < NInputs THEN midx + 1 ELSE 1
  /\ mpc' = IF midx < NInputs THEN mpc ELSE after

\* Mutant: a buffer that has nothing to pop yet is skipped instead of ending the scan.
ScanSkipsWaiting ==
  LET t == NextPoppable(ibuf[midx], MinPop)
  IN  /\ mpc = "scan"
      /\ AdvanceLoop("decide")
      /\ mmin' = IF t = INVALID_TRIGGER_ID THEN mmin ELSE LowerOf(mmin, t)
      /\ UNCHANGED << aborted, ivars, ibuf, popping, nfinished, allFin, rtd, built,
                      obuf, oterm, ovars, writervars >>

ScanBuffer ==
  LET b == ibuf[midx]
      t == NextPoppable(b, MinPop)
  IN  /\ mpc = "scan"
      /\ \/ /\ IsFinished(b)
            /\ AdvanceLoop("decide")
            /\ UNCHANGED mmin
         \/ /\ ~ IsFinished(b)
            /\ t # INVALID_TRIGGER_ID
            /\ AdvanceLoop("decide")
            /\ mmin' = LowerOf(mmin, t)
         \/ /\ ~ IsFinished(b)
            /\ t = INVALID_TRIGGER_ID
            /\ mpc' = "decide"
            /\ midx' = 1
            /\ mmin' = INVALID_TRIGGER_ID
      /\ UNCHANGED << aborted, ivars, ibuf, popping, nfinished, allFin, rtd, built,
                      obuf, oterm, ovars, writervars >>

\* Mutant: the working RTD is pushed while its trigger ID can still be fetched.
PushEarly == IF Fetchable THEN HasRtd /\ rtd.trig <= mmin ELSE allFin

(***************************************************************************)
(* The working RTD is pushed when the inputs have moved beyond its trigger *)
(* ID, or when they have nothing left.                                     *)
(***************************************************************************)
PushCurrent == IF Fetchable THEN HasRtd /\ rtd.trig < mmin ELSE allFin

OutputUnlocked == opc # "drain"

IsComplete(r) == \E k \in DOMAIN r.recs : r.recs[k].kind \in HitKinds

\* Mutant: the output buffer is filled at the end it is drained from.
PushRtdFront ==
  /\ mpc = "decide"
  /\ PushCurrent
  /\ OutputUnlocked
  /\ ForceComplete => IsComplete(rtd)
  /\ obuf' = << rtd >> \o obuf
  /\ built' = Append(built, rtd)
  /\ rtd' = NoRtd
  /\ mpc' = "process"
  /\ UNCHANGED << aborted, ivars, ibuf, midx, mmin, popping, nfinished, allFin, oterm,
                  ovars, writervars >>

\* Mutant: the working RTD is not reset once it is pushed.
PushRtdAgain ==
  /\ mpc = "decide"
  /\ PushCurrent
  /\ OutputUnlocked
  /\ ForceComplete => IsComplete(rtd)
  /\ obuf' = Append(obuf, rtd)
  /\ built' = Append(built, rtd)
  /\ mpc' = "process"
  /\ UNCHANGED << aborted, ivars, ibuf, midx, mmin, popping, nfinished, allFin, rtd,
                  oterm, ovars, writervars >>

PushRtd ==
  /\ mpc = "decide"
  /\ PushCurrent
  /\ OutputUnlocked
  /\ ForceComplete => IsComplete(rtd)
  /\ obuf' = Append(obuf, rtd)
  /\ built' = Append(built, rtd)
  /\ rtd' = NoRtd
  /\ mpc' = "process"
  /\ UNCHANGED << aborted, ivars, ibuf, midx, mmin, popping, nfinished, allFin, oterm,
                  ovars, writervars >>

Decided == mpc = "process" \/ (mpc = "decide" /\ ~ PushCurrent)

\* Mutant: the merger stops with an RTD under way.
EndPassAtOnce(finished, current) ==
  /\ midx' = 1
  /\ mmin' = INVALID_TRIGGER_ID
  /\ nfinished' = 0
  /\ mpc' = IF finished THEN "stopping" ELSE "scan"

(***************************************************************************)
(* The end of a pass of the main loop: stop once all the inputs are        *)
(* finished and no RTD is under way, else scan again.  The local variables *)
(* of the pass go out of scope.                                            *)
(***************************************************************************)
EndPass(finished, current) ==
  /\ midx' = 1
  /\ mmin' = INVALID_TRIGGER_ID
  /\ nfinished' = 0
  /\ mpc' = IF finished /\ current.trig = INVALID_TRIGGER_ID THEN "stopping" ELSE "scan"

(***************************************************************************)
(* The finished buffers are counted at the end of a pass, unless all of    *)
(* them were found finished in an earlier one.                             *)
(***************************************************************************)
CountOrEnd ==
  IF allFin
  THEN EndPass(allFin, rtd')
  ELSE mpc' = "count" /\ midx' = 1 /\ UNCHANGED << mmin, nfinished >>

BeginCollect ==
  /\ Decided
  /\ Fetchable
  /\ rtd' = IF HasRtd THEN rtd ELSE [trig |-> mmin, recs |-> << >>]
  /\ mpc' = "collect"
  /\ midx' = 1
  /\ UNCHANGED << aborted, ivars, ibuf, mmin, popping, nfinished, allFin, built, obuf,
                  oterm, ovars, writervars >>

SkipCollect ==
  /\ Decided
  /\ ~ Fetchable
  /\ UNCHANGED rtd
  /\ CountOrEnd
  /\ UNCHANGED << aborted, ivars, ibuf, popping, allFin, built, obuf, oterm, ovars,
                  writervars >>

(***************************************************************************)
(* The front record of buffer midx belongs to the working RTD.             *)
(***************************************************************************)
Matching == ~ IsEmpty(ibuf[midx]) /\ ibuf[midx].front = rtd.trig

\* Mutant: incomplete records are installed.
InstallThrowsUnchecked(r, rec) ==
  \/ rec.trig # r.trig
  \/ rec.kind = "trig" /\ \E k \in DOMAIN r.recs : r.recs[k].kind = "trig"

InstallThrows(r, rec) ==
  \/ rec.trig # r.trig
  \/ rec.kind = "incomplete"
  \/ rec.kind = "trig" /\ \E k \in DOMAIN r.recs : r.recs[k].kind = "trig"

InstallRhd(r, rec) == [trig |-> r.trig, recs |-> Append(r.recs, rec)]

PopMatching ==
  /\ mpc = "collect"
  /\ Matching
  /\ ~ InstallThrows(rtd, Head(ibuf[midx].recs))
  /\ popping' = TRUE
  /\ ibuf' = [ibuf EXCEPT ![midx] = PopRecord(@)]
  /\ rtd' = InstallRhd(rtd, Head(ibuf[midx].recs))
  /\ UNCHANGED << aborted, ivars, mpc, midx, mmin, nfinished, allFin, built, obuf, oterm,
                  ovars, writervars >>

LeaveBuffer ==
  /\ mpc = "collect"
  /\ ~ Matching
  /\ popping' = FALSE
  /\ UNCHANGED rtd
  /\ IF midx < NInputs
     THEN midx' = midx + 1 /\ UNCHANGED << mpc, mmin, nfinished >>
     ELSE CountOrEnd
  /\ UNCHANGED << aborted, ivars, ibuf, allFin, built, obuf, oterm, ovars, writervars >>

CountBuffer ==
  LET n == IF IsFinished(ibuf[midx]) THEN nfinished + 1 ELSE nfinished
  IN  /\ mpc = "count"
      /\ IF midx < NInputs
         THEN midx' = midx + 1 /\ nfinished' = n /\ UNCHANGED << mpc, mmin, allFin >>
         ELSE allFin' = (n = NInputs) /\ EndPass(allFin', rtd)
      /\ UNCHANGED << aborted, ivars, ibuf, popping, rtd, built, obuf, oterm, ovars,
                      writervars >>

TerminateOutput ==
  /\ mpc = "stopping"
  /\ OutputUnlocked
  /\ rtd' = NoRtd
  /\ oterm' = TRUE
  /\ mpc' = "done"
  /\ UNCHANGED << aborted, ivars, ibuf, midx, mmin, popping, nfinished, allFin, built,
                  obuf, ovars, writervars >>

(***************************************************************************)
(* The merger thread dies on an RTD without hits that must be complete,    *)
(* and on a record that cannot be installed in the working RTD.            *)
(***************************************************************************)
MergerThrows ==
  /\ \/ mpc = "decide" /\ PushCurrent /\ OutputUnlocked /\ ForceComplete /\ ~ IsComplete(rtd)
     \/ mpc = "collect" /\ Matching /\ InstallThrows(rtd, Head(ibuf[midx].recs))
  /\ Abort

MergerStep ==
  \/ ScanBuffer
  \/ PushRtd
  \/ BeginCollect
  \/ SkipCollect
  \/ PopMatching
  \/ LeaveBuffer
  \/ CountBuffer
  \/ TerminateOutput
  \/ MergerThrows

-----------------------------------------------------------------------------
\* Mutant: the output worker only wakes up for an RTD.
LockForRtd ==
  /\ opc = "run"
  /\ obuf # << >>
  /\ opc' = "drain"
  /\ UNCHANGED << aborted, ivars, ibuf, mvars, obuf, oterm, ostop, orecords, ostored,
                  writervars >>

(***************************************************************************)
(* The output worker.  It drains the output buffer with omtx locked; once  *)
(* the writer is terminated it drops what is left and stops.               *)
(***************************************************************************)
LockOutput ==
  /\ opc = "run"
  /\ obuf # << >> \/ oterm
  /\ opc' = "drain"
  /\ UNCHANGED << aborted, ivars, ibuf, mvars, obuf, oterm, ostop, orecords, ostored,
                  writervars >>

StoreRtd ==
  /\ opc = "drain"
  /\ obuf # << >>
  /\ Writer!Store(Head(obuf))
  /\ obuf' = Tail(obuf)
  /\ orecords' = orecords + 1
  /\ ostored' = ostored + 1
  /\ UNCHANGED << aborted, ivars, ibuf, mvars, oterm, opc, ostop >>

DropRtd ==
  /\ opc = "drain"
  /\ obuf # << >>
  /\ Writer!IsTerminated
  /\ obuf' = Tail(obuf)
  /\ orecords' = orecords + 1
  /\ ostop' = TRUE
  /\ UNCHANGED << aborted, ivars, ibuf, mvars, oterm, opc, ostored, writervars >>

\* Mutant: the output worker goes on when its buffer is terminated.
UnlockAndGoOn ==
  /\ opc = "drain"
  /\ obuf = << >>
  /\ opc' = IF ostop THEN "done" ELSE "run"
  /\ UNCHANGED << aborted, ivars, ibuf, mvars, obuf, oterm, ostop, orecords, ostored,
                  writervars >>

UnlockOutput ==
  /\ opc = "drain"
  /\ obuf = << >>
  /\ ostop' = (ostop \/ oterm)
  /\ opc' = IF ostop' THEN "done" ELSE "run"
  /\ UNCHANGED << aborted, ivars, ibuf, mvars, obuf, oterm, orecords, ostored, writervars >>

OutputThrows ==
  /\ opc = "drain"
  /\ obuf # << >>
  /\ ~ Writer!IsTerminated
  /\ Writer!StoreThrows
  /\ Abort

OutputStep ==
  \/ LockOutput
  \/ StoreRtd
  \/ DropRtd
  \/ UnlockOutput
  \/ OutputThrows

-----------------------------------------------------------------------------
(***************************************************************************)
(* builder::run returns when all the threads are joined.                   *)
(***************************************************************************)
AllJoined == (\A i \in Inputs : ~ running[i]) /\ mpc = "done" /\ opc = "done"

Ended == (aborted \/ AllJoined) /\ UNCHANGED vars

Next ==
  \/ ~ aborted /\ ((\E i \in Inputs : InputStep(i)) \/ MergerStep \/ OutputStep)
  \/ Ended

Safety == Init /\ [][Next]_vars

(***************************************************************************)
(* Each thread is scheduled again and again and gets a mutex that is free. *)
(***************************************************************************)
Fairness ==
  /\ \A i \in Inputs : WF_vars(~ aborted /\ InputStep(i))
  /\ WF_vars(~ aborted /\ MergerStep)
  /\ WF_vars(~ aborted /\ OutputStep)

Spec == Safety /\ Fairness
=============================================================================
