----------------------------- MODULE RhdBuffer -----------------------------
(***************************************************************************)
(* The input buffer of the RTD builder, struct rhd_buffer of               *)
(* programs/rhd2rtd/builder.cc: a FIFO of raw hit data records (RHD) with  *)
(* the set of the trigger IDs it holds and the trigger ID of its front     *)
(* record.  A buffer is a value; each operator is one member function.     *)
(*                                                                         *)
(* A raw hit record is [src, pos, trig, kind]: where it comes from (input  *)
(* source and position there, its identity), its trigger ID and what it    *)
(* is.  Kind "incomplete" stands for a hit or trigger record that fails    *)
(* is_complete(), "unknown" for a serialized object that is no RHD.        *)
(***************************************************************************)
EXTENDS Integers, Sequences, FiniteSets, SequencesExt

INVALID_TRIGGER_ID == -1

HitKinds == {"calo", "tracker"}
Kinds == HitKinds \cup {"trig", "incomplete", "unknown"}

RhdOf(sources) == [src : sources, pos : Nat \ {0}, trig : Nat, kind : Kinds]

BufferOf(records) ==
  [recs : Seq(records), trigIds : SUBSET Nat, front : Nat \cup {INVALID_TRIGGER_ID},
   terminated : BOOLEAN]

EmptyBuffer ==
  [recs |-> << >>, trigIds |-> {}, front |-> INVALID_TRIGGER_ID, terminated |-> FALSE]

(***************************************************************************)
(* The trigger IDs of a FIFO, and the largest of a non-empty set of them,  *)
(* which is *_trig_ids_.rbegin().                                          *)
(***************************************************************************)
TrigIdsOf(recs) == {recs[k].trig : k \in DOMAIN recs}

Newest(ids) == CHOOSE t \in ids : \A u \in ids : u <= t

IsEmpty(b) == b.recs = << >>

\* Mutant: a terminated buffer counts as finished although it still has records.
FinishedWhenTerminated(b) == b.terminated

IsFinished(b) == IsEmpty(b) /\ b.terminated

\* Mutant: capacity 0 is taken for "no room" instead of "no limit".
CanPushBelow(b, capacity) == Len(b.recs) < capacity

\* Mutant: the buffer takes one record more than its capacity.
CanPushOneMore(b, capacity) == ~ (capacity > 0 /\ Len(b.recs) > capacity)

CanPush(b, capacity) == ~ (capacity > 0 /\ Len(b.recs) >= capacity)

\* Mutant: two records of the same trigger ID are taken for unsorted.
OutOfStrictOrder(b, r) == ~ IsEmpty(b) /\ (r.trig <= b.front \/ r.trig < Newest(b.trigIds))

(***************************************************************************)
(* insert_record throws on a record older than what the buffer has, unless *)
(* it was built to take unsorted records (minPop > 1).                     *)
(***************************************************************************)
OutOfOrder(b, r) == ~ IsEmpty(b) /\ (r.trig < b.front \/ r.trig < Newest(b.trigIds))

InsertThrows(b, r, minPop) == minPop <= 1 /\ OutOfOrder(b, r)

(***************************************************************************)
(* Put r before the first record that is not older than it, at the end if  *)
(* there is none: behind the longest prefix of older records.              *)
(***************************************************************************)
OlderPrefix(recs, r) == {k \in DOMAIN recs : \A j \in 1 .. k : recs[j].trig < r.trig}

InsertPosition(recs, r) == Cardinality(OlderPrefix(recs, r)) + 1

InsertOrdered(recs, r) == InsertAt(recs, InsertPosition(recs, r), r)

(***************************************************************************)
(* insert_record.  Its three branches are not exclusive: a record older    *)
(* than the front is pushed in front, one older than the newest trigger ID *)
(* is inserted at its place, and in both cases it is pushed back as well.  *)
(***************************************************************************)
InsertRecord(b, r) ==
  LET early   == ~ IsEmpty(b) /\ r.trig < b.front
      late    == ~ IsEmpty(b) /\ r.trig < Newest(b.trigIds)
      fronted == IF early THEN << r >> \o b.recs ELSE b.recs
      placed  == IF late THEN InsertOrdered(fronted, r) ELSE fronted
  IN  [recs |-> Append(placed, r),
       trigIds |-> b.trigIds \cup {r.trig},
       front |-> IF IsEmpty(b) \/ early THEN r.trig ELSE b.front,
       terminated |-> b.terminated]

(***************************************************************************)
(* pop_record drops the front record and rebuilds front and trigIds from   *)
(* what is left.                                                           *)
(***************************************************************************)
FrontTrigId(recs) == IF recs = << >> THEN INVALID_TRIGGER_ID ELSE Head(recs).trig

PopRecord(b) ==
  [recs |-> Tail(b.recs),
   trigIds |-> TrigIdsOf(Tail(b.recs)),
   front |-> FrontTrigId(Tail(b.recs)),
   terminated |-> b.terminated]

\* Mutant: the safety depth is asked for even when the input has ended.
NextPoppableDeep(b, minPop) ==
  IF ~ IsEmpty(b) /\ Cardinality(b.trigIds) >= minPop THEN b.front ELSE INVALID_TRIGGER_ID

(***************************************************************************)
(* get_next_poppable_trig_id: the front trigger ID once the buffer is      *)
(* terminated or holds minPop distinct trigger IDs.                        *)
(***************************************************************************)
NextPoppable(b, minPop) ==
  IF ~ IsEmpty(b) /\ (b.terminated \/ Cardinality(b.trigIds) >= minPop)
  THEN b.front
  ELSE INVALID_TRIGGER_ID

Terminate(b) == [b EXCEPT !.terminated = TRUE]
=============================================================================
