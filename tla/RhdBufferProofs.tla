-------------------------- MODULE RhdBufferProofs --------------------------
(***************************************************************************)
(* Lemmas on the operations of the input buffer, for any set of sources.   *)
(***************************************************************************)
EXTENDS RhdBuffer, TLAPS, SequenceTheorems, FiniteSetTheorems

(***************************************************************************)
(* The place of insert_record's ordered insertion is in the FIFO or right  *)
(* behind it.                                                              *)
(***************************************************************************)
LEMMA InsertPositionInRange ==
  ASSUME NEW S, NEW recs \in Seq(S), NEW r
  PROVE  InsertPosition(recs, r) \in 1 .. Len(recs) + 1
<1>. DEFINE older == OlderPrefix(recs, r)
<1>1. Len(recs) \in Nat /\ DOMAIN recs = 1 .. Len(recs)
  BY LenProperties
<1>2. IsFiniteSet(1 .. Len(recs)) /\ Cardinality(1 .. Len(recs)) = Len(recs)
  BY <1>1, FS_Interval
<1>3. older \subseteq 1 .. Len(recs)
  BY <1>1 DEF OlderPrefix
<1>4. IsFiniteSet(older) /\ Cardinality(older) <= Len(recs)
  BY <1>2, <1>3, FS_Subset
<1>5. Cardinality(older) \in Nat
  BY <1>4, FS_CardinalityType
<1>. QED
  BY <1>1, <1>4, <1>5 DEF InsertPosition

LEMMA InsertOrderedType ==
  ASSUME NEW S, NEW recs \in Seq(S), NEW r \in S
  PROVE  InsertOrdered(recs, r) \in Seq(S)
<1>. DEFINE p == InsertPosition(recs, r)
<1>1. p \in 1 .. Len(recs) + 1
  BY InsertPositionInRange
<1>2. Len(recs) \in Nat /\ \A k \in 1 .. Len(recs) : recs[k] \in S
  BY LenProperties, ElementOfSeq
<1>3. SubSeq(recs, 1, p - 1) \in Seq(S)
  BY <1>1, <1>2, SubSeqProperties
<1>4. SubSeq(recs, p, Len(recs)) \in Seq(S)
  BY <1>1, <1>2, SubSeqProperties
<1>5. << r >> \in Seq(S)
  OBVIOUS
<1>. QED
  BY <1>3, <1>4, <1>5, ConcatProperties DEF InsertOrdered, InsertAt

(***************************************************************************)
(* The members of rhd_buffer keep their types under its operations.        *)
(***************************************************************************)
LEMMA InsertRecordType ==
  ASSUME NEW sources, NEW b \in BufferOf(RhdOf(sources)), NEW r \in RhdOf(sources)
  PROVE  InsertRecord(b, r) \in BufferOf(RhdOf(sources))
<1>. DEFINE R == RhdOf(sources)
            early   == ~ IsEmpty(b) /\ r.trig < b.front
            late    == ~ IsEmpty(b) /\ r.trig < Newest(b.trigIds)
            fronted == IF early THEN << r >> \o b.recs ELSE b.recs
            placed  == IF late THEN InsertOrdered(fronted, r) ELSE fronted
<1>0. r.trig \in Nat
  BY DEF RhdOf
<1>1. b.recs \in Seq(R) /\ b.trigIds \in SUBSET Nat
      /\ b.front \in Nat \cup {INVALID_TRIGGER_ID} /\ b.terminated \in BOOLEAN
  BY DEF BufferOf
<1>2. fronted \in Seq(R)
  <2>1. << r >> \in Seq(R)
    OBVIOUS
  <2>. QED
    BY <1>1, <2>1, ConcatProperties
<1>. HIDE DEF R, fronted
<1>3. placed \in Seq(R)
  BY <1>2, InsertOrderedType DEF R
<1>. HIDE DEF placed
<1>4. Append(placed, r) \in Seq(R)
  BY <1>3 DEF R
<1>5. InsertRecord(b, r) = [recs |-> Append(placed, r),
                            trigIds |-> b.trigIds \cup {r.trig},
                            front |-> IF IsEmpty(b) \/ early THEN r.trig ELSE b.front,
                            terminated |-> b.terminated]
  BY DEF InsertRecord, placed, fronted
<1>. QED
  BY <1>0, <1>1, <1>4, <1>5 DEF BufferOf, R

LEMMA PopRecordType ==
  ASSUME NEW sources, NEW b \in BufferOf(RhdOf(sources)), b.recs # << >>
  PROVE  /\ PopRecord(b) \in BufferOf(RhdOf(sources))
         /\ Head(b.recs) \in RhdOf(sources)
<1>. DEFINE R == RhdOf(sources)
<1>1. b.recs \in Seq(R) /\ b.terminated \in BOOLEAN
  BY DEF BufferOf
<1>2. Head(b.recs) \in R /\ Tail(b.recs) \in Seq(R)
  BY <1>1, HeadTailProperties
<1>3. \A k \in DOMAIN Tail(b.recs) : Tail(b.recs)[k] \in R
  BY <1>2, LenProperties, ElementOfSeq
<1>4. TrigIdsOf(Tail(b.recs)) \in SUBSET Nat
  BY <1>3 DEF TrigIdsOf, RhdOf
<1>5. FrontTrigId(Tail(b.recs)) \in Nat \cup {INVALID_TRIGGER_ID}
  <2>1. CASE Tail(b.recs) = << >>
    BY <2>1 DEF FrontTrigId
  <2>2. CASE Tail(b.recs) # << >>
    <3>1. Head(Tail(b.recs)) \in R
      BY <1>2, <2>2, HeadTailProperties
    <3>. QED
      BY <2>2, <3>1 DEF FrontTrigId, RhdOf
  <2>. QED
    BY <2>1, <2>2
<1>. QED
  BY <1>1, <1>2, <1>4, <1>5 DEF PopRecord, BufferOf

(***************************************************************************)
(* The trigger ID a buffer offers is its front's or none.                  *)
(***************************************************************************)
LEMMA NextPoppableType ==
  ASSUME NEW R, NEW b \in BufferOf(R), NEW minPop
  PROVE  NextPoppable(b, minPop) \in Nat \cup {INVALID_TRIGGER_ID}
BY DEF NextPoppable, BufferOf

(***************************************************************************)
(* No check fires for records that come in order.                          *)
(***************************************************************************)
LEMMA InsertInOrder ==
  ASSUME NEW sources, NEW b \in BufferOf(RhdOf(sources)), NEW r \in RhdOf(sources),
         b.front = FrontTrigId(b.recs),
         b.trigIds = TrigIdsOf(b.recs),
         \A j, k \in 1 .. Len(b.recs) : j <= k => b.recs[j].trig <= b.recs[k].trig,
         \A k \in 1 .. Len(b.recs) : b.recs[k].trig <= r.trig
  PROVE  ~ OutOfOrder(b, r)
<1>. DEFINE R == RhdOf(sources)
            n == Len(b.recs)
<1>1. b.recs \in Seq(R)
  BY DEF BufferOf
<1>2. n \in Nat /\ DOMAIN b.recs = 1 .. n
  BY <1>1, LenProperties
<1>3. r.trig \in Nat /\ \A k \in 1 .. n : b.recs[k].trig \in Nat
  <2>1. \A k \in 1 .. n : b.recs[k] \in R
    BY <1>1, ElementOfSeq
  <2>. QED
    BY <2>1 DEF RhdOf
<1>4. ASSUME ~ IsEmpty(b)
      PROVE  /\ n > 0
             /\ b.front = b.recs[1].trig
             /\ Newest(b.trigIds) = b.recs[n].trig
  <2>1. b.recs # << >> /\ n > 0 /\ Head(b.recs) = b.recs[1]
    BY <1>1, <1>4, EmptySeq DEF IsEmpty
  <2>2. b.front = b.recs[1].trig
    BY <2>1 DEF FrontTrigId
  <2>3. b.recs[n].trig \in b.trigIds /\ \A u \in b.trigIds : u <= b.recs[n].trig
    BY <1>2, <2>1 DEF TrigIdsOf
  <2>4. Newest(b.trigIds) \in b.trigIds /\ \A u \in b.trigIds : u <= Newest(b.trigIds)
    BY <2>3 DEF Newest
  <2>5. \A u \in b.trigIds : u \in Nat
    BY <1>2, <1>3 DEF TrigIdsOf
  <2>6. Newest(b.trigIds) = b.recs[n].trig
    BY <2>3, <2>4, <2>5
  <2>. QED
    BY <2>1, <2>2, <2>6
<1>. QED
  BY <1>2, <1>3, <1>4 DEF OutOfOrder

(***************************************************************************)
(* A record that is not older than the buffer is only pushed back, not     *)
(* inserted elsewhere, and the members describe the longer FIFO.           *)
(***************************************************************************)
LEMMA InsertAppends ==
  ASSUME NEW sources, NEW b \in BufferOf(RhdOf(sources)), NEW r \in RhdOf(sources),
         b.front = FrontTrigId(b.recs),
         b.trigIds = TrigIdsOf(b.recs),
         ~ OutOfOrder(b, r)
  PROVE  /\ InsertRecord(b, r).recs = Append(b.recs, r)
         /\ InsertRecord(b, r).front = FrontTrigId(Append(b.recs, r))
         /\ InsertRecord(b, r).trigIds = TrigIdsOf(Append(b.recs, r))
         /\ InsertRecord(b, r).terminated = b.terminated
<1>. DEFINE R == RhdOf(sources)
            n == Len(b.recs)
<1>1. b.recs \in Seq(R)
  BY DEF BufferOf
<1>2. n \in Nat /\ DOMAIN b.recs = 1 .. n
  BY <1>1, LenProperties
<1>3. /\ Append(b.recs, r) \in Seq(R)
      /\ Append(b.recs, r) # << >>
      /\ Len(Append(b.recs, r)) = n + 1
      /\ \A k \in 1 .. n : Append(b.recs, r)[k] = b.recs[k]
      /\ Append(b.recs, r)[n + 1] = r
  BY <1>1, AppendProperties
<1>4. InsertRecord(b, r) = [recs |-> Append(b.recs, r),
                            trigIds |-> b.trigIds \cup {r.trig},
                            front |-> IF IsEmpty(b) THEN r.trig ELSE b.front,
                            terminated |-> b.terminated]
  BY DEF InsertRecord, OutOfOrder
<1>5. (IF IsEmpty(b) THEN r.trig ELSE b.front) = FrontTrigId(Append(b.recs, r))
  <2>1. Head(Append(b.recs, r)) = IF b.recs = << >> THEN r ELSE Head(b.recs)
    BY <1>1, HeadTailAppend
  <2>. QED
    BY <1>3, <2>1 DEF FrontTrigId, IsEmpty
<1>6. b.trigIds \cup {r.trig} = TrigIdsOf(Append(b.recs, r))
  <2>1. DOMAIN Append(b.recs, r) = 1 .. n + 1
    BY <1>3, LenProperties
  <2>2. TrigIdsOf(Append(b.recs, r)) = {b.recs[k].trig : k \in 1 .. n} \cup {r.trig}
    BY <1>2, <1>3, <2>1 DEF TrigIdsOf
  <2>. QED
    BY <1>2, <2>2 DEF TrigIdsOf
<1>. QED
  BY <1>4, <1>5, <1>6
=============================================================================
