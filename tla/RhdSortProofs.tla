---------------------------- MODULE RhdSortProofs ----------------------------
(***************************************************************************)
(* Proofs about the sorter, for any buffer, any input files and any        *)
(* numbers of triggers.                                                    *)
(***************************************************************************)
EXTENDS RhdSort, TLAPS, SequenceTheorems, FiniteSetTheorems, WellFoundedInduction

-----------------------------------------------------------------------------
(***************************************************************************)
(* The inductive invariant.  Record i of file k has been read:             *)
(***************************************************************************)
IsRead(k, i) == k < current \/ (k = current /\ i <= taken)

Read ==
  {r \in InputRecords : \E k \in DOMAIN infiles : \E i \in DOMAIN infiles[k].recs :
     r = infiles[k].recs[i] /\ IsRead(k, i)}

Unread == InputRecords \ Read

Locations == {"initialize", "input", "output", "finalize", "returned", "failed"}

TypeOK ==
  /\ infiles \in InputLists
  /\ current \in Nat
  /\ taken \in Nat
  /\ mode \in {"sort", "no store", "evaluation"}
  /\ capacity \in Capacities
  /\ pc \in Locations
  /\ cbuffer \in Seq(Rhd)
  /\ npop \in Nat
  /\ output \in Seq(Rhd)
  /\ maxOutput \in Nat \cup {-1}

(***************************************************************************)
(* FilesInv: the files up to the current one could be opened; the loops    *)
(* after the last has_record_tag() have nothing left to read.              *)
(***************************************************************************)
FilesInv ==
  /\ pc = "initialize" => current = 0 /\ taken = 0
  /\ pc \in {"input", "output", "finalize", "returned"} =>
       /\ current \in DOMAIN infiles
       /\ taken <= Len(infiles[current].recs)
       /\ \A k \in 1 .. current : infiles[k].readable
  /\ pc \in {"finalize", "returned"} =>
       /\ current = Len(infiles)
       /\ taken = Len(infiles[current].recs)

(***************************************************************************)
(* SizeInv: the buffer is pushed to only when it has room, because half of *)
(* it is output whenever it is full.                                       *)
(***************************************************************************)
SizeInv ==
  /\ pc = "initialize" => cbuffer = << >> /\ output = << >>
  /\ pc = "input" => Len(cbuffer) <= capacity /\ (capacity > 1 => Len(cbuffer) < capacity)
  /\ pc = "output" => Len(cbuffer) = npop + (capacity - capacity \div 2)
  /\ pc = "finalize" => Len(cbuffer) = npop
  /\ pc = "returned" => cbuffer = << >>
  /\ capacity <= 1 /\ pc = "output" => npop = 0
  /\ capacity <= 1 /\ pc \in {"input", "output"} => output = << >>

(***************************************************************************)
(* ContentInv: buffer and output share out what has been read, of which a  *)
(* buffer without room for two keeps the last record or none.              *)
(***************************************************************************)
Distinct(recs) == \A j, k \in DOMAIN recs : recs[j] = recs[k] => j = k

KeptOf(recs) ==
  IF capacity = 0 THEN {}
  ELSE IF capacity = 1 THEN {r \in recs : \A q \in recs : q.num <= r.num}
  ELSE recs

ContentInv ==
  pc # "failed" =>
    /\ Range(cbuffer) \cup Range(output) = KeptOf(Read)
    /\ Range(cbuffer) \cap Range(output) = {}
    /\ Distinct(cbuffer)
    /\ Distinct(output)

(***************************************************************************)
(* OrderInv: the greatest trigger ID output is the last one.               *)
(***************************************************************************)
LastOutput == output[Len(output)]

ByClock(recs) == \A j, k \in DOMAIN recs : j < k => recs[j].clock <= recs[k].clock

OrderInv ==
  /\ Range(cbuffer) \cup Range(output) \subseteq InputRecords
  /\ InQuarter =>
       /\ ByClock(output)
       /\ pc \in {"output", "finalize"} => ByClock(cbuffer)
       /\ pc # "failed" => maxOutput = IF output = << >> THEN -1 ELSE TriggerId(LastOutput)

(***************************************************************************)
(* RoomInv: with a buffer that is large enough, whatever is still to be    *)
(* output is not earlier than what was.                                    *)
(***************************************************************************)
RoomInv ==
  InQuarter /\ LargeEnough /\ pc # "failed" /\ output # << >> =>
    \A r \in Range(cbuffer) \cup Unread : r.clock >= LastOutput.clock

SortInv ==
  TypeOK /\ FilesInv /\ SizeInv /\ ContentInv /\ OrderInv /\ RoomInv /\ LargeBufferSuffices

-----------------------------------------------------------------------------
(***************************************************************************)
(* Arithmetic of the trigger ID: the quotient and the remainder; a         *)
(* multiple of m is near 0 only when it is -m, 0 or m.                     *)
(***************************************************************************)
LEMMA DivMod ==
  ASSUME NEW a \in Nat, NEW m \in Nat \ {0}
  PROVE  a % m \in 0 .. m - 1 /\ a \div m \in Nat /\ a = m * (a \div m) + (a % m)
BY SMT

\* A multiple is near 0 only when it is -m, 0 or m.
LEMMA Multiples ==
  ASSUME NEW m \in Nat \ {0}, NEW d \in Int
  PROVE  /\ d >= 2 => m * d >= 2 * m
         /\ d = 1 => m * d = m
         /\ d = 0 => m * d = 0
         /\ d = -1 => m * d = -m
         /\ d <= -2 => m * d <= -2 * m
BY SMT

(***************************************************************************)
(* Two trigger numbers that differ by less than a quarter of the range are *)
(* compared in the right order, also when the trigger ID overflows between *)
(* them.                                                                   *)
(***************************************************************************)
LEMMA ComparatorOrders ==
  ASSUME NEW a \in Nat, NEW b \in Nat, a - b < Quarter, b - a < Quarter
  PROVE  TriggerIdLess(a % (4 * Quarter), b % (4 * Quarter)) <=> a < b
<1>. DEFINE m == 4 * Quarter
            d == (b \div m) - (a \div m)
            x == a % m
            y == b % m
<1>1. Quarter \in Nat \ {0} /\ m \in Nat \ {0}
  BY RhdSortAssumption
<1>2. x \in 0 .. m - 1 /\ y \in 0 .. m - 1 /\ d \in Int
  <2>1. x \in 0 .. m - 1 /\ a \div m \in Nat
    BY <1>1, DivMod
  <2>2. y \in 0 .. m - 1 /\ b \div m \in Nat
    BY <1>1, DivMod
  <2>. QED  BY <2>1, <2>2
<1>3. b - a = m * d + (y - x)
  <2>1. a = m * (a \div m) + x /\ b = m * (b \div m) + y
    BY <1>1, DivMod
  <2>2. a \div m \in Nat /\ b \div m \in Nat
    BY <1>1, DivMod
  <2>. HIDE DEF m
  <2>3. m * d = m * (b \div m) - m * (a \div m)
    <3>. DEFINE p == a \div m
                q == b \div m
    <3>1. p \in Nat /\ q \in Nat /\ m \in Nat
      BY <1>1, <2>2
    <3>2. m * (q - p) = m * q - m * p
      <4>. HIDE DEF p, q
      <4>. QED  BY <3>1
    <3>. QED  BY <3>2
  <2>4. m * d \in Int /\ m * (a \div m) \in Int /\ m * (b \div m) \in Int
    BY <1>1, <1>2, <2>2
  <2>. HIDE DEF x, y, d
  <2>. QED  BY <1>1, <1>2, <2>1, <2>3, <2>4
<1>4. /\ d >= 2 => m * d >= 2 * m
      /\ d = 1 => m * d = m
      /\ d = 0 => m * d = 0
      /\ d = -1 => m * d = -m
      /\ d <= -2 => m * d <= -2 * m
  BY <1>1, <1>2, Multiples
<1>5. m * d \in Int
  BY <1>1, <1>2
<1>6. m = 4 * Quarter
  OBVIOUS
<1>. DEFINE p == m * d
<1>. HIDE DEF m, d, x, y
<1>7. p \in Int /\ b - a = p + (y - x)
  BY <1>3, <1>5
<1>8. d \in {-1, 0, 1}
  <2>. HIDE DEF p
  <2>. SUFFICES ASSUME d \notin {-1, 0, 1} PROVE FALSE
    OBVIOUS
  <2>1. p >= 2 * m \/ p <= -2 * m
    BY <1>2, <1>4 DEF p
  <2>. QED  BY <1>1, <1>2, <1>6, <1>7, <2>1
<1>9. p \in {-m, 0, m}
  BY <1>4, <1>8
<1>. HIDE DEF p
<1>10. TriggerIdLess(x, y) <=> a < b
  BY <1>1, <1>2, <1>6, <1>7, <1>9 DEF TriggerIdLess
<1>. QED
  BY <1>10 DEF m, x, y

-----------------------------------------------------------------------------
(***************************************************************************)
(* Sorting rearranges a buffer: the same records, each as often.           *)
(***************************************************************************)
LEMMA SequenceFacts ==
  ASSUME NEW S, NEW recs \in Seq(S)
  PROVE  /\ Len(recs) \in Nat
         /\ DOMAIN recs = 1 .. Len(recs)
         /\ Range(recs) \subseteq S
         /\ \A k \in 1 .. Len(recs) : recs[k] \in S
BY LenProperties, ElementOfSeq DEF Range

\* A rearranged buffer has the same records, each as often.
LEMMA ArrangementsKeep ==
  ASSUME NEW S, NEW recs \in Seq(S), NEW s \in Arrangements(recs)
  PROVE  /\ s \in Seq(S)
         /\ Len(s) = Len(recs)
         /\ Range(s) = Range(recs)
         /\ Distinct(recs) => Distinct(s)
<1>. DEFINE n == Len(recs)
<1>1. n \in Nat /\ DOMAIN recs = 1 .. n /\ \A k \in 1 .. n : recs[k] \in S
  BY SequenceFacts
<1>2. PICK p \in Bijection(1 .. n, 1 .. n) : s = [k \in 1 .. n |-> recs[p[k]]]
  BY <1>1 DEF Arrangements
<1>3. /\ p \in [1 .. n -> 1 .. n]
      /\ \A i, j \in 1 .. n : p[i] = p[j] => i = j
      /\ \A j \in 1 .. n : \E i \in 1 .. n : p[i] = j
  BY <1>2 DEF Bijection, Injection, Surjection, IsInjective
<1>. HIDE DEF n
<1>4. s \in Seq(S) /\ Len(s) = n /\ DOMAIN s = 1 .. n
  <2>1. \A k \in 1 .. n : recs[p[k]] \in S
    BY <1>1, <1>3
  <2>. QED  BY <1>1, <1>2, <2>1, IsASeq, LenProperties
<1>5. Range(s) = Range(recs)
  <2>1. \A x \in Range(s) : x \in Range(recs)
    BY <1>1, <1>2, <1>3, <1>4 DEF Range
  <2>2. \A x \in Range(recs) : x \in Range(s)
    <3>. TAKE x \in Range(recs)
    <3>1. PICK j \in 1 .. n : x = recs[j]
      BY <1>1 DEF Range
    <3>2. PICK i \in 1 .. n : p[i] = j
      BY <1>3
    <3>3. s[i] = x
      BY <1>2, <3>1, <3>2
    <3>. QED  BY <1>4, <3>3 DEF Range
  <2>. QED  BY <2>1, <2>2
<1>6. Distinct(recs) => Distinct(s)
  BY <1>1, <1>2, <1>3, <1>4 DEF Distinct
<1>. QED
  BY <1>4, <1>5, <1>6 DEF n

(***************************************************************************)
(* The types of the input.                                                 *)
(***************************************************************************)
LEMMA InputTypes ==
  ASSUME infiles \in InputLists
  PROVE  /\ infiles \in Seq([readable : BOOLEAN, recs : Seq(Rhd)])
         /\ Len(infiles) \in Nat /\ DOMAIN infiles = 1 .. Len(infiles)
         /\ \A k \in DOMAIN infiles :
              /\ infiles[k].recs \in Seq(Rhd)
              /\ Len(infiles[k].recs) \in Nat
              /\ DOMAIN infiles[k].recs = 1 .. Len(infiles[k].recs)
         /\ Numbered(infiles)
         /\ InputRecords \subseteq Rhd
<1>1. infiles \in Seq([readable : BOOLEAN, recs : Seq(Rhd)]) /\ Numbered(infiles)
  BY RhdSortAssumption
<1>2. Len(infiles) \in Nat /\ DOMAIN infiles = 1 .. Len(infiles)
  BY <1>1, SequenceFacts
<1>3. \A k \in DOMAIN infiles : infiles[k].recs \in Seq(Rhd)
  <2>1. \A k \in DOMAIN infiles : infiles[k] \in [readable : BOOLEAN, recs : Seq(Rhd)]
    BY <1>1, <1>2, ElementOfSeq
  <2>. QED  BY <2>1
<1>4. \A k \in DOMAIN infiles :
        /\ Len(infiles[k].recs) \in Nat
        /\ DOMAIN infiles[k].recs = 1 .. Len(infiles[k].recs)
        /\ Range(infiles[k].recs) \subseteq Rhd
  BY <1>3, SequenceFacts
<1>5. InputRecords \subseteq Rhd
  BY <1>4 DEF InputRecords
<1>. QED
  BY <1>1, <1>2, <1>3, <1>4, <1>5

(***************************************************************************)
(* On records of less than a quarter of the trigger IDs the comparator is  *)
(* the order of the triggers, so that a sorted buffer is sorted by clock.  *)
(***************************************************************************)
LEMMA LessIsEarlier ==
  ASSUME InQuarter, InputRecords \subseteq Rhd, NEW r \in InputRecords, NEW q \in InputRecords
  PROVE  /\ r.clock \in Nat /\ q.clock \in Nat
         /\ TriggerIdLess(TriggerId(r), TriggerId(q)) <=> r.clock < q.clock
<1>1. r.clock \in Nat /\ q.clock \in Nat
  BY DEF Rhd
<1>2. r.clock - q.clock < Quarter /\ q.clock - r.clock < Quarter
  BY DEF InQuarter
<1>. QED
  BY <1>1, <1>2, ComparatorOrders DEF TriggerId

\* Both cases of std::sort rearrange.
LEMMA SortingsKeep ==
  ASSUME NEW recs \in Seq(Rhd), NEW s \in Sortings(recs)
  PROVE  s \in Arrangements(recs)
BY DEF Sortings

\* Hence std::sort leaves such a buffer sorted by clock.
LEMMA SortingsAreByClock ==
  ASSUME InQuarter, InputRecords \subseteq Rhd,
         NEW recs \in Seq(Rhd), Range(recs) \subseteq InputRecords,
         NEW s \in Sortings(recs)
  PROVE  ByClock(s)
<1>1. \A k \in DOMAIN recs : recs[k] \in InputRecords
  BY DEF Range
<1>2. \A j, k \in DOMAIN recs :
        /\ recs[j].clock \in Nat /\ recs[k].clock \in Nat
        /\ Less(recs[j], recs[k]) <=> recs[j].clock < recs[k].clock
  BY <1>1, LessIsEarlier DEF Less
<1>3. IsOrdering(recs)
  BY <1>2 DEF IsOrdering
<1>4. IsOrdered(s) /\ s \in Arrangements(recs)
  BY <1>3 DEF Sortings
<1>5. s \in Seq(Rhd) /\ Range(s) = Range(recs)
  BY <1>4, ArrangementsKeep
<1>6. \A k \in DOMAIN s : s[k] \in InputRecords
  BY <1>5 DEF Range
<1>7. \A j, k \in DOMAIN s : j < k => ~ (s[k].clock < s[j].clock)
  BY <1>4, <1>6, LessIsEarlier DEF IsOrdered, Less
<1>8. \A k \in DOMAIN s : s[k].clock \in Nat
  BY <1>6 DEF Rhd
<1>. QED
  BY <1>7, <1>8 DEF ByClock

-----------------------------------------------------------------------------
(***************************************************************************)
(* The least of the files in which has_record_tag() may end.               *)
(***************************************************************************)
LEMMA MinOf ==
  ASSUME NEW T \in SUBSET Nat, T # {}
  PROVE  Min(T) \in T /\ \A k \in T : Min(T) <= k
<1>1. \E x \in T : \A y \in T : ~ (<< y, x >> \in OpToRel(<, Nat))
  BY NatLessThanWellFounded, WFMin
<1>2. \E x \in T : \A y \in T : x <= y
  <2>1. PICK x \in T : \A y \in T : ~ (<< y, x >> \in OpToRel(<, Nat))
    BY <1>1
  <2>2. \A y \in T : << y, x >> \in Nat \X Nat /\ << y, x >>[1] = y /\ << y, x >>[2] = x
    OBVIOUS
  <2>3. \A y \in T : ~ (y < x)
    BY <2>1, <2>2, Zenon DEF OpToRel
  <2>. QED  BY <2>3
<1>. QED
  BY <1>2 DEF Min

(***************************************************************************)
(* Where has_record_tag() ends: all the files it passes over are empty.    *)
(***************************************************************************)
LEMMA FoundFile ==
  ASSUME infiles \in InputLists, current \in DOMAIN infiles,
         taken \in Nat, taken <= Len(infiles[current].recs)
  PROVE  /\ Found \in DOMAIN infiles /\ Found >= current /\ Offset \in Nat
         /\ Offset <= Len(infiles[Found].recs)
         /\ Found = current => Offset = taken
         /\ Found > current => Offset = 0 /\ taken = Len(infiles[current].recs)
         /\ \A k \in DOMAIN infiles : current < k /\ k < Found =>
              infiles[k].readable /\ infiles[k].recs = << >>
<1>1. /\ Len(infiles) \in Nat /\ DOMAIN infiles = 1 .. Len(infiles)
      /\ \A k \in DOMAIN infiles : infiles[k].recs \in Seq(Rhd) /\ Len(infiles[k].recs) \in Nat
  BY InputTypes
<1>2. CASE HasMore
  <2>1. Found = current /\ Offset = taken
    BY <1>2 DEF Found, Offset
  <2>. QED  BY <1>1, <2>1
<1>3. CASE ~ HasMore /\ Stops # {}
  <2>1. Stops \in SUBSET Nat
    BY <1>1 DEF Stops
  <2>2. Found \in Stops /\ \A k \in Stops : Found <= k
    BY <1>3, <2>1, MinOf DEF Found
  <2>3. Found \in DOMAIN infiles /\ Found > current
    BY <2>2 DEF Stops
  <2>4. Offset = 0
    BY <1>1, <2>3 DEF Offset
  <2>5. taken = Len(infiles[current].recs)
    BY <1>1, <1>3 DEF HasMore
  <2>6. \A k \in DOMAIN infiles : current < k /\ k < Found => k \notin Stops
    BY <1>1, <2>2, <2>3
  <2>7. \A k \in DOMAIN infiles : current < k /\ k < Found =>
          infiles[k].readable /\ infiles[k].recs = << >>
    BY <1>1, <2>6 DEF Stops
  <2>. QED  BY <1>1, <2>3, <2>4, <2>5, <2>7
<1>4. CASE ~ HasMore /\ Stops = {}
  <2>1. Found = Len(infiles)
    BY <1>4 DEF Found
  <2>2. taken = Len(infiles[current].recs)
    BY <1>1, <1>4 DEF HasMore
  <2>3. \A k \in DOMAIN infiles : current < k =>
          infiles[k].readable /\ infiles[k].recs = << >>
    BY <1>1, <1>4 DEF Stops
  <2>4. Offset = IF Found = current THEN taken ELSE 0
    BY DEF Offset
  <2>. QED  BY <1>1, <2>1, <2>2, <2>3, <2>4
<1>. QED
  BY <1>2, <1>3, <1>4

(***************************************************************************)
(* has_record_tag() and load take the next of the unread records.          *)
(***************************************************************************)
LEMMA ReadOne ==
  ASSUME infiles \in InputLists, current \in DOMAIN infiles,
         taken \in Nat, taken <= Len(infiles[current].recs),
         \A k \in 1 .. current : infiles[k].readable,
         HasRecordTag, FindAndLoad
  PROVE  /\ current' \in DOMAIN infiles /\ taken' \in Nat
         /\ \A k \in 1 .. current' : infiles[k].readable
         /\ taken' <= Len(infiles[current'].recs)
         /\ InputRecords' = InputRecords
         /\ NextRecord \in InputRecords
         /\ NextRecord \notin Read
         /\ Read' = Read \cup {NextRecord}
         /\ \A q \in Read : q.num < NextRecord.num
         /\ \A u \in Unread' : NextRecord.num < u.num
<1>. DEFINE f == Found
            n == Offset + 1
            recs(k) == infiles[k].recs
<1>1. /\ Len(infiles) \in Nat /\ DOMAIN infiles = 1 .. Len(infiles)
      /\ \A k \in DOMAIN infiles : Len(recs(k)) \in Nat /\ DOMAIN recs(k) = 1 .. Len(recs(k))
      /\ Numbered(infiles)
  BY InputTypes
<1>2. /\ f \in DOMAIN infiles /\ f >= current /\ n \in Nat
      /\ f = current => n = taken + 1
      /\ f > current => n = 1 /\ taken = Len(recs(current))
      /\ \A k \in DOMAIN infiles : current < k /\ k < f => recs(k) = << >>
  BY FoundFile
<1>3. n \in DOMAIN recs(f) /\ NextRecord = recs(f)[n]
  BY <1>1, <1>2, FoundFile DEF HasRecordTag, NextRecord
<1>4. current' = f /\ taken' = n /\ infiles' = infiles
  BY DEF FindAndLoad
<1>5. \A k \in DOMAIN infiles : current < k /\ k < f => DOMAIN recs(k) = {}
  <2>1. \A k \in DOMAIN infiles : current < k /\ k < f => Len(recs(k)) = 0
    BY <1>2, EmptySeq
  <2>. QED  BY <1>1, <2>1
<1>6. InputRecords' = InputRecords /\ NextRecord \in InputRecords
  BY <1>2, <1>3, <1>4 DEF InputRecords, Range
<1>. HIDE DEF f, n
<1>7. \A k \in DOMAIN infiles : \A i \in DOMAIN recs(k) :
        /\ IsRead(k, i) => k < f \/ (k = f /\ i < n)
        /\ k < f \/ (k = f /\ i < n) => IsRead(k, i)
        /\ IsRead(k, i)' <=> IsRead(k, i) \/ (k = f /\ i = n)
        /\ ~ IsRead(k, i)' => f < k \/ (k = f /\ n < i)
  <2>. TAKE k \in DOMAIN infiles
  <2>. TAKE i \in DOMAIN recs(k)
  <2>1. k \in Nat /\ i \in Nat /\ i <= Len(recs(k)) /\ current \in Nat /\ f \in Nat
    BY <1>1, <1>2
  <2>2. k <= current \/ f <= k
    BY <1>5, <2>1
  <2>3. IsRead(k, i) <=> (k < current \/ (k = current /\ i <= taken))
    BY DEF IsRead
  <2>4. IsRead(k, i)' <=> (k < f \/ (k = f /\ i <= n))
    BY <1>4 DEF IsRead
  <2>. QED  BY <1>2, <2>1, <2>2, <2>3, <2>4
<1>8. \A q \in Read : q.num < NextRecord.num
  <2>. TAKE q \in Read
  <2>1. PICK k \in DOMAIN infiles : \E i \in DOMAIN recs(k) : q = recs(k)[i] /\ IsRead(k, i)
    BY DEF Read
  <2>2. PICK i \in DOMAIN recs(k) : q = recs(k)[i] /\ IsRead(k, i)
    BY <2>1
  <2>3. k < f \/ (k = f /\ i < n)
    BY <1>7, <2>2
  <2>. QED  BY <1>1, <1>2, <1>3, <2>2, <2>3 DEF Numbered
<1>9. \A u \in Unread' : NextRecord.num < u.num
  <2>. TAKE u \in Unread'
  <2>1. u \in InputRecords /\ u \notin Read'
    BY <1>6 DEF Unread
  <2>2. PICK k \in DOMAIN infiles : u \in Range(recs(k))
    BY <2>1 DEF InputRecords
  <2>3. PICK i \in DOMAIN recs(k) : u = recs(k)[i]
    BY <2>2 DEF Range
  <2>4. ~ IsRead(k, i)'
    BY <1>4, <1>6, <2>1, <2>3 DEF Read
  <2>5. f < k \/ (k = f /\ n < i)
    BY <1>7, <2>4
  <2>. QED  BY <1>1, <1>2, <1>3, <2>3, <2>5 DEF Numbered
<1>10. InputRecords \subseteq Rhd
  BY InputTypes
<1>11. NextRecord \notin Read
  <2>1. NextRecord.num \in Nat
    BY <1>6, <1>10 DEF Rhd
  <2>. QED  BY <1>8, <2>1
<1>12. Read' = Read \cup {NextRecord}
  <2>1. \A r \in Read' : r \in Read \cup {NextRecord}
    <3>. TAKE r \in Read'
    <3>1. r \in InputRecords
      BY <1>6 DEF Read
    <3>2. PICK k \in DOMAIN infiles : \E i \in DOMAIN recs(k) : r = recs(k)[i] /\ IsRead(k, i)'
      BY <1>4 DEF Read
    <3>3. PICK i \in DOMAIN recs(k) : r = recs(k)[i] /\ IsRead(k, i)'
      BY <3>2
    <3>4. IsRead(k, i) \/ (k = f /\ i = n)
      BY <1>7, <3>3
    <3>. QED  BY <1>3, <3>1, <3>3, <3>4 DEF Read
  <2>2. \A r \in Read : r \in Read'
    <3>. TAKE r \in Read
    <3>1. r \in InputRecords'
      BY <1>6 DEF Read
    <3>2. PICK k \in DOMAIN infiles : \E i \in DOMAIN recs(k) : r = recs(k)[i] /\ IsRead(k, i)
      BY DEF Read
    <3>3. PICK i \in DOMAIN recs(k) : r = recs(k)[i] /\ IsRead(k, i)
      BY <3>2
    <3>4. IsRead(k, i)'
      BY <1>7, <3>3
    <3>. QED  BY <1>4, <3>1, <3>3, <3>4 DEF Read
  <2>3. NextRecord \in Read'
    <3>1. PICK k \in DOMAIN infiles : k = f
      BY <1>2
    <3>2. PICK i \in DOMAIN recs(k) : i = n
      BY <1>3, <3>1
    <3>3. IsRead(k, i)'
      BY <1>7, <3>1, <3>2
    <3>4. NextRecord = recs(k)[i]
      BY <1>3, <3>1, <3>2
    <3>. QED  BY <1>4, <1>6, <3>3, <3>4 DEF Read
  <2>. QED  BY <2>1, <2>2, <2>3
<1>13. taken' <= Len(infiles[current'].recs)
  BY <1>1, <1>2, <1>3, <1>4
<1>14. \A k \in 1 .. f : infiles[k].readable
  <2>. TAKE k \in 1 .. f
  <2>1. k \in DOMAIN infiles /\ (k <= current \/ (current < k /\ k < f) \/ k = f)
    BY <1>1, <1>2
  <2>2. infiles[f].readable
    BY DEF f, HasRecordTag, FindThrows
  <2>3. current < k /\ k < f => infiles[k].readable
    BY <2>1, FoundFile DEF f
  <2>. QED  BY <1>1, <2>1, <2>2, <2>3
<1>. QED
  BY <1>2, <1>4, <1>6, <1>8, <1>9, <1>11, <1>12, <1>13, <1>14

(***************************************************************************)
(* When it finds no record, all the files were opened and all is read.     *)
(***************************************************************************)
LEMMA ReadEnd ==
  ASSUME infiles \in InputLists, current \in DOMAIN infiles,
         taken \in Nat, taken <= Len(infiles[current].recs),
         \A k \in 1 .. current : infiles[k].readable,
         NoRecordTag, Find
  PROVE  /\ current' = Len(infiles) /\ current' \in DOMAIN infiles /\ taken' \in Nat
         /\ taken' = Len(infiles[current'].recs)
         /\ \A k \in 1 .. current' : infiles[k].readable
         /\ InputRecords' = InputRecords
         /\ Read' = Read
         /\ Unread' = {}
<1>. DEFINE f == Found
            recs(k) == infiles[k].recs
<1>1. /\ Len(infiles) \in Nat /\ DOMAIN infiles = 1 .. Len(infiles)
      /\ \A k \in DOMAIN infiles : Len(recs(k)) \in Nat /\ DOMAIN recs(k) = 1 .. Len(recs(k))
  BY InputTypes
<1>2. /\ f \in DOMAIN infiles /\ f >= current /\ Offset \in Nat /\ Offset <= Len(recs(f))
      /\ f = current => Offset = taken
      /\ f > current => Offset = 0 /\ taken = Len(recs(current))
      /\ \A k \in DOMAIN infiles : current < k /\ k < f =>
           infiles[k].readable /\ recs(k) = << >>
  BY FoundFile
<1>3. infiles[f].readable /\ Offset >= Len(recs(f))
  BY <1>1, <1>2 DEF NoRecordTag, HasRecordTag, FindThrows
<1>4. current' = f /\ taken' = Offset /\ infiles' = infiles
  BY DEF Find
<1>5. f = Len(infiles)
  <2>1. CASE HasMore
    <3>1. f = current /\ Offset = taken
      BY <2>1 DEF Found, Offset
    <3>. QED  BY <1>1, <1>2, <1>3, <2>1, <3>1 DEF HasMore
  <2>2. CASE ~ HasMore /\ Stops # {}
    <3>1. Stops \in SUBSET Nat
      BY <1>1 DEF Stops
    <3>2. f \in Stops
      BY <2>2, <3>1, MinOf DEF Found
    <3>3. f > current /\ recs(f) # << >>
      BY <1>3, <3>2 DEF Stops
    <3>4. Len(recs(f)) = 0
      BY <1>1, <1>2, <1>3, <3>3
    <3>5. recs(f) \in Seq(Rhd)
      BY <1>2, InputTypes
    <3>. QED  BY <3>3, <3>4, <3>5, EmptySeq
  <2>3. CASE ~ HasMore /\ Stops = {}
    BY <2>3 DEF Found
  <2>. QED  BY <2>1, <2>2, <2>3
<1>6. \A k \in DOMAIN infiles : current < k /\ k < f => DOMAIN recs(k) = {}
  <2>1. \A k \in DOMAIN infiles : current < k /\ k < f => Len(recs(k)) = 0
    BY <1>2, EmptySeq
  <2>. QED  BY <1>1, <2>1
<1>7. Offset = Len(recs(f)) /\ (f > current => DOMAIN recs(f) = {})
  BY <1>1, <1>2, <1>3
<1>8. \A k \in 1 .. f : infiles[k].readable
  <2>. TAKE k \in 1 .. f
  <2>1. k \in DOMAIN infiles /\ (k <= current \/ (current < k /\ k < f) \/ k = f)
    BY <1>1, <1>2
  <2>. QED  BY <1>2, <1>3, <2>1
<1>9. InputRecords' = InputRecords
  BY <1>4 DEF InputRecords
<1>. HIDE DEF f
<1>10. \A k \in DOMAIN infiles : \A i \in DOMAIN recs(k) : IsRead(k, i) /\ IsRead(k, i)'
  <2>. TAKE k \in DOMAIN infiles
  <2>. TAKE i \in DOMAIN recs(k)
  <2>1. k \in Nat /\ i \in Nat /\ i <= Len(recs(k)) /\ current \in Nat /\ f \in Nat /\ k <= f
    BY <1>1, <1>2, <1>5
  <2>2. k <= current
    BY <1>6, <1>7, <2>1
  <2>3. k = current => i <= taken
    BY <1>2, <1>7, <2>1
  <2>4. IsRead(k, i)
    BY <1>1, <2>1, <2>2, <2>3 DEF IsRead
  <2>5. IsRead(k, i)' <=> (k < f \/ (k = f /\ i <= Offset))
    BY <1>4 DEF IsRead
  <2>. QED  BY <1>2, <1>7, <2>1, <2>4, <2>5
<1>11. Read = InputRecords /\ Read' = InputRecords'
  <2>1. \A r \in InputRecords : \E k \in DOMAIN infiles : \E i \in DOMAIN recs(k) : r = recs(k)[i]
    BY DEF InputRecords, Range
  <2>2. Read = InputRecords
    BY <1>10, <2>1 DEF Read
  <2>3. Read' = InputRecords'
    BY <1>4, <1>9, <1>10, <2>1 DEF Read
  <2>. QED  BY <2>2, <2>3
<1>. QED
  BY <1>1, <1>2, <1>4, <1>5, <1>7, <1>8, <1>9, <1>11 DEF Unread

-----------------------------------------------------------------------------
(***************************************************************************)
(* The ends of a buffer.                                                   *)
(***************************************************************************)
LEMMA TailKeeps ==
  ASSUME NEW recs \in Seq(Rhd), recs # << >>
  PROVE  /\ Tail(recs) \in Seq(Rhd) /\ Len(Tail(recs)) = Len(recs) - 1
         /\ Head(recs) \in Range(recs) /\ Head(recs) \in Rhd
         /\ Range(recs) = Range(Tail(recs)) \cup {Head(recs)}
         /\ Distinct(recs) => Distinct(Tail(recs)) /\ Head(recs) \notin Range(Tail(recs))
         /\ ByClock(recs) => ByClock(Tail(recs))
         /\ ByClock(recs) => \A r \in Range(Tail(recs)) : Head(recs).clock <= r.clock
<1>. DEFINE n == Len(recs)
            t == Tail(recs)
<1>1. /\ n \in Nat /\ n > 0 /\ DOMAIN recs = 1 .. n /\ \A k \in 1 .. n : recs[k] \in Rhd
      /\ t \in Seq(Rhd) /\ Len(t) = n - 1 /\ Head(recs) = recs[1]
      /\ \A k \in 1 .. n - 1 : t[k] = recs[k + 1]
  BY SequenceFacts, EmptySeq, HeadTailProperties
<1>2. DOMAIN t = 1 .. n - 1
  BY <1>1, SequenceFacts
<1>. HIDE DEF n, t
<1>3. Range(recs) = Range(t) \cup {recs[1]}
  <2>1. \A x \in Range(recs) : x \in Range(t) \cup {recs[1]}
    <3>. TAKE x \in Range(recs)
    <3>1. PICK k \in 1 .. n : x = recs[k]
      BY <1>1 DEF Range
    <3>2. k # 1 => k - 1 \in 1 .. n - 1 /\ t[k - 1] = recs[k]
      BY <1>1
    <3>. QED  BY <1>2, <3>1, <3>2 DEF Range
  <2>2. \A x \in Range(t) : x \in Range(recs)
    <3>. TAKE x \in Range(t)
    <3>1. PICK k \in 1 .. n - 1 : x = t[k]
      BY <1>2 DEF Range
    <3>2. k + 1 \in 1 .. n /\ x = recs[k + 1]
      BY <1>1, <3>1
    <3>. QED  BY <1>1, <3>2 DEF Range
  <2>3. recs[1] \in Range(recs)
    BY <1>1 DEF Range
  <2>. QED  BY <2>1, <2>2, <2>3
<1>4. ASSUME Distinct(recs) PROVE Distinct(t) /\ recs[1] \notin Range(t)
  <2>1. \A j, k \in 1 .. n - 1 : t[j] = t[k] => j = k
    <3>. TAKE j, k \in 1 .. n - 1
    <3>1. j + 1 \in 1 .. n /\ k + 1 \in 1 .. n /\ t[j] = recs[j + 1] /\ t[k] = recs[k + 1]
      BY <1>1
    <3>2. t[j] = t[k] => j + 1 = k + 1
      BY <1>1, <1>4, <3>1 DEF Distinct
    <3>. QED  BY <3>2
  <2>2. \A k \in 1 .. n - 1 : t[k] # recs[1]
    <3>. TAKE k \in 1 .. n - 1
    <3>1. k + 1 \in 1 .. n /\ 1 \in 1 .. n /\ t[k] = recs[k + 1] /\ k + 1 # 1
      BY <1>1
    <3>. QED  BY <1>1, <1>4, <3>1 DEF Distinct
  <2>. QED  BY <1>2, <2>1, <2>2 DEF Distinct, Range
<1>5. ASSUME ByClock(recs)
      PROVE  ByClock(t) /\ \A r \in Range(t) : recs[1].clock <= r.clock
  <2>1. \A j, k \in 1 .. n - 1 : j < k => t[j].clock <= t[k].clock
    <3>. TAKE j, k \in 1 .. n - 1
    <3>1. j + 1 \in 1 .. n /\ k + 1 \in 1 .. n /\ t[j] = recs[j + 1] /\ t[k] = recs[k + 1]
          /\ (j < k => j + 1 < k + 1)
      BY <1>1
    <3>. QED  BY <1>1, <1>5, <3>1 DEF ByClock
  <2>2. \A k \in 1 .. n - 1 : recs[1].clock <= t[k].clock
    <3>. TAKE k \in 1 .. n - 1
    <3>1. k + 1 \in 1 .. n /\ 1 \in 1 .. n /\ t[k] = recs[k + 1] /\ 1 < k + 1
      BY <1>1
    <3>. QED  BY <1>1, <1>5, <3>1 DEF ByClock
  <2>. QED  BY <1>2, <2>1, <2>2 DEF ByClock, Range
<1>. QED
  BY <1>1, <1>3, <1>4, <1>5 DEF n, t

\* What Append does to the size, the contents and the order.
LEMMA AppendKeeps ==
  ASSUME NEW recs \in Seq(Rhd), NEW r \in Rhd
  PROVE  /\ Append(recs, r) \in Seq(Rhd) /\ Len(Append(recs, r)) = Len(recs) + 1
         /\ Append(recs, r) # << >>
         /\ Append(recs, r)[Len(recs) + 1] = r
         /\ Range(Append(recs, r)) = Range(recs) \cup {r}
         /\ Distinct(recs) /\ r \notin Range(recs) => Distinct(Append(recs, r))
         /\ ByClock(recs) /\ (recs = << >> \/ recs[Len(recs)].clock <= r.clock) =>
              ByClock(Append(recs, r))
<1>. DEFINE n == Len(recs)
            a == Append(recs, r)
<1>1. /\ n \in Nat /\ DOMAIN recs = 1 .. n /\ \A k \in 1 .. n : recs[k] \in Rhd
      /\ a \in Seq(Rhd) /\ Len(a) = n + 1
      /\ \A k \in 1 .. n : a[k] = recs[k]
      /\ a[n + 1] = r
  BY SequenceFacts, AppendProperties
<1>2. DOMAIN a = 1 .. n + 1 /\ a # << >>
  BY <1>1, SequenceFacts, EmptySeq
<1>. HIDE DEF n, a
<1>3. Range(a) = Range(recs) \cup {r}
  <2>1. \A k \in 1 .. n + 1 : k \in 1 .. n \/ k = n + 1
    BY <1>1
  <2>2. 1 .. n \subseteq 1 .. n + 1 /\ n + 1 \in 1 .. n + 1
    BY <1>1
  <2>. QED  BY <1>1, <1>2, <2>1, <2>2 DEF Range
<1>4. ASSUME Distinct(recs), r \notin Range(recs) PROVE Distinct(a)
  <2>1. \A k \in 1 .. n : recs[k] # r
    BY <1>1, <1>4 DEF Range
  <2>2. \A j, k \in 1 .. n : recs[j] = recs[k] => j = k
    BY <1>1, <1>4 DEF Distinct
  <2>3. \A j, k \in 1 .. n + 1 : a[j] = a[k] => j = k
    <3>. TAKE j, k \in 1 .. n + 1
    <3>1. (j \in 1 .. n \/ j = n + 1) /\ (k \in 1 .. n \/ k = n + 1)
      BY <1>1
    <3>. QED  BY <1>1, <2>1, <2>2, <3>1
  <2>. QED  BY <1>2, <2>3 DEF Distinct
<1>5. ASSUME ByClock(recs), recs = << >> \/ recs[n].clock <= r.clock PROVE ByClock(a)
  <2>1. \A j \in 1 .. n : recs[j].clock <= r.clock
    <3>. TAKE j \in 1 .. n
    <3>1. recs # << >> /\ n \in 1 .. n
      BY <1>1, EmptySeq DEF n
    <3>2. recs[j].clock \in Nat /\ recs[n].clock \in Nat /\ r.clock \in Nat
      BY <1>1, <3>1 DEF Rhd
    <3>3. j < n \/ j = n
      BY <1>1
    <3>4. recs[j].clock <= recs[n].clock
      BY <1>1, <1>5, <3>1, <3>2, <3>3 DEF ByClock
    <3>. QED  BY <1>5, <3>1, <3>2, <3>4
  <2>2. \A j, k \in 1 .. n + 1 : j < k => a[j].clock <= a[k].clock
    <3>. TAKE j, k \in 1 .. n + 1
    <3>1. j < k => j \in 1 .. n /\ (k \in 1 .. n \/ k = n + 1)
      BY <1>1
    <3>. QED  BY <1>1, <1>5, <2>1, <3>1 DEF ByClock
  <2>. QED  BY <1>2, <2>2 DEF ByClock
<1>. QED
  BY <1>1, <1>2, <1>3, <1>4, <1>5 DEF n, a

\* A push onto the circular buffer: no record is lost if there is room for two.
LEMMA PushBackKeeps ==
  ASSUME cbuffer \in Seq(Rhd), capacity \in Nat, NEW r \in Rhd,
         Len(cbuffer) <= capacity, capacity > 1 => Len(cbuffer) < capacity
  PROVE  /\ PushBack(cbuffer, r) \in Seq(Rhd)
         /\ Len(PushBack(cbuffer, r)) <= capacity
         /\ capacity = 0 => Range(PushBack(cbuffer, r)) = {}
         /\ capacity = 1 => Range(PushBack(cbuffer, r)) = {r}
         /\ capacity > 1 => Range(PushBack(cbuffer, r)) = Range(cbuffer) \cup {r}
         /\ Distinct(cbuffer) /\ r \notin Range(cbuffer) => Distinct(PushBack(cbuffer, r))
<1>1. Len(cbuffer) \in Nat /\ DOMAIN cbuffer = 1 .. Len(cbuffer)
  BY SequenceFacts
<1>2. CASE capacity = 0
  <2>1. PushBack(cbuffer, r) = cbuffer /\ Len(cbuffer) = 0
    BY <1>1, <1>2 DEF PushBack
  <2>2. Range(cbuffer) = {}
    BY <1>1, <2>1 DEF Range
  <2>. QED  BY <1>2, <2>1, <2>2
<1>3. CASE capacity = 1 /\ Len(cbuffer) = 1
  <2>1. cbuffer # << >>
    <3>1. Len(cbuffer) # 0
      BY <1>3
    <3>. QED  BY <3>1, EmptySeq
  <2>2. Tail(cbuffer) \in Seq(Rhd) /\ Len(Tail(cbuffer)) = 0 /\ Range(Tail(cbuffer)) \subseteq Range(cbuffer)
        /\ (Distinct(cbuffer) => Distinct(Tail(cbuffer)))
    BY <1>3, <2>1, TailKeeps
  <2>3. DOMAIN Tail(cbuffer) = {}
    BY <2>2, SequenceFacts
  <2>4. Range(Tail(cbuffer)) = {}
    BY <2>3 DEF Range
  <2>5. PushBack(cbuffer, r) = Append(Tail(cbuffer), r)
    BY <1>3 DEF PushBack
  <2>6. /\ Append(Tail(cbuffer), r) \in Seq(Rhd) /\ Len(Append(Tail(cbuffer), r)) = 0 + 1
        /\ Range(Append(Tail(cbuffer), r)) = {r}
        /\ Distinct(cbuffer) => Distinct(Append(Tail(cbuffer), r))
    <3>. DEFINE t == Tail(cbuffer)
    <3>1. t \in Seq(Rhd) /\ Len(t) = 0 /\ Range(t) = {} /\ (Distinct(cbuffer) => Distinct(t))
      BY <2>2, <2>4
    <3>. HIDE DEF t
    <3>2. /\ Append(t, r) \in Seq(Rhd) /\ Len(Append(t, r)) = Len(t) + 1
          /\ Range(Append(t, r)) = Range(t) \cup {r}
          /\ Distinct(t) /\ r \notin Range(t) => Distinct(Append(t, r))
      BY <3>1, AppendKeeps
    <3>3. r \notin Range(t) /\ {} \cup {r} = {r}
      BY <3>1
    <3>4. Len(Append(t, r)) = 0 + 1
      BY <3>1, <3>2
    <3>5. Range(Append(t, r)) = {r}
      BY <3>1, <3>2, <3>3
    <3>. QED  BY <3>1, <3>2, <3>3, <3>4, <3>5 DEF t
  <2>. HIDE DEF PushBack
  <2>7. Len(PushBack(cbuffer, r)) = 1 /\ PushBack(cbuffer, r) \in Seq(Rhd)
        /\ Range(PushBack(cbuffer, r)) = {r}
        /\ (Distinct(cbuffer) => Distinct(PushBack(cbuffer, r)))
    BY <2>5, <2>6
  <2>8. capacity # 0 /\ ~ (capacity > 1) /\ 1 <= capacity
    BY <1>3
  <2>. QED  BY <2>7, <2>8
<1>4. CASE capacity >= 1 /\ Len(cbuffer) < capacity
  <2>1. PushBack(cbuffer, r) = Append(cbuffer, r)
    <3>. DEFINE n == Len(cbuffer)
    <3>1. capacity # 0 /\ n # capacity
      <4>1. n \in Nat /\ n < capacity
        BY <1>1, <1>4
      <4>. HIDE DEF n
      <4>. QED  BY <1>4, <4>1
    <3>. QED  BY <3>1, Zenon DEF PushBack
  <2>2. capacity = 1 => Range(cbuffer) = {}
    BY <1>1, <1>4 DEF Range
  <2>3. /\ Append(cbuffer, r) \in Seq(Rhd) /\ Len(Append(cbuffer, r)) = Len(cbuffer) + 1
        /\ Range(Append(cbuffer, r)) = Range(cbuffer) \cup {r}
        /\ Distinct(cbuffer) /\ r \notin Range(cbuffer) => Distinct(Append(cbuffer, r))
    BY AppendKeeps
  <2>. QED  BY <1>1, <1>4, <2>1, <2>2, <2>3
<1>. QED
  BY <1>1, <1>2, <1>3, <1>4

-----------------------------------------------------------------------------
(***************************************************************************)
(* The invariant, action by action.  First, the input does not change.     *)
(***************************************************************************)
LEMMA FrameRecords ==
  ASSUME UNCHANGED << infiles, capacity >>
  PROVE  /\ InputRecords' = InputRecords
         /\ InQuarter' <=> InQuarter
         /\ LargeEnough' <=> LargeEnough
BY DEF InputRecords, InQuarter, LargeEnough, Overtook

\* The empty buffer.
LEMMA EmptyFacts ==
  /\ << >> \in Seq(Rhd) /\ Len(<< >>) = 0
  /\ Range(<< >>) = {}
  /\ Distinct(<< >>)
  /\ ByClock(<< >>)
<1>1. << >> \in Seq(Rhd) /\ Len(<< >>) = 0 /\ DOMAIN << >> = {}
  OBVIOUS
<1>. QED
  BY <1>1 DEF Range, Distinct, ByClock

\* Initially nothing is read.
LEMMA InitSort == Init => SortInv
<1>. SUFFICES ASSUME Init PROVE SortInv
  OBVIOUS
<1>1. TypeOK
  BY EmptyFacts, RhdSortAssumption DEF Init, TypeOK, Locations
<1>2. FilesInv /\ SizeInv
  BY EmptyFacts DEF Init, FilesInv, SizeInv
<1>3. Read = {}
  <2>1. current = 0 /\ taken = 0 /\ DOMAIN infiles \subseteq Nat \ {0}
    <3>1. current = 0 /\ taken = 0 /\ infiles \in InputLists
      BY DEF Init
    <3>2. Len(infiles) \in Nat /\ DOMAIN infiles = 1 .. Len(infiles)
      BY <3>1, InputTypes
    <3>. QED  BY <3>1, <3>2
  <2>2. \A k \in DOMAIN infiles : \A i : ~ IsRead(k, i)
    BY <2>1 DEF IsRead
  <2>. QED  BY <2>2 DEF Read
<1>4. ContentInv
  <2>1. KeptOf(Read) = {}
    BY <1>3 DEF KeptOf
  <2>. QED  BY <2>1, EmptyFacts DEF Init, ContentInv
<1>5. OrderInv /\ RoomInv /\ LargeBufferSuffices
  <2>1. pc = "initialize" /\ cbuffer = << >> /\ output = << >> /\ maxOutput = -1
    BY DEF Init
  <2>2. OrderInv
    BY <2>1, EmptyFacts DEF OrderInv
  <2>3. RoomInv /\ LargeBufferSuffices
    BY <2>1 DEF RoomInv, LargeBufferSuffices
  <2>. QED  BY <2>2, <2>3
<1>. QED
  BY <1>1, <1>2, <1>4, <1>5 DEF SortInv

\* The first file is opened, or the run fails.
LEMMA InitializeSort == SortInv /\ Initialize => SortInv'
<1>. SUFFICES ASSUME SortInv, Initialize PROVE SortInv'
  OBVIOUS
<1>. USE DEF SortInv
<1>1. /\ pc = "initialize" /\ current = 0 /\ taken = 0
      /\ cbuffer = << >> /\ output = << >> /\ cbuffer' = << >> /\ output' = << >>
      /\ UNCHANGED << infiles, capacity, mode, npop, maxOutput >>
  BY DEF Initialize, FilesInv, SizeInv, OpenFirst, filevars
<1>2. /\ InputRecords' = InputRecords /\ (InQuarter' <=> InQuarter)
      /\ OrderInv /\ TypeOK
  BY <1>1, FrameRecords
<1>3. /\ Len(infiles) \in Nat /\ DOMAIN infiles = 1 .. Len(infiles)
      /\ \A k \in DOMAIN infiles : Len(infiles[k].recs) \in Nat /\ DOMAIN infiles[k].recs \subseteq Nat \ {0}
  <2>1. infiles \in InputLists
    BY <1>2 DEF TypeOK
  <2>2. /\ Len(infiles) \in Nat /\ DOMAIN infiles = 1 .. Len(infiles)
        /\ \A k \in DOMAIN infiles :
             Len(infiles[k].recs) \in Nat /\ DOMAIN infiles[k].recs = 1 .. Len(infiles[k].recs)
    BY <2>1, InputTypes
  <2>3. \A n \in Nat : 1 .. n \subseteq Nat \ {0}
    OBVIOUS
  <2>4. \A k \in DOMAIN infiles : DOMAIN infiles[k].recs \subseteq Nat \ {0}
    BY <2>2, <2>3
  <2>. QED  BY <2>2, <2>4
<1>4. CASE OpenFirst /\ pc' = "input"
  <2>1. current' = 1 /\ taken' = 0 /\ infiles[1].readable /\ 1 \in DOMAIN infiles
    <3>1. Len(infiles) # 0
      BY <1>2, <1>3, <1>4, InputTypes, EmptySeq DEF OpenFirst, CanOpen, TypeOK
    <3>. QED  BY <1>3, <1>4, <3>1 DEF OpenFirst, CanOpen
  <2>2. TypeOK'
    BY <1>1, <1>2, <1>4, <2>1, EmptyFacts DEF TypeOK, Locations
  <2>3. FilesInv'
    <3>1. pc' = "input" /\ 0 <= Len(infiles[1].recs)
      BY <1>3, <1>4, <2>1
    <3>2. \A k \in 1 .. 1 : infiles[k].readable
      BY <2>1
    <3>. QED  BY <1>1, <2>1, <3>1, <3>2 DEF FilesInv
  <2>4. SizeInv'
    <3>1. capacity \in Nat /\ Len(<< >>) = 0
      BY <1>2, RhdSortAssumption DEF TypeOK
    <3>. QED  BY <1>1, <1>4, <3>1 DEF SizeInv
  <2>5. Read' = {}
    <3>1. \A k \in DOMAIN infiles' : \A i \in DOMAIN infiles'[k].recs : ~ IsRead(k, i)'
      BY <1>1, <1>3, <2>1 DEF IsRead
    <3>. QED  BY <3>1 DEF Read
  <2>6. ContentInv'
    <3>1. KeptOf({}) = {} /\ KeptOf({})' = {}
      BY DEF KeptOf
    <3>2. KeptOf(Read)' = {}
      BY <2>5 DEF KeptOf
    <3>. QED  BY <1>1, <3>2, EmptyFacts DEF ContentInv
  <2>7. OrderInv'
    BY <1>1, <1>2, <1>4, EmptyFacts DEF OrderInv
  <2>8. RoomInv' /\ LargeBufferSuffices'
    BY <1>1, <1>4 DEF RoomInv, LargeBufferSuffices
  <2>. QED  BY <2>2, <2>3, <2>4, <2>6, <2>7, <2>8
<1>5. CASE ~ CanOpen /\ pc' = "failed" /\ UNCHANGED filevars
  <2>1. TypeOK'
    BY <1>1, <1>2, <1>5 DEF TypeOK, Locations, filevars
  <2>2. FilesInv' /\ SizeInv' /\ ContentInv' /\ RoomInv'
    BY <1>5 DEF FilesInv, SizeInv, ContentInv, RoomInv
  <2>3. OrderInv'
    BY <1>1, <1>2, <1>5, EmptyFacts DEF OrderInv
  <2>4. LargeBufferSuffices'
    BY <1>1, <1>5 DEF LargeBufferSuffices, OtherFailure, CanOpen
  <2>. QED  BY <2>1, <2>2, <2>3, <2>4
<1>. QED
  BY <1>4, <1>5 DEF Initialize

\* The reader after initialize().
LEMMA ReadState ==
  ASSUME TypeOK, FilesInv, pc \in {"input", "output", "finalize", "returned"}
  PROVE  /\ infiles \in InputLists /\ current \in DOMAIN infiles /\ taken \in Nat
         /\ taken <= Len(infiles[current].recs)
         /\ \A k \in 1 .. current : infiles[k].readable
         /\ InputRecords \subseteq Rhd
         /\ capacity \in Nat
<1>1. infiles \in InputLists /\ taken \in Nat /\ capacity \in Nat
  BY RhdSortAssumption DEF TypeOK
<1>2. InputRecords \subseteq Rhd
  BY <1>1, InputTypes
<1>. QED
  BY <1>1, <1>2 DEF FilesInv

\* Buffer and output hold only what was read.
LEMMA KeptOfRead ==
  ASSUME ContentInv, pc # "failed"
  PROVE  Range(cbuffer) \subseteq Read /\ Range(output) \subseteq Read
BY DEF ContentInv, KeptOf

\* A record is loaded and pushed; a full buffer is sorted.
LEMMA InputSort == SortInv /\ Input => SortInv'
<1>. SUFFICES ASSUME SortInv, Input PROVE SortInv'
  OBVIOUS
<1>. DEFINE r == NextRecord
            pushed == PushBack(cbuffer, r)
            full == Len(pushed) = capacity
<1>1. TypeOK /\ FilesInv /\ SizeInv /\ ContentInv /\ OrderInv /\ RoomInv
  BY DEF SortInv
<1>2. /\ pc = "input" /\ HasRecordTag /\ FindAndLoad
      /\ IF full THEN cbuffer' \in Sortings(pushed) ELSE cbuffer' = pushed
      /\ npop' = IF full THEN HalfOf(Len(pushed)) ELSE 0
      /\ pc' = IF full THEN "output" ELSE "input"
      /\ UNCHANGED << infiles, mode, capacity, output, maxOutput >>
  BY DEF Input, FindAndLoad
<1>3. /\ infiles \in InputLists /\ current \in DOMAIN infiles /\ taken \in Nat
      /\ taken <= Len(infiles[current].recs)
      /\ \A k \in 1 .. current : infiles[k].readable
      /\ InputRecords \subseteq Rhd
      /\ capacity \in Nat
  BY <1>1, <1>2, ReadState
<1>4. /\ current' \in DOMAIN infiles /\ taken' \in Nat
      /\ \A k \in 1 .. current' : infiles[k].readable
      /\ taken' <= Len(infiles[current'].recs)
      /\ InputRecords' = InputRecords
      /\ r \in InputRecords
      /\ r \notin Read
      /\ Read' = Read \cup {r}
      /\ \A q \in Read : q.num < r.num
  BY <1>2, <1>3, ReadOne
<1>5. (InQuarter' <=> InQuarter) /\ (LargeEnough' <=> LargeEnough)
  BY <1>2, FrameRecords
<1>6. Range(cbuffer) \subseteq Read /\ Range(output) \subseteq Read /\ Read \subseteq InputRecords
  BY <1>1, <1>2, KeptOfRead DEF Read
<1>7. /\ cbuffer \in Seq(Rhd) /\ r \in Rhd
      /\ Len(cbuffer) <= capacity /\ (capacity > 1 => Len(cbuffer) < capacity)
  BY <1>1, <1>2, <1>3, <1>4 DEF TypeOK, SizeInv
<1>8. Distinct(cbuffer) /\ Distinct(output)
  BY <1>1, <1>2 DEF ContentInv
<1>9. /\ pushed \in Seq(Rhd)
      /\ Len(pushed) <= capacity
      /\ capacity = 0 => Range(pushed) = {}
      /\ capacity = 1 => Range(pushed) = {r}
      /\ capacity > 1 => Range(pushed) = Range(cbuffer) \cup {r}
      /\ Distinct(pushed)
  BY <1>3, <1>4, <1>6, <1>7, <1>8, PushBackKeeps
<1>. HIDE DEF r, pushed
<1>10. /\ cbuffer' \in Seq(Rhd)
       /\ Len(cbuffer') = Len(pushed)
       /\ Range(cbuffer') = Range(pushed)
       /\ Distinct(cbuffer')
  <2>1. CASE full
    <3>1. cbuffer' \in Arrangements(pushed)
      BY <1>2, <1>9, <2>1, SortingsKeep
    <3>. QED  BY <1>9, <3>1, ArrangementsKeep
  <2>2. CASE ~ full
    BY <1>2, <1>9, <2>2
  <2>. QED  BY <2>1, <2>2
<1>11. Len(pushed) \in Nat
  BY <1>9, SequenceFacts
<1>12. TypeOK'
  <2>1. npop' \in Nat
    BY <1>2, <1>11 DEF HalfOf
  <2>2. current' \in Nat
    BY <1>3, <1>4, InputTypes
  <2>. QED  BY <1>1, <1>2, <1>4, <1>10, <2>1, <2>2 DEF TypeOK, Locations
<1>13. FilesInv'
  <2>1. pc' \in {"input", "output"} /\ infiles' = infiles
    BY <1>2
  <2>. QED  BY <1>4, <2>1 DEF FilesInv
<1>14. SizeInv'
  <2>1. capacity <= 1 => output = << >>
    BY <1>1, <1>2 DEF SizeInv
  <2>2. CASE full
    <3>1. pc' = "output" /\ npop' = capacity \div 2 /\ Len(cbuffer') = capacity
      BY <1>2, <1>10, <2>2 DEF HalfOf
    <3>2. capacity = (capacity \div 2) + (capacity - capacity \div 2)
      BY <1>3
    <3>3. capacity <= 1 => capacity \div 2 = 0
      BY <1>3
    <3>. QED  BY <1>2, <2>1, <3>1, <3>2, <3>3 DEF SizeInv
  <2>3. CASE ~ full
    <3>1. pc' = "input" /\ Len(cbuffer') < capacity
      <4>. DEFINE n == Len(pushed)
      <4>1. n \in Nat /\ n <= capacity /\ n # capacity /\ Len(cbuffer') = n /\ pc' = "input"
        BY <1>2, <1>9, <1>10, <1>11, <2>3
      <4>. HIDE DEF n
      <4>. QED  BY <1>3, <4>1
    <3>2. Len(cbuffer') <= capacity
      BY <1>3, <1>10, <1>11, <3>1
    <3>. QED  BY <1>2, <2>1, <3>1, <3>2 DEF SizeInv
  <2>. QED  BY <2>2, <2>3
<1>15. ContentInv'
  <2>1. Range(cbuffer) \cup Range(output) = KeptOf(Read) /\ Range(cbuffer) \cap Range(output) = {}
    BY <1>1, <1>2 DEF ContentInv
  <2>2. Range(cbuffer') \cup Range(output) = KeptOf(Read)' /\ Range(cbuffer') \cap Range(output) = {}
    <3>1. CASE capacity = 0
      BY <1>2, <1>9, <1>10, <2>1, <3>1 DEF KeptOf
    <3>2. CASE capacity = 1
      <4>1. Range(output) = {}
        BY <1>1, <1>2, <3>2, EmptyFacts DEF SizeInv
      <4>2. \A q \in Read' : q.num \in Nat
        BY <1>3, <1>4, <1>6 DEF Rhd
      <4>3. {x \in Read' : \A q \in Read' : q.num <= x.num} = {r}
        <5>1. \A q \in Read' : q.num <= r.num
          BY <1>4, <4>2
        <5>2. \A x \in Read' : (\A q \in Read' : q.num <= x.num) => x = r
          BY <1>4, <4>2
        <5>. QED  BY <1>4, <5>1, <5>2
      <4>4. KeptOf(Read)' = {r}
        BY <1>2, <3>2, <4>3 DEF KeptOf
      <4>. QED  BY <1>9, <1>10, <3>2, <4>1, <4>4
    <3>3. CASE capacity > 1
      <4>1. KeptOf(Read) = Read /\ KeptOf(Read)' = Read'
        BY <1>2, <1>3, <3>3 DEF KeptOf
      <4>2. Range(cbuffer') = Range(cbuffer) \cup {r}
        BY <1>9, <1>10, <3>3
      <4>. QED  BY <1>4, <1>6, <2>1, <4>1, <4>2
    <3>. QED  BY <1>3, <3>1, <3>2, <3>3
  <2>. QED  BY <1>2, <1>8, <1>10, <2>2 DEF ContentInv
<1>16. Range(cbuffer') \subseteq Range(cbuffer) \cup {r}
  BY <1>3, <1>9, <1>10
<1>17. OrderInv'
  <2>1. Range(cbuffer') \cup Range(output') \subseteq InputRecords'
    BY <1>2, <1>4, <1>6, <1>16
  <2>2. ASSUME InQuarter, pc' = "output" PROVE ByClock(cbuffer')
    <3>1. cbuffer' \in Sortings(pushed)
      BY <1>2, <2>2
    <3>2. Range(pushed) \subseteq InputRecords
      BY <1>2, <1>4, <1>10, <2>1
    <3>. QED  BY <1>3, <1>9, <2>2, <3>1, <3>2, SortingsAreByClock
  <2>3. InQuarter => ByClock(output) /\ maxOutput = IF output = << >> THEN -1 ELSE TriggerId(LastOutput)
    BY <1>1, <1>2 DEF OrderInv
  <2>4. LastOutput' = LastOutput
    BY <1>2 DEF LastOutput
  <2>. QED  BY <1>2, <1>5, <2>1, <2>2, <2>3, <2>4 DEF OrderInv
<1>18. RoomInv'
  <2>1. Range(cbuffer') \cup Unread' \subseteq Range(cbuffer) \cup Unread
    BY <1>4, <1>16 DEF Unread
  <2>2. LastOutput' = LastOutput
    BY <1>2 DEF LastOutput
  <2>. QED  BY <1>1, <1>2, <1>5, <2>1, <2>2 DEF RoomInv
<1>19. LargeBufferSuffices'
  BY <1>2 DEF LargeBufferSuffices
<1>. QED
  BY <1>12, <1>13, <1>14, <1>15, <1>17, <1>18, <1>19 DEF SortInv

\* A file cannot be opened.
LEMMA InputThrowsSort == SortInv /\ InputThrows => SortInv'
<1>. SUFFICES ASSUME SortInv, InputThrows PROVE SortInv'
  OBVIOUS
<1>1. TypeOK /\ FilesInv /\ OrderInv
  BY DEF SortInv
<1>2. /\ pc = "input" /\ pc' = "failed"
      /\ current' = Found /\ taken' = Offset /\ ~ infiles[Found].readable
      /\ UNCHANGED << infiles, mode, capacity, cbuffer, npop, output, maxOutput >>
  BY DEF InputThrows, Find, FindThrows
<1>3. /\ infiles \in InputLists /\ current \in DOMAIN infiles /\ taken \in Nat
      /\ taken <= Len(infiles[current].recs)
  BY <1>1, <1>2, ReadState
<1>4. Found \in DOMAIN infiles /\ Offset \in Nat
  BY <1>3, FoundFile
<1>5. InputRecords' = InputRecords /\ (InQuarter' <=> InQuarter)
  BY <1>2, FrameRecords
<1>6. TypeOK'
  <2>1. Found \in Nat
    <3>1. DOMAIN infiles = 1 .. Len(infiles)
      BY <1>3, InputTypes
    <3>. QED  BY <1>4, <3>1
  <2>. QED  BY <1>1, <1>2, <1>4, <2>1 DEF TypeOK, Locations
<1>7. FilesInv' /\ SizeInv' /\ ContentInv' /\ RoomInv'
  BY <1>2 DEF FilesInv, SizeInv, ContentInv, RoomInv
<1>8. OrderInv'
  <2>1. Range(cbuffer) \cup Range(output) \subseteq InputRecords /\ (InQuarter => ByClock(output))
    BY <1>1 DEF OrderInv
  <2>. QED  BY <1>2, <1>5, <2>1 DEF OrderInv
<1>9. LargeBufferSuffices'
  BY <1>2 DEF LargeBufferSuffices, OtherFailure
<1>. QED
  BY <1>6, <1>7, <1>8, <1>9 DEF SortInv

\* The end of the input.
LEMMA EndOfInputSort == SortInv /\ EndOfInput => SortInv'
<1>. SUFFICES ASSUME SortInv, EndOfInput PROVE SortInv'
  OBVIOUS
<1>1. TypeOK /\ FilesInv /\ SizeInv /\ ContentInv /\ OrderInv /\ RoomInv
  BY DEF SortInv
<1>2. /\ pc = "input" /\ pc' = "finalize" /\ NoRecordTag /\ Find
      /\ cbuffer' \in Sortings(cbuffer) /\ npop' = Len(cbuffer)
      /\ UNCHANGED << infiles, mode, capacity, output, maxOutput >>
  BY DEF EndOfInput, Find
<1>3. /\ infiles \in InputLists /\ current \in DOMAIN infiles /\ taken \in Nat
      /\ taken <= Len(infiles[current].recs)
      /\ \A k \in 1 .. current : infiles[k].readable
      /\ InputRecords \subseteq Rhd
  BY <1>1, <1>2, ReadState
<1>4. /\ current' = Len(infiles) /\ current' \in DOMAIN infiles /\ taken' \in Nat
      /\ taken' = Len(infiles[current'].recs)
      /\ \A k \in 1 .. current' : infiles[k].readable
      /\ InputRecords' = InputRecords
      /\ Read' = Read
      /\ Unread' = {}
  BY <1>2, <1>3, ReadEnd
<1>5. (InQuarter' <=> InQuarter) /\ (LargeEnough' <=> LargeEnough)
  BY <1>2, FrameRecords
<1>6. cbuffer \in Seq(Rhd) /\ Len(cbuffer) \in Nat
  BY <1>1, SequenceFacts DEF TypeOK
<1>7. /\ cbuffer' \in Seq(Rhd)
      /\ Len(cbuffer') = Len(cbuffer)
      /\ Range(cbuffer') = Range(cbuffer)
      /\ Distinct(cbuffer) => Distinct(cbuffer')
  <2>1. cbuffer' \in Arrangements(cbuffer)
    BY <1>2, <1>6, SortingsKeep
  <2>. QED  BY <1>6, <2>1, ArrangementsKeep
<1>8. TypeOK'
  <2>1. current' \in Nat
    BY <1>3, <1>4, InputTypes
  <2>. QED  BY <1>1, <1>2, <1>4, <1>6, <1>7, <2>1 DEF TypeOK, Locations
<1>9. FilesInv'
  <2>1. taken' <= Len(infiles[current'].recs)
    BY <1>4
  <2>. QED  BY <1>2, <1>4, <2>1 DEF FilesInv
<1>10. SizeInv'
  BY <1>2, <1>7 DEF SizeInv
<1>11. ContentInv'
  <2>1. KeptOf(Read)' = KeptOf(Read)
    BY <1>2, <1>4 DEF KeptOf
  <2>. QED  BY <1>1, <1>2, <1>7, <2>1 DEF ContentInv
<1>12. OrderInv'
  <2>1. /\ Range(cbuffer) \cup Range(output) \subseteq InputRecords
        /\ InQuarter => ByClock(output)
        /\ InQuarter => maxOutput = IF output = << >> THEN -1 ELSE TriggerId(LastOutput)
    BY <1>1, <1>2 DEF OrderInv
  <2>2. InQuarter => ByClock(cbuffer')
    BY <1>2, <1>3, <1>6, <2>1, SortingsAreByClock
  <2>3. LastOutput' = LastOutput
    BY <1>2 DEF LastOutput
  <2>. QED  BY <1>2, <1>4, <1>5, <1>7, <2>1, <2>2, <2>3 DEF OrderInv
<1>13. RoomInv'
  <2>1. LastOutput' = LastOutput
    BY <1>2 DEF LastOutput
  <2>. QED  BY <1>1, <1>2, <1>4, <1>5, <1>7, <2>1 DEF RoomInv
<1>14. LargeBufferSuffices'
  BY <1>2 DEF LargeBufferSuffices
<1>. QED
  BY <1>8, <1>9, <1>10, <1>11, <1>12, <1>13, <1>14 DEF SortInv

\* The end of a loop that outputs.
LEMMA OutputDoneSort == SortInv /\ OutputDone => SortInv'
<1>. SUFFICES ASSUME SortInv, OutputDone PROVE SortInv'
  OBVIOUS
<1>1. TypeOK /\ FilesInv /\ SizeInv /\ ContentInv /\ OrderInv /\ RoomInv
  BY DEF SortInv
<1>2. /\ pc \in {"output", "finalize"} /\ npop = 0
      /\ pc' = IF pc = "finalize" THEN "returned" ELSE "input"
      /\ UNCHANGED << infiles, current, taken, mode, capacity, cbuffer, npop, output, maxOutput >>
  BY DEF OutputDone, filevars
<1>3. /\ InputRecords' = InputRecords /\ (InQuarter' <=> InQuarter)
      /\ (LargeEnough' <=> LargeEnough)
  BY <1>2, FrameRecords
<1>4. Read' = Read /\ Unread' = Unread
  BY <1>2, <1>3 DEF Read, Unread, IsRead
<1>5. capacity \in Nat /\ cbuffer \in Seq(Rhd) /\ Len(cbuffer) \in Nat
  BY <1>1, RhdSortAssumption, SequenceFacts DEF TypeOK
<1>6. TypeOK' /\ FilesInv'
  BY <1>1, <1>2 DEF TypeOK, FilesInv, Locations
<1>7. SizeInv'
  <2>1. CASE pc = "finalize"
    <3>1. cbuffer = << >>
      BY <1>1, <1>2, <1>5, <2>1, EmptySeq DEF SizeInv
    <3>. QED  BY <1>2, <2>1, <3>1 DEF SizeInv
  <2>2. CASE pc = "output"
    <3>1. Len(cbuffer) = capacity - capacity \div 2
      BY <1>1, <1>2, <1>5, <2>2 DEF SizeInv
    <3>. DEFINE n == Len(cbuffer)
    <3>2. n = capacity - capacity \div 2
      BY <3>1
    <3>. HIDE DEF n
    <3>3. n <= capacity /\ (capacity > 1 => n < capacity)
      BY <1>5, <3>2
    <3>4. capacity <= 1 => output = << >>
      BY <1>1, <2>2 DEF SizeInv
    <3>. QED  BY <1>2, <2>2, <3>3, <3>4 DEF SizeInv, n
  <2>. QED  BY <1>2, <2>1, <2>2
<1>8. ContentInv'
  <2>1. KeptOf(Read)' = KeptOf(Read)
    BY <1>2, <1>4 DEF KeptOf
  <2>. QED  BY <1>1, <1>2, <2>1 DEF ContentInv
<1>9. LastOutput' = LastOutput
  BY <1>2 DEF LastOutput
<1>10. OrderInv'
  <2>1. /\ Range(cbuffer) \cup Range(output) \subseteq InputRecords
        /\ InQuarter => ByClock(output)
        /\ InQuarter => maxOutput = IF output = << >> THEN -1 ELSE TriggerId(LastOutput)
    BY <1>1, <1>2 DEF OrderInv
  <2>. QED  BY <1>2, <1>3, <1>9, <2>1 DEF OrderInv
<1>11. RoomInv'
  BY <1>1, <1>2, <1>3, <1>4, <1>9 DEF RoomInv
<1>12. LargeBufferSuffices'
  BY <1>2 DEF LargeBufferSuffices
<1>. QED
  BY <1>6, <1>7, <1>8, <1>10, <1>11, <1>12 DEF SortInv

-----------------------------------------------------------------------------
(***************************************************************************)
(* The records of a buffer, counted.                                       *)
(***************************************************************************)
LEMMA RangeSize ==
  ASSUME NEW S, NEW recs \in Seq(S)
  PROVE  /\ IsFiniteSet(Range(recs))
         /\ Distinct(recs) => Cardinality(Range(recs)) = Len(recs)
<1>. DEFINE n == Len(recs)
            T == Range(recs)
<1>1. n \in Nat /\ DOMAIN recs = 1 .. n /\ recs \in [1 .. n -> S]
  BY SequenceFacts, LenProperties
<1>2. IsFiniteSet(1 .. n) /\ Cardinality(1 .. n) = n
  BY <1>1, FS_Interval
<1>3. recs \in Surjection(1 .. n, T)
  BY <1>1 DEF Surjection, Range
<1>4. Distinct(recs) => recs \in Injection(1 .. n, T)
  <2>1. recs \in [1 .. n -> T]
    BY <1>3 DEF Surjection
  <2>. QED  BY <1>1, <2>1 DEF Injection, IsInjective, Distinct
<1>5. /\ IsFiniteSet(T)
      /\ Cardinality(T) = Cardinality(1 .. n) <=> recs \in Injection(1 .. n, T)
  <2>. HIDE DEF T, n
  <2>. QED  BY <1>2, <1>3, FS_Surjection
<1>. QED
  BY <1>2, <1>4, <1>5

\* The input is finite.
LEMMA InputFinite ==
  ASSUME infiles \in InputLists
  PROVE  IsFiniteSet(InputRecords)
<1>. DEFINE n == Len(infiles)
            f == [k \in 1 .. n |-> Range(infiles[k].recs)]
            T == {Range(infiles[k].recs) : k \in DOMAIN infiles}
<1>1. /\ n \in Nat /\ DOMAIN infiles = 1 .. n
      /\ \A k \in 1 .. n : infiles[k].recs \in Seq(Rhd)
  BY InputTypes
<1>2. \A t \in T : IsFiniteSet(t)
  BY <1>1, RangeSize
<1>3. IsFiniteSet(1 .. n)
  BY <1>1, FS_Interval
<1>4. f \in Surjection(1 .. n, T)
  BY <1>1 DEF Surjection
<1>5. IsFiniteSet(T)
  <2>. HIDE DEF n, f, T
  <2>. QED  BY <1>3, <1>4, FS_Surjection
<1>6. IsFiniteSet(UNION T)
  <2>. HIDE DEF T
  <2>. QED  BY <1>2, <1>5, FS_UNION
<1>. QED
  BY <1>6 DEF InputRecords

\* What is read comes before what is not.
LEMMA ReadBeforeUnread ==
  ASSUME infiles \in InputLists, current \in Nat, taken \in Nat,
         NEW q \in Read, NEW u \in Unread
  PROVE  q.num < u.num
<1>. DEFINE recs(k) == infiles[k].recs
<1>1. /\ Len(infiles) \in Nat /\ DOMAIN infiles = 1 .. Len(infiles)
      /\ \A k \in DOMAIN infiles : Len(recs(k)) \in Nat /\ DOMAIN recs(k) = 1 .. Len(recs(k))
      /\ Numbered(infiles)
  BY InputTypes
<1>2. PICK k \in DOMAIN infiles : \E i \in DOMAIN recs(k) : q = recs(k)[i] /\ IsRead(k, i)
  BY DEF Read
<1>3. PICK i \in DOMAIN recs(k) : q = recs(k)[i] /\ IsRead(k, i)
  BY <1>2
<1>4. u \in InputRecords /\ u \notin Read
  BY DEF Unread
<1>5. PICK m \in DOMAIN infiles : u \in Range(recs(m))
  BY <1>4 DEF InputRecords
<1>6. PICK j \in DOMAIN recs(m) : u = recs(m)[j]
  BY <1>5 DEF Range
<1>7. ~ IsRead(m, j)
  BY <1>4, <1>6 DEF Read
<1>8. k < m \/ (k = m /\ i < j)
  <2>1. k \in Nat /\ m \in Nat /\ i \in Nat /\ j \in Nat
    BY <1>1
  <2>. QED  BY <1>3, <1>7, <2>1 DEF IsRead
<1>. QED
  BY <1>1, <1>3, <1>6, <1>8 DEF Numbered

\* After the input has ended, all is read.
LEMMA FinalizeHasRead ==
  ASSUME TypeOK, FilesInv, pc \in {"finalize", "returned"}
  PROVE  Read = InputRecords /\ Unread = {}
<1>1. /\ infiles \in InputLists /\ current = Len(infiles)
      /\ taken = Len(infiles[current].recs)
  BY DEF TypeOK, FilesInv
<1>2. /\ Len(infiles) \in Nat /\ DOMAIN infiles = 1 .. Len(infiles)
      /\ \A k \in DOMAIN infiles :
           Len(infiles[k].recs) \in Nat /\ DOMAIN infiles[k].recs = 1 .. Len(infiles[k].recs)
  BY <1>1, InputTypes
<1>3. \A k \in DOMAIN infiles : \A i \in DOMAIN infiles[k].recs : IsRead(k, i)
  <2>. TAKE k \in DOMAIN infiles
  <2>. TAKE i \in DOMAIN infiles[k].recs
  <2>1. k < current \/ k = current
    BY <1>1, <1>2
  <2>2. i \in 1 .. Len(infiles[k].recs)
    BY <1>2
  <2>3. k = current => i <= taken
    BY <1>1, <1>2, <2>2
  <2>. QED  BY <2>1, <2>3 DEF IsRead
<1>4. \A r \in InputRecords : \E k \in DOMAIN infiles : \E i \in DOMAIN infiles[k].recs :
        r = infiles[k].recs[i]
  BY DEF InputRecords, Range
<1>. QED
  BY <1>3, <1>4 DEF Read, Unread

(***************************************************************************)
(* Why a large buffer suffices: whatever is still unread when a record is  *)
(* output from a full sorted buffer is not earlier, since it would be      *)
(* overtaken by all of the buffer, more records than overtake any.         *)
(***************************************************************************)
LEMMA HeadNotLater ==
  ASSUME SortInv, pc \in {"output", "finalize"}, npop > 0, cbuffer # << >>,
         InQuarter, LargeEnough, NEW u \in Unread
  PROVE  Head(cbuffer).clock <= u.clock
<1>1. TypeOK /\ FilesInv /\ SizeInv /\ ContentInv /\ OrderInv
  BY DEF SortInv
<1>2. infiles \in InputLists /\ InputRecords \subseteq Rhd
      /\ current \in Nat /\ taken \in Nat /\ capacity \in Nat /\ npop \in Nat
      /\ cbuffer \in Seq(Rhd)
  BY <1>1, InputTypes, RhdSortAssumption DEF TypeOK
<1>3. pc = "output"
  BY <1>1, FinalizeHasRead
<1>4. Len(cbuffer) = npop + (capacity - capacity \div 2)
  BY <1>1, <1>3 DEF SizeInv
<1>5. /\ u \in InputRecords
      /\ Head(cbuffer) \in Range(cbuffer)
      /\ Range(cbuffer) \subseteq Read
      /\ Read \subseteq InputRecords
  BY <1>1, <1>2, <1>3, KeptOfRead, TailKeeps DEF Unread, Read
<1>6. ByClock(cbuffer) /\ Distinct(cbuffer)
  BY <1>1, <1>3 DEF OrderInv, ContentInv
<1>7. \A r \in InputRecords : r.clock \in Nat
  BY <1>2 DEF Rhd
<1>8. \A q \in Range(cbuffer) : Head(cbuffer).clock <= q.clock
  <2>1. Range(cbuffer) = Range(Tail(cbuffer)) \cup {Head(cbuffer)}
        /\ \A q \in Range(Tail(cbuffer)) : Head(cbuffer).clock <= q.clock
    BY <1>2, <1>6, TailKeeps
  <2>2. Head(cbuffer).clock <= Head(cbuffer).clock
    BY <1>5, <1>7
  <2>. QED  BY <2>1, <2>2
<1>. SUFFICES ASSUME u.clock < Head(cbuffer).clock PROVE FALSE
  BY <1>5, <1>7
<1>9. Range(cbuffer) \subseteq Overtook(u)
  <2>. SUFFICES ASSUME NEW q \in Range(cbuffer)
                PROVE  q.num < u.num /\ q.clock > u.clock
    BY <1>5 DEF Overtook
  <2>1. q.num < u.num
    BY <1>2, <1>5, ReadBeforeUnread
  <2>2. q.clock \in Nat /\ u.clock \in Nat /\ Head(cbuffer).clock \in Nat
    BY <1>5, <1>7
  <2>3. Head(cbuffer).clock <= q.clock
    BY <1>8
  <2>. QED  BY <2>1, <2>2, <2>3
<1>10. IsFiniteSet(Overtook(u))
  <2>1. Overtook(u) \in SUBSET InputRecords /\ IsFiniteSet(InputRecords)
    BY <1>2, InputFinite DEF Overtook
  <2>. QED  BY <2>1, FS_Subset
<1>11. Cardinality(Range(cbuffer)) <= Cardinality(Overtook(u))
  BY <1>9, <1>10, FS_Subset
<1>12. Cardinality(Range(cbuffer)) = Len(cbuffer)
  BY <1>2, <1>6, RangeSize
<1>13. Cardinality(Overtook(u)) <= capacity - capacity \div 2
  BY <1>5 DEF LargeEnough
<1>14. Cardinality(Overtook(u)) \in Nat
  BY <1>10, FS_CardinalityType
<1>. DEFINE a == Cardinality(Range(cbuffer))
            b == Cardinality(Overtook(u))
<1>15. a = npop + (capacity - capacity \div 2) /\ a <= b /\ b <= capacity - capacity \div 2 /\ b \in Nat
  BY <1>4, <1>11, <1>12, <1>13, <1>14
<1>. HIDE DEF a, b
<1>16. npop > 0 /\ npop \in Nat /\ capacity \in Nat
  BY <1>2
<1>. QED
  BY <1>15, <1>16

-----------------------------------------------------------------------------
(***************************************************************************)
(* The record at the front of the buffer.                                  *)
(***************************************************************************)
LEMMA HeadFacts ==
  ASSUME SortInv, pc \in {"output", "finalize"}, npop > 0
  PROVE  /\ cbuffer # << >> /\ cbuffer \in Seq(Rhd) /\ output \in Seq(Rhd)
         /\ Head(cbuffer) \in InputRecords /\ Head(cbuffer) \in Rhd
         /\ InputRecords \subseteq Rhd
         /\ capacity \in Nat /\ npop \in Nat
         /\ maxOutput \in Nat \cup {-1}
         /\ TriggerId(Head(cbuffer)) \in Nat
         /\ output # << >> => LastOutput \in Range(output) /\ LastOutput \in InputRecords
<1>1. TypeOK /\ FilesInv /\ SizeInv /\ OrderInv
  BY DEF SortInv
<1>2. /\ capacity \in Nat /\ npop \in Nat /\ maxOutput \in Nat \cup {-1}
      /\ cbuffer \in Seq(Rhd) /\ output \in Seq(Rhd) /\ infiles \in InputLists
  BY <1>1, RhdSortAssumption DEF TypeOK
<1>3. cbuffer # << >>
  <2>1. Len(cbuffer) = npop \/ Len(cbuffer) = npop + (capacity - capacity \div 2)
    BY <1>1 DEF SizeInv
  <2>2. Len(cbuffer) # 0
    BY <1>2, <2>1
  <2>. QED  BY <2>2
<1>4. Head(cbuffer) \in Range(cbuffer) /\ Head(cbuffer) \in Rhd
  BY <1>2, <1>3, TailKeeps
<1>5. Range(cbuffer) \cup Range(output) \subseteq InputRecords
  BY <1>1 DEF OrderInv
<1>6. TriggerId(Head(cbuffer)) \in Nat
  <2>1. Head(cbuffer).clock \in Nat /\ 4 * Quarter \in Nat \ {0}
    BY <1>4, RhdSortAssumption DEF Rhd
  <2>2. Head(cbuffer).clock % (4 * Quarter) \in 0 .. 4 * Quarter - 1
    BY <2>1, DivMod
  <2>. QED  BY <2>1, <2>2 DEF TriggerId
<1>7. output # << >> => LastOutput \in Range(output)
  <2>1. Len(output) \in Nat /\ DOMAIN output = 1 .. Len(output)
    BY <1>2, SequenceFacts
  <2>2. output # << >> => Len(output) # 0
    BY <1>2, EmptySeq
  <2>3. output # << >> => Len(output) \in DOMAIN output
    BY <2>1, <2>2
  <2>. QED  BY <2>3 DEF Range, LastOutput
<1>8. InputRecords \subseteq Rhd
  BY <1>2, InputTypes
<1>. QED
  BY <1>2, <1>3, <1>4, <1>5, <1>6, <1>7, <1>8

\* The check for late records is right, and so is the greatest trigger ID output.
LEMMA LateOrder ==
  ASSUME SortInv, pc \in {"output", "finalize"}, npop > 0, InQuarter
  PROVE  LET r == Head(cbuffer)
         IN  /\ TooLate(r) <=> output # << >> /\ r.clock < LastOutput.clock
             /\ ~ TooLate(r) => MaxAfter(r) = TriggerId(r)
<1>. DEFINE r == Head(cbuffer)
<1>1. /\ r \in InputRecords /\ InputRecords \subseteq Rhd
      /\ TriggerId(r) \in Nat
      /\ output # << >> => LastOutput \in InputRecords
  BY HeadFacts
<1>2. maxOutput = IF output = << >> THEN -1 ELSE TriggerId(LastOutput)
  BY DEF SortInv, OrderInv
<1>. HIDE DEF r
<1>3. CASE output = << >>
  <2>1. maxOutput = -1
    BY <1>2, <1>3
  <2>2. ~ TooLate(r) /\ MaxAfter(r) = TriggerId(r)
    BY <2>1 DEF TooLate, MaxAfter
  <2>. QED  BY <1>3, <2>2 DEF r
<1>4. CASE output # << >>
  <2>. DEFINE l == LastOutput
  <2>1. l \in InputRecords /\ maxOutput = TriggerId(l)
    BY <1>1, <1>2, <1>4
  <2>. HIDE DEF l
  <2>2. /\ r.clock \in Nat /\ l.clock \in Nat
        /\ TriggerIdLess(TriggerId(r), TriggerId(l)) <=> r.clock < l.clock
        /\ TriggerIdLess(TriggerId(l), TriggerId(r)) <=> l.clock < r.clock
    BY <1>1, <2>1, LessIsEarlier
  <2>3. TriggerId(l) \in Nat
    <3>1. 4 * Quarter \in Nat \ {0}
      BY RhdSortAssumption
    <3>2. l.clock % (4 * Quarter) \in 0 .. 4 * Quarter - 1
      BY <2>2, <3>1, DivMod
    <3>. QED  BY <3>1, <3>2 DEF TriggerId
  <2>4. TooLate(r) <=> r.clock < l.clock
    <3>1. maxOutput >= 0
      BY <2>1, <2>3
    <3>. QED  BY <2>1, <2>2, <3>1 DEF TooLate
  <2>5. ~ TooLate(r) => MaxAfter(r) = TriggerId(r)
    <3>. SUFFICES ASSUME ~ TooLate(r) PROVE MaxAfter(r) = TriggerId(r)
      OBVIOUS
    <3>1. CASE l.clock < r.clock
      BY <2>1, <2>2, <3>1 DEF MaxAfter
    <3>2. CASE ~ (l.clock < r.clock)
      <4>1. r.clock = l.clock
        BY <2>2, <2>4, <3>2
      <4>2. TriggerId(l) = TriggerId(r)
        BY <4>1 DEF TriggerId
      <4>. QED  BY <2>1, <4>2 DEF MaxAfter
    <3>. QED  BY <3>1, <3>2
  <2>. QED  BY <1>4, <2>4, <2>5 DEF r, l
<1>. QED
  BY <1>3, <1>4

\* A record is output.
LEMMA OutputOneSort == SortInv /\ OutputOne => SortInv'
<1>. SUFFICES ASSUME SortInv, OutputOne PROVE SortInv'
  OBVIOUS
<1>. DEFINE r == Head(cbuffer)
<1>1. TypeOK /\ FilesInv /\ SizeInv /\ ContentInv /\ OrderInv /\ RoomInv
  BY DEF SortInv
<1>2. /\ pc \in {"output", "finalize"} /\ npop > 0 /\ ~ TooLate(r)
      /\ cbuffer' = Tail(cbuffer) /\ npop' = npop - 1 /\ output' = Append(output, r)
      /\ maxOutput' = MaxAfter(r)
      /\ UNCHANGED << pc, infiles, current, taken, mode, capacity >>
  BY DEF OutputOne, PopOne, filevars
<1>3. /\ cbuffer # << >> /\ cbuffer \in Seq(Rhd) /\ output \in Seq(Rhd)
      /\ r \in InputRecords /\ r \in Rhd
      /\ InputRecords \subseteq Rhd
      /\ capacity \in Nat /\ npop \in Nat
      /\ maxOutput \in Nat \cup {-1}
      /\ TriggerId(r) \in Nat
  BY <1>2, HeadFacts
<1>4. /\ InputRecords' = InputRecords /\ (InQuarter' <=> InQuarter)
      /\ (LargeEnough' <=> LargeEnough)
  BY <1>2, FrameRecords
<1>5. Read' = Read /\ Unread' = Unread
  BY <1>2, <1>4 DEF Read, Unread, IsRead
<1>6. /\ Tail(cbuffer) \in Seq(Rhd) /\ Len(Tail(cbuffer)) = Len(cbuffer) - 1
      /\ r \in Range(cbuffer)
      /\ Range(cbuffer) = Range(Tail(cbuffer)) \cup {r}
      /\ Distinct(cbuffer) => Distinct(Tail(cbuffer)) /\ r \notin Range(Tail(cbuffer))
      /\ ByClock(cbuffer) => ByClock(Tail(cbuffer))
      /\ ByClock(cbuffer) => \A q \in Range(Tail(cbuffer)) : r.clock <= q.clock
  BY <1>3, TailKeeps
<1>7. /\ Append(output, r) \in Seq(Rhd) /\ Len(Append(output, r)) = Len(output) + 1
      /\ Append(output, r) # << >>
      /\ Append(output, r)[Len(output) + 1] = r
      /\ Range(Append(output, r)) = Range(output) \cup {r}
      /\ Distinct(output) /\ r \notin Range(output) => Distinct(Append(output, r))
      /\ ByClock(output) /\ (output = << >> \/ output[Len(output)].clock <= r.clock) =>
           ByClock(Append(output, r))
  BY <1>3, AppendKeeps
<1>8. LastOutput' = r /\ output' # << >>
  BY <1>2, <1>7 DEF LastOutput
<1>9. InQuarter => /\ output = << >> \/ output[Len(output)].clock <= r.clock
                   /\ MaxAfter(r) = TriggerId(r)
  <2>. SUFFICES ASSUME InQuarter
                PROVE  /\ output = << >> \/ output[Len(output)].clock <= r.clock
                       /\ MaxAfter(r) = TriggerId(r)
    OBVIOUS
  <2>1. /\ output = << >> \/ ~ (r.clock < LastOutput.clock)
        /\ MaxAfter(r) = TriggerId(r)
    BY <1>2, LateOrder
  <2>2. output # << >> => LastOutput.clock \in Nat /\ r.clock \in Nat
    <3>1. output # << >> => LastOutput \in InputRecords
      BY <1>2, HeadFacts
    <3>. QED  BY <1>3, <3>1 DEF Rhd
  <2>3. output = << >> \/ LastOutput.clock <= r.clock
    BY <2>1, <2>2
  <2>. QED  BY <2>1, <2>3 DEF LastOutput
<1>10. TypeOK'
  <2>1. npop - 1 \in Nat
    BY <1>2, <1>3
  <2>2. MaxAfter(r) \in Nat \cup {-1}
    BY <1>3 DEF MaxAfter
  <2>. HIDE DEF r
  <2>. QED  BY <1>1, <1>2, <1>6, <1>7, <2>1, <2>2 DEF TypeOK
<1>11. FilesInv'
  BY <1>1, <1>2 DEF FilesInv
<1>. HIDE DEF r
<1>12. SizeInv'
  <2>. DEFINE n == Len(cbuffer)
  <2>1. Len(cbuffer') = n - 1
    BY <1>2, <1>6
  <2>2. CASE pc = "output"
    <3>1. n = npop + (capacity - capacity \div 2) /\ ~ (capacity <= 1)
      BY <1>1, <1>2, <2>2 DEF SizeInv
    <3>. HIDE DEF n
    <3>2. n - 1 = (npop - 1) + (capacity - capacity \div 2)
      BY <1>3, <3>1
    <3>. QED  BY <1>2, <2>1, <2>2, <3>1, <3>2 DEF SizeInv
  <2>3. CASE pc = "finalize"
    <3>1. n = npop
      BY <1>1, <2>3 DEF SizeInv
    <3>. QED  BY <1>2, <2>1, <2>3, <3>1 DEF SizeInv
  <2>. QED  BY <1>2, <2>2, <2>3
<1>13. /\ Range(cbuffer) \cup Range(output) = KeptOf(Read)
       /\ Range(cbuffer) \cap Range(output) = {}
       /\ Distinct(cbuffer) /\ Distinct(output)
  BY <1>1, <1>2 DEF ContentInv
<1>14. ContentInv'
  <2>1. KeptOf(Read)' = KeptOf(Read)
    BY <1>2, <1>5 DEF KeptOf
  <2>2. Range(cbuffer') \cup Range(output') = Range(cbuffer) \cup Range(output)
    BY <1>2, <1>6, <1>7
  <2>3. Range(cbuffer') \cap Range(output') = {}
    BY <1>2, <1>6, <1>7, <1>13
  <2>4. Distinct(cbuffer') /\ Distinct(output')
    <3>1. r \notin Range(output)
      BY <1>6, <1>13
    <3>. QED  BY <1>2, <1>6, <1>7, <1>13, <3>1
  <2>. QED  BY <1>13, <2>1, <2>2, <2>3, <2>4 DEF ContentInv
<1>15. InQuarter => ByClock(cbuffer) /\ ByClock(output)
  BY <1>1, <1>2 DEF OrderInv
<1>16. OrderInv'
  <2>1. Range(cbuffer') \cup Range(output') \subseteq InputRecords'
    BY <1>1, <1>2, <1>4, <1>6, <1>7 DEF OrderInv
  <2>2. InQuarter => ByClock(output') /\ ByClock(cbuffer')
    BY <1>2, <1>6, <1>7, <1>9, <1>15
  <2>3. InQuarter => maxOutput' = IF output' = << >> THEN -1 ELSE TriggerId(LastOutput)'
    <3>1. TriggerId(LastOutput)' = TriggerId(r)
      BY <1>8 DEF TriggerId
    <3>. QED  BY <1>2, <1>8, <1>9, <3>1
  <2>. QED  BY <1>4, <2>1, <2>2, <2>3 DEF OrderInv
<1>17. RoomInv'
  <2>. SUFFICES ASSUME InQuarter, LargeEnough, NEW u \in Range(cbuffer') \cup Unread'
                PROVE  u.clock >= r.clock
    BY <1>4, <1>8 DEF RoomInv
  <2>1. CASE u \in Range(cbuffer')
    <3>1. r.clock <= u.clock
      BY <1>2, <1>6, <1>15, <2>1
    <3>2. u \in InputRecords
      <4>1. Range(cbuffer') \subseteq InputRecords
        BY <1>1, <1>2, <1>6 DEF OrderInv
      <4>. QED  BY <2>1, <4>1
    <3>3. u.clock \in Nat /\ r.clock \in Nat
      BY <1>3, <3>2 DEF Rhd
    <3>. QED  BY <3>1, <3>3
  <2>2. CASE u \in Unread'
    <3>1. u \in Unread /\ u \in InputRecords
      BY <1>5, <2>2 DEF Unread
    <3>2. r.clock <= u.clock
      BY <1>2, <1>3, <3>1, HeadNotLater DEF r
    <3>3. u.clock \in Nat /\ r.clock \in Nat
      BY <1>3, <3>1 DEF Rhd
    <3>. QED  BY <3>2, <3>3
  <2>. QED  BY <2>1, <2>2
<1>18. LargeBufferSuffices'
  BY <1>2 DEF LargeBufferSuffices
<1>. QED
  BY <1>10, <1>11, <1>12, <1>14, <1>16, <1>17, <1>18 DEF SortInv

\* A record is too late, or has no file.
LEMMA OutputThrowsSort == SortInv /\ OutputThrows => SortInv'
<1>. SUFFICES ASSUME SortInv, OutputThrows PROVE SortInv'
  OBVIOUS
<1>. DEFINE r == Head(cbuffer)
<1>1. TypeOK /\ OrderInv /\ RoomInv
  BY DEF SortInv
<1>2. /\ pc \in {"output", "finalize"} /\ npop > 0 /\ pc' = "failed"
      /\ TooLate(r) \/ (Stored /\ Writer!StoreThrows)
      /\ cbuffer' = Tail(cbuffer)
      /\ maxOutput' = IF TooLate(r) THEN maxOutput ELSE MaxAfter(r)
      /\ UNCHANGED << infiles, current, taken, mode, capacity, npop, output >>
      /\ UNCHANGED writervars
  BY DEF OutputThrows, PopOne, filevars
<1>3. /\ cbuffer # << >> /\ cbuffer \in Seq(Rhd)
      /\ r \in InputRecords /\ r \in Rhd /\ InputRecords \subseteq Rhd
      /\ maxOutput \in Nat \cup {-1}
      /\ TriggerId(r) \in Nat
      /\ output # << >> => LastOutput \in InputRecords
  BY <1>2, HeadFacts
<1>4. /\ InputRecords' = InputRecords /\ (InQuarter' <=> InQuarter)
      /\ (LargeEnough' <=> LargeEnough)
  BY <1>2, FrameRecords
<1>5. /\ Tail(cbuffer) \in Seq(Rhd)
      /\ r \in Range(cbuffer)
      /\ Range(cbuffer) = Range(Tail(cbuffer)) \cup {r}
  BY <1>3, TailKeeps
<1>6. MaxAfter(r) \in Nat \cup {-1}
  BY <1>3 DEF MaxAfter
<1>7. InQuarter /\ LargeEnough => ~ TooLate(r)
  <2>. SUFFICES ASSUME InQuarter, LargeEnough, TooLate(r) PROVE FALSE
    OBVIOUS
  <2>1. output # << >> /\ r.clock < LastOutput.clock
    BY <1>2, LateOrder
  <2>2. r.clock >= LastOutput.clock
    BY <1>1, <1>2, <1>5, <2>1 DEF RoomInv
  <2>3. r.clock \in Nat /\ LastOutput.clock \in Nat
    BY <1>3, <2>1 DEF Rhd
  <2>. QED  BY <2>1, <2>2, <2>3
<1>. HIDE DEF r
<1>8. TypeOK'
  BY <1>1, <1>2, <1>5, <1>6 DEF TypeOK, Locations
<1>9. FilesInv' /\ SizeInv' /\ ContentInv' /\ RoomInv'
  BY <1>2 DEF FilesInv, SizeInv, ContentInv, RoomInv
<1>10. OrderInv'
  <2>1. Range(cbuffer) \cup Range(output) \subseteq InputRecords /\ (InQuarter => ByClock(output))
    BY <1>1 DEF OrderInv
  <2>2. Range(cbuffer') \cup Range(output') \subseteq InputRecords'
    BY <1>2, <1>4, <1>5, <2>1
  <2>. QED  BY <1>2, <1>4, <2>1, <2>2 DEF OrderInv
<1>11. LargeBufferSuffices'
  <2>. SUFFICES ASSUME InQuarter, LargeEnough PROVE OtherFailure'
    BY <1>4 DEF LargeBufferSuffices
  <2>1. Stored /\ Writer!StoreThrows
    BY <1>2, <1>7
  <2>2. Stored' /\ Writer!StoreThrows'
    BY <1>2, <2>1 DEF Stored, writervars, Writer!StoreThrows, Writer!IsTerminated, Writer!Overrun,
                      Writer!FileIsFull, Writer!IsLastFile, Writer!CurrentFileIndex
  <2>. QED  BY <2>2 DEF OtherFailure
<1>. QED
  BY <1>8, <1>9, <1>10, <1>11 DEF SortInv

\* A step that changes nothing.
LEMMA StutterSort == SortInv /\ UNCHANGED vars => SortInv'
<1>. SUFFICES ASSUME SortInv, UNCHANGED vars PROVE SortInv'
  OBVIOUS
<1>1. /\ UNCHANGED << infiles, current, taken, mode, capacity, pc, cbuffer, npop, output, maxOutput >>
      /\ UNCHANGED writervars
  BY DEF vars, filevars
<1>2. /\ InputRecords' = InputRecords /\ (InQuarter' <=> InQuarter)
      /\ (LargeEnough' <=> LargeEnough)
  BY <1>1, FrameRecords
<1>3. Read' = Read /\ Unread' = Unread
  BY <1>1, <1>2 DEF Read, Unread, IsRead
<1>4. TypeOK' /\ FilesInv' /\ SizeInv'
  BY <1>1 DEF SortInv, TypeOK, FilesInv, SizeInv
<1>5. ContentInv'
  <2>1. KeptOf(Read)' = KeptOf(Read)
    BY <1>1, <1>3 DEF KeptOf
  <2>. QED  BY <1>1, <2>1 DEF SortInv, ContentInv
<1>6. LastOutput' = LastOutput /\ TriggerId(LastOutput)' = TriggerId(LastOutput)
  BY <1>1 DEF LastOutput, TriggerId
<1>7. OrderInv'
  BY <1>1, <1>2, <1>6 DEF SortInv, OrderInv
<1>8. RoomInv'
  BY <1>1, <1>2, <1>3, <1>6 DEF SortInv, RoomInv
<1>9. LargeBufferSuffices'
  <2>1. OtherFailure => OtherFailure'
    <3>1. (~ CanOpen => ~ CanOpen') /\ (~ infiles[current].readable => ~ infiles'[current'].readable)
      BY <1>1 DEF CanOpen
    <3>2. Stored /\ Writer!StoreThrows => Stored' /\ Writer!StoreThrows'
      BY <1>1 DEF Stored, writervars, Writer!StoreThrows, Writer!IsTerminated, Writer!Overrun,
                  Writer!FileIsFull, Writer!IsLastFile, Writer!CurrentFileIndex
    <3>. QED  BY <3>1, <3>2 DEF OtherFailure
  <2>. QED  BY <1>1, <1>2, <2>1 DEF SortInv, LargeBufferSuffices
<1>. QED
  BY <1>4, <1>5, <1>7, <1>8, <1>9 DEF SortInv

(***************************************************************************)
(* The invariant of the sorter.                                            *)
(***************************************************************************)
THEOREM SortInvariant == Spec => []SortInv
<1>1. SortInv /\ [Next]_vars => SortInv'
  BY InitializeSort, InputSort, InputThrowsSort, EndOfInputSort, OutputThrowsSort,
     OutputOneSort, OutputDoneSort, StutterSort DEF Next
<1>. QED
  BY <1>1, InitSort, PTL DEF Spec

(***************************************************************************)
(* Whatever the size of the buffer and wherever the trigger ID overflows,  *)
(* the records of less than a quarter of the trigger IDs come out by       *)
(* increasing trigger.                                                     *)
(***************************************************************************)
THEOREM SortedOutput == Spec => []OutputInOrder
<1>1. SortInv => OutputInOrder
  BY DEF SortInv, OrderInv, ByClock, OutputInOrder
<1>. QED
  BY <1>1, SortInvariant, PTL

(***************************************************************************)
(* A run that returns has output every record of every file exactly once,  *)
(* unless the buffer has no room for two.                                  *)
(***************************************************************************)
THEOREM SortDelivers == Spec => []AllDelivered
<1>1. SortInv => AllDelivered
  <2>. SUFFICES ASSUME SortInv, pc = "returned"
                PROVE  Range(output) = Delivered /\ Len(output) = Cardinality(Delivered)
    BY DEF AllDelivered
  <2>1. Read = InputRecords
    BY FinalizeHasRead DEF SortInv
  <2>2. Range(cbuffer) = {}
    BY EmptyFacts DEF SortInv, SizeInv
  <2>3. Range(output) = KeptOf(Read) /\ Distinct(output)
    BY <2>2 DEF SortInv, ContentInv
  <2>4. Range(output) = Delivered
    BY <2>1, <2>3 DEF KeptOf, Delivered
  <2>5. output \in Seq(Rhd)
    BY DEF SortInv, TypeOK
  <2>6. Cardinality(Range(output)) = Len(output)
    BY <2>3, <2>5, RangeSize
  <2>. QED  BY <2>4, <2>6
<1>. QED
  BY <1>1, SortInvariant, PTL

(***************************************************************************)
(* With a buffer that keeps, when half of it is output, as many records as *)
(* overtook any record of the input, no record is too late: a run fails    *)
(* only for its files.                                                     *)
(***************************************************************************)
THEOREM SortSuffices == Spec => []LargeBufferSuffices
<1>1. SortInv => LargeBufferSuffices
  BY DEF SortInv
<1>. QED
  BY <1>1, SortInvariant, PTL

(***************************************************************************)
(* A run that returns has opened every input file.                         *)
(***************************************************************************)
THEOREM SortReadsAll == Spec => []ReturnsAfterAllFiles
<1>1. SortInv => ReturnsAfterAllFiles
  <2>. SUFFICES ASSUME SortInv, pc = "returned", NEW k \in DOMAIN infiles
                PROVE  infiles[k].readable
    BY DEF ReturnsAfterAllFiles
  <2>1. infiles \in InputLists /\ current = Len(infiles) /\ \A i \in 1 .. current : infiles[i].readable
    BY DEF SortInv, TypeOK, FilesInv
  <2>2. DOMAIN infiles = 1 .. Len(infiles)
    BY <2>1, InputTypes
  <2>. QED  BY <2>1, <2>2
<1>. QED
  BY <1>1, SortInvariant, PTL

-----------------------------------------------------------------------------
(***************************************************************************)
(* The evaluation.  The trigger IDs it remembers are of records read, at   *)
(* their positions, and the greatest one read is always among them; hence  *)
(* a record that is less than any one before it is noticed.                *)
(***************************************************************************)
Inverted(recs, d) ==
  \E q, r \in recs : q.num < r.num /\ TriggerId(q) > TriggerId(r) /\ d = r.num - q.num

NoInversion(recs) == \A q, r \in recs : q.num < r.num => TriggerId(q) <= TriggerId(r)

EvalInv ==
  mode = "evaluation" /\ pc # "failed" =>
    /\ \A i \in DOMAIN firsts : \E r \in Read : TriggerId(r) = i /\ firsts[i] = r.num
    /\ \A r \in Read : \E i \in DOMAIN firsts : TriggerId(r) <= i
    /\ maxInversion = -1 => NoInversion(Read)
    /\ maxInversion # -1 => Inverted(Read, maxInversion)

\* The greater of two numbers.
LEMMA MaxOfTwo ==
  ASSUME NEW a \in Int, NEW b \in Int
  PROVE  Max({a, b}) \in {a, b} /\ Max({a, b}) >= a /\ Max({a, b}) >= b
<1>1. \E x \in {a, b} : \A y \in {a, b} : x >= y
  <2>1. CASE a >= b
    <3>1. \A y \in {a, b} : a >= y
      BY <2>1
    <3>. QED  BY <3>1
  <2>2. CASE ~ (a >= b)
    <3>1. \A y \in {a, b} : b >= y
      BY <2>2
    <3>. QED  BY <3>1
  <2>. QED  BY <2>1, <2>2
<1>. QED
  BY <1>1 DEF Max

\* The records read have natural trigger IDs and numbers.
LEMMA ReadTypes ==
  ASSUME InputRecords \subseteq Rhd, NEW r \in InputRecords
  PROVE  TriggerId(r) \in Nat /\ r.num \in Nat
<1>1. r.clock \in Nat /\ r.num \in Nat /\ 4 * Quarter \in Nat \ {0}
  BY RhdSortAssumption DEF Rhd
<1>2. r.clock % (4 * Quarter) \in 0 .. 4 * Quarter - 1
  BY <1>1, DivMod
<1>. QED
  BY <1>1, <1>2 DEF TriggerId

(***************************************************************************)
(* One call of raw_record_flow_statistics::add, for a record r that comes  *)
(* after those of recs.                                                    *)
(***************************************************************************)
LEMMA AddKeeps ==
  ASSUME InputRecords \subseteq Rhd, NEW recs \in SUBSET InputRecords, NEW r \in InputRecords,
         \A q \in recs : q.num < r.num,
         \A i \in DOMAIN firsts : \E q \in recs : TriggerId(q) = i /\ firsts[i] = q.num,
         \A q \in recs : \E i \in DOMAIN firsts : TriggerId(q) <= i,
         maxInversion = -1 => NoInversion(recs),
         maxInversion # -1 => Inverted(recs, maxInversion),
         AddStatistics(TriggerId(r), r.num)
  PROVE  /\ \A i \in DOMAIN firsts' : \E q \in recs \cup {r} : TriggerId(q) = i /\ firsts'[i] = q.num
         /\ \A q \in recs \cup {r} : \E i \in DOMAIN firsts' : TriggerId(q) <= i
         /\ maxInversion' = -1 => NoInversion(recs \cup {r})
         /\ maxInversion' # -1 => Inverted(recs \cup {r}, maxInversion')
<1>. DEFINE id == TriggerId(r)
            noted == Noted(id, r.num)
<1>1. /\ id \in Nat /\ r.num \in Nat
      /\ \A q \in recs : TriggerId(q) \in Nat /\ q.num \in Nat
  BY ReadTypes
<1>2. /\ DOMAIN noted = DOMAIN firsts \cup {id}
      /\ \A i \in DOMAIN noted : noted[i] = IF i \in DOMAIN firsts THEN firsts[i] ELSE r.num
  BY DEF Noted
<1>3. \A i \in DOMAIN firsts : i \in Nat
  BY <1>1
<1>. HIDE DEF id, noted
<1>4. \A i \in DOMAIN noted : \E q \in recs \cup {r} : TriggerId(q) = i /\ noted[i] = q.num
  <2>. TAKE i \in DOMAIN noted
  <2>1. CASE i \in DOMAIN firsts
    BY <1>2, <2>1
  <2>2. CASE i \notin DOMAIN firsts
    <3>1. i = id /\ noted[i] = r.num
      BY <1>2, <2>2
    <3>. QED  BY <3>1 DEF id
  <2>. QED  BY <2>1, <2>2
<1>5. CASE Greater(id) # {}
  <2>. DEFINE g == Min(Greater(id))
              d == r.num - firsts[g]
  <2>1. firsts' = noted /\ maxInversion' = Max({maxInversion, d})
    BY <1>5 DEF AddStatistics, id, noted
  <2>2. g \in DOMAIN firsts /\ id < g
    <3>1. Greater(id) \in SUBSET Nat
      BY <1>3 DEF Greater
    <3>2. g \in Greater(id)
      BY <1>5, <3>1, MinOf
    <3>. QED  BY <3>2 DEF Greater
  <2>3. PICK q \in recs : TriggerId(q) = g /\ firsts[g] = q.num
    BY <2>2
  <2>. HIDE DEF g
  <2>4. d \in Int /\ d > 0 /\ d = r.num - q.num
    BY <1>1, <2>3
  <2>5. Inverted(recs \cup {r}, d)
    <3>1. q.num < r.num /\ TriggerId(q) > TriggerId(r)
      BY <1>1, <2>2, <2>3 DEF id
    <3>. QED  BY <2>4, <3>1 DEF Inverted
  <2>. HIDE DEF d
  <2>6. maxInversion \in Int /\ (maxInversion = -1 \/ Inverted(recs, maxInversion))
    <3>1. CASE maxInversion = -1
      BY <3>1
    <3>2. CASE maxInversion # -1
      <4>1. PICK p, s \in recs : maxInversion = s.num - p.num
        BY <3>2 DEF Inverted
      <4>. QED  BY <1>1, <3>2, <4>1
    <3>. QED  BY <3>1, <3>2
  <2>7. maxInversion' \in {maxInversion, d} /\ maxInversion' >= d
    BY <2>1, <2>4, <2>6, MaxOfTwo
  <2>8. maxInversion' # -1
    BY <2>4, <2>6, <2>7
  <2>9. Inverted(recs \cup {r}, maxInversion')
    <3>1. CASE maxInversion' = d
      BY <2>5, <3>1
    <3>2. CASE maxInversion' = maxInversion
      <4>1. Inverted(recs, maxInversion)
        BY <2>6, <2>8, <3>2
      <4>2. Inverted(recs \cup {r}, maxInversion)
        BY <4>1 DEF Inverted
      <4>. QED  BY <3>2, <4>2
    <3>. QED  BY <2>7, <3>1, <3>2
  <2>10. \A p \in recs \cup {r} : \E i \in DOMAIN noted : TriggerId(p) <= i
    <3>1. id \in DOMAIN noted /\ DOMAIN firsts \subseteq DOMAIN noted /\ id <= id
      BY <1>1, <1>2
    <3>. QED  BY <3>1 DEF id
  <2>. QED  BY <1>4, <2>1, <2>8, <2>9, <2>10
<1>6. CASE Greater(id) = {}
  <2>. DEFINE S == {i \in DOMAIN firsts \cup {id} : id <= i + EvaluationBuffer}
  <2>1. firsts' = [i \in S |-> noted[i]] /\ maxInversion' = maxInversion
    BY <1>6 DEF AddStatistics, Restrict, id, noted
  <2>2. id \in S /\ S \subseteq DOMAIN noted
    BY <1>1, <1>2, RhdSortAssumption
  <2>3. \A i \in DOMAIN firsts : i <= id
    BY <1>1, <1>3, <1>6 DEF Greater
  <2>4. \A q \in recs : TriggerId(q) <= id
    <3>. TAKE q \in recs
    <3>1. PICK i \in DOMAIN firsts : TriggerId(q) <= i
      OBVIOUS
    <3>. QED  BY <1>1, <1>3, <2>3, <3>1
  <2>. HIDE DEF S
  <2>5. \A i \in DOMAIN firsts' : \E q \in recs \cup {r} : TriggerId(q) = i /\ firsts'[i] = q.num
    BY <1>4, <2>1, <2>2
  <2>6. \A q \in recs \cup {r} : \E i \in DOMAIN firsts' : TriggerId(q) <= i
    <3>1. id \in DOMAIN firsts' /\ id <= id
      BY <1>1, <2>1, <2>2
    <3>. QED  BY <2>4, <3>1 DEF id
  <2>7. ASSUME maxInversion = -1 PROVE NoInversion(recs \cup {r})
    <3>1. NoInversion(recs)
      BY <2>7
    <3>2. \A q \in recs : ~ (r.num < q.num)
      BY <1>1
    <3>3. ~ (r.num < r.num)
      BY <1>1
    <3>. QED  BY <2>4, <3>1, <3>2, <3>3 DEF NoInversion, id
  <2>8. ASSUME maxInversion # -1 PROVE Inverted(recs \cup {r}, maxInversion)
    BY <2>8 DEF Inverted
  <2>. QED  BY <2>1, <2>5, <2>6, <2>7, <2>8
<1>. QED
  BY <1>5, <1>6

(***************************************************************************)
(* The evaluation over a run.                                              *)
(***************************************************************************)
LEMMA EvalStep == SortInv /\ EvalInv /\ [Next]_vars => EvalInv'
<1>. SUFFICES ASSUME SortInv, EvalInv, [Next]_vars, mode' = "evaluation", pc' # "failed"
              PROVE  /\ \A i \in DOMAIN firsts' : \E r \in Read' : TriggerId(r) = i /\ firsts'[i] = r.num
                     /\ \A r \in Read' : \E i \in DOMAIN firsts' : TriggerId(r) <= i
                     /\ maxInversion' = -1 => NoInversion(Read')
                     /\ maxInversion' # -1 => Inverted(Read', maxInversion')
  BY DEF EvalInv, TriggerId, NoInversion, Inverted
<1>1. TypeOK /\ FilesInv /\ mode' = mode
  BY DEF SortInv, Next, Initialize, Input, InputThrows, EndOfInput, OutputThrows, OutputOne,
         OutputDone, PopOne, vars
<1>2. pc # "failed"
  BY DEF Next, Initialize, Input, InputThrows, EndOfInput, OutputThrows, OutputOne, OutputDone,
         PopOne, vars
<1>3. /\ \A i \in DOMAIN firsts : \E r \in Read : TriggerId(r) = i /\ firsts[i] = r.num
      /\ \A r \in Read : \E i \in DOMAIN firsts : TriggerId(r) <= i
      /\ maxInversion = -1 => NoInversion(Read)
      /\ maxInversion # -1 => Inverted(Read, maxInversion)
  BY <1>1, <1>2 DEF EvalInv
<1>4. CASE Input
  <2>. DEFINE r == NextRecord
  <2>1. pc = "input" /\ HasRecordTag /\ FindAndLoad /\ AddStatistics(TriggerId(r), r.num)
    BY <1>1, <1>4 DEF Input
  <2>2. /\ infiles \in InputLists /\ current \in DOMAIN infiles /\ taken \in Nat
        /\ taken <= Len(infiles[current].recs)
        /\ \A k \in 1 .. current : infiles[k].readable
        /\ InputRecords \subseteq Rhd
    BY <1>1, <2>1, ReadState
  <2>3. /\ r \in InputRecords /\ Read' = Read \cup {r} /\ \A q \in Read : q.num < r.num
    BY <2>1, <2>2, ReadOne
  <2>4. Read \in SUBSET InputRecords
    BY DEF Read
  <2>. HIDE DEF r
  <2>. DEFINE R == Read
  <2>5. /\ InputRecords \subseteq Rhd /\ R \in SUBSET InputRecords /\ r \in InputRecords
        /\ \A q \in R : q.num < r.num
        /\ \A i \in DOMAIN firsts : \E q \in R : TriggerId(q) = i /\ firsts[i] = q.num
        /\ \A q \in R : \E i \in DOMAIN firsts : TriggerId(q) <= i
        /\ maxInversion = -1 => NoInversion(R)
        /\ maxInversion # -1 => Inverted(R, maxInversion)
        /\ AddStatistics(TriggerId(r), r.num)
    BY <1>3, <2>1, <2>2, <2>3, <2>4
  <2>. HIDE DEF R
  <2>6. /\ \A i \in DOMAIN firsts' : \E q \in R \cup {r} : TriggerId(q) = i /\ firsts'[i] = q.num
        /\ \A q \in R \cup {r} : \E i \in DOMAIN firsts' : TriggerId(q) <= i
        /\ maxInversion' = -1 => NoInversion(R \cup {r})
        /\ maxInversion' # -1 => Inverted(R \cup {r}, maxInversion')
    BY <2>5, AddKeeps
  <2>7. Read' = R \cup {r}
    BY <2>3 DEF R
  <2>. QED  BY <2>6, <2>7
<1>5. ASSUME UNCHANGED statvars, Read' = Read
      PROVE  /\ \A i \in DOMAIN firsts' : \E r \in Read' : TriggerId(r) = i /\ firsts'[i] = r.num
             /\ \A r \in Read' : \E i \in DOMAIN firsts' : TriggerId(r) <= i
             /\ maxInversion' = -1 => NoInversion(Read')
             /\ maxInversion' # -1 => Inverted(Read', maxInversion')
  BY <1>3, <1>5 DEF statvars
<1>6. CASE EndOfInput
  <2>1. pc = "input" /\ NoRecordTag /\ Find /\ UNCHANGED statvars
    BY <1>6 DEF EndOfInput
  <2>2. /\ infiles \in InputLists /\ current \in DOMAIN infiles /\ taken \in Nat
        /\ taken <= Len(infiles[current].recs)
        /\ \A k \in 1 .. current : infiles[k].readable
    BY <1>1, <2>1, ReadState
  <2>3. Read' = Read
    BY <2>1, <2>2, ReadEnd
  <2>. QED  BY <1>5, <2>1, <2>3
<1>7. CASE Initialize
  <2>1. pc = "initialize" /\ OpenFirst /\ UNCHANGED statvars
    BY <1>7 DEF Initialize
  <2>2. current = 0 /\ taken = 0 /\ current' = 1 /\ taken' = 0 /\ infiles' = infiles
    BY <1>1, <2>1 DEF FilesInv, OpenFirst
  <2>3. \A k \in DOMAIN infiles : \A i \in DOMAIN infiles[k].recs : k \in Nat \ {0} /\ i \in Nat \ {0}
    <3>1. infiles \in InputLists
      BY <1>1 DEF TypeOK
    <3>2. /\ Len(infiles) \in Nat /\ DOMAIN infiles = 1 .. Len(infiles)
          /\ \A k \in DOMAIN infiles :
               Len(infiles[k].recs) \in Nat /\ DOMAIN infiles[k].recs = 1 .. Len(infiles[k].recs)
      BY <3>1, InputTypes
    <3>3. \A n \in Nat : \A k \in 1 .. n : k \in Nat \ {0}
      OBVIOUS
    <3>. QED  BY <3>2, <3>3
  <2>4. \A k \in DOMAIN infiles : \A i \in DOMAIN infiles[k].recs : ~ IsRead(k, i) /\ ~ IsRead(k, i)'
    BY <2>2, <2>3 DEF IsRead
  <2>5. Read = {} /\ Read' = {}
    BY <2>2, <2>4 DEF Read
  <2>. QED  BY <1>5, <2>1, <2>5
<1>8. CASE UNCHANGED filevars /\ UNCHANGED statvars
  <2>1. Read' = Read
    BY <1>8 DEF filevars, Read, IsRead, InputRecords
  <2>. QED  BY <1>5, <1>8, <2>1
<1>9. Input \/ EndOfInput \/ Initialize \/ (UNCHANGED filevars /\ UNCHANGED statvars)
  BY DEF Next, InputThrows, OutputThrows, OutputOne, OutputDone, PopOne, vars
<1>. QED
  BY <1>4, <1>6, <1>7, <1>8, <1>9

(***************************************************************************)
(* The evaluation of a whole input says that there is no inversion only if *)
(* there is none, and else reports the distance of two inverted records.   *)
(***************************************************************************)
THEOREM EvaluationIsRight == Spec => []EvaluationDetects
<1>1. Init => EvalInv
  <2>. SUFFICES ASSUME Init PROVE EvalInv
    OBVIOUS
  <2>1. firsts = << >> /\ maxInversion = -1 /\ SortInv /\ pc = "initialize"
    BY InitSort DEF Init
  <2>2. Read = {}
    <3>1. infiles \in InputLists /\ current = 0 /\ taken = 0
      BY DEF Init
    <3>2. Len(infiles) \in Nat /\ DOMAIN infiles = 1 .. Len(infiles)
      BY <3>1, InputTypes
    <3>3. \A k \in DOMAIN infiles : \A i : ~ IsRead(k, i)
      BY <3>1, <3>2 DEF IsRead
    <3>. QED  BY <3>3 DEF Read
  <2>3. DOMAIN firsts = {}
    BY <2>1
  <2>4. NoInversion(Read)
    BY <2>2 DEF NoInversion
  <2>. QED  BY <2>1, <2>2, <2>3, <2>4 DEF EvalInv
<1>2. SortInv /\ EvalInv => EvaluationDetects
  <2>. SUFFICES ASSUME SortInv, EvalInv, mode = "evaluation", pc = "returned"
                PROVE  IF InversionDistances = {} THEN maxInversion = -1
                       ELSE maxInversion \in InversionDistances
    BY DEF EvaluationDetects
  <2>1. /\ Read = InputRecords /\ InputRecords \subseteq Rhd
        /\ maxInversion = -1 => NoInversion(Read)
        /\ maxInversion # -1 => Inverted(Read, maxInversion)
    <3>1. TypeOK /\ FilesInv
      BY DEF SortInv
    <3>2. infiles \in InputLists
      BY <3>1 DEF TypeOK
    <3>. QED  BY <3>1, <3>2, FinalizeHasRead, InputTypes DEF EvalInv
  <2>2. ASSUME NEW d PROVE d \in InversionDistances <=> Inverted(InputRecords, d)
    <3>1. ASSUME d \in InversionDistances PROVE Inverted(InputRecords, d)
      <4>1. PICK p \in InputRecords \X InputRecords :
              p[1].num < p[2].num /\ TriggerId(p[1]) > TriggerId(p[2]) /\ d = p[2].num - p[1].num
        BY <3>1 DEF InversionDistances
      <4>2. p[1] \in InputRecords /\ p[2] \in InputRecords
        BY <4>1
      <4>. QED  BY <4>1, <4>2 DEF Inverted
    <3>2. ASSUME Inverted(InputRecords, d) PROVE d \in InversionDistances
      <4>1. PICK q, r \in InputRecords :
              q.num < r.num /\ TriggerId(q) > TriggerId(r) /\ d = r.num - q.num
        BY <3>2 DEF Inverted
      <4>2. PICK p \in InputRecords \X InputRecords : p = << q, r >>
        OBVIOUS
      <4>3. p[1] = q /\ p[2] = r
        BY <4>2
      <4>. QED  BY <4>1, <4>3 DEF InversionDistances
    <3>. QED  BY <3>1, <3>2
  <2>3. CASE maxInversion = -1
    <3>1. \A d : ~ Inverted(InputRecords, d)
      <4>1. \A r \in InputRecords : TriggerId(r) \in Nat
        BY <2>1, ReadTypes
      <4>. QED  BY <2>1, <2>3, <4>1 DEF Inverted, NoInversion
    <3>2. InversionDistances = {}
      BY <2>2, <3>1
    <3>. QED  BY <2>3, <3>2
  <2>4. CASE maxInversion # -1
    BY <2>1, <2>2, <2>4
  <2>. QED  BY <2>3, <2>4
<1>. QED
  BY <1>1, <1>2, EvalStep, SortInvariant, PTL DEF Spec

=============================================================================
